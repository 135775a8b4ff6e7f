--------------------------- MODULE BrokerAdmission ---------------------------
(***************************************************************************)
(* The broker's run path with the PostgreSQL store: admission and quota,   *)
(* the irreversible start, the concurrency slots and the usage ledger      *)
(* (server/broker_pg_store.py), one broker process whose request threads   *)
(* run _broker_run_request and keep the WorkItem correlations with their   *)
(* sidecar file (server/broker.py), the background reconciler              *)
(* (server/broker_admission_reconciler.py) and an operator.                *)
(*                                                                         *)
(* A request is identified by its ledger event key; the caller sends it as *)
(* often as it likes.  Every store method is one serializable transaction  *)
(* and so one action.  APS is external: an accepted WorkItem runs until it *)
(* succeeds, fails or is cancelled, whether or not anyone still polls it.  *)
(* Money of one tenant is counted in units of DEFAULT_EST_USD: a run       *)
(* reserves one, and is charged for the engine time it really took, which  *)
(* nothing bounds: nothing, one unit or more than its reservation.         *)
(***************************************************************************)
EXTENDS Integers, FiniteSets

CONSTANTS
  Keys,       \* ledger event keys
  Jobs,       \* the jobs the keys belong to
  JobOf,      \* a job has a key for its run and one for its local fallback
  LiveKeys,   \* the keys whose request may ask for APS, at most one of a job
  Runs,       \* request threads of the broker, at work on any key in turn
  Items,      \* WorkItems APS may accept
  SpendCap,   \* the tenant's spend cap, in units
  DailyLimit, \* the tenant's daily run limit
  Ceiling,    \* APS_MAX_CONCURRENCY
  Faults,     \* subset of {"crash", "ceiling", "uncancelled", "lost", "degraded", "outlive", "operator", "unsaved"}
  None

ASSUME BrokerAssumption ==
  /\ LiveKeys \subseteq Keys /\ JobOf \in [Keys -> Jobs]
  /\ \A k, l \in LiveKeys : JobOf[k] = JobOf[l] => k = l
  /\ None \notin Runs \cup Items \cup Keys \cup Jobs /\ None \notin {0, 1, 2}
  /\ None \notin {"ok", "failed", "refused", "no_charge"}
  /\ IsFiniteSet(Keys) /\ IsFiniteSet(Items)
  /\ SpendCap \in Nat /\ DailyLimit \in Nat /\ Ceiling \in Nat \ {0}

VARIABLES
  admission, \* broker_run_admissions
  ledger,    \* broker_usage_ledger: None, or the cost of the key's row
  slot,      \* broker_aps_slots, the tenant's rows
  others,    \* how many slots the runs of other tenants hold
  run,       \* the request threads
  active,    \* _active_workitems: WorkItem and owning run, per job
  sidecar,   \* the open correlations of active_workitems.jsonl
  item,      \* APS: the WorkItems
  reap,      \* the broker_reap request in progress
  reconciler,\* the row the reconciler is at
  starts     \* history: how often each key crossed the execution boundary

vars == <<admission, ledger, slot, others, run, active, sidecar, item, reap, reconciler, starts>>

Unwatched == [item |-> None, owner |-> None]
Resting == [pc |-> "idle", key |-> None, item |-> None, outcome |-> None]
NoReap == [pc |-> "idle", job |-> None, item |-> None]
Absent == [state |-> "none", token |-> None, fresh |-> FALSE, live |-> FALSE, reserved |-> 0,
           accounted |-> FALSE, intent |-> 0, result |-> None]

RunPCs == {"idle", "admitted", "local", "submitting", "accepted", "polling", "succeeded", "staged",
           "dropped", "recorded", "unwinding", "failing"}
Results == {"ok", "failed", "refused", "no_charge"}

\* What a run may cost: 2 stands for any cost above its reservation.  A row's intent is
\* the cost in the staged evidence, 0 without evidence.
Costs == {0, 1, 2}

\* Type correctness.
TypeOK ==
  /\ admission \in [Keys -> [state: {"none", "leased", "executing", "terminal"}, token: Runs \cup {None},
                             fresh: BOOLEAN, live: BOOLEAN, reserved: {0, 1}, accounted: BOOLEAN, intent: Costs,
                             result: Results \cup {None}]]
  /\ ledger \in [Keys -> Costs \cup {None}]
  /\ slot \in [Keys -> {"none", "held", "released"}]
  /\ others \in 0 .. Ceiling
  /\ run \in [Runs -> [pc: RunPCs, key: Keys \cup {None}, item: Items \cup {None},
                       outcome: {"ok", "failed", "refused", None}]]
  /\ active \in [Jobs -> [item: Items \cup {None}, owner: Runs \cup {None}]]
  /\ sidecar \in [Jobs -> Items \cup {None}]
  /\ item \in [Items -> [state: {"none", "running", "success", "failed", "cancelled"},
                         key: Keys \cup {None}, known: {"no", "memory", "saved"}]]
  /\ reap \in [pc: {"idle", "peeked", "cancelled"}, job: Jobs \cup {None}, item: Items \cup {None}]
  /\ reconciler \in [key: Keys \cup {None}, item: Items \cup {None}]
  /\ starts \in [Keys -> 0 .. 2]

Init ==
  /\ admission = [k \in Keys |-> Absent]
  /\ ledger = [k \in Keys |-> None]
  /\ slot = [k \in Keys |-> "none"]
  /\ others = 0
  /\ run = [r \in Runs |-> Resting]
  /\ active = [j \in Jobs |-> Unwatched]
  /\ sidecar = [j \in Jobs |-> None]
  /\ item = [i \in Items |-> [state |-> "none", key |-> None, known |-> "no"]]
  /\ reap = NoReap
  /\ reconciler = [key |-> None, item |-> None]
  /\ starts = [k \in Keys |-> 0]

(***************************************************************************)
(* The store.                                                              *)
(***************************************************************************)
\* The keys that were charged, and those of them charged more than they reserved.
Charged == {k \in Keys : ledger[k] \in {1, 2}}
Overrun == {k \in Keys : ledger[k] = 2}
Spend == Cardinality(Charged) + Cardinality(Overrun)
\* Reservations that count: executing rows and rows with an unexpired lease.
Reserving == {k \in Keys : /\ admission[k].reserved = 1
                           /\ \/ admission[k].state = "executing"
                              \/ admission[k].state = "leased" /\ admission[k].fresh}
UsedToday == {k \in Keys : /\ admission[k].live
                           /\ \/ admission[k].accounted
                              \/ admission[k].state = "leased" /\ admission[k].fresh}
Held == {k \in Keys : slot[k] = "held"}
Full == Cardinality(Held) + others >= Ceiling

\* The key is new, or its lease has expired and the request is the same one: the
\* fingerprint covers aps_live.
Admissible(k, live) ==
  \/ admission[k].state = "none" /\ (live => k \in LiveKeys)
  \/ admission[k].state = "leased" /\ ~admission[k].fresh /\ live = admission[k].live

OverSpend == Spend + Cardinality(Reserving) + 1 > SpendCap
OverDay(live) == live /\ Cardinality(UsedToday) >= DailyLimit

\* publish_lease: a new row, or the expired lease taken over.
Leased(k, r, live, reserved) ==
  [admission EXCEPT ![k] = [Absent EXCEPT !.state = "leased", !.token = r, !.fresh = TRUE,
                                !.live = live, !.reserved = reserved]]

\* Faulty: a local execution is thought safe to retry.
AdmitLocalAgain(r, k, live) ==
  /\ run[r].pc = "idle"
  /\ \/ Admissible(k, live) /\ ~OverSpend /\ ~OverDay(live)
     \/ admission[k].state = "executing" /\ ~live /\ ~admission[k].live
  /\ admission' = Leased(k, r, live, 1)
  /\ run' = [run EXCEPT ![r] = [Resting EXCEPT !.pc = "admitted", !.key = k]]
  /\ UNCHANGED <<ledger, slot, active, sidecar, item, reap, reconciler, others, starts>>

\* Faulty: only the ledger counts against the cap, not the reservations.
AdmitUnreserved(r, k, live) ==
  /\ run[r].pc = "idle" /\ Admissible(k, live)
  /\ Spend + 1 <= SpendCap /\ ~OverDay(live)
  /\ admission' = Leased(k, r, live, 1)
  /\ run' = [run EXCEPT ![r] = [Resting EXCEPT !.pc = "admitted", !.key = k]]
  /\ UNCHANGED <<ledger, slot, active, sidecar, item, reap, reconciler, others, starts>>

\* admit_run answers "acquired".  (For "leased", "executing" and "replay" the request
\* only reads: it owns no correlation, so its finally block changes nothing.)
Admit(r, k, live) ==
  /\ run[r].pc = "idle" /\ Admissible(k, live)
  /\ ~OverSpend /\ ~OverDay(live)
  /\ admission' = Leased(k, r, live, 1)
  /\ run' = [run EXCEPT ![r] = [Resting EXCEPT !.pc = "admitted", !.key = k]]
  /\ UNCHANGED <<ledger, slot, active, sidecar, item, reap, reconciler, others, starts>>

\* admit_run answers "spend_quota" or "daily_quota": a lease that reserves nothing.
AdmitOverQuota(r, k, live) ==
  /\ run[r].pc = "idle" /\ Admissible(k, live)
  /\ OverSpend \/ OverDay(live)
  /\ admission' = Leased(k, r, live, 0)
  /\ run' = [run EXCEPT ![r] = [Resting EXCEPT !.pc = "unwinding", !.key = k, !.outcome = "refused"]]
  /\ UNCHANGED <<ledger, slot, active, sidecar, item, reap, reconciler, others, starts>>

\* Thirty seconds pass without the run starting.
LeaseExpires(k) ==
  /\ admission[k].state = "leased" /\ admission[k].fresh
  /\ admission' = [admission EXCEPT ![k].fresh = FALSE]
  /\ UNCHANGED <<ledger, slot, run, active, sidecar, item, reap, reconciler, others, starts>>

\* A check before the boundary ends the run (kill switch, parameters, entitlement).
Refuse(r) ==
  /\ run[r].pc = "admitted"
  /\ run' = [run EXCEPT ![r].pc = "unwinding", ![r].outcome = "failed"]
  /\ UNCHANGED <<admission, ledger, slot, active, sidecar, item, reap, reconciler, others, starts>>

Owns(r, k) == admission[k].state = "leased" /\ admission[k].token = r

\* mark_execution_started crosses the boundary: only the holder of an unexpired
\* lease, and a run that will submit to APS only with a free slot.  A live request
\* runs locally when the APS client is missing.
Start(r, paid) ==
  LET k == run[r].key IN
  /\ run[r].pc = "admitted" /\ Owns(r, k) /\ admission[k].fresh
  /\ paid => admission[k].live /\ ~Full
  /\ ~paid /\ admission[k].live => "degraded" \in Faults
  /\ admission' = [admission EXCEPT ![k].state = "executing", ![k].fresh = FALSE, ![k].accounted = paid]
  /\ slot' = IF paid THEN [slot EXCEPT ![k] = "held"] ELSE slot
  /\ starts' = [starts EXCEPT ![k] = @ + 1]
  /\ run' = [run EXCEPT ![r].pc = IF paid THEN "submitting" ELSE "local"]
  /\ UNCHANGED <<ledger, active, sidecar, item, reap, reconciler, others>>

\* Other tenants' runs take and give back slots through the same method.
OthersStart ==
  /\ ~Full
  /\ others' = others + 1
  /\ UNCHANGED <<admission, ledger, slot, run, active, sidecar, item, reap, reconciler, starts>>

OthersEnd ==
  /\ others > 0
  /\ others' = others - 1
  /\ UNCHANGED <<admission, ledger, slot, run, active, sidecar, item, reap, reconciler, starts>>

\* No slot: the lease is given back at once and nothing terminal is written.
CapacityWait(r) ==
  LET k == run[r].key IN
  /\ run[r].pc = "admitted" /\ admission[k].live /\ Full
  /\ admission' = IF Owns(r, k) THEN [admission EXCEPT ![k].fresh = FALSE] ELSE admission
  /\ run' = [run EXCEPT ![r] = Resting]
  /\ UNCHANGED <<ledger, slot, active, sidecar, item, reap, reconciler, others, starts>>

\* The lease expired or moved on: RuntimeError, an INTERNAL result.
StartFails(r) ==
  LET k == run[r].key IN
  /\ run[r].pc = "admitted" /\ ~(Owns(r, k) /\ admission[k].fresh)
  /\ admission[k].live => ~Full \/ "degraded" \in Faults
  /\ run' = [run EXCEPT ![r].pc = "unwinding", ![r].outcome = "failed"]
  /\ UNCHANGED <<admission, ledger, slot, active, sidecar, item, reap, reconciler, others, starts>>

\* Faulty: the terminal write leaves the slot to its deadline.
TerminalKeepingSlot(k, result, cost) ==
  /\ admission' = [admission EXCEPT ![k].state = "terminal", ![k].fresh = FALSE, ![k].reserved = 0,
                                    ![k].result = result]
  /\ ledger' = IF ledger[k] = None THEN [ledger EXCEPT ![k] = cost] ELSE ledger
  /\ UNCHANGED slot

\* The terminal row, the ledger row and the slot's release are one transaction.
Terminal(k, result, cost) ==
  /\ admission' = [admission EXCEPT ![k].state = "terminal", ![k].fresh = FALSE, ![k].reserved = 0,
                                    ![k].result = result]
  /\ ledger' = IF ledger[k] = None THEN [ledger EXCEPT ![k] = cost] ELSE ledger
  /\ slot' = IF slot[k] = "held" THEN [slot EXCEPT ![k] = "released"] ELSE slot

Unwritten == UNCHANGED <<admission, ledger, slot>>

\* Faulty: the row is settled without its ledger entry.
SettleRowOnly(k) ==
  /\ admission' = [admission EXCEPT ![k].state = "terminal", ![k].reserved = 0, ![k].result = "ok"]
  /\ slot' = IF slot[k] = "held" THEN [slot EXCEPT ![k] = "released"] ELSE slot
  /\ UNCHANGED ledger

\* _settle_intent: the staged evidence becomes the result, once.
SettleIntent(k) ==
  IF admission[k].state = "executing" THEN Terminal(k, "ok", admission[k].intent) ELSE Unwritten

(***************************************************************************)
(* A run with APS: submit_workitem and the correlation registry.           *)
(***************************************************************************)
Free == {i \in Items : item[i].state = "none"}

\* The POST succeeds; its answer reaches the thread, or the connection breaks first.
Submit(r, answered) ==
  \E i \in Free :
    /\ run[r].pc = "submitting" /\ (answered \/ "lost" \in Faults)
    /\ item' = [item EXCEPT ![i].state = "running", ![i].key = run[r].key]
    /\ run' = IF answered THEN [run EXCEPT ![r].pc = "accepted", ![r].item = i]
                          ELSE [run EXCEPT ![r].pc = "unwinding", ![r].outcome = "failed"]
    /\ UNCHANGED <<admission, ledger, slot, active, sidecar, reap, reconciler, others, starts>>

SubmitFails(r) ==
  /\ run[r].pc = "submitting"
  /\ run' = [run EXCEPT ![r].pc = "unwinding", ![r].outcome = "failed"]
  /\ UNCHANGED <<admission, ledger, slot, active, sidecar, item, reap, reconciler, others, starts>>

\* _persist_workitem_event_locked is best-effort: a line that is not written, or that
\* follows one the replay cannot read, changes nothing of what the next process finds.
Appended(j, i, written) ==
  /\ written \/ "unsaved" \in Faults
  /\ sidecar' = IF written THEN [sidecar EXCEPT ![j] = i] ELSE sidecar

\* on_submitted: _record_active_workitem, memory and sidecar under one lock.
Record(r, written) ==
  LET j == JobOf[run[r].key] IN
  /\ run[r].pc = "accepted"
  /\ active' = [active EXCEPT ![j] = [item |-> run[r].item, owner |-> r]]
  /\ Appended(j, run[r].item, written)
  /\ item' = [item EXCEPT ![run[r].item].known = IF written THEN "saved" ELSE "memory"]
  /\ run' = [run EXCEPT ![r].pc = "polling"]
  /\ UNCHANGED <<admission, ledger, slot, reap, reconciler, others, starts>>

\* _poll_workitem returns: on a success the blank-drawing producer submits its second
\* WorkItem, the run has its result, or what it does with the output fails.
PollSucceeds(r, next) ==
  /\ run[r].pc = "polling" /\ item[run[r].item].state = "success"
  /\ next = "submitting" => Free # {}
  /\ run' = [run EXCEPT ![r].pc = next, ![r].item = IF next = "submitting" THEN None ELSE @,
                        ![r].outcome = IF next = "unwinding" THEN "failed" ELSE @]
  /\ UNCHANGED <<admission, ledger, slot, active, sidecar, item, reap, reconciler, others, starts>>

\* The WorkItem failed or was cancelled, or the poll reached its 900 s ceiling.
PollFails(r) ==
  /\ run[r].pc = "polling"
  /\ item[run[r].item].state \in {"failed", "cancelled"} \/ "ceiling" \in Faults
  /\ run' = [run EXCEPT ![r].pc = "unwinding", ![r].outcome = "failed"]
  /\ UNCHANGED <<admission, ledger, slot, active, sidecar, item, reap, reconciler, others, starts>>

LocalEnds(r, next) ==
  /\ run[r].pc = "local"
  /\ run' = [run EXCEPT ![r].pc = next, ![r].outcome = IF next = "unwinding" THEN "failed" ELSE @]
  /\ UNCHANGED <<admission, ledger, slot, active, sidecar, item, reap, reconciler, others, starts>>

\* External: Design Automation runs a WorkItem to its end.
ItemEnds(i, outcome) ==
  /\ item[i].state = "running"
  /\ item' = [item EXCEPT ![i].state = outcome]
  /\ UNCHANGED <<admission, ledger, slot, run, active, sidecar, reap, reconciler, others, starts>>

\* DELETE of a WorkItem that has ended answers 404, which counts as cancelled.
Deleted(i) == IF item[i].state = "running" THEN [item EXCEPT ![i].state = "cancelled"] ELSE item

Evict(j) == /\ active' = [active EXCEPT ![j] = Unwatched]
            /\ \E written \in BOOLEAN : Appended(j, None, written)
Keep == UNCHANGED <<active, sidecar>>

(***************************************************************************)
(* The end of a run: the finally block of _broker_run_request.             *)
(***************************************************************************)
OwnsItem(r) == active[JobOf[run[r].key]].owner = r /\ active[JobOf[run[r].key]].item # None

\* stage_success_intent commits the evidence before anything is given up.  When the
\* admission is no longer this run's, the exception escapes the finally block, and the
\* correlation keeps a token no later run has.
Stage(r, cost) ==
  LET k == run[r].key
      current == admission[k].state = "executing" /\ admission[k].token = r IN
  /\ run[r].pc = "succeeded" /\ OwnsItem(r)
  /\ admission' = IF current THEN [admission EXCEPT ![k].intent = cost] ELSE admission
  /\ run' = [run EXCEPT ![r] = IF current THEN [@ EXCEPT !.pc = "staged"] ELSE Resting]
  /\ active' = IF current THEN active ELSE [active EXCEPT ![JobOf[k]].owner = None]
  /\ UNCHANGED <<ledger, slot, sidecar, item, reap, reconciler, others, starts>>

DropStaged(r) ==
  /\ run[r].pc = "staged"
  /\ IF OwnsItem(r) THEN Evict(JobOf[run[r].key]) ELSE Keep
  /\ run' = [run EXCEPT ![r].pc = "dropped"]
  /\ UNCHANGED <<admission, ledger, slot, item, reap, reconciler, others, starts>>

SettleStaged(r) ==
  /\ run[r].pc = "dropped"
  /\ SettleIntent(run[r].key)
  /\ run' = [run EXCEPT ![r] = Resting]
  /\ UNCHANGED <<active, sidecar, item, reap, reconciler, others, starts>>

\* complete_run: a terminal row is left as it is, a stale token is refused.
CompleteRun(r, result, cost) ==
  LET k == run[r].key IN
  IF admission[k].intent = 0 /\ admission[k].state \in {"leased", "executing"} /\ admission[k].token = r
  THEN Terminal(k, result, cost) ELSE Unwritten

\* A success without complete evidence: local work, no owned WorkItem, no cost.
CompleteOk(r, cost) ==
  /\ run[r].pc = "succeeded"
  /\ cost # 0 => slot[run[r].key] # "none"
  /\ CompleteRun(r, "ok", cost)
  /\ run' = [run EXCEPT ![r].pc = "recorded"]
  /\ UNCHANGED <<active, sidecar, item, reap, reconciler, others, starts>>

DropRecorded(r) ==
  /\ run[r].pc = "recorded"
  /\ IF OwnsItem(r) THEN Evict(JobOf[run[r].key]) ELSE Keep
  /\ run' = [run EXCEPT ![r] = Resting]
  /\ UNCHANGED <<admission, ledger, slot, item, reap, reconciler, others, starts>>

\* _reap_or_disown_own_workitem: cancel what this run registered, or keep the
\* correlation and give up its ownership.
ReapOrDisown(r, cancelled) ==
  LET j == JobOf[run[r].key] IN
  /\ run[r].pc = "unwinding"
  /\ cancelled \/ "uncancelled" \in Faults
  /\ IF ~OwnsItem(r) THEN Keep /\ UNCHANGED item
     ELSE IF cancelled THEN Evict(j) /\ item' = Deleted(active[j].item)
     ELSE /\ active' = [active EXCEPT ![j].owner = None]
          /\ UNCHANGED <<sidecar, item>>
  /\ run' = [run EXCEPT ![r].pc = "failing"]
  /\ UNCHANGED <<admission, ledger, slot, reap, reconciler, others, starts>>

\* The unsuccessful result is recorded, with the cost the run knows of.
CompleteFailed(r, cost) ==
  /\ run[r].pc = "failing"
  /\ cost # 0 => slot[run[r].key] # "none" /\ run[r].item # None
  /\ CompleteRun(r, run[r].outcome, cost)
  /\ run' = [run EXCEPT ![r] = Resting]
  /\ UNCHANGED <<active, sidecar, item, reap, reconciler, others, starts>>

(***************************************************************************)
(* broker_reap: the application closes a job.                              *)
(***************************************************************************)
ReapPeek(j) ==
  /\ reap.pc = "idle" /\ active[j].item # None
  /\ reap' = [pc |-> "peeked", job |-> j, item |-> active[j].item]
  /\ UNCHANGED <<admission, ledger, slot, run, active, sidecar, item, reconciler, others, starts>>

ReapCancel(cancelled) ==
  /\ reap.pc = "peeked" /\ (cancelled \/ "uncancelled" \in Faults)
  /\ item' = IF cancelled THEN Deleted(reap.item) ELSE item
  /\ reap' = IF cancelled THEN [reap EXCEPT !.pc = "cancelled"] ELSE NoReap
  /\ UNCHANGED <<admission, ledger, slot, run, active, sidecar, reconciler, others, starts>>

\* Faulty: the job's correlation is evicted, whichever WorkItem it names by now.
SettleReapedJob ==
  /\ reap.pc = "cancelled"
  /\ Evict(reap.job)
  /\ reap' = NoReap
  /\ UNCHANGED <<admission, ledger, slot, run, item, reconciler, others, starts>>

\* _settle_cancelled_workitem: evict only the WorkItem that was cancelled.
SettleReaped ==
  /\ reap.pc = "cancelled"
  /\ IF active[reap.job].item = reap.item THEN Evict(reap.job) ELSE Keep
  /\ reap' = NoReap
  /\ UNCHANGED <<admission, ledger, slot, run, item, reconciler, others, starts>>

(***************************************************************************)
(* Restart, reconciliation, operator.                                      *)
(***************************************************************************)
\* The process dies with its threads; the next one replays the sidecar, and forgets a
\* WorkItem whose line was lost.
Crash ==
  /\ "crash" \in Faults
  /\ run' = [r \in Runs |-> Resting]
  /\ active' = [j \in Jobs |-> [item |-> sidecar[j], owner |-> None]]
  /\ reap' = NoReap
  /\ reconciler' = [key |-> None, item |-> None]
  /\ item' = [i \in Items |-> [item[i] EXCEPT !.known = IF @ = "memory" THEN "no" ELSE @]]
  /\ UNCHANGED <<admission, ledger, slot, sidecar, others, starts>>

\* An hour after the start no thread is still at work on the key, unless it outlives that.
Left(k) == \A r \in Runs : run[r].key = k => admission[k].token # r
Old(k) == admission[k].state = "executing" /\ ("outlive" \in Faults \/ Left(k))

Ambiguous(k) == \E l \in Keys \ {k} : JobOf[l] = JobOf[k] /\ Old(l)

ReconcileIntent(k) ==
  /\ Old(k) /\ admission[k].intent # 0
  /\ SettleIntent(k)
  /\ UNCHANGED <<run, active, sidecar, item, reap, reconciler, others, starts>>

\* reconcile_executing decides accounted_work anew.
Resolve(k, result, cost) ==
  /\ admission' = [admission EXCEPT ![k].state = "terminal", ![k].reserved = 0, ![k].result = result,
                                    ![k].accounted = (result # "no_charge")]
  /\ ledger' = [ledger EXCEPT ![k] = cost]
  /\ slot' = IF slot[k] = "held" THEN [slot EXCEPT ![k] = "released"] ELSE slot

\* Faulty: a live row without a correlation counts as not submitted.
ReconcileUncorrelated(k) ==
  /\ Old(k) /\ admission[k].intent = 0 /\ ~Ambiguous(k)
  /\ admission[k].live => sidecar[JobOf[k]] = None
  /\ Resolve(k, "no_charge", 0)
  /\ UNCHANGED <<run, active, sidecar, item, reap, reconciler, others, starts>>

\* A row that is not live submitted nothing.
ReconcileNonLive(k) ==
  /\ Old(k) /\ admission[k].intent = 0 /\ ~admission[k].live /\ ~Ambiguous(k)
  /\ Resolve(k, "no_charge", 0)
  /\ UNCHANGED <<run, active, sidecar, item, reap, reconciler, others, starts>>

\* A live row: sidecar and memory name the same WorkItem and APS says it failed.
\* (A success, a WorkItem still at work and a missing correlation raise an alarm.)
ReconcileReads(k) ==
  LET i == sidecar[JobOf[k]] IN
  /\ reconciler.key = None
  /\ Old(k) /\ admission[k].intent = 0 /\ admission[k].live /\ ~Ambiguous(k)
  /\ i # None /\ active[JobOf[k]].item \in {i, None}
  /\ item[i].state \in {"failed", "cancelled"}
  /\ reconciler' = [key |-> k, item |-> i]
  /\ UNCHANGED <<admission, ledger, slot, run, active, sidecar, item, reap, others, starts>>

\* The row is read again under the lock: staged evidence or a terminal row refuses.
ReconcileResolves ==
  LET k == reconciler.key IN
  /\ k # None
  /\ IF admission[k].state = "executing" /\ admission[k].intent = 0 THEN Resolve(k, "failed", 0) ELSE Unwritten
  /\ reconciler' = [key |-> None, item |-> None]
  /\ UNCHANGED <<run, active, sidecar, item, reap, others, starts>>

\* External: an operator who resolves a stuck row after its run has gone, from what APS says.
OperatorResolves(k, result, cost) ==
  LET mine == {i \in Items : item[i].key = k} IN
  /\ "operator" \in Faults /\ Old(k) /\ Left(k) /\ admission[k].intent = 0
  /\ \A i \in mine : item[i].state # "running"
  /\ result = "no_charge" => mine = {}
  /\ result = "ok" => \E i \in mine : item[i].state = "success"
  /\ result = "failed" => mine # {}
  /\ (cost # 0) = (result = "ok")
  /\ Resolve(k, result, cost)
  /\ UNCHANGED <<run, active, sidecar, item, reap, reconciler, others, starts>>

RunStep(r) ==
  \/ \E k \in Keys, live \in BOOLEAN : Admit(r, k, live) \/ AdmitOverQuota(r, k, live)
  \/ Refuse(r) \/ CapacityWait(r) \/ StartFails(r) \/ SubmitFails(r) \/ PollFails(r)
  \/ DropStaged(r) \/ SettleStaged(r) \/ DropRecorded(r)
  \/ \E b \in BOOLEAN : Start(r, b) \/ Submit(r, b) \/ Record(r, b) \/ ReapOrDisown(r, b)
  \/ \E next \in {"submitting", "succeeded", "unwinding"} : PollSucceeds(r, next)
  \/ \E next \in {"succeeded", "unwinding"} : LocalEnds(r, next)
  \/ \E cost \in Costs : CompleteOk(r, cost) \/ CompleteFailed(r, cost)
  \/ \E cost \in Costs \ {0} : Stage(r, cost)

ReapStep == (\E j \in Jobs : ReapPeek(j)) \/ SettleReaped \/ \E b \in BOOLEAN : ReapCancel(b)

ReconcilerStep == ReconcileResolves \/ \E k \in Keys : ReconcileIntent(k) \/ ReconcileNonLive(k) \/ ReconcileReads(k)

Next ==
  \/ \E r \in Runs : RunStep(r)
  \/ ReapStep
  \/ \E i \in Items, outcome \in {"success", "failed"} : ItemEnds(i, outcome)
  \/ \E k \in Keys : LeaseExpires(k)
  \/ \E k \in Keys, result \in {"ok", "failed", "no_charge"}, cost \in Costs : OperatorResolves(k, result, cost)
  \/ ReconcilerStep
  \/ OthersStart \/ OthersEnd
  \/ Crash

Spec == Init /\ [][Next]_vars

(***************************************************************************)
(* Properties.                                                             *)
(***************************************************************************)
ItemsOf(k) == {i \in Items : item[i].key = k}

\* However often a request is delivered again, and whatever expires or crashes, its
\* key crosses the execution boundary at most once (mark_execution_started's
\* "Irreversibly cross the boundary after which automatic retry is unsafe").
StartsOnce == \A k \in Keys : starts[k] <= 1

\* A slot is held exactly while a run that submits to APS executes, never more than
\* APS_MAX_CONCURRENCY of them, and no path out of executing forgets one.
SlotsCountExecutions ==
  /\ Cardinality(Held) + others <= Ceiling
  /\ \A k \in Keys : slot[k] = "held" => admission[k].state = "executing"
  /\ \A k \in Keys : admission[k].state = "executing" /\ admission[k].accounted => slot[k] = "held"

\* Concurrent admissions, takeovers and reconciliations never carry what the tenant has
\* spent and reserved over its spend cap, except by what single runs cost beyond their
\* reservation (one unit for each run of Overrun), nor its paid starts that were not
\* proven free over the daily limit.
QuotasHold ==
  /\ Spend + Cardinality(Reserving) <= SpendCap + Cardinality(Overrun)
  /\ Cardinality({k \in Keys : slot[k] # "none" /\ admission[k].result # "no_charge"}) <= DailyLimit

\* A terminal row and its ledger row are one: neither without the other, nothing stays
\* reserved, and evidence of a paid success that was staged is what both say.
TerminalIsAccounted ==
  \A k \in Keys :
    /\ (admission[k].state = "terminal") = (ledger[k] # None)
    /\ admission[k].state = "terminal" => admission[k].reserved = 0
    /\ admission[k].state = "terminal" /\ admission[k].intent # 0 =>
         admission[k].result = "ok" /\ ledger[k] = admission[k].intent

\* No answer claims what APS did not do: a paid run recorded as successful has a WorkItem
\* that succeeded, and one recorded as free of charge never had a WorkItem accepted.
AnswersAreTrue ==
  \A k \in Keys :
    /\ admission[k].result = "ok" /\ slot[k] # "none" => \E i \in ItemsOf(k) : item[i].state = "success"
    /\ admission[k].result = "no_charge" => ItemsOf(k) = {}

\* A WorkItem whose id reached the broker stays addressable while it runs, so that it can
\* still be cancelled: for the process that recorded it whatever becomes of the sidecar,
\* and across restarts when its line was written ("it only costs restart recovery").
RunningIsAddressable ==
  \A i \in Items : item[i].state = "running" =>
    /\ item[i].known # "no" => active[JobOf[item[i].key]].item = i
    /\ item[i].known = "saved" => sidecar[JobOf[item[i].key]] = i

\* What a replayed request is answered with never changes.
TerminalIsFinal ==
  [][\A k \in Keys : admission[k].state = "terminal" =>
       admission'[k] = admission[k] /\ ledger'[k] = ledger[k] /\ slot'[k] = slot[k]]_vars

\* submit_workitem's promise that at most APS_MAX_CONCURRENCY WorkItems are in flight.
InFlightWithinCeiling == Cardinality({i \in Items : item[i].state = "running"}) <= Ceiling
=============================================================================

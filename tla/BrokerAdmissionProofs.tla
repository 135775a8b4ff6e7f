----------------------- MODULE BrokerAdmissionProofs -----------------------
(***************************************************************************)
(* The broker's run path of BrokerAdmission is correct for any numbers of  *)
(* keys, jobs, threads and WorkItems, any quotas, and every fault.         *)
(***************************************************************************)
EXTENDS BrokerAdmission, FiniteSetTheorems, TLAPS

(***************************************************************************)
(* What a step does to the tables of the store, to the threads and to the  *)
(* WorkItems, field by field.                                              *)
(***************************************************************************)
Row == [state: {"none", "leased", "executing", "terminal"}, token: Runs \cup {None},
        fresh: BOOLEAN, live: BOOLEAN, reserved: {0, 1}, accounted: BOOLEAN, intent: Costs,
        result: Results \cup {None}]
Thread == [pc: RunPCs, key: Keys \cup {None}, item: Items \cup {None},
           outcome: {"ok", "failed", "refused", None}]
WorkItem == [state: {"none", "running", "success", "failed", "cancelled"},
             key: Keys \cup {None}, known: {"no", "memory", "saved"}]

KeysStay == UNCHANGED <<admission, ledger, slot, starts>>

\* Of the four tables only key k's rows may change.
Only(k) ==
  \A l \in Keys \ {k} : admission'[l] = admission[l] /\ ledger'[l] = ledger[l] /\ slot'[l] = slot[l] /\ starts'[l] = starts[l]

\* Thread r is now at pc, with the given locals; the others stay where they are.
Moves(r, pc, key, it, outcome) ==
  /\ run'[r].pc = pc /\ run'[r].key = key /\ run'[r].item = it /\ run'[r].outcome = outcome
  /\ \A q \in Runs \ {r} : run'[q] = run[q]

\* The thread's pc changes and nothing else of it.
LEMMA ThreadPC ==
  ASSUME run \in [Runs -> Thread], NEW r \in Runs, NEW pc \in RunPCs, run' = [run EXCEPT ![r].pc = pc]
  PROVE  run' \in [Runs -> Thread] /\ Moves(r, pc, run[r].key, run[r].item, run[r].outcome)
BY Zenon DEF Thread, Moves

LEMMA ThreadOutcome ==
  ASSUME run \in [Runs -> Thread], NEW r \in Runs, NEW pc \in RunPCs, NEW o \in {"ok", "failed", "refused", None},
         run' = [run EXCEPT ![r].pc = pc, ![r].outcome = o]
  PROVE  run' \in [Runs -> Thread] /\ Moves(r, pc, run[r].key, run[r].item, o)
BY Zenon DEF Thread, Moves

LEMMA ThreadItem ==
  ASSUME run \in [Runs -> Thread], NEW r \in Runs, NEW pc \in RunPCs, NEW i \in Items,
         run' = [run EXCEPT ![r].pc = pc, ![r].item = i]
  PROVE  run' \in [Runs -> Thread] /\ Moves(r, pc, run[r].key, i, run[r].outcome)
BY Zenon DEF Thread, Moves

LEMMA ThreadPolled ==
  ASSUME run \in [Runs -> Thread], NEW r \in Runs, NEW next \in {"submitting", "succeeded", "unwinding"},
         run' = [run EXCEPT ![r].pc = next, ![r].item = IF next = "submitting" THEN None ELSE @,
                        ![r].outcome = IF next = "unwinding" THEN "failed" ELSE @]
  PROVE  /\ run' \in [Runs -> Thread]
         /\ Moves(r, next, run[r].key, IF next = "submitting" THEN None ELSE run[r].item,
                  IF next = "unwinding" THEN "failed" ELSE run[r].outcome)
BY ZenonT(30) DEF Thread, Moves, RunPCs

LEMMA ThreadAdmitted ==
  ASSUME run \in [Runs -> Thread], NEW r \in Runs, NEW k \in Keys,
         run' = [run EXCEPT ![r] = [Resting EXCEPT !.pc = "admitted", !.key = k]]
  PROVE  run' \in [Runs -> Thread] /\ Moves(r, "admitted", k, None, None)
BY Zenon DEF Thread, Moves, RunPCs, Resting

LEMMA ThreadRefused ==
  ASSUME run \in [Runs -> Thread], NEW r \in Runs, NEW k \in Keys,
         run' = [run EXCEPT ![r] = [Resting EXCEPT !.pc = "unwinding", !.key = k, !.outcome = "refused"]]
  PROVE  run' \in [Runs -> Thread] /\ Moves(r, "unwinding", k, None, "refused")
BY Zenon DEF Thread, Moves, RunPCs, Resting

LEMMA ThreadRests ==
  ASSUME run \in [Runs -> Thread], NEW r \in Runs, run' = [run EXCEPT ![r] = Resting]
  PROVE  run' \in [Runs -> Thread] /\ Moves(r, "idle", None, None, None)
BY Zenon DEF Thread, Moves, RunPCs, Resting

(***************************************************************************)
(* The transactions of the store.                                          *)
(***************************************************************************)
\* The fields of k's row that no transaction after the lease writes.
SameLease(k) == admission'[k].token = admission[k].token /\ admission'[k].live = admission[k].live

\* publish_lease: thread r leases key k, which has not started.
Takes(k, r, live, reserved) ==
  /\ admission[k].state \in {"none", "leased"} /\ ~(admission[k].state = "leased" /\ admission[k].fresh)
  /\ live => k \in LiveKeys
  /\ admission'[k].state = "leased" /\ admission'[k].token = r /\ admission'[k].fresh /\ admission'[k].live = live
  /\ admission'[k].reserved = reserved /\ ~admission'[k].accounted /\ admission'[k].intent = 0
  /\ admission'[k].result = None
  /\ ledger'[k] = ledger[k] /\ slot'[k] = slot[k] /\ starts'[k] = starts[k] /\ Only(k)

Lapses(k) ==
  /\ admission[k].state = "leased" /\ admission'[k].state = "leased" /\ ~admission'[k].fresh /\ SameLease(k)
  /\ admission'[k].reserved = admission[k].reserved /\ admission'[k].accounted = admission[k].accounted
  /\ admission'[k].intent = admission[k].intent /\ admission'[k].result = admission[k].result
  /\ ledger'[k] = ledger[k] /\ slot'[k] = slot[k] /\ starts'[k] = starts[k] /\ Only(k)

\* mark_execution_started by the holder of the lease.
Begins(k, r, paid) ==
  /\ admission[k].state = "leased" /\ admission[k].fresh /\ admission[k].token = r
  /\ admission'[k].state = "executing" /\ ~admission'[k].fresh /\ SameLease(k)
  /\ admission'[k].reserved = admission[k].reserved /\ admission'[k].accounted = paid
  /\ admission'[k].intent = admission[k].intent /\ admission'[k].result = admission[k].result
  /\ paid => admission[k].live /\ ~Full
  /\ slot'[k] = IF paid THEN "held" ELSE slot[k]
  /\ ledger'[k] = ledger[k] /\ starts'[k] = starts[k] + 1 /\ Only(k)

\* stage_success_intent.
Stages(k, cost) ==
  /\ admission[k].state = "executing" /\ admission'[k].state = "executing" /\ SameLease(k)
  /\ admission'[k].fresh = admission[k].fresh
  /\ admission'[k].reserved = admission[k].reserved /\ admission'[k].accounted = admission[k].accounted
  /\ admission'[k].intent = cost /\ admission'[k].result = admission[k].result
  /\ ledger'[k] = ledger[k] /\ slot'[k] = slot[k] /\ starts'[k] = starts[k] /\ Only(k)

\* Every terminal write: complete_run, _settle_intent and reconcile_executing.
Ends(k, result, cost, accounted) ==
  /\ admission[k].state \in {"leased", "executing"}
  /\ admission'[k].state = "terminal" /\ SameLease(k)
  /\ admission'[k].reserved = 0 /\ admission'[k].accounted = accounted
  /\ admission'[k].intent = admission[k].intent /\ admission'[k].result = result
  /\ ledger'[k] = cost
  /\ slot'[k] = IF slot[k] = "held" THEN "released" ELSE slot[k]
  /\ starts'[k] = starts[k] /\ Only(k)

KeyTables == admission \in [Keys -> Row] /\ ledger \in [Keys -> Costs \cup {None}] /\ slot \in [Keys -> {"none", "held", "released"}]
             /\ starts \in [Keys -> 0 .. 2]

LEMMA LeaseTaken ==
  ASSUME KeyTables, NEW k \in Keys, NEW r \in Runs, NEW live \in BOOLEAN, NEW reserved \in {0, 1},
         Admissible(k, live), admission' = Leased(k, r, live, reserved), UNCHANGED <<ledger, slot, starts>>,
         admission[k].live => k \in LiveKeys
  PROVE  KeyTables' /\ Takes(k, r, live, reserved)
<1> DEFINE new == [Absent EXCEPT !.state = "leased", !.token = r, !.fresh = TRUE, !.live = live, !.reserved = reserved]
<1>1. /\ new \in Row /\ new.state = "leased" /\ new.token = r /\ new.fresh /\ new.live = live
      /\ new.reserved = reserved /\ ~new.accounted /\ new.intent = 0 /\ new.result = None
  BY Zenon DEF Row, Absent, Results, Costs
<1>2. admission' = [admission EXCEPT ![k] = new]
  BY Zenon DEF Leased
<1> HIDE DEF new
<1>3. admission'[k] = new /\ admission' \in [Keys -> Row] /\ \A l \in Keys \ {k} : admission'[l] = admission[l]
  BY <1>1, <1>2, Zenon DEF KeyTables
<1>4. /\ admission[k].state \in {"none", "leased"} /\ ~(admission[k].state = "leased" /\ admission[k].fresh)
      /\ live => k \in LiveKeys
  BY Zenon DEF Admissible
<1> QED BY <1>1, <1>3, <1>4, Zenon DEF KeyTables, Takes, Only

LEMMA LeaseLapses ==
  ASSUME KeyTables, NEW k \in Keys, admission[k].state = "leased",
         admission' = [admission EXCEPT ![k].fresh = FALSE], UNCHANGED <<ledger, slot, starts>>
  PROVE  KeyTables' /\ Lapses(k)
<1>1. admission'[k] = [admission[k] EXCEPT !.fresh = FALSE] /\ \A l \in Keys \ {k} : admission'[l] = admission[l]
  BY Zenon DEF KeyTables
<1>2. admission[k] \in Row
  BY Zenon DEF KeyTables
<1>3. admission' \in [Keys -> Row]
  BY <1>2, Zenon DEF KeyTables, Row
<1> QED BY <1>1, <1>2, <1>3, Zenon DEF KeyTables, Row, Lapses, Only, SameLease

\* The row of a run that starts; the row complete_run and _settle_intent write; the row
\* reconcile_executing writes.
BegunOf(r, paid) == [r EXCEPT !.state = "executing", !.fresh = FALSE, !.accounted = paid]
TerminalOf(r, result) == [r EXCEPT !.state = "terminal", !.fresh = FALSE, !.reserved = 0, !.result = result]
ResolvedOf(r, result, accounted) ==
  [r EXCEPT !.state = "terminal", !.reserved = 0, !.result = result, !.accounted = accounted]

LEMMA BegunRow ==
  ASSUME NEW r \in Row, NEW paid \in BOOLEAN
  PROVE  LET new == BegunOf(r, paid) IN
         /\ new \in Row /\ new.state = "executing" /\ new.token = r.token /\ new.fresh = FALSE /\ new.live = r.live
         /\ new.reserved = r.reserved /\ new.accounted = paid /\ new.intent = r.intent /\ new.result = r.result
<1>1. [r EXCEPT !.state = "executing"] \in Row
  BY Zenon DEF Row, Results
<1>2. [[r EXCEPT !.state = "executing"] EXCEPT !.fresh = FALSE] \in Row
  BY <1>1, Zenon DEF Row, Results
<1>3. [[[r EXCEPT !.state = "executing"] EXCEPT !.fresh = FALSE] EXCEPT !.accounted = paid] \in Row
  BY <1>2, Zenon DEF Row, Results
<1> QED BY <1>3, Zenon DEF Row, BegunOf

LEMMA TerminalRow ==
  ASSUME NEW r \in Row, NEW result \in Results \cup {None}
  PROVE  LET new == TerminalOf(r, result) IN
         /\ new \in Row /\ new.state = "terminal" /\ new.token = r.token /\ new.fresh = FALSE /\ new.live = r.live
         /\ new.reserved = 0 /\ new.accounted = r.accounted /\ new.intent = r.intent /\ new.result = result
<1>1. [r EXCEPT !.state = "terminal"] \in Row
  BY Zenon DEF Row, Results
<1>2. [[r EXCEPT !.state = "terminal"] EXCEPT !.fresh = FALSE] \in Row
  BY <1>1, Zenon DEF Row, Results
<1>3. [[[r EXCEPT !.state = "terminal"] EXCEPT !.fresh = FALSE] EXCEPT !.reserved = 0] \in Row
  BY <1>2, Zenon DEF Row, Results
<1>4. [[[[r EXCEPT !.state = "terminal"] EXCEPT !.fresh = FALSE] EXCEPT !.reserved = 0] EXCEPT !.result = result] \in Row
  BY <1>3, Zenon DEF Row, Results
<1> QED BY <1>4, Zenon DEF Row, TerminalOf

LEMMA ResolvedRow ==
  ASSUME NEW r \in Row, NEW result \in Results, NEW accounted \in BOOLEAN
  PROVE  LET new == ResolvedOf(r, result, accounted) IN
         /\ new \in Row /\ new.state = "terminal" /\ new.token = r.token /\ new.fresh = r.fresh /\ new.live = r.live
         /\ new.reserved = 0 /\ new.accounted = accounted /\ new.intent = r.intent /\ new.result = result
<1>1. [r EXCEPT !.state = "terminal"] \in Row
  BY Zenon DEF Row, Results
<1>2. [[r EXCEPT !.state = "terminal"] EXCEPT !.reserved = 0] \in Row
  BY <1>1, Zenon DEF Row, Results
<1>3. [[[r EXCEPT !.state = "terminal"] EXCEPT !.reserved = 0] EXCEPT !.result = result] \in Row
  BY <1>2, Zenon DEF Row, Results
<1>4. [[[[r EXCEPT !.state = "terminal"] EXCEPT !.reserved = 0] EXCEPT !.result = result] EXCEPT !.accounted = accounted] \in Row
  BY <1>3, Zenon DEF Row, Results
<1> QED BY <1>4, Zenon DEF Row, ResolvedOf

LEMMA ExecutionBegins ==
  ASSUME KeyTables, NEW r \in Runs, NEW k \in Keys, NEW paid \in BOOLEAN, starts[k] \in 0 .. 1,
         Owns(r, k), admission[k].fresh, paid => admission[k].live /\ ~Full,
         admission' = [admission EXCEPT ![k].state = "executing", ![k].fresh = FALSE, ![k].accounted = paid],
         slot' = IF paid THEN [slot EXCEPT ![k] = "held"] ELSE slot,
         starts' = [starts EXCEPT ![k] = @ + 1], UNCHANGED ledger
  PROVE  KeyTables' /\ Begins(k, r, paid)
<1> DEFINE old == admission[k]
           new == BegunOf(old, paid)
<1>1. old \in Row
  BY Zenon DEF KeyTables
<1>2. admission'[k] = new /\ admission' = [admission EXCEPT ![k] = new]
  BY Zenon DEF KeyTables, BegunOf
<1>3. /\ new \in Row /\ new.state = "executing" /\ new.token = old.token /\ new.fresh = FALSE /\ new.live = old.live
      /\ new.reserved = old.reserved /\ new.accounted = paid /\ new.intent = old.intent /\ new.result = old.result
  BY <1>1, BegunRow, Zenon
<1> HIDE DEF new
<1>4. admission' \in [Keys -> Row] /\ \A l \in Keys \ {k} : admission'[l] = admission[l]
  BY <1>2, <1>3, Zenon DEF KeyTables
<1>5. /\ slot' \in [Keys -> {"none", "held", "released"}] /\ slot'[k] = IF paid THEN "held" ELSE slot[k]
      /\ \A l \in Keys \ {k} : slot'[l] = slot[l]
  BY Zenon DEF KeyTables
<1>6. /\ starts' \in [Keys -> 0 .. 2] /\ starts'[k] = starts[k] + 1
      /\ \A l \in Keys \ {k} : starts'[l] = starts[l]
  BY DEF KeyTables
<1> QED BY <1>2, <1>3, <1>4, <1>5, <1>6, Zenon DEF KeyTables, Begins, Owns, Only, SameLease

LEMMA IntentStaged ==
  ASSUME KeyTables, NEW k \in Keys, NEW cost \in Costs, admission[k].state = "executing",
         admission' = [admission EXCEPT ![k].intent = cost], UNCHANGED <<ledger, slot, starts>>
  PROVE  KeyTables' /\ Stages(k, cost)
<1>1. admission'[k] = [admission[k] EXCEPT !.intent = cost] /\ \A l \in Keys \ {k} : admission'[l] = admission[l]
  BY Zenon DEF KeyTables
<1>2. admission[k] \in Row
  BY Zenon DEF KeyTables
<1>3. admission' \in [Keys -> Row]
  BY <1>2, Zenon DEF KeyTables, Row
<1> QED BY <1>1, <1>2, <1>3, Zenon DEF KeyTables, Row, Stages, Only, SameLease

LEMMA TerminalEnds ==
  ASSUME KeyTables, NEW k \in Keys, NEW result \in Results \cup {None}, NEW cost \in Costs,
         admission[k].state \in {"leased", "executing"}, ledger[k] = None,
         Terminal(k, result, cost), UNCHANGED starts
  PROVE  KeyTables' /\ Ends(k, result, cost, admission[k].accounted)
<1> DEFINE old == admission[k]
           new == TerminalOf(old, result)
<1>1. old \in Row
  BY Zenon DEF KeyTables
<1>2. admission'[k] = new /\ admission' = [admission EXCEPT ![k] = new]
  BY Zenon DEF KeyTables, Terminal, TerminalOf
<1>3. /\ new \in Row /\ new.state = "terminal" /\ new.token = old.token /\ new.live = old.live
      /\ new.reserved = 0 /\ new.accounted = old.accounted /\ new.intent = old.intent /\ new.result = result
  BY <1>1, TerminalRow, Zenon
<1> HIDE DEF new
<1>4. admission' \in [Keys -> Row] /\ \A l \in Keys \ {k} : admission'[l] = admission[l]
  BY <1>2, <1>3, Zenon DEF KeyTables
<1>5. /\ slot' \in [Keys -> {"none", "held", "released"}] /\ slot'[k] = IF slot[k] = "held" THEN "released" ELSE slot[k]
      /\ \A l \in Keys \ {k} : slot'[l] = slot[l]
  BY Zenon DEF KeyTables, Terminal
<1>6. /\ ledger' \in [Keys -> Costs \cup {None}] /\ ledger'[k] = cost
      /\ \A l \in Keys \ {k} : ledger'[l] = ledger[l]
  BY Zenon DEF KeyTables, Terminal
<1> QED BY <1>2, <1>3, <1>4, <1>5, <1>6, Zenon DEF KeyTables, Ends, Only, SameLease

LEMMA ResolveEnds ==
  ASSUME KeyTables, NEW k \in Keys, NEW result \in Results, NEW cost \in Costs,
         admission[k].state = "executing", Resolve(k, result, cost), UNCHANGED starts
  PROVE  KeyTables' /\ Ends(k, result, cost, result # "no_charge")
<1> DEFINE old == admission[k]
           new == ResolvedOf(old, result, result # "no_charge")
<1>1. old \in Row
  BY Zenon DEF KeyTables
<1>2. admission'[k] = new /\ admission' = [admission EXCEPT ![k] = new]
  BY Zenon DEF KeyTables, Resolve, ResolvedOf
<1>3. /\ new \in Row /\ new.state = "terminal" /\ new.token = old.token /\ new.live = old.live
      /\ new.reserved = 0 /\ new.accounted = (result # "no_charge") /\ new.intent = old.intent /\ new.result = result
  BY ZenonT(30), <1>1, ResolvedRow
<1> HIDE DEF new
<1>4. admission' \in [Keys -> Row] /\ \A l \in Keys \ {k} : admission'[l] = admission[l]
  BY <1>2, <1>3, Zenon DEF KeyTables
<1>5. /\ slot' \in [Keys -> {"none", "held", "released"}] /\ slot'[k] = IF slot[k] = "held" THEN "released" ELSE slot[k]
      /\ \A l \in Keys \ {k} : slot'[l] = slot[l]
  BY Zenon DEF KeyTables, Resolve
<1>6. /\ ledger' \in [Keys -> Costs \cup {None}] /\ ledger'[k] = cost
      /\ \A l \in Keys \ {k} : ledger'[l] = ledger[l]
  BY Zenon DEF KeyTables, Resolve
<1> QED BY <1>2, <1>3, <1>4, <1>5, <1>6, Zenon DEF KeyTables, Ends, Only, SameLease

(***************************************************************************)
(* The inductive invariant.                                                *)
(***************************************************************************)
\* Where a thread that crossed the execution boundary is, and where it can own a WorkItem.
Started == {"local", "submitting", "accepted", "polling", "succeeded", "staged", "dropped", "recorded"}
Owning == {"submitting", "accepted", "polling", "succeeded", "staged", "recorded", "unwinding"}

Succeeded(k) == \E i \in Items : item[i].key = k /\ item[i].state = "success"

\* A key's admission, ledger row, slot and starts in each state of the admission.
RowOK(k) ==
  /\ admission[k].state \in {"none", "leased"} =>
       /\ starts[k] = 0 /\ slot[k] = "none" /\ ledger[k] = None
       /\ admission[k].intent = 0 /\ ~admission[k].accounted /\ admission[k].result = None
  /\ admission[k].state = "executing" =>
       /\ starts[k] = 1 /\ slot[k] # "released" /\ ledger[k] = None
       /\ admission[k].reserved = 1 /\ admission[k].result = None
       /\ admission[k].accounted <=> slot[k] = "held"
  /\ admission[k].state = "terminal" =>
       /\ starts[k] <= 1 /\ slot[k] # "held" /\ ledger[k] # None /\ admission[k].reserved = 0
       /\ admission[k].intent # 0 => admission[k].result = "ok" /\ ledger[k] = admission[k].intent
  /\ admission[k].live => k \in LiveKeys
  /\ slot[k] # "none" => admission[k].live
  /\ slot[k] # "none" /\ admission[k].result # "no_charge" => admission[k].accounted
  /\ admission[k].intent # 0 \/ admission[k].result = "ok" => slot[k] = "none" \/ Succeeded(k)

\* What a thread knows of its key: a started thread is the one whose token the row
\* keeps, and of the key's WorkItems only its own can be running.
ThreadOK(r) ==
  LET k == run[r].key IN
  /\ run[r].pc # "idle" => k \in Keys
  /\ run[r].outcome \in {None, "failed", "refused"}
  /\ run[r].pc = "admitted" /\ Owns(r, k) => admission[k].reserved = 1
  /\ run[r].pc \in Started =>
       /\ admission[k].token = r /\ admission[k].state \in {"executing", "terminal"}
       /\ \A i \in Items : item[i].key = k /\ item[i].state = "running" =>
                             run[r].pc \in {"accepted", "polling"} /\ run[r].item = i
  /\ run[r].pc = "local" => slot[k] = "none"
  /\ run[r].pc \in {"submitting", "accepted", "polling"} => slot[k] # "none" /\ admission[k].result # "no_charge"
  /\ run[r].pc \in {"accepted", "polling"} => run[r].item \in Items /\ item[run[r].item].key = k
  /\ run[r].pc \in {"succeeded", "staged", "dropped"} => slot[k] = "none" \/ Succeeded(k)

\* A WorkItem belongs to a key that took a slot and is not recorded as free of charge.
ItemOK(i) ==
  /\ item[i].state = "none" => item[i].key = None /\ item[i].known = "no"
  /\ item[i].state # "none" =>
       item[i].key \in Keys /\ slot[item[i].key] # "none" /\ admission[item[i].key].result # "no_charge"

\* The WorkItem a correlation of job j names is one of the job.
Correlated(j, i) == i # None => item[i].state # "none" /\ JobOf[item[i].key] = j

\* The owner of a correlation is at work on the key of its WorkItem.
JobOK(j) ==
  /\ Correlated(j, sidecar[j]) /\ Correlated(j, active[j].item)
  /\ active[j].owner # None =>
       /\ run[active[j].owner].pc \in Owning /\ active[j].item # None
       /\ item[active[j].item].key = run[active[j].owner].key

\* What the reap request and the reconciler read stays true until they use it.
ReapersOK ==
  /\ reconciler.key # None => slot[reconciler.key] # "none"
  /\ reap.pc # "idle" => reap.item # None /\ reap.job # None /\ item[reap.item].state # "none"
  /\ reap.pc = "cancelled" => item[reap.item].state # "running"

\* Live keys that were started as paid or may be: what the daily limit counts of a key
\* that reserved something.
Counted == {k \in Keys : /\ admission[k].live
                         /\ \/ admission[k].accounted
                            \/ admission[k].state = "leased" /\ admission[k].fresh /\ admission[k].reserved = 1}

CountInv ==
  /\ Cardinality(Held) + others <= Ceiling
  /\ Cardinality(Charged) + Cardinality(Reserving) <= SpendCap
  /\ Cardinality(Counted) <= DailyLimit

BrokerInv ==
  /\ TypeOK /\ CountInv /\ RunningIsAddressable /\ ReapersOK
  /\ (\A k \in Keys : RowOK(k)) /\ (\A r \in Runs : ThreadOK(r))
  /\ (\A i \in Items : ItemOK(i)) /\ (\A j \in Jobs : JobOK(j))

OtherTypes ==
  /\ others \in 0 .. Ceiling
  /\ active \in [Jobs -> [item: Items \cup {None}, owner: Runs \cup {None}]]
  /\ sidecar \in [Jobs -> Items \cup {None}]
  /\ reap \in [pc: {"idle", "peeked", "cancelled"}, job: Jobs \cup {None}, item: Items \cup {None}]
  /\ reconciler \in [key: Keys \cup {None}, item: Items \cup {None}]

LEMMA Types ==
  TypeOK <=> KeyTables /\ run \in [Runs -> Thread] /\ item \in [Items -> WorkItem] /\ OtherTypes
BY Zenon DEF TypeOK, KeyTables, OtherTypes, Row, Thread, WorkItem

LEMMA BrokerInitially == Init => BrokerInv
<1> SUFFICES ASSUME Init PROVE BrokerInv
  BY Zenon
<1>1. Absent \in Row
  BY Zenon DEF Absent, Row, Results, Costs
<1>2. KeyTables
  BY <1>1 DEF Init, KeyTables
<1>3. run \in [Runs -> Thread]
  BY Zenon DEF Init, Resting, Thread, RunPCs
<1>4. item \in [Items -> WorkItem]
  BY Zenon DEF Init, WorkItem
<1>5. OtherTypes
  BY BrokerAssumption DEF Init, OtherTypes, Unwatched, NoReap
<1>6. TypeOK
  BY <1>2, <1>3, <1>4, <1>5, Types, Zenon
<1>7. \A k \in Keys : RowOK(k) /\ k \notin Held /\ k \notin Charged /\ k \notin Reserving /\ k \notin Counted
  <2> TAKE k \in Keys
  <2>1. admission[k] = Absent /\ ledger[k] = None /\ slot[k] = "none" /\ starts[k] = 0
    BY Zenon DEF Init
  <2>2. None # 1 /\ None # 2 /\ None # "ok"
    BY Zenon, BrokerAssumption
  <2> QED BY <2>1, <2>2 DEF Absent, RowOK, Held, Charged, Reserving, Counted
<1>8. Held = {} /\ Charged = {} /\ Reserving = {} /\ Counted = {}
  BY <1>7, Zenon DEF Held, Charged, Reserving, Counted
<1>9. CountInv
  BY <1>8, FS_EmptySet, BrokerAssumption DEF CountInv, Init
<1>10. \A r \in Runs : ThreadOK(r)
  BY Zenon DEF Init, Resting, ThreadOK, Started
<1>11. \A i \in Items : ItemOK(i) /\ item[i].state # "running"
  BY Zenon DEF Init, ItemOK
<1>12. \A j \in Jobs : JobOK(j)
  BY Zenon DEF Init, Unwatched, JobOK, Correlated
<1>13. ReapersOK
  BY Zenon DEF Init, NoReap, ReapersOK
<1> QED BY <1>6, <1>7, <1>9, <1>10, <1>11, <1>12, <1>13, Zenon DEF BrokerInv, RunningIsAddressable

(***************************************************************************)
(* A step changes the tables of one key, by one transaction, or of none.   *)
(***************************************************************************)
\* What a terminal write must know: no charge without a start, staged evidence is
\* what is recorded, success and freedom from charge are true, and a row that
\* counts against the daily limit did so before.
EndOK(k, result, cost, accounted) ==
  /\ cost # 0 => admission[k].state = "executing"
  /\ admission[k].intent # 0 => result = "ok" /\ cost = admission[k].intent
  /\ result = "ok" => slot[k] = "none" \/ Succeeded(k)
  /\ result = "no_charge" => (\A i \in Items : item[i].key # k) /\ (slot[k] = "none" \/ Left(k))
  /\ accounted => admission[k].accounted
  /\ slot[k] # "none" /\ result # "no_charge" => accounted

\* Only the acting thread a, None when no thread acts, can lease a key.
KeyStep(a, k) ==
  \/ \E live \in BOOLEAN, reserved \in {0, 1} :
       /\ Takes(k, a, live, reserved)
       /\ reserved = 1 => ~OverSpend /\ ~OverDay(live)
  \/ Lapses(k)
  \/ \E r \in Runs, paid \in BOOLEAN : Begins(k, r, paid) /\ admission[k].reserved = 1
  \/ \E cost \in Costs : Stages(k, cost) /\ (slot[k] = "none" \/ Succeeded(k))
  \/ \E result \in Results \cup {None}, cost \in Costs, accounted \in BOOLEAN :
       Ends(k, result, cost, accounted) /\ EndOK(k, result, cost, accounted)

KeyMoves(a) == KeysStay \/ \E k \in Keys : KeyStep(a, k)

\* A WorkItem keeps its key, and its end is final.
ItemsOnward ==
  \A i \in Items : item[i].state # "none" =>
    /\ item'[i].key = item[i].key /\ item'[i].state # "none"
    /\ item[i].state = "success" => item'[i].state = "success"
    /\ item'[i].state = "running" => item[i].state = "running"

\* A started key stays with the run that started it, paid or not.
KeysOnward ==
  \A k \in Keys :
    /\ admission[k].state \in {"executing", "terminal"} =>
         /\ admission'[k].state \in {"executing", "terminal"} /\ admission'[k].token = admission[k].token
         /\ slot'[k] = "none" <=> slot[k] = "none"
    /\ slot[k] # "none" => slot'[k] # "none"
    /\ admission'[k].result = "no_charge" =>
         \/ admission[k].result = "no_charge"
         \/ (\A i \in Items : item[i].key # k) /\ (slot[k] = "none" \/ Left(k))

LEMMA OnlyOne ==
  ASSUME NEW a, NEW k \in Keys, KeyStep(a, k) PROVE Only(k)
BY Zenon DEF KeyStep, Takes, Lapses, Begins, Stages, Ends

LEMMA SucceededStays ==
  ASSUME BrokerInv, ItemsOnward, NEW k \in Keys, Succeeded(k) PROVE Succeeded(k)'
BY Zenon DEF ItemsOnward, Succeeded

LEMMA NoneApart == None # 0 /\ None # 1 /\ None # 2 /\ None # "ok" /\ None # "no_charge" /\ None \notin Keys /\ None \notin Runs /\ None \notin Items /\ None \notin Jobs
BY Zenon, BrokerAssumption

\* The rows of a key no transaction touched.
LEMMA RowStays ==
  ASSUME BrokerInv, ItemsOnward, NEW l \in Keys,
         admission'[l] = admission[l] /\ ledger'[l] = ledger[l] /\ slot'[l] = slot[l] /\ starts'[l] = starts[l]
  PROVE  RowOK(l)'
<1>1. RowOK(l)
  BY Zenon DEF BrokerInv
<1>2. Succeeded(l) => Succeeded(l)'
  BY SucceededStays, Zenon
<1> QED BY <1>1, <1>2, Zenon DEF RowOK

LEMMA RowsKept ==
  ASSUME BrokerInv, KeyTables', NEW a, KeyMoves(a), ItemsOnward
  PROVE  \A k \in Keys : RowOK(k)'
<1> SUFFICES ASSUME NEW l \in Keys PROVE RowOK(l)'
  BY Zenon
<1>0. CASE KeysStay
  BY <1>0, RowStays, Zenon DEF KeysStay
<1>1. ASSUME NEW k \in Keys, KeyStep(a, k), l # k PROVE RowOK(l)'
  <2>1. Only(k)
    BY <1>1, OnlyOne, Zenon
  <2> QED BY <1>1, <2>1, RowStays, Zenon DEF Only
<1>2. ASSUME KeyStep(a, l) PROVE RowOK(l)'
  <2>1. RowOK(l) /\ (Succeeded(l) => Succeeded(l)')
    BY SucceededStays, Zenon DEF BrokerInv
  <2>2. ASSUME NEW live \in BOOLEAN, NEW reserved \in {0, 1}, Takes(l, a, live, reserved)
        PROVE  RowOK(l)'
    BY <2>1, <2>2, NoneApart, Zenon DEF RowOK, Takes
  <2>3. CASE Lapses(l)
    BY <2>1, <2>3, Zenon DEF RowOK, Lapses, SameLease
  <2>4. ASSUME NEW r \in Runs, NEW paid \in BOOLEAN, Begins(l, r, paid), admission[l].reserved = 1
        PROVE  RowOK(l)'
    <3>1. starts'[l] = 1
      BY <2>1, <2>4 DEF RowOK, Begins
    <3> QED BY <3>1, <2>1, <2>4, NoneApart, Zenon DEF RowOK, Begins, SameLease
  <2>5. ASSUME NEW cost \in Costs, Stages(l, cost), slot[l] = "none" \/ Succeeded(l)
        PROVE  RowOK(l)'
    BY <2>1, <2>5, Zenon DEF RowOK, Stages, SameLease
  <2>6. ASSUME NEW result \in Results \cup {None}, NEW cost \in Costs, NEW accounted \in BOOLEAN,
               Ends(l, result, cost, accounted), EndOK(l, result, cost, accounted)
        PROVE  RowOK(l)'
    <3>1. starts'[l] <= 1 /\ cost # None
      BY <2>1, <2>6, NoneApart DEF RowOK, Ends, Costs
    <3>2. slot'[l] # "held" /\ (slot'[l] = "none" <=> slot[l] = "none")
      BY <2>6, Zenon DEF Ends
    <3> QED BY <3>1, <3>2, <2>1, <2>6, NoneApart, Zenon DEF RowOK, Ends, EndOK, SameLease
  <2> QED BY <1>2, <2>2, <2>3, <2>4, <2>5, <2>6, Zenon DEF KeyStep
<1> QED BY <1>0, <1>1, <1>2, Zenon DEF KeyMoves

LEMMA KeysGoOn ==
  ASSUME BrokerInv, NEW a, KeyMoves(a) PROVE KeysOnward
<1> SUFFICES ASSUME NEW l \in Keys
             PROVE  /\ admission[l].state \in {"executing", "terminal"} =>
                         /\ admission'[l].state \in {"executing", "terminal"} /\ admission'[l].token = admission[l].token
                         /\ slot'[l] = "none" <=> slot[l] = "none"
                    /\ slot[l] # "none" => slot'[l] # "none"
                    /\ admission'[l].result = "no_charge" =>
                         \/ admission[l].result = "no_charge"
                         \/ (\A i \in Items : item[i].key # l) /\ (slot[l] = "none" \/ Left(l))
  BY Zenon DEF KeysOnward
<1>0. CASE KeysStay
  BY <1>0, Zenon DEF KeysStay
<1>1. CASE \E k \in Keys : KeyStep(a, k) /\ l # k
  BY <1>1, OnlyOne, Zenon DEF Only
<1>2. CASE KeyStep(a, l)
  <2>1. ASSUME NEW live \in BOOLEAN, NEW reserved \in {0, 1}, Takes(l, a, live, reserved)
        PROVE  /\ admission[l].state \notin {"executing", "terminal"} /\ slot'[l] = slot[l]
               /\ admission'[l].result # "no_charge"
    BY Zenon, <2>1, NoneApart DEF Takes
  <2>2. CASE Lapses(l)
    BY <2>2, Zenon DEF Lapses, SameLease
  <2>3. ASSUME NEW r \in Runs, NEW paid \in BOOLEAN, Begins(l, r, paid)
        PROVE  /\ admission[l].state \notin {"executing", "terminal"} /\ (slot[l] # "none" => slot'[l] # "none")
               /\ admission'[l].result = admission[l].result
    BY Zenon, <2>3 DEF Begins
  <2>4. ASSUME NEW cost \in Costs, Stages(l, cost)
        PROVE  /\ admission[l].state = "executing" /\ admission'[l].state = "executing"
               /\ admission'[l].token = admission[l].token /\ slot'[l] = slot[l]
               /\ admission'[l].result = admission[l].result
    BY <2>4, Zenon DEF Stages, SameLease
  <2>5. ASSUME NEW result \in Results \cup {None}, NEW cost \in Costs, NEW accounted \in BOOLEAN,
               Ends(l, result, cost, accounted), EndOK(l, result, cost, accounted)
        PROVE  /\ admission'[l].state = "terminal" /\ admission'[l].token = admission[l].token
               /\ slot'[l] = "none" <=> slot[l] = "none"
               /\ admission'[l].result = "no_charge" =>
                    (\A i \in Items : item[i].key # l) /\ (slot[l] = "none" \/ Left(l))
    BY <2>5, Zenon DEF Ends, SameLease, EndOK
  <2> QED BY <1>2, <2>1, <2>2, <2>3, <2>4, <2>5, Zenon DEF KeyStep
<1> QED BY <1>0, <1>1, <1>2, Zenon DEF KeyMoves

\* Nobody but the acting thread comes to own a lease, and no lease changes its reservation.
LEMMA OwnersStay ==
  ASSUME BrokerInv, NEW a, KeyMoves(a), NEW q \in Runs, q # a, NEW l \in Keys, Owns(q, l)'
  PROVE  Owns(q, l) /\ admission'[l].reserved = admission[l].reserved
<1>0. CASE KeysStay
  BY <1>0, Zenon DEF KeysStay, Owns
<1>1. CASE \E k \in Keys : KeyStep(a, k) /\ l # k
  BY <1>1, OnlyOne, Zenon DEF Only, Owns
<1>2. CASE KeyStep(a, l)
  <2>1. admission'[l].state = "leased" /\ admission'[l].token = q
    BY Zenon DEF Owns
  <2>2. Lapses(l)
    BY <1>2, <2>1, Zenon DEF KeyStep, Takes, Begins, Stages, Ends
  <2> QED BY <2>1, <2>2, Zenon DEF Lapses, SameLease, Owns
<1> QED BY <1>0, <1>1, <1>2, Zenon DEF KeyMoves

(***************************************************************************)
(* The quotas and the slots: a transaction adds at most its own key to a   *)
(* set that is counted, and only where the count leaves room for it.       *)
(***************************************************************************)
LEMMA Grows ==
  ASSUME NEW A, NEW B, IsFiniteSet(A), NEW k, B \subseteq A \cup {k}
  PROVE  Cardinality(B) \in Nat /\ Cardinality(A) \in Nat /\ Cardinality(B) <= Cardinality(A) + 1
<1>1. /\ IsFiniteSet(A \cup {k}) /\ Cardinality(A) \in Nat
      /\ Cardinality(A \cup {k}) = Cardinality(A) \/ Cardinality(A \cup {k}) = Cardinality(A) + 1
  BY Zenon, FS_AddElement, FS_CardinalityType
<1>2. IsFiniteSet(B) /\ Cardinality(B) <= Cardinality(A \cup {k}) /\ Cardinality(B) \in Nat
  BY Zenon, <1>1, FS_Subset, FS_CardinalityType
<1> QED BY <1>1, <1>2

LEMMA Shrinks ==
  ASSUME NEW A, NEW B, IsFiniteSet(A), B \subseteq A
  PROVE  Cardinality(B) \in Nat /\ Cardinality(A) \in Nat /\ Cardinality(B) <= Cardinality(A)
BY Zenon, FS_Subset, FS_CardinalityType

LEMMA Loses ==
  ASSUME NEW A, NEW B, IsFiniteSet(A), NEW k \in A, B \subseteq A \ {k}
  PROVE  Cardinality(B) \in Nat /\ Cardinality(A) \in Nat /\ Cardinality(B) + 1 <= Cardinality(A)
<1>1. IsFiniteSet(A \ {k}) /\ Cardinality(A \ {k}) = Cardinality(A) - 1 /\ Cardinality(A) \in Nat
  BY Zenon, FS_RemoveElement, FS_CardinalityType
<1>2. Cardinality(B) <= Cardinality(A \ {k}) /\ Cardinality(B) \in Nat
  BY Zenon, <1>1, Shrinks
<1> QED BY <1>1, <1>2

LEMMA CountedFinite ==
  /\ IsFiniteSet(Held) /\ IsFiniteSet(Charged) /\ IsFiniteSet(Overrun) /\ IsFiniteSet(Reserving) /\ IsFiniteSet(Counted) /\ IsFiniteSet(UsedToday)
<1>1. Held \subseteq Keys /\ Charged \subseteq Keys /\ Overrun \subseteq Keys /\ Reserving \subseteq Keys /\ Counted \subseteq Keys /\ UsedToday \subseteq Keys
  BY Zenon DEF Held, Charged, Overrun, Reserving, Counted, UsedToday
<1> QED BY <1>1, BrokerAssumption, FS_Subset, Zenon

\* What each transaction does to the counted sets.
Grants(k) ==
  \/ /\ Held' \subseteq Held /\ Charged' \subseteq Charged /\ Reserving' \subseteq Reserving /\ Counted' \subseteq Counted
  \/ /\ Held' \subseteq Held /\ Charged' \subseteq Charged /\ Reserving' \subseteq Reserving \cup {k} /\ ~OverSpend
     /\ Counted' \subseteq Counted \/ (Counted' \subseteq UsedToday \cup {k} /\ Cardinality(UsedToday) < DailyLimit)
  \/ /\ Held' \subseteq Held \cup {k} /\ ~Full
     /\ Charged' \subseteq Charged /\ Reserving' \subseteq Reserving /\ Counted' \subseteq Counted
  \/ /\ Held' \subseteq Held /\ Counted' \subseteq Counted
     /\ k \in Reserving /\ Reserving' \subseteq Reserving \ {k} /\ Charged' \subseteq Charged \cup {k}

LEMMA OthersUncounted ==
  ASSUME NEW k \in Keys, NEW l \in Keys, Only(k), l # k
  PROVE  /\ l \in Held' => l \in Held
         /\ l \in Charged' => l \in Charged
         /\ l \in Reserving' => l \in Reserving
         /\ l \in Counted' => l \in Counted
BY Zenon DEF Only, Held, Charged, Reserving, Counted

LEMMA KeyStepGrants ==
  ASSUME BrokerInv, NEW a, NEW k \in Keys, KeyStep(a, k)
  PROVE  Grants(k)
<1>0. /\ Held' \subseteq Keys /\ Charged' \subseteq Keys /\ Reserving' \subseteq Keys /\ Counted' \subseteq Keys
      /\ Counted \subseteq UsedToday
  BY Zenon DEF Held, Charged, Reserving, Counted, UsedToday
<1>1. Only(k)
  BY OnlyOne, Zenon
<1>2. RowOK(k)
  BY Zenon DEF BrokerInv
<1>3. ASSUME k \in Held' => k \in Held, k \in Charged' => k \in Charged,
             k \in Reserving' => k \in Reserving, k \in Counted' => k \in Counted
      PROVE  Grants(k)
  BY <1>0, <1>1, <1>3, OthersUncounted, Zenon DEF Grants
<1>4. ASSUME NEW live \in BOOLEAN, NEW reserved \in {0, 1}, Takes(k, a, live, reserved),
             reserved = 1 => ~OverSpend /\ ~OverDay(live)
      PROVE  Grants(k)
  <2>1. (k \in Held' => k \in Held) /\ (k \in Charged' => k \in Charged)
    BY <1>4, Zenon DEF Takes, Held, Charged
  <2>2. CASE reserved = 0
    <3>1. k \notin Reserving' /\ k \notin Counted'
      BY <1>4, <2>2 DEF Takes, Reserving, Counted
    <3> QED BY <1>3, <2>1, <3>1, Zenon
  <2>3. CASE reserved = 1
    <3>1. k \in Counted' => live
      BY <1>4, Zenon DEF Takes, Counted
    <3>2. live => Cardinality(UsedToday) < DailyLimit
      BY SMTT(20), <1>4, <2>3, CountedFinite, FS_CardinalityType, BrokerAssumption DEF OverDay
    <3> QED BY <1>0, <1>1, <1>4, <2>1, <2>3, <3>1, <3>2, OthersUncounted, Zenon DEF Grants
  <2> QED BY Zenon, <2>2, <2>3
<1>5. CASE Lapses(k)
  <2>1. k \notin Reserving'
    BY Zenon, <1>5 DEF Lapses, Reserving
  <2>2. (k \in Held' => k \in Held) /\ (k \in Charged' => k \in Charged) /\ (k \in Counted' => k \in Counted)
    BY <1>5, Zenon DEF Lapses, SameLease, Held, Charged, Counted
  <2> QED BY <1>3, <2>1, <2>2, Zenon
<1>6. ASSUME NEW r \in Runs, NEW paid \in BOOLEAN, Begins(k, r, paid), admission[k].reserved = 1
      PROVE  Grants(k)
  <2>1. k \in Reserving /\ (k \in Charged' => k \in Charged) /\ (k \in Counted' => k \in Counted)
    BY Zenon, <1>6 DEF Begins, SameLease, Reserving, Charged, Counted
  <2>2. ~paid => (k \in Held' => k \in Held)
    BY <1>6, Zenon DEF Begins, Held
  <2>3. paid => ~Full
    BY <1>6, Zenon DEF Begins
  <2> QED BY <1>0, <1>1, <1>3, <2>1, <2>2, <2>3, OthersUncounted, Zenon DEF Grants
<1>7. ASSUME NEW cost \in Costs, Stages(k, cost) PROVE Grants(k)
  BY <1>3, <1>7, Zenon DEF Stages, SameLease, Held, Charged, Reserving, Counted
<1>8. ASSUME NEW result \in Results \cup {None}, NEW cost \in Costs, NEW accounted \in BOOLEAN,
             Ends(k, result, cost, accounted), EndOK(k, result, cost, accounted)
      PROVE  Grants(k)
  <2>1. k \notin Held' /\ k \notin Reserving' /\ (k \in Counted' => k \in Counted)
    BY Zenon, <1>8 DEF Ends, EndOK, SameLease, Held, Reserving, Counted
  <2>2. cost = 0 => k \notin Charged'
    BY <1>8 DEF Ends, Charged
  <2>3. cost # 0 => k \in Reserving
    BY <1>2, <1>8, Zenon DEF EndOK, RowOK, Reserving
  <2> QED BY <1>0, <1>1, <1>3, <2>1, <2>2, <2>3, OthersUncounted, Zenon DEF Grants
<1> QED BY <1>4, <1>5, <1>6, <1>7, <1>8, Zenon DEF KeyStep

LEMMA GrantsCount ==
  ASSUME CountInv, others \in 0 .. Ceiling, others' = others, NEW k, Grants(k) PROVE CountInv'
<1> DEFINE h == Cardinality(Held)  s == Cardinality(Charged)  v == Cardinality(Reserving)
           c == Cardinality(Counted)  u == Cardinality(UsedToday)
           hh == Cardinality(Held')  ss == Cardinality(Charged')  vv == Cardinality(Reserving')  cc == Cardinality(Counted')
<1>1. h \in Nat /\ s \in Nat /\ v \in Nat /\ c \in Nat /\ u \in Nat /\ Cardinality(Overrun) \in Nat
  BY CountedFinite, FS_CardinalityType, Zenon
<1>2. /\ Held' \subseteq Held => hh \in Nat /\ hh <= h
      /\ Charged' \subseteq Charged => ss \in Nat /\ ss <= s
      /\ Reserving' \subseteq Reserving => vv \in Nat /\ vv <= v
      /\ Counted' \subseteq Counted => cc \in Nat /\ cc <= c
  BY CountedFinite, Shrinks, Zenon
<1>3. /\ Held' \subseteq Held \cup {k} => hh \in Nat /\ hh <= h + 1
      /\ Charged' \subseteq Charged \cup {k} => ss \in Nat /\ ss <= s + 1
      /\ Reserving' \subseteq Reserving \cup {k} => vv \in Nat /\ vv <= v + 1
      /\ Counted' \subseteq UsedToday \cup {k} => cc \in Nat /\ cc <= u + 1
  BY CountedFinite, Grows, Zenon
<1>4. k \in Reserving /\ Reserving' \subseteq Reserving \ {k} => vv \in Nat /\ vv + 1 <= v
  BY CountedFinite, Loses, Zenon
<1>5. h + others <= Ceiling /\ s + v <= SpendCap /\ c <= DailyLimit
  BY Zenon DEF CountInv
<1>6. (~OverSpend => s + v + 1 <= SpendCap) /\ (~Full => h + others + 1 <= Ceiling)
  BY <1>1, BrokerAssumption DEF OverSpend, Spend, Full
<1> HIDE DEF h, s, v, c, u, hh, ss, vv, cc
<1>7. /\ SpendCap \in Nat /\ DailyLimit \in Nat /\ Ceiling \in Nat /\ others \in Nat /\ others' = others
  BY BrokerAssumption
<1>8. (u < DailyLimit => u + 1 <= DailyLimit)
  BY <1>1, <1>7
<1>9. CASE Held' \subseteq Held /\ Charged' \subseteq Charged /\ Reserving' \subseteq Reserving /\ Counted' \subseteq Counted
  <2>1. hh \in Nat /\ hh <= h /\ ss \in Nat /\ ss <= s /\ vv \in Nat /\ vv <= v /\ cc \in Nat /\ cc <= c
    BY <1>2, <1>9, Zenon
  <2>2. hh + others <= Ceiling /\ ss + vv <= SpendCap /\ cc <= DailyLimit
    BY SMTT(20), <1>1, <1>5, <1>7, <2>1
  <2> QED BY <1>7, <2>2, Zenon DEF CountInv, hh, ss, vv, cc
<1>10. CASE /\ Held' \subseteq Held /\ Charged' \subseteq Charged /\ Reserving' \subseteq Reserving \cup {k} /\ ~OverSpend
            /\ Counted' \subseteq Counted \/ (Counted' \subseteq UsedToday \cup {k} /\ Cardinality(UsedToday) < DailyLimit)
  <2>1. /\ hh \in Nat /\ hh <= h /\ ss \in Nat /\ ss <= s /\ vv \in Nat /\ vv <= v + 1 /\ s + v + 1 <= SpendCap
        /\ cc \in Nat /\ (cc <= c \/ (cc <= u + 1 /\ u < DailyLimit))
    BY <1>2, <1>3, <1>6, <1>10, Zenon DEF u
  <2>2. hh + others <= Ceiling /\ ss + vv <= SpendCap /\ cc <= DailyLimit
    BY SMTT(20), <1>1, <1>5, <1>7, <2>1
  <2> QED BY <1>7, <2>2, Zenon DEF CountInv, hh, ss, vv, cc
<1>11. CASE /\ Held' \subseteq Held \cup {k} /\ ~Full
            /\ Charged' \subseteq Charged /\ Reserving' \subseteq Reserving /\ Counted' \subseteq Counted
  <2>1. /\ hh \in Nat /\ hh <= h + 1 /\ h + others + 1 <= Ceiling
        /\ ss \in Nat /\ ss <= s /\ vv \in Nat /\ vv <= v /\ cc \in Nat /\ cc <= c
    BY <1>2, <1>3, <1>6, <1>11, Zenon
  <2>2. hh + others <= Ceiling /\ ss + vv <= SpendCap /\ cc <= DailyLimit
    BY SMTT(20), <1>1, <1>5, <1>7, <2>1
  <2> QED BY <1>7, <2>2, Zenon DEF CountInv, hh, ss, vv, cc
<1>12. CASE /\ Held' \subseteq Held /\ Counted' \subseteq Counted
            /\ k \in Reserving /\ Reserving' \subseteq Reserving \ {k} /\ Charged' \subseteq Charged \cup {k}
  <2>1. /\ hh \in Nat /\ hh <= h /\ ss \in Nat /\ ss <= s + 1 /\ vv \in Nat /\ vv + 1 <= v /\ cc \in Nat /\ cc <= c
    BY <1>2, <1>3, <1>4, <1>12, Zenon
  <2>2. hh + others <= Ceiling /\ ss + vv <= SpendCap /\ cc <= DailyLimit
    BY SMTT(20), <1>1, <1>5, <1>7, <2>1
  <2> QED BY <1>7, <2>2, Zenon DEF CountInv, hh, ss, vv, cc
<1> QED BY <1>9, <1>10, <1>11, <1>12, Zenon DEF Grants

LEMMA CountsKept ==
  ASSUME BrokerInv, NEW a, KeyMoves(a), others' = others PROVE CountInv'
<1>1. CountInv /\ others \in 0 .. Ceiling
  BY Zenon DEF BrokerInv, TypeOK
<1>2. CASE KeysStay
  <2>1. Held' = Held /\ Charged' = Charged /\ Reserving' = Reserving /\ Counted' = Counted
    BY <1>2, Zenon DEF KeysStay, Held, Charged, Reserving, Counted
  <2> QED BY <1>1, <2>1, Zenon DEF CountInv
<1>3. ASSUME NEW k \in Keys, KeyStep(a, k) PROVE CountInv'
  BY <1>1, <1>3, KeyStepGrants, GrantsCount, Zenon
<1> QED BY <1>2, <1>3, Zenon DEF KeyMoves

(***************************************************************************)
(* What a step does to the WorkItems: APS accepts one for the acting       *)
(* thread, the broker notes the id of one or forgets some, or one ends.    *)
(***************************************************************************)
OnlyItem(i) == \A o \in Items \ {i} : item'[o] = item[o]

Born(a, i) ==
  /\ a \in Runs /\ run[a].pc = "submitting" /\ item[i].state = "none" /\ KeysStay
  /\ item'[i].state = "running" /\ item'[i].key = run[a].key /\ item'[i].known = item[i].known /\ OnlyItem(i)
\* Only what the broker knows of the WorkItems changes.
Steady ==
  \A i \in Items :
    /\ item'[i].state = item[i].state /\ item'[i].key = item[i].key
    /\ item[i].state = "none" => item'[i].known = item[i].known
Finished(i) ==
  /\ item[i].state = "running" /\ item'[i].state \in {"success", "failed", "cancelled"}
  /\ item'[i].key = item[i].key /\ item'[i].known = item[i].known /\ OnlyItem(i)

\* The broker learns of no WorkItem and forgets none.
Silent == \A i \in Items : item'[i].known = item[i].known

ItemMoves(a) == Steady \/ \E i \in Items : Born(a, i) \/ Finished(i)

LEMMA ItemBorn ==
  ASSUME item \in [Items -> WorkItem], NEW a \in Runs, NEW i \in Items, run[a].pc = "submitting", run[a].key \in Keys,
         item[i].state = "none", KeysStay,
         item' = [item EXCEPT ![i].state = "running", ![i].key = run[a].key]
  PROVE  item' \in [Items -> WorkItem] /\ Born(a, i)
BY Zenon DEF WorkItem, Born, OnlyItem

LEMMA ItemNoted ==
  ASSUME item \in [Items -> WorkItem], NEW i \in Items, item[i].state # "none",
         NEW n \in {"memory", "saved"}, item' = [item EXCEPT ![i].known = n]
  PROVE  item' \in [Items -> WorkItem] /\ Steady /\ item'[i].known = n /\ OnlyItem(i)
BY Zenon DEF WorkItem, Steady, OnlyItem

LEMMA ItemFinished ==
  ASSUME item \in [Items -> WorkItem], NEW i \in Items, item[i].state = "running",
         NEW s \in {"success", "failed", "cancelled"}, item' = [item EXCEPT ![i].state = s]
  PROVE  item' \in [Items -> WorkItem] /\ Finished(i)
BY Zenon DEF WorkItem, Finished, OnlyItem

\* A DELETE ends the WorkItem or finds it ended.
LEMMA ItemDeleted ==
  ASSUME item \in [Items -> WorkItem], NEW i \in Items, item' = Deleted(i), NEW a
  PROVE  item' \in [Items -> WorkItem] /\ ItemMoves(a) /\ item'[i].state # "running"
<1>1. CASE item[i].state = "running"
  <2>1. item' = [item EXCEPT ![i].state = "cancelled"]
    BY <1>1, Zenon DEF Deleted
  <2>2. item' \in [Items -> WorkItem] /\ Finished(i)
    BY <1>1, <2>1, ItemFinished, Zenon
  <2> QED BY Zenon, <2>2 DEF ItemMoves, Finished
<1>2. CASE item[i].state # "running"
  BY <1>2, Zenon DEF Deleted, ItemMoves, Steady
<1> QED BY Zenon, <1>1, <1>2

LEMMA ItemsGoOn ==
  ASSUME NEW a, ItemMoves(a) PROVE ItemsOnward
<1> SUFFICES ASSUME NEW o \in Items, item[o].state # "none"
             PROVE  /\ item'[o].key = item[o].key /\ item'[o].state # "none"
                    /\ item[o].state = "success" => item'[o].state = "success"
                    /\ item'[o].state = "running" => item[o].state = "running"
  BY Zenon DEF ItemsOnward
<1>1. CASE Steady
  BY Zenon, <1>1 DEF Steady
<1>2. ASSUME NEW i \in Items, Born(a, i) \/ Finished(i), o # i
      PROVE  item'[o] = item[o]
  BY <1>2, Zenon DEF Born, Finished, OnlyItem
<1>3. CASE Born(a, o)
  BY <1>3, Zenon DEF Born
<1>4. CASE Finished(o)
  BY Zenon, <1>4 DEF Finished
<1> QED BY <1>1, <1>2, <1>3, <1>4, Zenon DEF ItemMoves

\* A WorkItem that comes to life belongs to the acting thread's key.
LEMMA ItemsBorn ==
  ASSUME NEW a, ItemMoves(a), NEW o \in Items, item[o].state = "none", item'[o].state # "none"
  PROVE  Born(a, o)
<1>1. ASSUME NEW i \in Items, Born(a, i) \/ Finished(i), o # i
      PROVE  item'[o] = item[o]
  BY <1>1, Zenon DEF Born, Finished, OnlyItem
<1>2. ~Steady /\ ~Finished(o) /\ item'[o] # item[o]
  BY Zenon DEF Steady, Finished
<1> QED BY <1>1, <1>2, Zenon DEF ItemMoves

LEMMA ItemsKept ==
  ASSUME BrokerInv, NEW a, KeyMoves(a), ItemMoves(a), NEW o \in Items PROVE ItemOK(o)'
<1>1. ItemOK(o) /\ KeysOnward /\ ItemsOnward
  BY KeysGoOn, ItemsGoOn, Zenon DEF BrokerInv
<1>2. CASE item[o].state # "none"
  <2>1. item'[o].key = item[o].key /\ item'[o].state # "none" /\ item[o].key \in Keys
    BY <1>1, <1>2, Zenon DEF ItemsOnward, ItemOK
  <2>2. slot'[item[o].key] # "none" /\ admission'[item[o].key].result # "no_charge"
    BY <1>1, <1>2, <2>1, Zenon DEF ItemOK, KeysOnward
  <2> QED BY <2>1, <2>2, Zenon DEF ItemOK
<1>3. CASE item[o].state = "none" /\ item'[o].state = "none"
  <2>1. item'[o].key = item[o].key /\ item'[o].known = item[o].known
    <3>1. ASSUME NEW i \in Items, Born(a, i) \/ Finished(i), o # i
          PROVE  item'[o] = item[o]
      BY <3>1, Zenon DEF Born, Finished, OnlyItem
    <3>2. ~Finished(o) /\ ~Born(a, o)
      BY <1>3, Zenon DEF Finished, Born
    <3>3. CASE Steady
      BY <1>3, <3>3, Zenon DEF Steady
    <3> QED BY <3>1, <3>2, <3>3, Zenon DEF ItemMoves
  <2> QED BY <1>1, <1>3, <2>1, Zenon DEF ItemOK
<1>4. CASE item[o].state = "none" /\ item'[o].state # "none"
  <2>1. Born(a, o)
    BY <1>4, ItemsBorn, Zenon
  <2>2. a \in Runs /\ ThreadOK(a) /\ run[a].pc = "submitting" /\ item'[o].key = run[a].key
        /\ admission' = admission /\ slot' = slot
    BY <2>1, Zenon DEF Born, BrokerInv, KeysStay
  <2>3. run[a].key \in Keys /\ slot[run[a].key] # "none" /\ admission[run[a].key].result # "no_charge"
    BY <2>2, Zenon DEF ThreadOK
  <2> QED BY <1>4, <2>2, <2>3, Zenon DEF ItemOK
<1> QED BY Zenon, <1>2, <1>3, <1>4

(***************************************************************************)
(* The threads that do not act, the correlations, the reapers.             *)
(***************************************************************************)
LEMMA ThreadSteady ==
  ASSUME BrokerInv, NEW a, KeyMoves(a), ItemMoves(a), NEW q \in Runs, q # a, run'[q] = run[q]
  PROVE  ThreadOK(q)'
<1>1. ThreadOK(q) /\ KeysOnward /\ ItemsOnward
  BY KeysGoOn, ItemsGoOn, Zenon DEF BrokerInv
<1> DEFINE k == run[q].key
<1>2. run[q].pc # "idle" => k \in Keys
  BY <1>1, Zenon DEF ThreadOK
<1>3. CASE run[q].pc \in {"idle", "unwinding", "failing"}
  BY Zenon, <1>1, <1>3 DEF ThreadOK, Started
<1>4. CASE run[q].pc = "admitted"
  <2>1. k \in Keys
    BY Zenon, <1>2, <1>4
  <2>2. Owns(q, k)' => admission'[k].reserved = 1
    <3>1. Owns(q, k)' => Owns(q, k) /\ admission'[k].reserved = admission[k].reserved
      BY <2>1, OwnersStay, Zenon
    <3> QED BY <1>1, <1>4, <3>1, Zenon DEF ThreadOK
  <2> QED BY Zenon, <1>1, <1>4, <2>1, <2>2 DEF ThreadOK, Started, Owns
<1>5. CASE run[q].pc \in Started
  <2>1. k \in Keys /\ admission[k].token = q /\ admission[k].state \in {"executing", "terminal"}
    BY Zenon, <1>1, <1>2, <1>5 DEF ThreadOK, Started
  <2>2. admission'[k].token = q /\ admission'[k].state \in {"executing", "terminal"} /\ (slot'[k] = "none" <=> slot[k] = "none")
    BY <1>1, <2>1, Zenon DEF KeysOnward
  <2>3. ASSUME NEW i \in Items, item'[i].key = k, item'[i].state = "running"
        PROVE  run[q].pc \in {"accepted", "polling"} /\ run[q].item = i
    <3>1. CASE item[i].state # "none"
      BY ZenonT(30), <1>1, <1>5, <2>3, <3>1 DEF ThreadOK, ItemsOnward
    <3>2. CASE item[i].state = "none"
      <4>1. Born(a, i)
        BY <2>3, <3>2, ItemsBorn, Zenon
      <4>2. a \in Runs /\ run[a].pc = "submitting" /\ run[a].key = k /\ ThreadOK(a)
        BY <2>3, <4>1, Zenon DEF Born, BrokerInv
      <4>3. admission[k].token = a
        BY <4>2, Zenon DEF ThreadOK, Started
      <4> QED BY Zenon, <2>1, <4>3
    <3> QED BY Zenon, <3>1, <3>2
  <2>4. run[q].pc \in {"submitting", "accepted", "polling"} => slot'[k] # "none" /\ admission'[k].result # "no_charge"
    BY <1>1, <2>1, <2>2, Zenon DEF ThreadOK, KeysOnward, Left
  <2>5. run[q].pc \in {"accepted", "polling"} => run[q].item \in Items /\ item'[run[q].item].key = k
    <3> SUFFICES ASSUME run[q].pc \in {"accepted", "polling"} PROVE run[q].item \in Items /\ item'[run[q].item].key = k
      BY Zenon
    <3>1. run[q].item \in Items /\ item[run[q].item].key = k
      BY <1>1, Zenon DEF ThreadOK
    <3>2. item[run[q].item].state # "none"
      BY <2>1, <3>1, NoneApart, Zenon DEF BrokerInv, ItemOK
    <3> QED BY <1>1, <3>1, <3>2, Zenon DEF ItemsOnward
  <2>6. Succeeded(k) => \E i \in Items : item'[i].key = k /\ item'[i].state = "success"
    BY <1>1, Zenon DEF Succeeded, ItemsOnward
  <2>7. run[q].pc \notin {"idle", "admitted"}
    BY Zenon, <1>5 DEF Started
  <2> HIDE DEF k
  <2>8. run'[q].key = k /\ run'[q].pc = run[q].pc /\ run'[q].item = run[q].item /\ run'[q].outcome = run[q].outcome
        /\ run[q].outcome \in {None, "failed", "refused"}
    BY <1>1, Zenon DEF k, ThreadOK
  <2>9. /\ run[q].pc = "local" => slot[k] = "none"
        /\ run[q].pc \in {"succeeded", "staged", "dropped"} => slot[k] = "none" \/ Succeeded(k)
    BY <1>1, Zenon DEF k, ThreadOK
  <2>10. run'[q].pc # "admitted" /\ run'[q].pc # "idle"
    BY Zenon, <2>7, <2>8
  <2>11. /\ run'[q].pc = "local" => slot'[k] = "none"
         /\ run'[q].pc \in {"submitting", "accepted", "polling"} => slot'[k] # "none" /\ admission'[k].result # "no_charge"
         /\ run'[q].pc \in {"accepted", "polling"} => run'[q].item \in Items /\ item'[run'[q].item].key = k
         /\ run'[q].pc \in {"succeeded", "staged", "dropped"} =>
              slot'[k] = "none" \/ \E i \in Items : item'[i].key = k /\ item'[i].state = "success"
    BY <2>2, <2>4, <2>5, <2>6, <2>8, <2>9, Zenon
  <2>12. \A i \in Items : item'[i].key = k /\ item'[i].state = "running" => run'[q].pc \in {"accepted", "polling"} /\ run'[q].item = i
    BY <2>3, <2>8, Zenon
  <2> QED BY <2>1, <2>2, <2>8, <2>10, <2>11, <2>12, Zenon DEF ThreadOK, Succeeded
<1>6. run[q].pc \in RunPCs
  BY Zenon DEF BrokerInv, TypeOK
<1> QED BY <1>3, <1>4, <1>5, <1>6 DEF RunPCs, Started

\* A thread at rest or on its way out claims nothing of its key.
LEMMA ThreadQuiet ==
  ASSUME NEW r \in Runs, run'[r].pc \in {"idle", "unwinding", "failing"},
         run'[r].pc # "idle" => run'[r].key \in Keys, run'[r].outcome \in {None, "failed", "refused"}
  PROVE  ThreadOK(r)'
BY Zenon DEF ThreadOK, Started

\* Correlations that are kept, dropped, given up by their owner or replayed.
LEMMA JobsKept ==
  ASSUME BrokerInv, NEW a, ItemMoves(a),
         NEW j \in Jobs,
         sidecar'[j] \in {sidecar[j], None}, active'[j].item \in {active[j].item, sidecar[j], None},
         active'[j].owner # None =>
           /\ active'[j] = active[j]
           /\ run'[active[j].owner].pc \in Owning /\ run'[active[j].owner].key = run[active[j].owner].key
  PROVE  JobOK(j)'
<1>1. JobOK(j) /\ ItemsOnward /\ sidecar[j] \in Items \cup {None} /\ active[j].item \in Items \cup {None}
  BY ItemsGoOn, Zenon DEF BrokerInv, TypeOK
<1>2. ASSUME NEW i \in Items \cup {None}, Correlated(j, i)
      PROVE  i # None => item'[i].state # "none" /\ JobOf[item'[i].key] = j /\ item'[i].key = item[i].key
  BY <1>1, <1>2, Zenon DEF Correlated, ItemsOnward
<1>3. /\ sidecar[j] # None => item'[sidecar[j]].state # "none" /\ JobOf[item'[sidecar[j]].key] = j
      /\ active[j].item # None =>
           /\ item'[active[j].item].state # "none" /\ JobOf[item'[active[j].item].key] = j
           /\ item'[active[j].item].key = item[active[j].item].key
  BY <1>1, <1>2, Zenon DEF JobOK
<1> QED BY <1>1, <1>3, Zenon DEF JobOK, Correlated

LEMMA AddressableKept ==
  ASSUME BrokerInv, NEW a, ItemMoves(a), Silent,
         \A j \in Jobs :
           \/ active'[j].item = active[j].item /\ sidecar'[j] = sidecar[j]
           \/ active[j].item = None \/ item'[active[j].item].state # "running"
  PROVE  RunningIsAddressable'
<1> SUFFICES ASSUME NEW i \in Items, item'[i].state = "running"
             PROVE  /\ item'[i].known # "no" => active'[JobOf[item'[i].key]].item = i
                    /\ item'[i].known = "saved" => sidecar'[JobOf[item'[i].key]] = i
  BY Zenon DEF RunningIsAddressable
<1>1. ItemsOnward /\ ItemOK(i) /\ RunningIsAddressable /\ item'[i].known = item[i].known
  BY ItemsGoOn, Zenon DEF BrokerInv, Silent
<1>2. CASE item[i].known = "no"
  BY Zenon, <1>1, <1>2
<1>3. CASE item[i].known # "no"
  <2>1. item[i].state # "none"
    BY <1>1, <1>3, Zenon DEF ItemOK
  <2>2. item[i].state = "running" /\ item'[i].key = item[i].key /\ item[i].key \in Keys
    BY <1>1, <2>1, Zenon DEF ItemsOnward, ItemOK
  <2>3. JobOf[item[i].key] \in Jobs
    BY <2>2, BrokerAssumption, Zenon
  <2>4. /\ active[JobOf[item[i].key]].item = i
        /\ item[i].known = "saved" => sidecar[JobOf[item[i].key]] = i
    BY <1>1, <1>3, <2>2, Zenon DEF RunningIsAddressable
  <2> QED BY <1>1, <2>2, <2>3, <2>4, NoneApart, Zenon
<1> QED BY Zenon, <1>2, <1>3

LEMMA ReapersKept ==
  ASSUME BrokerInv, NEW a, KeyMoves(a), ItemMoves(a), UNCHANGED <<reap, reconciler>> PROVE ReapersOK'
<1>1. ReapersOK /\ KeysOnward /\ ItemsOnward
  BY KeysGoOn, ItemsGoOn, Zenon DEF BrokerInv
<1>2. reconciler.key \in Keys \cup {None} /\ reap.item \in Items \cup {None}
  BY Zenon DEF BrokerInv, TypeOK
<1> QED BY <1>1, <1>2, Zenon DEF ReapersOK, KeysOnward, ItemsOnward

(***************************************************************************)
(* What is left to show of a step: of the steps of a thread that leave the *)
(* correlations alone, and of the steps of the others.                     *)
(***************************************************************************)
\* What a terminal row, its ledger row and its slot say is final.
TerminalStays ==
  \A k \in Keys : admission[k].state = "terminal" =>
    admission'[k] = admission[k] /\ ledger'[k] = ledger[k] /\ slot'[k] = slot[k]

LEMMA TerminalKept ==
  ASSUME NEW a, KeyMoves(a) PROVE TerminalStays
<1> SUFFICES ASSUME NEW l \in Keys, admission[l].state = "terminal"
             PROVE  admission'[l] = admission[l] /\ ledger'[l] = ledger[l] /\ slot'[l] = slot[l]
  BY Zenon DEF TerminalStays
<1>1. CASE KeysStay
  BY <1>1, Zenon DEF KeysStay
<1>2. ASSUME NEW k \in Keys, KeyStep(a, k) PROVE Only(k) /\ admission[k].state # "terminal"
  BY Zenon, <1>2 DEF KeyStep, Takes, Lapses, Begins, Stages, Ends
<1> QED BY <1>1, <1>2, Zenon DEF KeyMoves, Only

LEMMA Assembled ==
  ASSUME BrokerInv, NEW a, KeyMoves(a), KeyTables', ItemMoves(a), item' \in [Items -> WorkItem],
         run' \in [Runs -> Thread], OtherTypes', others' = others,
         \A r \in Runs : ThreadOK(r)', \A j \in Jobs : JobOK(j)', RunningIsAddressable', ReapersOK'
  PROVE  BrokerInv' /\ TerminalStays
<1>1. TypeOK'
  BY Zenon DEF TypeOK, KeyTables, OtherTypes, Row, Thread, WorkItem
<1>2. CountInv' /\ (\A i \in Items : ItemOK(i)')
  BY CountsKept, ItemsKept, Zenon
<1>3. \A k \in Keys : RowOK(k)'
  BY ItemsGoOn, RowsKept, Zenon
<1>4. TerminalStays
  BY TerminalKept, Zenon
<1> QED BY <1>1, <1>2, <1>3, <1>4, Zenon DEF BrokerInv

LEMMA ThreadStep ==
  ASSUME BrokerInv, NEW r \in Runs, KeyMoves(r), KeyTables', ItemMoves(r), item' \in [Items -> WorkItem], Silent,
         run' \in [Runs -> Thread], \A q \in Runs \ {r} : run'[q] = run[q],
         UNCHANGED <<active, sidecar, reap, reconciler, others>>,
         run[r].pc \in Owning => run'[r].pc \in Owning /\ run'[r].key = run[r].key,
         ThreadOK(r)'
  PROVE  BrokerInv' /\ TerminalStays
<1>1. \A q \in Runs : ThreadOK(q)'
  BY ThreadSteady, Zenon
<1>2. TypeOK /\ \A j \in Jobs : JobOK(j)
  BY Zenon DEF BrokerInv
<1>3. OtherTypes /\ OtherTypes'
  BY <1>2, Types, Zenon DEF OtherTypes
<1>4. ASSUME NEW j \in Jobs PROVE JobOK(j)'
  <2>1. active'[j] = active[j] /\ sidecar'[j] = sidecar[j] /\ active[j].owner \in Runs \cup {None}
    BY <1>3, Zenon DEF OtherTypes
  <2>2. active'[j].owner # None =>
           run'[active[j].owner].pc \in Owning /\ run'[active[j].owner].key = run[active[j].owner].key
    BY <1>2, <2>1, Zenon DEF JobOK
  <2> QED BY <2>1, <2>2, JobsKept, Zenon
<1>5. RunningIsAddressable'
  BY AddressableKept, Zenon
<1>6. ReapersOK'
  BY ReapersKept, Zenon
<1> QED BY <1>1, <1>3, <1>4, <1>5, <1>6, Assembled, Zenon

LEMMA SystemStep ==
  ASSUME BrokerInv, KeyMoves(None), KeyTables', ItemMoves(None), item' \in [Items -> WorkItem], Silent,
         UNCHANGED <<run, active, sidecar, others>>, OtherTypes', ReapersOK'
  PROVE  BrokerInv' /\ TerminalStays
<1>1. \A q \in Runs : ThreadOK(q)'
  BY ThreadSteady, NoneApart, Zenon
<1>2. TypeOK /\ \A j \in Jobs : JobOK(j)
  BY Zenon DEF BrokerInv
<1>3. run' \in [Runs -> Thread]
  BY <1>2, Types, Zenon
<1>4. ASSUME NEW j \in Jobs PROVE JobOK(j)'
  <2>1. active'[j] = active[j] /\ sidecar'[j] = sidecar[j] /\ run' = run
    BY Zenon
  <2>2. active'[j].owner # None =>
           run'[active[j].owner].pc \in Owning /\ run'[active[j].owner].key = run[active[j].owner].key
    BY <1>2, <2>1, Zenon DEF JobOK
  <2> QED BY <2>1, <2>2, JobsKept, Zenon
<1>5. RunningIsAddressable'
  BY AddressableKept, Zenon
<1> QED BY <1>1, <1>3, <1>4, <1>5, Assembled, Zenon

\* A step of a thread that touches nothing but the thread.
LEMMA ThreadOnly ==
  ASSUME BrokerInv, NEW r \in Runs, run' \in [Runs -> Thread], \A q \in Runs \ {r} : run'[q] = run[q],
         UNCHANGED <<admission, ledger, slot, active, sidecar, item, reap, reconciler, others, starts>>,
         run[r].pc \in Owning => run'[r].pc \in Owning /\ run'[r].key = run[r].key,
         ThreadOK(r)'
  PROVE  BrokerInv' /\ TerminalStays
<1>1. KeyMoves(r) /\ ItemMoves(r) /\ Silent
  BY Zenon DEF KeyMoves, KeysStay, ItemMoves, Steady, Silent
<1>2. KeyTables' /\ item' \in [Items -> WorkItem]
  BY Types, Zenon DEF BrokerInv, KeyTables
<1> QED BY <1>1, <1>2, ThreadStep, Zenon

LEMMA Known ==
  ASSUME BrokerInv
  PROVE  /\ KeyTables /\ run \in [Runs -> Thread] /\ item \in [Items -> WorkItem] /\ OtherTypes
         /\ \A r \in Runs : ThreadOK(r) /\ (run[r].pc # "idle" => run[r].key \in Keys)
                              /\ run[r].outcome \in {None, "failed", "refused"}
         /\ \A k \in Keys : RowOK(k) /\ (admission[k].live => k \in LiveKeys)
         /\ \A i \in Items : ItemOK(i)
<1>1. TypeOK /\ (\A r \in Runs : ThreadOK(r)) /\ (\A k \in Keys : RowOK(k)) /\ (\A i \in Items : ItemOK(i))
  BY Zenon DEF BrokerInv
<1>2. \A r \in Runs : (run[r].pc # "idle" => run[r].key \in Keys) /\ run[r].outcome \in {None, "failed", "refused"}
  BY <1>1, Zenon DEF ThreadOK
<1>3. \A k \in Keys : admission[k].live => k \in LiveKeys
  BY <1>1, Zenon DEF RowOK
<1> QED BY <1>1, <1>2, <1>3, Types, Zenon

(***************************************************************************)
(* The steps of a thread.                                                  *)
(***************************************************************************)
LEMMA FailsStep ==
  ASSUME BrokerInv, NEW r \in Runs, Refuse(r) \/ StartFails(r) \/ SubmitFails(r) \/ PollFails(r)
  PROVE  BrokerInv' /\ TerminalStays
<1>1. /\ run' = [run EXCEPT ![r].pc = "unwinding", ![r].outcome = "failed"] /\ run[r].pc # "idle"
      /\ UNCHANGED <<admission, ledger, slot, active, sidecar, item, reap, reconciler, others, starts>>
  BY Zenon DEF Refuse, StartFails, SubmitFails, PollFails
<1>2. run' \in [Runs -> Thread] /\ Moves(r, "unwinding", run[r].key, run[r].item, "failed")
  BY Zenon, <1>1, Known, ThreadOutcome DEF RunPCs
<1>3. ThreadOK(r)'
  BY <1>1, <1>2, Known, ThreadQuiet, Zenon DEF Moves
<1> QED BY <1>1, <1>2, <1>3, ThreadOnly, Zenon DEF Moves, Owning

LEMMA AdmitStep ==
  ASSUME BrokerInv, NEW r \in Runs, NEW k \in Keys, NEW live \in BOOLEAN, Admit(r, k, live)
  PROVE  BrokerInv' /\ TerminalStays
<1>1. KeyTables' /\ Takes(k, r, live, 1)
  BY Known, LeaseTaken, Zenon DEF Admit
<1>2. KeyMoves(r) /\ ItemMoves(r) /\ Silent
  BY <1>1, Zenon DEF KeyMoves, KeyStep, ItemMoves, Steady, Silent, Admit
<1>3. run' \in [Runs -> Thread] /\ Moves(r, "admitted", k, None, None)
  BY Known, ThreadAdmitted, Zenon DEF Admit
<1>4. ThreadOK(r)'
  BY Zenon, <1>1, <1>3 DEF Takes, Moves, ThreadOK, Started, Owns
<1>5. item' \in [Items -> WorkItem] /\ run[r].pc \notin Owning /\ UNCHANGED <<active, sidecar, reap, reconciler, others>>
  BY Zenon, Known DEF Admit, Owning
<1> QED BY <1>1, <1>2, <1>3, <1>4, <1>5, ThreadStep, Zenon DEF Moves

LEMMA OverQuotaStep ==
  ASSUME BrokerInv, NEW r \in Runs, NEW k \in Keys, NEW live \in BOOLEAN, AdmitOverQuota(r, k, live)
  PROVE  BrokerInv' /\ TerminalStays
<1>1. KeyTables' /\ Takes(k, r, live, 0)
  BY Known, LeaseTaken, Zenon DEF AdmitOverQuota
<1>2. KeyMoves(r) /\ ItemMoves(r) /\ Silent
  BY <1>1 DEF KeyMoves, KeyStep, ItemMoves, Steady, Silent, AdmitOverQuota
<1>3. run' \in [Runs -> Thread] /\ Moves(r, "unwinding", k, None, "refused")
  BY Known, ThreadRefused, Zenon DEF AdmitOverQuota
<1>4. ThreadOK(r)'
  BY <1>3, ThreadQuiet, Zenon DEF Moves
<1>5. item' \in [Items -> WorkItem] /\ run[r].pc \notin Owning /\ UNCHANGED <<active, sidecar, reap, reconciler, others>>
  BY Zenon, Known DEF AdmitOverQuota, Owning
<1> QED BY ZenonT(30), <1>1, <1>2, <1>3, <1>4, <1>5, ThreadStep DEF Moves

LEMMA CapacityWaitStep ==
  ASSUME BrokerInv, NEW r \in Runs, CapacityWait(r)
  PROVE  BrokerInv' /\ TerminalStays
<1> DEFINE k == run[r].key
<1>1. run[r].pc = "admitted" /\ k \in Keys /\ run' = [run EXCEPT ![r] = Resting]
      /\ UNCHANGED <<ledger, slot, active, sidecar, item, reap, reconciler, others, starts>>
  BY Zenon, Known DEF CapacityWait
<1>2. KeyTables' /\ KeyMoves(r)
  <2>1. CASE Owns(r, k)
    <3>1. admission' = [admission EXCEPT ![k].fresh = FALSE] /\ admission[k].state = "leased"
      BY <2>1, Zenon DEF CapacityWait, Owns
    <3>2. KeyTables' /\ Lapses(k)
      BY <1>1, <3>1, Known, LeaseLapses, Zenon
    <3> QED BY <1>1, <3>2, Zenon DEF KeyMoves, KeyStep
  <2>2. CASE ~Owns(r, k)
    BY <1>1, <2>2, Known, Zenon DEF CapacityWait, KeyMoves, KeysStay, KeyTables
  <2> QED BY Zenon, <2>1, <2>2
<1>3. run' \in [Runs -> Thread] /\ Moves(r, "idle", None, None, None)
  BY <1>1, Known, ThreadRests, Zenon
<1>4. ThreadOK(r)'
  BY <1>3, ThreadQuiet, Zenon DEF Moves
<1>5. item' \in [Items -> WorkItem] /\ run[r].pc \notin Owning /\ ItemMoves(r) /\ Silent
  BY Zenon, <1>1, Known DEF Owning, ItemMoves, Steady, Silent
<1> QED BY <1>1, <1>2, <1>3, <1>4, <1>5, ThreadStep, Zenon DEF Moves

LEMMA StartStep ==
  ASSUME BrokerInv, NEW r \in Runs, NEW paid \in BOOLEAN, Start(r, paid)
  PROVE  BrokerInv' /\ TerminalStays
<1> DEFINE k == run[r].key
           pc == IF paid THEN "submitting" ELSE "local"
<1>1. /\ run[r].pc = "admitted" /\ k \in Keys /\ Owns(r, k) /\ admission[k].state = "leased"
      /\ RowOK(k) /\ ThreadOK(r) /\ pc \in RunPCs
      /\ run' = [run EXCEPT ![r].pc = pc]
      /\ UNCHANGED <<ledger, active, sidecar, item, reap, reconciler, others>>
  BY ZenonT(30), Known DEF Start, Owns, RunPCs
<1>2. starts[k] \in 0 .. 1 /\ slot[k] = "none" /\ admission[k].result = None /\ admission[k].reserved = 1
  BY <1>1 DEF RowOK, ThreadOK
<1>3. KeyTables' /\ Begins(k, r, paid)
  BY ZenonT(30), <1>1, <1>2, Known, ExecutionBegins DEF Start
<1>4. KeyMoves(r) /\ ItemMoves(r) /\ Silent
  BY <1>1, <1>2, <1>3, Zenon DEF KeyMoves, KeyStep, ItemMoves, Steady, Silent
<1>5. run' \in [Runs -> Thread] /\ Moves(r, pc, k, run[r].item, run[r].outcome)
  BY <1>1, Known, ThreadPC, Zenon
<1>6. ThreadOK(r)'
  <2>1. \A i \in Items : item'[i].key = k => item'[i].state # "running"
    BY <1>1, <1>2, Known, Zenon DEF ItemOK
  <2>2. /\ admission'[k].token = r /\ admission'[k].state = "executing" /\ admission'[k].result # "no_charge"
        /\ slot'[k] = IF paid THEN "held" ELSE "none"
    BY <1>2, <1>3, NoneApart, Zenon DEF Begins, SameLease
  <2>3. run[r].outcome \in {None, "failed", "refused"}
    BY Known, Zenon
  <2>4. run'[r].pc = pc /\ run'[r].key = k /\ run'[r].outcome = run[r].outcome
    BY <1>5, Zenon DEF Moves
  <2> HIDE DEF k
  <2> QED BY SMTT(20), <1>1, <2>1, <2>2, <2>3, <2>4 DEF ThreadOK, Started, Owns
<1>7. item' \in [Items -> WorkItem] /\ run[r].pc \notin Owning
  BY Zenon, <1>1, Known DEF Owning
<1> QED BY ZenonT(30), <1>1, <1>3, <1>4, <1>5, <1>6, <1>7, ThreadStep DEF Moves

LEMMA SubmitStep ==
  ASSUME BrokerInv, NEW r \in Runs, NEW answered \in BOOLEAN, Submit(r, answered)
  PROVE  BrokerInv' /\ TerminalStays
<1> DEFINE k == run[r].key
<1>1. PICK i \in Items :
        /\ run[r].pc = "submitting" /\ item[i].state = "none"
        /\ item' = [item EXCEPT ![i].state = "running", ![i].key = k]
        /\ run' = IF answered THEN [run EXCEPT ![r].pc = "accepted", ![r].item = i]
                          ELSE [run EXCEPT ![r].pc = "unwinding", ![r].outcome = "failed"]
        /\ UNCHANGED <<admission, ledger, slot, active, sidecar, reap, reconciler, others, starts>>
  BY Zenon DEF Submit, Free
<1>2. k \in Keys /\ ThreadOK(r) /\ KeysStay /\ KeyTables' /\ KeyMoves(r)
  BY Zenon, <1>1, Known DEF KeysStay, KeyTables, KeyMoves
<1>3. item' \in [Items -> WorkItem] /\ Born(r, i)
  BY <1>1, <1>2, Known, ItemBorn, Zenon
<1>4. ItemMoves(r)
  BY <1>3, Zenon DEF ItemMoves
<1>5. Silent
  BY <1>3, Zenon DEF Born, OnlyItem, Silent
<1>6. CASE answered
  <2>1. run' \in [Runs -> Thread] /\ Moves(r, "accepted", k, i, run[r].outcome)
    BY ZenonT(30), <1>1, <1>6, Known, ThreadItem DEF RunPCs
  <2>2. ThreadOK(r)'
    <3>1. /\ admission[k].token = r /\ admission[k].state \in {"executing", "terminal"} /\ slot[k] # "none"
          /\ admission[k].result # "no_charge" /\ run[r].outcome \in {None, "failed", "refused"}
          /\ \A o \in Items : item[o].key = k => item[o].state # "running"
      BY Zenon, <1>1, <1>2 DEF ThreadOK, Started
    <3>2. \A o \in Items : item'[o].key = k /\ item'[o].state = "running" => o = i
      BY <1>3, <3>1, Zenon DEF Born, OnlyItem
    <3>3. item'[i].key = k
      BY <1>3, Zenon DEF Born
    <3>4. run'[r].pc = "accepted" /\ run'[r].key = k /\ run'[r].item = i /\ run'[r].outcome = run[r].outcome
      BY <2>1, Zenon DEF Moves
    <3>5. admission' = admission /\ slot' = slot
      BY Zenon, <1>1
    <3> HIDE DEF k
    <3> QED BY SMTT(20), <1>2, <3>1, <3>2, <3>3, <3>4, <3>5 DEF ThreadOK
  <2>3. run'[r].pc \in Owning /\ run'[r].key = run[r].key
    BY Zenon, <2>1 DEF Moves, Owning
  <2> QED BY ZenonT(30), <1>1, <1>2, <1>3, <1>4, <1>5, <2>1, <2>2, <2>3, ThreadStep DEF Moves
<1>7. CASE ~answered
  <2>1. run' \in [Runs -> Thread] /\ Moves(r, "unwinding", k, run[r].item, "failed")
    BY <1>1, <1>7, Known, ThreadOutcome DEF RunPCs
  <2>2. ThreadOK(r)'
    BY <1>2, <2>1, ThreadQuiet, Zenon DEF Moves
  <2>3. run'[r].pc \in Owning /\ run'[r].key = run[r].key
    BY Zenon, <2>1 DEF Moves, Owning
  <2> QED BY ZenonT(30), <1>1, <1>2, <1>3, <1>4, <1>5, <2>1, <2>2, <2>3, ThreadStep DEF Moves
<1> QED BY Zenon, <1>6, <1>7

LEMMA PollSucceedsStep ==
  ASSUME BrokerInv, NEW r \in Runs, NEW next \in {"submitting", "succeeded", "unwinding"}, PollSucceeds(r, next)
  PROVE  BrokerInv' /\ TerminalStays
<1> DEFINE k == run[r].key
<1>1. /\ run[r].pc = "polling" /\ item[run[r].item].state = "success" /\ k \in Keys /\ ThreadOK(r)
      /\ UNCHANGED <<admission, ledger, slot, active, sidecar, item, reap, reconciler, others, starts>>
  BY Zenon, Known DEF PollSucceeds
<1>2. /\ run' \in [Runs -> Thread]
      /\ Moves(r, next, k, IF next = "submitting" THEN None ELSE run[r].item,
               IF next = "unwinding" THEN "failed" ELSE run[r].outcome)
  BY Known, ThreadPolled, Zenon DEF PollSucceeds
<1>3. run'[r].pc = next /\ run'[r].key = k /\ run'[r].outcome \in {None, "failed", "refused"}
  BY Zenon, <1>2, Known DEF Moves
<1>4. /\ admission[k].token = r /\ admission[k].state \in {"executing", "terminal"} /\ slot[k] # "none"
      /\ admission[k].result # "no_charge"
      /\ \A i \in Items : item[i].key = k => item[i].state # "running"
      /\ Succeeded(k)
  BY ZenonT(30), <1>1 DEF ThreadOK, Started, Succeeded
<1>5. ThreadOK(r)'
  <2>1. admission' = admission /\ slot' = slot /\ item' = item /\ \E i \in Items : item'[i].key = k /\ item'[i].state = "success"
    BY <1>1, <1>4, Zenon DEF Succeeded
  <2> HIDE DEF k
  <2> QED BY SMTT(20), <1>1, <1>3, <1>4, <2>1 DEF ThreadOK, Started, Succeeded
<1>6. run'[r].pc \in Owning
  BY Zenon, <1>3 DEF Owning
<1> QED BY <1>1, <1>2, <1>3, <1>5, <1>6, ThreadOnly, Zenon DEF Moves

LEMMA LocalEndsStep ==
  ASSUME BrokerInv, NEW r \in Runs, NEW next \in {"succeeded", "unwinding"}, LocalEnds(r, next)
  PROVE  BrokerInv' /\ TerminalStays
<1> DEFINE k == run[r].key
           o == IF next = "unwinding" THEN "failed" ELSE run[r].outcome
<1>1. /\ run[r].pc = "local" /\ k \in Keys /\ ThreadOK(r) /\ run[r].outcome \in {None, "failed", "refused"}
      /\ UNCHANGED <<admission, ledger, slot, active, sidecar, item, reap, reconciler, others, starts>>
  BY Zenon, Known DEF LocalEnds
<1>2. run' = [run EXCEPT ![r].pc = next, ![r].outcome = o] /\ next \in RunPCs /\ o \in {"ok", "failed", "refused", None}
  BY Zenon, <1>1, Known DEF LocalEnds, RunPCs, Thread
<1>3. run' \in [Runs -> Thread] /\ Moves(r, next, k, run[r].item, o)
  BY <1>2, Known, ThreadOutcome, Zenon
<1>4. run'[r].pc = next /\ run'[r].key = k /\ run'[r].outcome \in {None, "failed", "refused"}
  BY Zenon, <1>1, <1>3 DEF Moves
<1>5. /\ admission[k].token = r /\ admission[k].state \in {"executing", "terminal"} /\ slot[k] = "none"
      /\ \A i \in Items : item[i].key = k => item[i].state # "running"
  BY Zenon, <1>1 DEF ThreadOK, Started
<1>6. ThreadOK(r)'
  <2>1. admission' = admission /\ slot' = slot /\ item' = item
    BY Zenon, <1>1
  <2> HIDE DEF k
  <2> QED BY SMTT(20), <1>1, <1>4, <1>5, <2>1 DEF ThreadOK, Started, Succeeded
<1>7. run[r].pc \notin Owning
  BY Zenon, <1>1 DEF Owning
<1> QED BY ZenonT(30), <1>1, <1>3, <1>6, <1>7, ThreadOnly DEF Moves

\* The evidence that was staged becomes the result.
LEMMA SettleIntentMoves ==
  ASSUME BrokerInv, NEW a, NEW k \in Keys, SettleIntent(k), UNCHANGED starts, slot[k] = "none" \/ Succeeded(k)
  PROVE  KeyTables' /\ KeyMoves(a)
<1>1. RowOK(k) /\ KeyTables
  BY Known, Zenon
<1>2. CASE admission[k].state = "executing"
  <2> DEFINE cost == admission[k].intent
  <2>1. Terminal(k, "ok", cost) /\ ledger[k] = None /\ "ok" \in Results
    BY <1>1, <1>2, Zenon DEF SettleIntent, RowOK, Results
  <2>4. admission[k].accounted \in BOOLEAN /\ cost \in Costs
    BY Zenon, <1>1 DEF KeyTables, Row
  <2>3. EndOK(k, "ok", cost, admission[k].accounted)
    BY Zenon, <1>1, <1>2 DEF EndOK, RowOK, KeyTables
  <2> HIDE DEF cost
  <2>2. KeyTables' /\ Ends(k, "ok", cost, admission[k].accounted)
    BY <1>1, <1>2, <2>1, <2>4, TerminalEnds, Zenon
  <2> QED BY <2>1, <2>2, <2>3, <2>4, Zenon DEF KeyMoves, KeyStep
<1>3. CASE admission[k].state # "executing"
  BY <1>1, <1>3, Zenon DEF SettleIntent, Unwritten, KeyMoves, KeysStay, KeyTables
<1> QED BY Zenon, <1>2, <1>3

LEMMA SettleStagedStep ==
  ASSUME BrokerInv, NEW r \in Runs, SettleStaged(r)
  PROVE  BrokerInv' /\ TerminalStays
<1> DEFINE k == run[r].key
<1>1. /\ run[r].pc = "dropped" /\ k \in Keys /\ ThreadOK(r) /\ SettleIntent(k) /\ run' = [run EXCEPT ![r] = Resting]
      /\ UNCHANGED <<active, sidecar, item, reap, reconciler, others, starts>>
  BY Zenon, Known DEF SettleStaged
<1>2. slot[k] = "none" \/ Succeeded(k)
  BY <1>1, Zenon DEF ThreadOK
<1>3. KeyTables' /\ KeyMoves(r)
  BY <1>1, <1>2, SettleIntentMoves, Zenon
<1>4. run' \in [Runs -> Thread] /\ Moves(r, "idle", None, None, None)
  BY ZenonT(30), <1>1, Known, ThreadRests
<1>5. ThreadOK(r)'
  BY <1>4, ThreadQuiet, Zenon DEF Moves
<1>6. item' \in [Items -> WorkItem] /\ run[r].pc \notin Owning /\ ItemMoves(r) /\ Silent
  BY Zenon, <1>1, Known DEF Owning, ItemMoves, Steady, Silent
<1> QED BY <1>1, <1>3, <1>4, <1>5, <1>6, ThreadStep, Zenon DEF Moves

\* complete_run, with what its caller must know of the result and the cost.
LEMMA CompleteRunMoves ==
  ASSUME BrokerInv, NEW r \in Runs, run[r].key \in Keys, NEW result \in Results \cup {None}, NEW cost \in Costs,
         CompleteRun(r, result, cost), UNCHANGED starts, result # "no_charge",
         cost # 0 => slot[run[r].key] # "none",
         result = "ok" => slot[run[r].key] = "none" \/ Succeeded(run[r].key)
  PROVE  KeyTables' /\ KeyMoves(r)
<1> DEFINE k == run[r].key
<1>1. RowOK(k) /\ KeyTables /\ k \in Keys
  BY Known, Zenon
<1>2. CASE admission[k].intent = 0 /\ admission[k].state \in {"leased", "executing"} /\ admission[k].token = r
  <2>1. Terminal(k, result, cost) /\ ledger[k] = None
    BY Zenon, <1>1, <1>2 DEF CompleteRun, RowOK
  <2>2. KeyTables' /\ Ends(k, result, cost, admission[k].accounted)
    BY <1>1, <1>2, <2>1, TerminalEnds, Zenon
  <2>3. EndOK(k, result, cost, admission[k].accounted)
    BY Zenon, <1>1, <1>2 DEF EndOK, RowOK, KeyTables
  <2>4. admission[k].accounted \in BOOLEAN
    BY Zenon, <1>1 DEF KeyTables, Row
  <2> QED BY <1>1, <2>2, <2>3, <2>4, Zenon DEF KeyMoves, KeyStep
<1>3. CASE ~(admission[k].intent = 0 /\ admission[k].state \in {"leased", "executing"} /\ admission[k].token = r)
  BY <1>1, <1>3, Zenon DEF CompleteRun, Unwritten, KeyMoves, KeysStay, KeyTables
<1> QED BY Zenon, <1>2, <1>3

LEMMA CompleteOkStep ==
  ASSUME BrokerInv, NEW r \in Runs, NEW cost \in Costs, CompleteOk(r, cost)
  PROVE  BrokerInv' /\ TerminalStays
<1> DEFINE k == run[r].key
<1>1. /\ run[r].pc = "succeeded" /\ k \in Keys /\ ThreadOK(r) /\ CompleteRun(r, "ok", cost)
      /\ cost # 0 => slot[k] # "none"
      /\ run' = [run EXCEPT ![r].pc = "recorded"]
      /\ UNCHANGED <<active, sidecar, item, reap, reconciler, others, starts>>
  BY Zenon, Known DEF CompleteOk
<1>2. slot[k] = "none" \/ Succeeded(k)
  BY <1>1, Zenon DEF ThreadOK
<1>3. KeyTables' /\ KeyMoves(r)
  BY Zenon, <1>1, <1>2, CompleteRunMoves DEF Results
<1>4. run' \in [Runs -> Thread] /\ Moves(r, "recorded", k, run[r].item, run[r].outcome)
  BY ZenonT(30), <1>1, Known, ThreadPC DEF RunPCs
<1>5. ThreadOK(r)'
  <2>1. /\ admission[k].token = r /\ admission[k].state \in {"executing", "terminal"}
        /\ run[r].outcome \in {None, "failed", "refused"}
        /\ \A i \in Items : item[i].key = k => item[i].state # "running"
    BY Zenon, <1>1 DEF ThreadOK, Started
  <2>2. admission'[k].token = r /\ admission'[k].state \in {"executing", "terminal"} /\ item' = item
    BY <1>1, <1>3, <2>1, KeysGoOn, Zenon DEF KeysOnward
  <2>3. run'[r].pc = "recorded" /\ run'[r].key = k /\ run'[r].outcome = run[r].outcome
    BY <1>4, Zenon DEF Moves
  <2> HIDE DEF k
  <2> QED BY SMTT(20), <1>1, <2>1, <2>2, <2>3 DEF ThreadOK, Started
<1>6. item' \in [Items -> WorkItem] /\ run'[r].pc \in Owning /\ run'[r].key = run[r].key /\ ItemMoves(r) /\ Silent
  BY SMTT(20), <1>1, <1>4, Known DEF Owning, ItemMoves, Steady, Silent, Moves
<1> QED BY <1>1, <1>3, <1>4, <1>5, <1>6, ThreadStep, Zenon DEF Moves

LEMMA CompleteFailedStep ==
  ASSUME BrokerInv, NEW r \in Runs, NEW cost \in Costs, CompleteFailed(r, cost)
  PROVE  BrokerInv' /\ TerminalStays
<1> DEFINE k == run[r].key
<1>1. /\ run[r].pc = "failing" /\ k \in Keys /\ CompleteRun(r, run[r].outcome, cost)
      /\ cost # 0 => slot[k] # "none"
      /\ run' = [run EXCEPT ![r] = Resting]
      /\ UNCHANGED <<active, sidecar, item, reap, reconciler, others, starts>>
  BY Zenon, Known DEF CompleteFailed
<1>2. run[r].outcome \in Results \cup {None} /\ run[r].outcome # "ok" /\ run[r].outcome # "no_charge"
  BY Zenon, Known, NoneApart DEF Results
<1>3. KeyTables' /\ KeyMoves(r)
  BY <1>1, <1>2, CompleteRunMoves, Zenon
<1>4. run' \in [Runs -> Thread] /\ Moves(r, "idle", None, None, None)
  BY <1>1, Known, ThreadRests, Zenon
<1>5. ThreadOK(r)'
  BY <1>4, ThreadQuiet, Zenon DEF Moves
<1>6. item' \in [Items -> WorkItem] /\ run[r].pc \notin Owning /\ ItemMoves(r) /\ Silent
  BY Zenon, <1>1, Known DEF Owning, ItemMoves, Steady, Silent
<1> QED BY ZenonT(30), <1>1, <1>3, <1>4, <1>5, <1>6, ThreadStep DEF Moves

(***************************************************************************)
(* The steps of a thread on the correlations.                              *)
(***************************************************************************)
\* Only the job of its key can have a correlation a thread owns.
LEMMA OwnJob ==
  ASSUME BrokerInv, NEW r \in Runs, NEW j \in Jobs, active[j].owner = r
  PROVE  /\ active[j].item \in Items /\ item[active[j].item].key = run[r].key
         /\ run[r].pc \in Owning /\ JobOf[run[r].key] = j /\ OwnsItem(r)
<1>1. JobOK(j) /\ active[j].item \in Items \cup {None}
  BY Zenon DEF BrokerInv, TypeOK
<1>2. run[r].pc \in Owning /\ active[j].item # None /\ item[active[j].item].key = run[r].key
  BY <1>1, NoneApart, Zenon DEF JobOK
<1>3. JobOf[item[active[j].item].key] = j
  BY <1>1, <1>2, Zenon DEF JobOK, Correlated
<1> QED BY <1>1, <1>2, <1>3, Zenon DEF OwnsItem

\* Thread r keeps no correlation, no other changes its owner, and what is dropped has ended.
Released(r) ==
  \A j \in Jobs :
    /\ sidecar'[j] \in {sidecar[j], None} /\ active'[j].item \in {active[j].item, None}
    /\ active'[j].owner # None => active'[j] = active[j]
    /\ active'[j].owner # r
    /\ \/ sidecar'[j] = sidecar[j] /\ active'[j].item = active[j].item
       \/ active[j].item = None \/ item'[active[j].item].state # "running"

Registry == active \in [Jobs -> [item: Items \cup {None}, owner: Runs \cup {None}]] /\ sidecar \in [Jobs -> Items \cup {None}]

LEMMA RegistryStep ==
  ASSUME BrokerInv, NEW r \in Runs, KeyMoves(r), KeyTables', ItemMoves(r), item' \in [Items -> WorkItem], Silent,
         run' \in [Runs -> Thread], \A q \in Runs \ {r} : run'[q] = run[q], ThreadOK(r)',
         UNCHANGED <<reap, reconciler, others>>, Registry', Released(r)
  PROVE  BrokerInv' /\ TerminalStays
<1>1. \A q \in Runs : ThreadOK(q)'
  BY ThreadSteady, Zenon
<1>2. TypeOK /\ \A j \in Jobs : JobOK(j)
  BY Zenon DEF BrokerInv
<1>3. OtherTypes'
  BY <1>2, Zenon DEF TypeOK, OtherTypes, Registry
<1>4. ASSUME NEW j \in Jobs PROVE JobOK(j)'
  <2>1. active[j].owner \in Runs \cup {None} /\ JobOK(j)
    BY <1>2, Zenon DEF TypeOK
  <2>2. /\ sidecar'[j] \in {sidecar[j], None} /\ active'[j].item \in {active[j].item, sidecar[j], None}
        /\ active'[j].owner # None => active'[j] = active[j] /\ active[j].owner # r
    BY Zenon DEF Released
  <2>3. active'[j].owner # None =>
           run'[active[j].owner].pc \in Owning /\ run'[active[j].owner].key = run[active[j].owner].key
    BY <2>1, <2>2, Zenon DEF JobOK
  <2> QED BY <2>2, <2>3, JobsKept, Zenon
<1>5. RunningIsAddressable'
  BY AddressableKept, Zenon DEF Released
<1>6. ReapersOK'
  BY ReapersKept, Zenon
<1> QED BY <1>1, <1>3, <1>4, <1>5, <1>6, Assembled, Zenon

LEMMA Evicted ==
  ASSUME BrokerInv, NEW r \in Runs, run[r].key \in Keys,
         IF OwnsItem(r) THEN Evict(JobOf[run[r].key]) ELSE Keep,
         OwnsItem(r) => item'[active[JobOf[run[r].key]].item].state # "running"
  PROVE  Registry' /\ Released(r)
<1>1. Registry /\ JobOf[run[r].key] \in Jobs
  BY BrokerAssumption, Zenon DEF BrokerInv, TypeOK, Registry
<1>2. \A j \in Jobs : active[j].owner = r => JobOf[run[r].key] = j /\ OwnsItem(r)
  BY OwnJob, Zenon
<1>3. CASE ~OwnsItem(r)
  BY <1>1, <1>2, <1>3, Zenon DEF Keep, Registry, Released
<1>4. CASE OwnsItem(r)
  <2> DEFINE own == JobOf[run[r].key]
  <2>1. active' = [active EXCEPT ![own] = Unwatched] /\ sidecar' \in {sidecar, [sidecar EXCEPT ![own] = None]}
    BY <1>4, Zenon DEF Evict, Appended
  <2>2. Unwatched \in [item: Items \cup {None}, owner: Runs \cup {None}] /\ Unwatched.item = None /\ Unwatched.owner = None
    BY Zenon DEF Unwatched
  <2>3. own \in Jobs /\ item'[active[own].item].state # "running" /\ None # r
    BY <1>1, <1>4, NoneApart, Zenon
  <2>4. \A j \in Jobs \ {own} : active[j].owner # r
    BY <1>2, Zenon
  <2> HIDE DEF own
  <2>5. /\ active'[own] = Unwatched /\ sidecar'[own] \in {sidecar[own], None}
        /\ \A j \in Jobs \ {own} : active'[j] = active[j] /\ sidecar'[j] = sidecar[j]
        /\ Registry'
    BY <1>1, <2>1, <2>2, <2>3, Zenon DEF Registry
  <2> QED BY <2>2, <2>3, <2>4, <2>5, Zenon DEF Released
<1> QED BY Zenon, <1>3, <1>4

LEMMA Disowned ==
  ASSUME BrokerInv, NEW r \in Runs, run[r].key \in Keys, sidecar' = sidecar,
         active' = [active EXCEPT ![JobOf[run[r].key]].owner = None]
  PROVE  Registry' /\ Released(r)
<1> DEFINE own == JobOf[run[r].key]
<1>1. Registry /\ own \in Jobs
  BY BrokerAssumption, Zenon DEF BrokerInv, TypeOK, Registry
<1>2. \A j \in Jobs \ {own} : active[j].owner # r
  BY OwnJob, Zenon
<1>3. active' = [active EXCEPT ![own].owner = None] /\ None # r
  BY NoneApart, Zenon
<1> HIDE DEF own
<1>4. /\ active'[own].item = active[own].item /\ active'[own].owner = None
      /\ \A j \in Jobs \ {own} : active'[j] = active[j]
      /\ active' \in [Jobs -> [item: Items \cup {None}, owner: Runs \cup {None}]]
  <2> DEFINE Rec == [item: Items \cup {None}, owner: Runs \cup {None}]
             new == [active[own] EXCEPT !.owner = None]
  <2>1. active[own] \in Rec
    BY <1>1, Zenon DEF Registry
  <2>2. new \in Rec /\ new.item = active[own].item /\ new.owner = None
    BY Zenon, <2>1
  <2>3. active' = [active EXCEPT ![own] = new]
    BY <1>3, Zenon
  <2> HIDE DEF new
  <2> QED BY <1>1, <2>2, <2>3, Zenon DEF Registry
<1> QED BY <1>1, <1>2, <1>3, <1>4, Zenon DEF Released, Registry

LEMMA DropStagedStep ==
  ASSUME BrokerInv, NEW r \in Runs, DropStaged(r)
  PROVE  BrokerInv' /\ TerminalStays
<1> DEFINE k == run[r].key
<1>1. /\ run[r].pc = "staged" /\ k \in Keys /\ ThreadOK(r) /\ run' = [run EXCEPT ![r].pc = "dropped"]
      /\ IF OwnsItem(r) THEN Evict(JobOf[k]) ELSE Keep
      /\ UNCHANGED <<admission, ledger, slot, item, reap, reconciler, others, starts>>
  BY Zenon, Known DEF DropStaged
<1>2. /\ admission[k].token = r /\ admission[k].state \in {"executing", "terminal"}
      /\ run[r].outcome \in {None, "failed", "refused"} /\ (slot[k] = "none" \/ Succeeded(k))
      /\ \A i \in Items : item[i].key = k => item[i].state # "running"
  BY Zenon, <1>1 DEF ThreadOK, Started
<1>3. OwnsItem(r) => item'[active[JobOf[k]].item].state # "running"
  <2>1. JobOf[k] \in Jobs
    BY <1>1, BrokerAssumption, Zenon
  <2> QED BY <1>1, <1>2, <2>1, OwnJob, Zenon DEF OwnsItem
<1>4. Registry' /\ Released(r)
  BY ZenonT(30), <1>1, <1>3, Evicted
<1>5. run' \in [Runs -> Thread] /\ Moves(r, "dropped", k, run[r].item, run[r].outcome)
  BY <1>1, Known, ThreadPC DEF RunPCs
<1>6. ThreadOK(r)'
  <2>1. admission' = admission /\ slot' = slot /\ item' = item
    BY Zenon, <1>1
  <2>2. run'[r].pc = "dropped" /\ run'[r].key = k /\ run'[r].outcome = run[r].outcome
    BY <1>5, Zenon DEF Moves
  <2> HIDE DEF k
  <2> QED BY SMTT(20), <1>1, <1>2, <2>1, <2>2 DEF ThreadOK, Started, Succeeded
<1>7. item' \in [Items -> WorkItem] /\ KeyTables' /\ KeyMoves(r) /\ ItemMoves(r) /\ Silent
  BY <1>1, Known, Zenon DEF ItemMoves, Steady, Silent, KeyMoves, KeysStay, KeyTables
<1> QED BY ZenonT(30), <1>1, <1>4, <1>5, <1>6, <1>7, RegistryStep DEF Moves

LEMMA DropRecordedStep ==
  ASSUME BrokerInv, NEW r \in Runs, DropRecorded(r)
  PROVE  BrokerInv' /\ TerminalStays
<1> DEFINE k == run[r].key
<1>1. /\ run[r].pc = "recorded" /\ k \in Keys /\ ThreadOK(r) /\ run' = [run EXCEPT ![r] = Resting]
      /\ IF OwnsItem(r) THEN Evict(JobOf[k]) ELSE Keep
      /\ UNCHANGED <<admission, ledger, slot, item, reap, reconciler, others, starts>>
  BY Zenon, Known DEF DropRecorded
<1>2. \A i \in Items : item[i].key = k => item[i].state # "running"
  BY Zenon, <1>1 DEF ThreadOK, Started
<1>3. OwnsItem(r) => item'[active[JobOf[k]].item].state # "running"
  <2>1. JobOf[k] \in Jobs
    BY <1>1, BrokerAssumption, Zenon
  <2> QED BY <1>1, <1>2, <2>1, OwnJob, Zenon DEF OwnsItem
<1>4. Registry' /\ Released(r)
  BY <1>1, <1>3, Evicted, Zenon
<1>5. run' \in [Runs -> Thread] /\ Moves(r, "idle", None, None, None)
  BY <1>1, Known, ThreadRests, Zenon
<1>6. ThreadOK(r)'
  BY <1>5, ThreadQuiet, Zenon DEF Moves
<1>7. item' \in [Items -> WorkItem] /\ KeyTables' /\ KeyMoves(r) /\ ItemMoves(r) /\ Silent
  BY <1>1, Known, Zenon DEF ItemMoves, Steady, Silent, KeyMoves, KeysStay, KeyTables
<1> QED BY ZenonT(30), <1>1, <1>4, <1>5, <1>6, <1>7, RegistryStep DEF Moves

\* The broker learns no id from a DELETE.
LEMMA DeletedSilent ==
  ASSUME item \in [Items -> WorkItem], NEW i \in Items, item' = Deleted(i)
  PROVE  Silent
<1>1. CASE item[i].state = "running"
  <2>1. item' = [item EXCEPT ![i].state = "cancelled"]
    BY <1>1, Zenon DEF Deleted
  <2>2. Finished(i)
    BY <1>1, <2>1, ItemFinished, Zenon
  <2> QED BY <2>2, Zenon DEF Silent, Finished, OnlyItem
<1>2. CASE item[i].state # "running"
  BY <1>2, Zenon DEF Deleted, Silent
<1> QED BY Zenon, <1>1, <1>2

\* Of the keys of a job at most one ever took a slot: only one may run live.
LEMMA OneSlotPerJob ==
  ASSUME BrokerInv, NEW k \in Keys, NEW l \in Keys, slot[k] # "none", JobOf[k] = JobOf[l],
         slot[l] # "none" \/ admission[l].live
  PROVE  k = l
<1>1. k \in LiveKeys /\ l \in LiveKeys
  BY Zenon DEF BrokerInv, RowOK
<1> QED BY <1>1, BrokerAssumption, Zenon

LEMMA StageStep ==
  ASSUME BrokerInv, NEW r \in Runs, NEW cost \in Costs, Stage(r, cost)
  PROVE  BrokerInv' /\ TerminalStays
<1> DEFINE k == run[r].key
<1>1. /\ run[r].pc = "succeeded" /\ k \in Keys /\ ThreadOK(r)
      /\ UNCHANGED <<ledger, slot, sidecar, item, reap, reconciler, others, starts>>
  BY Zenon, Known DEF Stage
<1>2. /\ admission[k].token = r /\ admission[k].state \in {"executing", "terminal"}
      /\ run[r].outcome \in {None, "failed", "refused"} /\ (slot[k] = "none" \/ Succeeded(k))
      /\ \A i \in Items : item[i].key = k => item[i].state # "running"
  BY Zenon, <1>1 DEF ThreadOK, Started
<1>3. item' \in [Items -> WorkItem] /\ ItemMoves(r) /\ Silent
  BY <1>1, Known, Zenon DEF ItemMoves, Steady, Silent
<1>4. CASE admission[k].state = "executing"
  <2>1. /\ admission' = [admission EXCEPT ![k].intent = cost] /\ active' = active
        /\ run' = [run EXCEPT ![r] = [@ EXCEPT !.pc = "staged"]]
    BY <1>2, <1>4, Zenon DEF Stage
  <2>2. run' = [run EXCEPT ![r].pc = "staged"]
    BY <2>1, Zenon
  <2>3. KeyTables' /\ Stages(k, cost)
    BY <1>1, <1>4, <2>1, Known, IntentStaged, Zenon
  <2>4. KeyMoves(r)
    BY ZenonT(30), <1>1, <1>2, <2>3 DEF KeyMoves, KeyStep
  <2>5. run' \in [Runs -> Thread] /\ Moves(r, "staged", k, run[r].item, run[r].outcome)
    BY <2>2, Known, ThreadPC DEF RunPCs
  <2>6. ThreadOK(r)'
    <3>1. admission'[k].token = r /\ admission'[k].state = "executing" /\ slot' = slot /\ item' = item
      BY <1>1, <1>2, <2>3, Zenon DEF Stages, SameLease
    <3>2. run'[r].pc = "staged" /\ run'[r].key = k /\ run'[r].outcome = run[r].outcome
      BY <2>5, Zenon DEF Moves
    <3> HIDE DEF k
    <3> QED BY SMTT(20), <1>1, <1>2, <3>1, <3>2 DEF ThreadOK, Started, Succeeded
  <2>7. run'[r].pc \in Owning /\ run'[r].key = run[r].key
    BY Zenon, <2>5 DEF Moves, Owning
  <2> QED BY ZenonT(30), <1>1, <1>3, <2>1, <2>3, <2>4, <2>5, <2>6, <2>7, ThreadStep DEF Moves
<1>5. CASE admission[k].state # "executing"
  <2>1. /\ admission' = admission /\ active' = [active EXCEPT ![JobOf[k]].owner = None]
        /\ run' = [run EXCEPT ![r] = Resting]
    BY <1>5, Zenon DEF Stage
  <2>2. Registry' /\ Released(r)
    BY <1>1, <2>1, Disowned, Zenon
  <2>3. run' \in [Runs -> Thread] /\ Moves(r, "idle", None, None, None)
    BY <2>1, Known, ThreadRests, Zenon
  <2>4. ThreadOK(r)'
    BY <2>3, ThreadQuiet, Zenon DEF Moves
  <2>5. KeyTables' /\ KeyMoves(r)
    BY <1>1, <2>1, Known, Zenon DEF KeyMoves, KeysStay, KeyTables
  <2> QED BY <1>1, <1>3, <2>2, <2>3, <2>4, <2>5, RegistryStep, Zenon DEF Moves
<1> QED BY Zenon, <1>4, <1>5

LEMMA ReapOrDisownStep ==
  ASSUME BrokerInv, NEW r \in Runs, NEW cancelled \in BOOLEAN, ReapOrDisown(r, cancelled)
  PROVE  BrokerInv' /\ TerminalStays
<1> DEFINE k == run[r].key
           j == JobOf[k]
<1>1. /\ run[r].pc = "unwinding" /\ k \in Keys /\ run' = [run EXCEPT ![r].pc = "failing"]
      /\ UNCHANGED <<admission, ledger, slot, reap, reconciler, others, starts>>
  BY ZenonT(30), Known DEF ReapOrDisown
<1>2. run' \in [Runs -> Thread] /\ Moves(r, "failing", k, run[r].item, run[r].outcome)
  BY <1>1, Known, ThreadPC DEF RunPCs
<1>3. ThreadOK(r)'
  BY <1>1, <1>2, Known, ThreadQuiet, Zenon DEF Moves
<1>4. KeyTables' /\ KeyMoves(r)
  BY <1>1, Known, Zenon DEF KeyMoves, KeysStay, KeyTables
<1>5. j \in Jobs
  BY <1>1, BrokerAssumption, Zenon
<1>6. CASE ~OwnsItem(r)
  <2>1. Keep /\ item' = item
    BY <1>6, Zenon DEF ReapOrDisown
  <2>2. Registry' /\ Released(r)
    BY <1>1, <1>6, <2>1, Evicted, Zenon
  <2>3. item' \in [Items -> WorkItem] /\ ItemMoves(r) /\ Silent
    BY <2>1, Known, Zenon DEF ItemMoves, Steady, Silent
  <2> QED BY <1>1, <1>2, <1>3, <1>4, <2>2, <2>3, RegistryStep, Zenon DEF Moves
<1>7. CASE OwnsItem(r) /\ cancelled
  <2>1. Evict(j) /\ item' = Deleted(active[j].item)
    BY <1>7, Zenon DEF ReapOrDisown
  <2>2. active[j].item \in Items
    BY <1>5, <1>7, OwnJob, Zenon DEF OwnsItem
  <2>3. item' \in [Items -> WorkItem] /\ ItemMoves(r) /\ item'[active[j].item].state # "running"
    BY <2>1, <2>2, Known, ItemDeleted, Zenon
  <2>4. Registry' /\ Released(r)
    BY <1>1, <1>7, <2>1, <2>3, Evicted, Zenon
  <2>5. Silent
    BY ZenonT(30), <2>1, <2>2, Known, DeletedSilent
  <2> QED BY ZenonT(30), <1>1, <1>2, <1>3, <1>4, <2>3, <2>4, <2>5, RegistryStep DEF Moves
<1>8. CASE OwnsItem(r) /\ ~cancelled
  <2>1. active' = [active EXCEPT ![j].owner = None] /\ sidecar' = sidecar /\ item' = item
    BY <1>8, Zenon DEF ReapOrDisown
  <2>2. Registry' /\ Released(r)
    BY <1>1, <2>1, Disowned, Zenon
  <2>3. item' \in [Items -> WorkItem] /\ ItemMoves(r) /\ Silent
    BY <2>1, Known, Zenon DEF ItemMoves, Steady, Silent
  <2> QED BY <1>1, <1>2, <1>3, <1>4, <2>2, <2>3, RegistryStep, Zenon DEF Moves
<1> QED BY <1>6, <1>7, <1>8

LEMMA RecordStep ==
  ASSUME BrokerInv, NEW r \in Runs, NEW written \in BOOLEAN, Record(r, written)
  PROVE  BrokerInv' /\ TerminalStays
<1> DEFINE k == run[r].key
           i == run[r].item
           j == JobOf[k]
           n == IF written THEN "saved" ELSE "memory"
<1>1. /\ run[r].pc = "accepted" /\ k \in Keys /\ ThreadOK(r)
      /\ active' = [active EXCEPT ![j] = [item |-> i, owner |-> r]]
      /\ sidecar' = IF written THEN [sidecar EXCEPT ![j] = i] ELSE sidecar
      /\ item' = [item EXCEPT ![i].known = n]
      /\ run' = [run EXCEPT ![r].pc = "polling"]
      /\ UNCHANGED <<admission, ledger, slot, reap, reconciler, others, starts>>
  BY Zenon, Known DEF Record, Appended
<1>2. /\ admission[k].token = r /\ admission[k].state \in {"executing", "terminal"}
      /\ run[r].outcome \in {None, "failed", "refused"} /\ slot[k] # "none" /\ admission[k].result # "no_charge"
      /\ i \in Items /\ item[i].key = k
      /\ \A o \in Items : item[o].key = k /\ item[o].state = "running" => o = i
  BY Zenon, <1>1 DEF ThreadOK, Started
<1>3. item[i].state # "none" /\ j \in Jobs
  BY ZenonT(30), <1>1, <1>2, Known, NoneApart, BrokerAssumption DEF ItemOK
<1>4. item' \in [Items -> WorkItem] /\ Steady /\ item'[i].known = n /\ OnlyItem(i)
  <2>1. n \in {"memory", "saved"}
    BY Zenon
  <2> HIDE DEF n
  <2> QED BY <1>1, <1>2, <1>3, <2>1, Known, ItemNoted, Zenon
<1>5. ItemMoves(r) /\ ItemsOnward /\ KeyTables' /\ KeyMoves(r)
  BY ZenonT(30), <1>1, <1>2, <1>4, Known, ItemsGoOn DEF ItemMoves, KeyMoves, KeysStay, KeyTables
<1>6. run' \in [Runs -> Thread] /\ Moves(r, "polling", k, i, run[r].outcome)
  BY <1>1, Known, ThreadPC DEF RunPCs
<1>7. \A o \in Items : item'[o].state = item[o].state /\ item'[o].key = item[o].key
  BY <1>4, Zenon DEF Steady
<1>8. ThreadOK(r)'
  <2>1. admission' = admission /\ slot' = slot
    BY Zenon, <1>1
  <2>2. run'[r].pc = "polling" /\ run'[r].key = k /\ run'[r].outcome = run[r].outcome /\ run'[r].item = i
    BY <1>6, Zenon DEF Moves
  <2>3. item'[i].key = k /\ \A o \in Items : item'[o].key = k /\ item'[o].state = "running" => o = i
    BY <1>2, <1>7, Zenon
  <2> HIDE DEF k, i, j
  <2> QED BY SMTT(20), <1>1, <1>2, <2>1, <2>2, <2>3 DEF ThreadOK, Started
<1>9. \A q \in Runs : ThreadOK(q)'
  BY <1>5, <1>6, <1>8, ThreadSteady, Zenon DEF Moves
<1> DEFINE mine == [item |-> i, owner |-> r]
<1>10. mine \in [item: Items \cup {None}, owner: Runs \cup {None}] /\ mine.item = i /\ mine.owner = r
  BY <1>2, Zenon
<1>11. active' = [active EXCEPT ![j] = mine]
  BY <1>1, Zenon
<1> HIDE DEF mine, k, i, j
<1>12. OtherTypes /\ (sidecar' = IF written THEN [sidecar EXCEPT ![j] = i] ELSE sidecar) /\ UNCHANGED <<reap, reconciler, others>>
  BY <1>1, Known, Zenon
<1>13. /\ active'[j] = mine /\ active' \in [Jobs -> [item: Items \cup {None}, owner: Runs \cup {None}]]
       /\ \A l \in Jobs \ {j} : active'[l] = active[l]
  BY <1>3, <1>10, <1>11, <1>12, Zenon DEF OtherTypes
<1>14. /\ sidecar'[j] = (IF written THEN i ELSE sidecar[j]) /\ sidecar' \in [Jobs -> Items \cup {None}]
       /\ \A l \in Jobs \ {j} : sidecar'[l] = sidecar[l]
  BY <1>2, <1>3, <1>12, Zenon DEF OtherTypes
<1>15. /\ active'[j].item = i /\ active'[j].owner = r /\ OtherTypes'
       /\ sidecar'[j] = IF written THEN i ELSE sidecar[j]
       /\ \A l \in Jobs \ {j} : active'[l] = active[l] /\ sidecar'[l] = sidecar[l]
  BY <1>10, <1>12, <1>13, <1>14, Zenon DEF OtherTypes
<1>16. ASSUME NEW l \in Jobs PROVE JobOK(l)'
  <2>1. CASE l = j
    <3>1. item'[i].key = k /\ item'[i].state # "none" /\ JobOf[item'[i].key] = l
      BY <1>2, <1>3, <1>7, <2>1, Zenon DEF j
    <3>2. run'[r].pc \in Owning /\ run'[r].key = k
      BY Zenon, <1>6 DEF Moves, Owning
    <3>3. active'[l].item = i /\ active'[l].owner = r /\ sidecar'[l] \in {i, sidecar[l]}
      BY Zenon, <1>15, <2>1
    <3>4. sidecar[l] # None => item'[sidecar[l]].state # "none" /\ JobOf[item'[sidecar[l]].key] = l
      <4>1. JobOK(l) /\ sidecar[l] \in Items \cup {None}
        BY <1>12, Zenon DEF BrokerInv, OtherTypes
      <4> QED BY <1>7, <4>1, Zenon DEF JobOK, Correlated
    <3> QED BY SMTT(20), <1>2, <3>1, <3>2, <3>3, <3>4, NoneApart DEF JobOK, Correlated
  <2>2. CASE l # j
    <3>1. active'[l] = active[l] /\ sidecar'[l] = sidecar[l] /\ active[l].owner \in Runs \cup {None} /\ JobOK(l)
      BY <1>15, <2>2, Known, Zenon DEF OtherTypes, BrokerInv
    <3>2. active[l].owner # r
      BY <2>2, OwnJob, Zenon DEF k, j
    <3>3. active'[l].owner # None =>
           run'[active[l].owner].pc \in Owning /\ run'[active[l].owner].key = run[active[l].owner].key
      BY <1>6, <3>1, <3>2, Zenon DEF JobOK, Moves
    <3> QED BY <1>5, <3>1, <3>3, JobsKept, Zenon
  <2> QED BY Zenon, <2>1, <2>2
<1>17. RunningIsAddressable'
  <2> SUFFICES ASSUME NEW o \in Items, item'[o].state = "running"
               PROVE  /\ item'[o].known # "no" => active'[JobOf[item'[o].key]].item = o
                      /\ item'[o].known = "saved" => sidecar'[JobOf[item'[o].key]] = o
    BY Zenon DEF RunningIsAddressable
  <2>1. CASE o = i
    <3>1. JobOf[item'[o].key] = j
      BY ZenonT(30), <1>2, <1>7, <2>1 DEF j
    <3>2. item'[o].known = "saved" => written
      BY Zenon, <1>4, <2>1
    <3> QED BY <1>15, <2>1, <3>1, <3>2, Zenon
  <2>2. CASE o # i
    <3>1. item'[o] = item[o]
      BY <1>2, <1>4, <2>2, Zenon DEF OnlyItem
    <3>2. ItemOK(o) /\ RunningIsAddressable /\ item[o].state = "running"
      BY <3>1, Zenon DEF BrokerInv
    <3>3. item[o].key \in Keys /\ slot[item[o].key] # "none"
      BY Zenon, <3>2 DEF ItemOK
    <3>4. JobOf[item[o].key] # j
      BY ZenonT(30), <1>1, <1>2, <2>2, <3>2, <3>3, OneSlotPerJob DEF j
    <3>5. JobOf[item[o].key] \in Jobs
      BY <3>3, BrokerAssumption, Zenon
    <3>6. /\ item[o].known # "no" => active[JobOf[item[o].key]].item = o
          /\ item[o].known = "saved" => sidecar[JobOf[item[o].key]] = o
      BY <3>2, Zenon DEF RunningIsAddressable
    <3>7. active'[JobOf[item[o].key]] = active[JobOf[item[o].key]] /\ sidecar'[JobOf[item[o].key]] = sidecar[JobOf[item[o].key]]
      BY <1>15, <3>4, <3>5, Zenon
    <3> QED BY SMTT(20), <3>1, <3>6, <3>7
  <2> QED BY Zenon, <2>1, <2>2
<1>18. ReapersOK'
  BY <1>1, <1>5, ReapersKept, Zenon
<1>19. others' = others
  BY Zenon, <1>1
<1> QED BY ZenonT(30), <1>4, <1>5, <1>6, <1>9, <1>15, <1>16, <1>17, <1>18, <1>19, Assembled

LEMMA RunSteps ==
  ASSUME BrokerInv, NEW r \in Runs, RunStep(r) PROVE BrokerInv' /\ TerminalStays
BY ZenonT(30), AdmitStep, OverQuotaStep, FailsStep, CapacityWaitStep, RecordStep, StageStep, DropStagedStep, SettleStagedStep,
   DropRecordedStep, StartStep, SubmitStep, ReapOrDisownStep, PollSucceedsStep, LocalEndsStep, CompleteOkStep,
   CompleteFailedStep, Zenon DEF RunStep

(***************************************************************************)
(* The steps of APS, the clock, broker_reap, the reconciler, the operator, *)
(* the other tenants and the crash.                                        *)
(***************************************************************************)
LEMMA ItemEndsStep ==
  ASSUME BrokerInv, NEW i \in Items, NEW outcome \in {"success", "failed"}, ItemEnds(i, outcome)
  PROVE  BrokerInv' /\ TerminalStays
<1>1. /\ item[i].state = "running" /\ item' = [item EXCEPT ![i].state = outcome]
      /\ UNCHANGED <<admission, ledger, slot, run, active, sidecar, reap, reconciler, others, starts>>
  BY Zenon DEF ItemEnds
<1>2. item' \in [Items -> WorkItem] /\ Finished(i)
  BY <1>1, Known, ItemFinished
<1>3. ItemMoves(None) /\ KeyMoves(None) /\ KeyTables' /\ OtherTypes'
  BY <1>1, <1>2, Known, Zenon DEF ItemMoves, KeyMoves, KeysStay, KeyTables, OtherTypes
<1>4. Silent
  BY <1>2, Zenon DEF Silent, Finished, OnlyItem
<1>5. ReapersOK'
  BY <1>1, <1>3, ReapersKept, Zenon
<1> QED BY ZenonT(30), <1>1, <1>2, <1>3, <1>4, <1>5, SystemStep

\* A transaction on one key, and nothing else.
LEMMA StoreStep ==
  ASSUME BrokerInv, KeyMoves(None), KeyTables', UNCHANGED <<run, active, sidecar, item, reap, reconciler, others>>
  PROVE  BrokerInv' /\ TerminalStays
<1>1. ItemMoves(None) /\ item' \in [Items -> WorkItem] /\ Silent /\ OtherTypes'
  BY Known, Zenon DEF ItemMoves, Steady, Silent, OtherTypes
<1>2. ReapersOK'
  BY <1>1, ReapersKept, Zenon
<1> QED BY <1>1, <1>2, SystemStep, Zenon

LEMMA LeaseExpiresStep ==
  ASSUME BrokerInv, NEW k \in Keys, LeaseExpires(k) PROVE BrokerInv' /\ TerminalStays
<1>1. KeyTables' /\ Lapses(k)
  BY Known, LeaseLapses, Zenon DEF LeaseExpires
<1> QED BY <1>1, StoreStep, Zenon DEF LeaseExpires, KeyMoves, KeyStep

LEMMA ReconcileIntentStep ==
  ASSUME BrokerInv, NEW k \in Keys, ReconcileIntent(k) PROVE BrokerInv' /\ TerminalStays
<1>1. slot[k] = "none" \/ Succeeded(k)
  BY Known, Zenon DEF ReconcileIntent, RowOK
<1>2. KeyTables' /\ KeyMoves(None)
  BY <1>1, SettleIntentMoves, Zenon DEF ReconcileIntent
<1> QED BY <1>2, StoreStep, Zenon DEF ReconcileIntent

\* reconcile_executing of a row without staged evidence.
LEMMA ResolveMoves ==
  ASSUME BrokerInv, NEW k \in Keys, NEW result \in Results, NEW cost \in Costs, Resolve(k, result, cost), UNCHANGED starts,
         admission[k].state = "executing", admission[k].intent = 0,
         result = "no_charge" => (\A i \in Items : item[i].key # k) /\ (slot[k] = "none" \/ Left(k)),
         result # "no_charge" => slot[k] # "none", result = "ok" => Succeeded(k)
  PROVE  KeyTables' /\ KeyMoves(None)
<1>1. RowOK(k) /\ KeyTables
  BY Known, Zenon
<1>2. KeyTables' /\ Ends(k, result, cost, result # "no_charge")
  BY <1>1, ResolveEnds, Zenon
<1>3. EndOK(k, result, cost, result # "no_charge")
  BY Zenon, <1>1 DEF EndOK, RowOK, KeyTables
<1>4. (result # "no_charge") \in BOOLEAN /\ result \in Results \cup {None}
  BY Zenon
<1> QED BY <1>2, <1>3, <1>4, Zenon DEF KeyMoves, KeyStep

LEMMA ReconcileNonLiveStep ==
  ASSUME BrokerInv, NEW k \in Keys, ReconcileNonLive(k) PROVE BrokerInv' /\ TerminalStays
<1>1. /\ admission[k].state = "executing" /\ admission[k].intent = 0 /\ ~admission[k].live /\ Resolve(k, "no_charge", 0)
      /\ UNCHANGED <<run, active, sidecar, item, reap, reconciler, others, starts>>
  BY Zenon DEF ReconcileNonLive, Old
<1>2. slot[k] = "none"
  BY <1>1, Known, Zenon DEF RowOK
<1>3. \A i \in Items : item[i].key # k
  BY <1>2, Known, NoneApart, Zenon DEF ItemOK
<1>4. KeyTables' /\ KeyMoves(None)
  <2>1. 0 \in Costs /\ "no_charge" \in Results
    BY Zenon DEF Costs, Results
  <2> QED BY Zenon, <1>1, <1>2, <1>3, <2>1, ResolveMoves
<1> QED BY <1>1, <1>4, StoreStep, Zenon

LEMMA OperatorStep ==
  ASSUME BrokerInv, NEW k \in Keys, NEW result \in {"ok", "failed", "no_charge"}, NEW cost \in Costs,
         OperatorResolves(k, result, cost)
  PROVE  BrokerInv' /\ TerminalStays
<1>1. /\ admission[k].state = "executing" /\ admission[k].intent = 0 /\ Left(k)
      /\ result = "no_charge" => \A i \in Items : item[i].key # k
      /\ result = "ok" => Succeeded(k)
      /\ result # "no_charge" => \E i \in Items : item[i].key = k
      /\ Resolve(k, result, cost)
      /\ UNCHANGED <<run, active, sidecar, item, reap, reconciler, others, starts>>
  BY Zenon DEF OperatorResolves, Old, Succeeded
<1>2. result # "no_charge" => slot[k] # "none"
  BY <1>1, Known, NoneApart, Zenon DEF ItemOK
<1>3. KeyTables' /\ KeyMoves(None)
  BY Zenon, <1>1, <1>2, ResolveMoves DEF Results
<1> QED BY <1>1, <1>3, StoreStep, Zenon

LEMMA ReconcileReadsStep ==
  ASSUME BrokerInv, NEW k \in Keys, ReconcileReads(k) PROVE BrokerInv' /\ TerminalStays
<1> DEFINE i == sidecar[JobOf[k]]
<1>1. /\ admission[k].live /\ i # None /\ reconciler' = [key |-> k, item |-> i]
      /\ UNCHANGED <<admission, ledger, slot, run, active, sidecar, item, reap, others, starts>>
  BY Zenon DEF ReconcileReads
<1>2. JobOf[k] \in Jobs /\ i \in Items
  BY <1>1, Known, BrokerAssumption, Zenon DEF OtherTypes
<1>3. item[i].state # "none" /\ JobOf[item[i].key] = JobOf[k]
  BY <1>1, <1>2, Zenon DEF BrokerInv, JobOK, Correlated
<1>4. item[i].key \in Keys /\ slot[item[i].key] # "none"
  BY <1>2, <1>3, Known, Zenon DEF ItemOK
<1>5. slot[k] # "none"
  BY <1>1, <1>3, <1>4, OneSlotPerJob, Zenon
<1>6. KeyMoves(None) /\ KeyTables' /\ ItemMoves(None) /\ item' \in [Items -> WorkItem] /\ Silent
  BY <1>1, Known, Zenon DEF KeyMoves, KeysStay, KeyTables, ItemMoves, Steady, Silent
<1>7. OtherTypes' /\ reconciler'.key = k
  BY <1>1, <1>2, Known, Zenon DEF OtherTypes
<1>8. ReapersOK'
  BY <1>1, <1>5, <1>7, Zenon DEF BrokerInv, ReapersOK
<1> QED BY ZenonT(30), <1>1, <1>6, <1>7, <1>8, SystemStep

LEMMA ReconcileResolvesStep ==
  ASSUME BrokerInv, ReconcileResolves PROVE BrokerInv' /\ TerminalStays
<1> DEFINE k == reconciler.key
<1>1. /\ k # None /\ reconciler' = [key |-> None, item |-> None]
      /\ UNCHANGED <<run, active, sidecar, item, reap, others, starts>>
      /\ IF admission[k].state = "executing" /\ admission[k].intent = 0 THEN Resolve(k, "failed", 0) ELSE Unwritten
  BY Zenon DEF ReconcileResolves
<1>2. k \in Keys /\ slot[k] # "none"
  BY Zenon, <1>1, Known DEF OtherTypes, BrokerInv, ReapersOK
<1>3. KeyTables' /\ KeyMoves(None)
  <2>1. CASE admission[k].state = "executing" /\ admission[k].intent = 0
    <3>1. 0 \in Costs /\ "failed" \in Results /\ "failed" # "no_charge" /\ "failed" # "ok"
      BY Zenon DEF Costs, Results
    <3>2. Resolve(k, "failed", 0) /\ UNCHANGED starts
      BY Zenon, <1>1, <2>1
    <3> QED BY Zenon, <1>2, <2>1, <3>1, <3>2, ResolveMoves
  <2>2. CASE ~(admission[k].state = "executing" /\ admission[k].intent = 0)
    BY <1>1, <2>2, Known, Zenon DEF Unwritten, KeyMoves, KeysStay, KeyTables
  <2> QED BY Zenon, <2>1, <2>2
<1>4. ItemMoves(None) /\ item' \in [Items -> WorkItem] /\ Silent
  BY <1>1, Known, Zenon DEF ItemMoves, Steady, Silent
<1>5. OtherTypes' /\ reconciler'.key = None
  BY <1>1, Known, Zenon DEF OtherTypes
<1>6. ReapersOK'
  BY <1>1, <1>5, Zenon DEF BrokerInv, ReapersOK
<1> QED BY ZenonT(30), <1>1, <1>3, <1>4, <1>5, <1>6, SystemStep

LEMMA ReapPeekStep ==
  ASSUME BrokerInv, NEW j \in Jobs, ReapPeek(j) PROVE BrokerInv' /\ TerminalStays
<1>1. /\ active[j].item # None /\ reap' = [pc |-> "peeked", job |-> j, item |-> active[j].item]
      /\ UNCHANGED <<admission, ledger, slot, run, active, sidecar, item, reconciler, others, starts>>
  BY Zenon DEF ReapPeek
<1>2. active[j].item \in Items /\ item[active[j].item].state # "none"
  BY ZenonT(30), <1>1, Known DEF OtherTypes, BrokerInv, JobOK, Correlated
<1>3. KeyMoves(None) /\ KeyTables' /\ ItemMoves(None) /\ item' \in [Items -> WorkItem] /\ Silent
  BY <1>1, Known, Zenon DEF KeyMoves, KeysStay, KeyTables, ItemMoves, Steady, Silent
<1>4. reap'.pc = "peeked" /\ reap'.job = j /\ reap'.item = active[j].item
  BY <1>1, Zenon
<1>5. OtherTypes'
  BY <1>1, <1>2, Known, Zenon DEF OtherTypes
<1>6. ReapersOK'
  <2>1. reap'.item # None /\ reap'.job # None /\ item'[reap'.item].state # "none" /\ reap'.pc # "cancelled"
    BY SMTT(20), <1>1, <1>2, <1>4, NoneApart
  <2> QED BY <1>1, <2>1, Zenon DEF BrokerInv, ReapersOK
<1> QED BY <1>1, <1>3, <1>5, <1>6, SystemStep, Zenon

LEMMA ReapCancelStep ==
  ASSUME BrokerInv, NEW cancelled \in BOOLEAN, ReapCancel(cancelled) PROVE BrokerInv' /\ TerminalStays
<1>1. /\ reap.pc = "peeked" /\ UNCHANGED <<admission, ledger, slot, run, active, sidecar, reconciler, others, starts>>
      /\ item' = IF cancelled THEN Deleted(reap.item) ELSE item
      /\ reap' = IF cancelled THEN [reap EXCEPT !.pc = "cancelled"] ELSE NoReap
  BY Zenon DEF ReapCancel
<1>2. reap.item \in Items /\ reap.job # None /\ reap.item # None /\ item[reap.item].state # "none"
  BY <1>1, Known DEF OtherTypes, BrokerInv, ReapersOK
<1>3. KeyMoves(None) /\ KeyTables'
  BY <1>1, Known, Zenon DEF KeyMoves, KeysStay, KeyTables
<1>4. item' \in [Items -> WorkItem] /\ ItemMoves(None) /\ (cancelled => item'[reap.item].state # "running") /\ Silent
  <2>1. CASE cancelled
    BY ZenonT(30), <1>1, <1>2, <2>1, Known, ItemDeleted, DeletedSilent
  <2>2. CASE ~cancelled
    BY <1>1, <2>2, Known, Zenon DEF ItemMoves, Steady, Silent
  <2> QED BY Zenon, <2>1, <2>2
<1>5. item'[reap.item].state # "none"
  BY <1>2, <1>4, ItemsGoOn, Zenon DEF ItemsOnward
<1>6. /\ reap' \in [pc: {"idle", "peeked", "cancelled"}, job: Jobs \cup {None}, item: Items \cup {None}]
      /\ cancelled => reap'.pc = "cancelled" /\ reap'.job = reap.job /\ reap'.item = reap.item
      /\ ~cancelled => reap'.pc = "idle"
  BY Zenon, <1>1, Known DEF OtherTypes, NoReap
<1>7. OtherTypes'
  BY <1>1, <1>6, Known, Zenon DEF OtherTypes
<1>8. ReapersOK'
  <2>1. reap'.pc # "idle" => cancelled
    BY <1>6, Zenon
  <2> QED BY ZenonT(30), <1>1, <1>2, <1>4, <1>5, <1>6, <2>1 DEF BrokerInv, ReapersOK
<1> QED BY <1>1, <1>3, <1>4, <1>7, <1>8, SystemStep, Zenon

LEMMA SettleReapedStep ==
  ASSUME BrokerInv, SettleReaped PROVE BrokerInv' /\ TerminalStays
<1> DEFINE j == reap.job
<1>1. /\ reap.pc = "cancelled" /\ IF active[j].item = reap.item THEN Evict(j) ELSE Keep
      /\ reap' = NoReap
      /\ UNCHANGED <<admission, ledger, slot, run, item, reconciler, others, starts>>
  BY Zenon DEF SettleReaped
<1>2. j \in Jobs /\ item[reap.item].state # "running"
  BY SMTT(20), <1>1, Known DEF OtherTypes, BrokerInv, ReapersOK
<1>3. KeyMoves(None) /\ KeyTables' /\ ItemMoves(None) /\ item' \in [Items -> WorkItem] /\ Silent /\ run' \in [Runs -> Thread]
  BY <1>1, Known, Zenon DEF KeyMoves, KeysStay, KeyTables, ItemMoves, Steady, Silent
<1>4. Unwatched \in [item: Items \cup {None}, owner: Runs \cup {None}] /\ Unwatched.item = None /\ Unwatched.owner = None
  BY Zenon DEF Unwatched
<1>5. /\ Registry'
      /\ \A l \in Jobs :
           \/ active'[l] = active[l] /\ sidecar'[l] = sidecar[l]
           \/ active'[l] = Unwatched /\ sidecar'[l] \in {sidecar[l], None} /\ active[l].item = reap.item
  <2>1. CASE active[j].item = reap.item
    <3>1. active' = [active EXCEPT ![j] = Unwatched] /\ sidecar' \in {sidecar, [sidecar EXCEPT ![j] = None]}
      BY <1>1, <2>1, Zenon DEF Evict, Appended
    <3> HIDE DEF j
    <3> QED BY <1>2, <1>4, <2>1, <3>1, Known, Zenon DEF OtherTypes, Registry
  <2>2. CASE active[j].item # reap.item
    BY <1>1, <2>2, Known, Zenon DEF Keep, OtherTypes, Registry
  <2> QED BY Zenon, <2>1, <2>2
<1>6. \A q \in Runs : ThreadOK(q)'
  BY <1>1, <1>3, ThreadSteady, NoneApart, Zenon
<1>7. NoReap \in [pc: {"idle", "peeked", "cancelled"}, job: Jobs \cup {None}, item: Items \cup {None}] /\ NoReap.pc = "idle"
  BY Zenon DEF NoReap
<1>8. OtherTypes'
  BY <1>1, <1>5, <1>7, Known, Zenon DEF OtherTypes, Registry
<1>9. ReapersOK'
  BY Zenon, <1>1, <1>7 DEF BrokerInv, ReapersOK
<1>10. ASSUME NEW l \in Jobs PROVE JobOK(l)'
  <2>1. JobOK(l) /\ run' = run
    BY <1>1, Zenon DEF BrokerInv
  <2>2. /\ sidecar'[l] \in {sidecar[l], None} /\ active'[l].item \in {active[l].item, sidecar[l], None}
        /\ active'[l].owner # None => active'[l] = active[l]
    BY <1>4, <1>5, Zenon
  <2>3. active'[l].owner # None =>
           run'[active[l].owner].pc \in Owning /\ run'[active[l].owner].key = run[active[l].owner].key
    BY <2>1, <2>2, Zenon DEF JobOK
  <2> QED BY <1>3, <2>2, <2>3, JobsKept, Zenon
<1>11. RunningIsAddressable'
  <2>1. \A l \in Jobs :
           \/ active'[l].item = active[l].item /\ sidecar'[l] = sidecar[l]
           \/ active[l].item = None \/ item'[active[l].item].state # "running"
    BY <1>1, <1>2, <1>5, Zenon
  <2> QED BY <1>3, <2>1, AddressableKept, Zenon
<1>12. others' = others
  BY Zenon, <1>1
<1> QED BY ZenonT(30), <1>3, <1>6, <1>8, <1>9, <1>10, <1>11, <1>12, Assembled

LEMMA CrashStep ==
  ASSUME BrokerInv, Crash PROVE BrokerInv' /\ TerminalStays
<1>1. /\ run' = [r \in Runs |-> Resting] /\ active' = [j \in Jobs |-> [item |-> sidecar[j], owner |-> None]]
      /\ reap' = NoReap /\ reconciler' = [key |-> None, item |-> None]
      /\ item' = [i \in Items |-> [item[i] EXCEPT !.known = IF @ = "memory" THEN "no" ELSE @]]
      /\ UNCHANGED <<admission, ledger, slot, sidecar, others, starts>>
  BY Zenon DEF Crash
<1>2a. ASSUME NEW i \in Items
       PROVE  /\ item'[i] \in WorkItem /\ item'[i].state = item[i].state /\ item'[i].key = item[i].key
              /\ item'[i].known = IF item[i].known = "memory" THEN "no" ELSE item[i].known
  <2>1. item[i] \in WorkItem /\ item'[i] = [item[i] EXCEPT !.known = IF @ = "memory" THEN "no" ELSE @]
    BY <1>1, Known, Zenon
  <2> QED BY <2>1, Zenon DEF WorkItem
<1>2b. item' \in [Items -> WorkItem] /\ Steady
  <2>1. \A i \in Items : item[i].state = "none" => item[i].known = "no"
    BY Zenon DEF BrokerInv, ItemOK
  <2>2. Steady
    BY <1>2a, <2>1, Zenon DEF Steady
  <2>3. DOMAIN item' = Items /\ item' = [i \in Items |-> item'[i]]
    BY <1>1, Zenon
  <2> QED BY <1>2a, <2>2, <2>3, Zenon
<1>2. KeyMoves(None) /\ KeyTables' /\ ItemMoves(None)
  BY <1>1, <1>2b, Known, Zenon DEF KeyMoves, KeysStay, KeyTables, ItemMoves
<1>3. run' \in [Runs -> Thread] /\ \A r \in Runs : run'[r].pc = "idle" /\ run'[r].outcome = None
  BY <1>1, Zenon DEF Resting, Thread, RunPCs
<1>4. \A r \in Runs : ThreadOK(r)'
  BY <1>3, ThreadQuiet, Zenon
<1>5. \A j \in Jobs : active'[j].item = sidecar[j] /\ active'[j].owner = None /\ sidecar'[j] = sidecar[j]
  BY <1>1, Zenon
<1>6. active' \in [Jobs -> [item: Items \cup {None}, owner: Runs \cup {None}]]
  BY <1>1, Known, Zenon DEF OtherTypes
<1>7. /\ NoReap \in [pc: {"idle", "peeked", "cancelled"}, job: Jobs \cup {None}, item: Items \cup {None}] /\ NoReap.pc = "idle"
      /\ reconciler' \in [key: Keys \cup {None}, item: Items \cup {None}] /\ reconciler'.key = None
  BY <1>1, Zenon DEF NoReap
<1>8. OtherTypes'
  BY ZenonT(30), <1>1, <1>6, <1>7, Known DEF OtherTypes
<1>9. ReapersOK'
  BY SMTT(20), <1>1, <1>7 DEF ReapersOK
<1>10. \A j \in Jobs : JobOK(j)'
  BY <1>2, <1>5, JobsKept, Zenon
<1>11. RunningIsAddressable'
  <2> SUFFICES ASSUME NEW i \in Items, item'[i].state = "running", item'[i].known # "no"
               PROVE  active'[JobOf[item'[i].key]].item = i /\ sidecar'[JobOf[item'[i].key]] = i
    BY Zenon DEF RunningIsAddressable
  <2>1. item[i] \in WorkItem /\ ItemOK(i) /\ RunningIsAddressable
    BY Known, Zenon DEF BrokerInv
  <2>2. item[i].known = "saved" /\ item[i].state = "running" /\ item'[i].key = item[i].key
    BY <1>2a, <2>1, Zenon DEF WorkItem
  <2>3. sidecar[JobOf[item[i].key]] = i
    BY <2>1, <2>2, Zenon DEF RunningIsAddressable
  <2>4. JobOf[item[i].key] \in Jobs
    BY Zenon, <2>1, <2>2, BrokerAssumption DEF ItemOK
  <2> QED BY <1>5, <2>2, <2>3, <2>4, Zenon
<1>12. others' = others
  BY Zenon, <1>1
<1> QED BY ZenonT(30), <1>2, <1>2b, <1>3, <1>4, <1>8, <1>9, <1>10, <1>11, <1>12, Assembled

\* The other tenants take a slot only when one is free.
LEMMA OthersStep ==
  ASSUME BrokerInv, OthersStart \/ OthersEnd PROVE BrokerInv' /\ TerminalStays
<1>1. UNCHANGED <<admission, ledger, slot, run, active, sidecar, item, reap, reconciler, starts>>
  BY Zenon DEF OthersStart, OthersEnd
<1>2. Cardinality(Held) \in Nat /\ Ceiling \in Nat /\ others \in 0 .. Ceiling /\ CountInv
  BY SMTT(20), CountedFinite, FS_CardinalityType, BrokerAssumption, Known DEF OtherTypes, BrokerInv
<1>3. others' \in 0 .. Ceiling /\ Cardinality(Held) + others' <= Ceiling
  BY <1>2 DEF OthersStart, OthersEnd, Full, CountInv
<1>4. Held' = Held /\ Charged' = Charged /\ Reserving' = Reserving /\ Counted' = Counted
  BY <1>1, Zenon DEF Held, Charged, Reserving, Counted
<1>5. CountInv'
  BY ZenonT(30), <1>2, <1>3, <1>4 DEF CountInv
<1>6. TypeOK'
  BY ZenonT(30), <1>1, <1>3 DEF BrokerInv, TypeOK
<1>7. KeyMoves(None) /\ KeyTables' /\ ItemMoves(None)
  BY <1>1, Known, Zenon DEF KeyMoves, KeysStay, KeyTables, ItemMoves, Steady
<1>8. (\A k \in Keys : RowOK(k)') /\ (\A i \in Items : ItemOK(i)')
  BY <1>7, ItemsGoOn, RowsKept, ItemsKept, Zenon
<1>9. \A r \in Runs : ThreadOK(r)'
  BY <1>1, <1>7, ThreadSteady, NoneApart, Zenon
<1>10. (\A j \in Jobs : JobOK(j)') /\ ReapersOK' /\ RunningIsAddressable'
  BY <1>1, Zenon DEF BrokerInv, JobOK, Correlated, ReapersOK, RunningIsAddressable
<1>11. TerminalStays
  BY <1>7, TerminalKept, Zenon
<1> QED BY ZenonT(30), <1>5, <1>6, <1>8, <1>9, <1>10, <1>11 DEF BrokerInv

LEMMA BrokerStep == BrokerInv /\ [Next]_vars => BrokerInv' /\ TerminalStays
<1> SUFFICES ASSUME BrokerInv, [Next]_vars PROVE BrokerInv' /\ TerminalStays
  BY Zenon
<1>1. CASE UNCHANGED vars
  <2>1. KeyMoves(None) /\ KeyTables'
    BY <1>1, Known, Zenon DEF vars, KeyMoves, KeysStay, KeyTables
  <2> QED BY <1>1, <2>1, StoreStep, Zenon DEF vars
<1>2. CASE Next
  <2>1. CASE \E r \in Runs : RunStep(r)
    BY <2>1, RunSteps, Zenon
  <2>2. CASE ReapStep
    BY ZenonT(30), <2>2, ReapPeekStep, ReapCancelStep, SettleReapedStep DEF ReapStep
  <2>3. CASE ReconcilerStep
    BY ZenonT(30), <2>3, ReconcileResolvesStep, ReconcileIntentStep, ReconcileNonLiveStep, ReconcileReadsStep DEF ReconcilerStep
  <2> QED BY ZenonT(30), <1>2, <2>1, <2>2, <2>3, ItemEndsStep, LeaseExpiresStep, OperatorStep, OthersStep, CrashStep DEF Next
<1> QED BY Zenon, <1>1, <1>2

(***************************************************************************)
(* The theorems.                                                           *)
(***************************************************************************)
\* The inductive invariant holds in every reachable state, with every fault.
THEOREM BrokerInvariant == Spec => []BrokerInv
BY BrokerInitially, BrokerStep, PTL DEF Spec

\* Every table, thread, correlation and WorkItem keeps its type.
THEOREM TypeCorrect == Spec => []TypeOK
<1>1. BrokerInv => TypeOK
  BY Zenon DEF BrokerInv
<1> QED BY <1>1, BrokerInvariant, PTL

\* A key crosses the execution boundary at most once, however often its request is
\* delivered and whatever expires or crashes (mark_execution_started).
THEOREM StartedAtMostOnce == Spec => []StartsOnce
<1>1. BrokerInv => StartsOnce
  <2> SUFFICES ASSUME BrokerInv, NEW k \in Keys PROVE starts[k] <= 1
    BY Zenon DEF StartsOnce
  <2>1. RowOK(k) /\ admission[k].state \in {"none", "leased", "executing", "terminal"}
    BY SMTT(20) DEF BrokerInv, TypeOK
  <2> QED BY <2>1 DEF RowOK
<1> QED BY <1>1, BrokerInvariant, PTL

\* A slot is held exactly while a paid run executes, and all tenants together hold at
\* most APS_MAX_CONCURRENCY of them.
THEOREM SlotsCounted == Spec => []SlotsCountExecutions
<1>1. BrokerInv => SlotsCountExecutions
  <2> SUFFICES ASSUME BrokerInv
               PROVE  /\ Cardinality(Held) + others <= Ceiling
                      /\ \A k \in Keys : slot[k] = "held" => admission[k].state = "executing"
                      /\ \A k \in Keys : admission[k].state = "executing" /\ admission[k].accounted => slot[k] = "held"
    BY Zenon DEF SlotsCountExecutions
  <2>1. Cardinality(Held) + others <= Ceiling
    BY Zenon DEF BrokerInv, CountInv
  <2>2. ASSUME NEW k \in Keys
        PROVE  /\ slot[k] = "held" => admission[k].state = "executing"
               /\ admission[k].state = "executing" /\ admission[k].accounted => slot[k] = "held"
    <3>1. RowOK(k) /\ admission[k].state \in {"none", "leased", "executing", "terminal"}
      BY Zenon DEF BrokerInv, TypeOK
    <3> QED BY <3>1 DEF RowOK
  <2> QED BY Zenon, <2>1, <2>2
<1> QED BY <1>1, BrokerInvariant, PTL

\* Spend and reservations stay within the cap but for what single runs cost beyond their
\* reservation, and the paid starts that were not proven
\* free within the daily limit (admit_run, reconcile_executing).
THEOREM QuotasKept == Spec => []QuotasHold
<1>1. BrokerInv => QuotasHold
  <2> SUFFICES ASSUME BrokerInv PROVE QuotasHold
    BY Zenon
  <2> DEFINE Paid == {k \in Keys : slot[k] # "none" /\ admission[k].result # "no_charge"}
  <2>1. CountInv /\ \A k \in Keys : RowOK(k)
    BY Zenon DEF BrokerInv
  <2>2. Paid \subseteq Counted
    BY <2>1, Zenon DEF RowOK, Counted
  <2>3. Cardinality(Paid) \in Nat /\ Cardinality(Counted) \in Nat /\ Cardinality(Paid) <= Cardinality(Counted)
    BY <2>2, CountedFinite, Shrinks, Zenon
  <2>4. Cardinality(Paid) <= DailyLimit
    BY SMTT(20), <2>1, <2>3, BrokerAssumption DEF CountInv
  <2>5. Spend + Cardinality(Reserving) <= SpendCap + Cardinality(Overrun)
    <3>1. Cardinality(Charged) \in Nat /\ Cardinality(Overrun) \in Nat /\ Cardinality(Reserving) \in Nat
      BY CountedFinite, FS_CardinalityType, Zenon
    <3> QED BY SMTT(20), <2>1, <3>1, BrokerAssumption DEF CountInv, Spend
  <2> QED BY <2>4, <2>5, Zenon DEF QuotasHold
<1> QED BY <1>1, BrokerInvariant, PTL

\* A terminal row and its ledger row exist together, and staged evidence is what both say.
THEOREM TerminalsAccounted == Spec => []TerminalIsAccounted
<1>1. BrokerInv => TerminalIsAccounted
  <2> SUFFICES ASSUME BrokerInv, NEW k \in Keys
               PROVE  /\ (admission[k].state = "terminal") = (ledger[k] # None)
                      /\ admission[k].state = "terminal" => admission[k].reserved = 0
                      /\ admission[k].state = "terminal" /\ admission[k].intent # 0 =>
                           admission[k].result = "ok" /\ ledger[k] = admission[k].intent
    BY Zenon DEF TerminalIsAccounted
  <2>1. RowOK(k) /\ admission[k].state \in {"none", "leased", "executing", "terminal"}
    BY Zenon DEF BrokerInv, TypeOK
  <2> QED BY Zenon, <2>1 DEF RowOK
<1> QED BY <1>1, BrokerInvariant, PTL

\* A paid success has a WorkItem that succeeded; a key free of charge never had one.
THEOREM AnswersTrue == Spec => []AnswersAreTrue
<1>1. BrokerInv => AnswersAreTrue
  <2> SUFFICES ASSUME BrokerInv, NEW k \in Keys
               PROVE  /\ admission[k].result = "ok" /\ slot[k] # "none" => \E i \in ItemsOf(k) : item[i].state = "success"
                      /\ admission[k].result = "no_charge" => ItemsOf(k) = {}
    BY Zenon DEF AnswersAreTrue
  <2>1. RowOK(k) /\ \A i \in Items : ItemOK(i)
    BY Zenon DEF BrokerInv
  <2>2. admission[k].result = "ok" /\ slot[k] # "none" => \E i \in ItemsOf(k) : item[i].state = "success"
    BY <2>1, Zenon DEF RowOK, Succeeded, ItemsOf
  <2>3. admission[k].result = "no_charge" => ItemsOf(k) = {}
    BY ZenonT(30), <2>1, NoneApart DEF ItemOK, ItemsOf
  <2> QED BY Zenon, <2>2, <2>3
<1> QED BY <1>1, BrokerInvariant, PTL

\* A running WorkItem whose id reached the broker is named by the memory of the process
\* that recorded it, and by the sidecar when its line was written.
THEOREM RunningAddressable == Spec => []RunningIsAddressable
<1>1. BrokerInv => RunningIsAddressable
  BY Zenon DEF BrokerInv
<1> QED BY <1>1, BrokerInvariant, PTL

\* What a replayed request is answered with never changes: a terminal row, its ledger
\* row and its slot are final.
THEOREM TerminalRowsFinal == Spec => TerminalIsFinal
<1>1. BrokerInv /\ [Next]_vars =>
        [\A k \in Keys : admission[k].state = "terminal" =>
           admission'[k] = admission[k] /\ ledger'[k] = ledger[k] /\ slot'[k] = slot[k]]_vars
  BY BrokerStep, Zenon DEF TerminalStays
<1> QED BY <1>1, BrokerInvariant, PTL DEF Spec, TerminalIsFinal
============================================================================

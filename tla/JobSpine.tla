------------------------------ MODULE JobSpine ------------------------------
(***************************************************************************)
(* The asynchronous job spine with the PostgreSQL store: the async_jobs    *)
(* rows and their leases (server/job_pg_store.py), the executor threads    *)
(* that run _run_job, the orphan reaper with its persisted queue of        *)
(* tab-close cancels (server/jobs.py), the receipts of the APS completion  *)
(* adapter (server/da/aps_callback_adapter.py) and the signed callback     *)
(* route of the broker (server/broker.py).                                 *)
(*                                                                         *)
(* Every store method is one transaction and so one action; a thread's     *)
(* read of the row and its later write are two.  The broker's run of a job *)
(* is external here (BrokerAdmission models it): under the job's stable    *)
(* event key it starts at most once, submits one WorkItem, ends, and then  *)
(* answers every later call with the same result.                          *)
(***************************************************************************)
EXTENDS Integers, FiniteSets

CONSTANTS
  Jobs,        \* the jobs of one tenant, one per idempotency key
  Workers,     \* executor threads: a bound on the contenders at any time
  MaxAttempts, \* JOB_MAX_ATTEMPTS
  MaxInflight, \* the tenant's cap on jobs in flight
  MaxReaps,    \* PENDING_REAP_MAX_ATTEMPTS
  MaxCrashes,  \* bound on the deaths of threads and of the reaper's process
  Faults,      \* subset of {"close", "crash", "stall", "unreachable", "callback", "full", "unsaved"}
  None

ASSUME SpineAssumption ==
  /\ None \notin Workers \cup Jobs \cup {"worker", "callback", "closed", "exhausted"}
  /\ IsFiniteSet(Jobs) /\ IsFiniteSet(Workers)
  /\ MaxAttempts \in Nat \ {0} /\ MaxInflight \in Nat \ {0}
  /\ MaxReaps \in Nat \ {0} /\ MaxCrashes \in Nat

VARIABLES
  row,      \* async_jobs
  receipt,  \* aps_completion_receipts and consumed nonces, per job and attempt
  worker,   \* the executor threads
  broker,   \* the broker's run of the job and its WorkItem
  pending,  \* _pending_reaps: delivery attempts of the job's cancel, 0 if not queued
  reaper,   \* the reaper thread's sweep
  crashes,
  dropped   \* history: how the job's cancel was lost, "no" if it was not

vars == <<row, receipt, worker, broker, pending, reaper, crashes, dropped>>

Attempts == 1 .. MaxAttempts
Terminal == {"complete", "failed"}
Unsubmitted == [status |-> "none", closed |-> FALSE, attempt |-> 0, owner |-> None, live |-> FALSE,
                bound |-> 0, by |-> None, proof |-> 0]
Idle == [pc |-> "idle", job |-> None, attempt |-> 0, answer |-> None]
Resting == [pc |-> "idle", todo |-> {}, listed |-> {}, job |-> None, attempt |-> 0]
Listing == [job: Jobs, closed: BOOLEAN]

\* How a cancel can be lost: after PENDING_REAP_MAX_ATTEMPTS, at a full queue, at the death of a
\* process that had it in hand or had failed to write it to the queue's file.
Losses == {"gave up", "full", "crash", "unsaved"}

JobRow == [status: {"none", "submitted", "running"} \cup Terminal, closed: BOOLEAN,
           attempt: 0 .. MaxAttempts, owner: Workers \cup {None}, live: BOOLEAN, bound: 0 .. MaxAttempts,
           by: {"worker", "callback", "closed", "exhausted", None}, proof: 0 .. MaxAttempts]
Thread == [pc: {"idle", "queued", "claimed", "calling", "fallback", "answered"}, job: Jobs \cup {None},
           attempt: 0 .. MaxAttempts, answer: {"ok", "retry", "final", None}]
Run == [run: {"none", "asked", "begun", "ok", "failed"}, by: 0 .. MaxAttempts,
        holder: Workers \cup {None}, item: {"none", "live", "success", "gone"}]
Reaping == [pc: {"idle", "retrying", "rows", "cancelling", "failing"}, todo: SUBSET Jobs,
            listed: SUBSET Listing, job: Jobs \cup {None}, attempt: 0 .. MaxAttempts]

\* Type correctness.
TypeOK ==
  /\ row \in [Jobs -> JobRow]
  /\ receipt \in [Jobs -> [Attempts -> {"none", "reserved", "consumed", "settled"}]]
  /\ worker \in [Workers -> Thread]
  /\ broker \in [Jobs -> Run]
  /\ pending \in [Jobs -> 0 .. MaxReaps]
  /\ reaper \in Reaping
  /\ crashes \in 0 .. MaxCrashes
  /\ dropped \in [Jobs -> {"no"} \cup Losses]

Init ==
  /\ row = [j \in Jobs |-> Unsubmitted]
  /\ receipt = [j \in Jobs |-> [a \in Attempts |-> "none"]]
  /\ worker = [w \in Workers |-> Idle]
  /\ broker = [j \in Jobs |-> [run |-> "none", by |-> 0, holder |-> None, item |-> "none"]]
  /\ pending = [j \in Jobs |-> 0]
  /\ reaper = Resting
  /\ crashes = 0
  /\ dropped = [j \in Jobs |-> "no"]

(***************************************************************************)
(* The store.                                                              *)
(***************************************************************************)
InFlight == {j \in Jobs : row[j].status \in {"submitted", "running"}}

Claimable(j) ==
  /\ row[j].status = "submitted" \/ (row[j].status = "running" /\ ~row[j].live)
  /\ ~row[j].closed
  /\ row[j].attempt < MaxAttempts

Owns(w, j) == row[j].status = "running" /\ row[j].owner = w /\ row[j].live

\* complete: the terminal write, fenced by the attempt, by closure and, for a worker, by its lease.
Completes(j, attempt, w, closedToo) ==
  /\ row[j].status \notin Terminal
  /\ row[j].attempt = attempt
  /\ closedToo \/ ~row[j].closed
  /\ w # None => Owns(w, j)

\* The row a terminal write leaves: by names its author, proof the attempt its evidence is of.
End(r, status, by, proof) ==
  [r EXCEPT !.status = status, !.closed = FALSE, !.owner = None, !.live = FALSE, !.by = by, !.proof = proof]
Ended(j, status, by, proof) == [row EXCEPT ![j] = End(@, status, by, proof)]

\* The rows that closing, claiming and giving back an attempt leave.
Closed(r) == [r EXCEPT !.closed = TRUE, !.owner = None, !.live = FALSE]
Claimed(r, w) == [r EXCEPT !.status = "running", !.closed = FALSE, !.attempt = @ + 1, !.owner = w, !.live = TRUE]
Released(r) == [r EXCEPT !.status = "submitted", !.owner = None, !.live = FALSE]

Queued(w, j) == [worker EXCEPT ![w] = [pc |-> "queued", job |-> j, attempt |-> 0, answer |-> None]]
Returns(w) == worker' = [worker EXCEPT ![w] = Idle]

\* submit, and the hand-off to the executor.  A repeated key finds its job and changes nothing.
Submit(j, w) ==
  /\ row[j].status = "none"
  /\ Cardinality(InFlight) < MaxInflight
  /\ worker[w].pc = "idle"
  /\ row' = [row EXCEPT ![j].status = "submitted"]
  /\ worker' = Queued(w, j)
  /\ UNCHANGED <<receipt, broker, pending, reaper, crashes, dropped>>

\* mark_closed and close_tenant: the session is gone, the lease is dropped, the status is kept.
Close(j) ==
  /\ "close" \in Faults
  /\ j \in InFlight /\ ~row[j].closed
  /\ row' = [row EXCEPT ![j] = Closed(@)]
  /\ UNCHANGED <<receipt, worker, broker, pending, reaper, crashes, dropped>>

\* A lease runs out because its holder stalls, or because it is dead.
Held(j) == \E w \in Workers : row[j].owner = w /\ worker[w].job = j /\ worker[w].attempt = row[j].attempt

LeaseLapses(j) ==
  /\ row[j].status = "running" /\ row[j].live
  /\ "stall" \in Faults \/ ~Held(j)
  /\ row' = [row EXCEPT ![j].live = FALSE]
  /\ UNCHANGED <<receipt, worker, broker, pending, reaper, crashes, dropped>>

(***************************************************************************)
(* An executor thread: _run_job.                                           *)
(***************************************************************************)
\* claim_lease: win the next attempt, or return.
Begin(w) ==
  LET j == worker[w].job IN
  /\ worker[w].pc = "queued"
  /\ IF Claimable(j)
     THEN /\ row' = [row EXCEPT ![j] = Claimed(@, w)]
          /\ worker' = [worker EXCEPT ![w] = [@ EXCEPT !.pc = "claimed", !.attempt = row[j].attempt + 1]]
     ELSE /\ Returns(w)
          /\ UNCHANGED row
  /\ UNCHANGED <<receipt, broker, pending, reaper, crashes, dropped>>

\* The inner thread sends the broker run, whatever the progress heartbeat before it said.
Call(w) ==
  LET j == worker[w].job IN
  /\ worker[w].pc = "claimed"
  /\ worker' = [worker EXCEPT ![w].pc = "calling"]
  /\ broker' = [broker EXCEPT ![j].run = IF @ = "none" THEN "asked" ELSE @]
  /\ UNCHANGED <<row, receipt, pending, reaper, crashes, dropped>>

\* A heartbeat finds the lease gone: the thread returns, its inner call goes on.
HeartbeatRefused(w) ==
  /\ worker[w].pc \in {"calling", "fallback"}
  /\ ~Owns(w, worker[w].job)
  /\ Returns(w)
  /\ UNCHANGED <<row, receipt, broker, pending, reaper, crashes, dropped>>

Answers(w, answer) ==
  worker' = [worker EXCEPT ![w] = [@ EXCEPT !.pc = "answered", !.answer = answer]]

\* The call returns the run's result, or an error, retryable or not: the run's own, a refusal of a key
\* already at work, a result whose proof is rejected, a broker that cannot be reached, before or after
\* the run has ended, or nothing before JOB_MAX_S.
Answered(w) ==
  /\ worker[w].pc = "calling"
  /\ \E answer \in {"ok", "retry", "final"} :
       /\ answer = "ok" => broker[worker[w].job].run = "ok"
       /\ Answers(w, answer)
  /\ UNCHANGED <<row, receipt, broker, pending, reaper, crashes, dropped>>

\* The tool allows a local run after a failed cloud run.
FallsBack(w) ==
  /\ worker[w].pc = "calling"
  /\ broker[worker[w].job].run = "failed"
  /\ worker' = [worker EXCEPT ![w].pc = "fallback"]
  /\ UNCHANGED <<row, receipt, broker, pending, reaper, crashes, dropped>>

FallbackEnds(w) ==
  /\ worker[w].pc = "fallback"
  /\ \E answer \in {"ok", "retry", "final"} : Answers(w, answer)
  /\ UNCHANGED <<row, receipt, broker, pending, reaper, crashes, dropped>>

\* _finish with the worker's own provenance.  A write that loses changes nothing but the conflict audit.
Succeeds(w, j) ==
  /\ worker[w].answer = "ok"
  /\ IF worker[w].attempt = row[j].attempt /\ Completes(j, row[j].attempt, w, FALSE)
     THEN row' = Ended(j, "complete", "worker", worker[w].attempt)
     ELSE UNCHANGED row
  /\ Returns(w)

\* _retry_or_finish: back to the queue with a new contender, or failed.
Retries(w, j) ==
  /\ worker[w].answer = "retry" /\ Owns(w, j) /\ ~row[j].closed /\ row[j].attempt < MaxAttempts
  /\ row' = [row EXCEPT ![j] = Released(@)]
  /\ worker' = Queued(w, j)

GivesUp(w, j) ==
  /\ \/ worker[w].answer = "final"
     \/ worker[w].answer = "retry" /\ ~(Owns(w, j) /\ row[j].attempt < MaxAttempts)
  /\ IF worker[w].attempt = row[j].attempt /\ Completes(j, row[j].attempt, w, FALSE)
     THEN row' = Ended(j, "failed", "worker", worker[w].attempt)
     ELSE UNCHANGED row
  /\ Returns(w)

Finish(w) ==
  LET j == worker[w].job IN
  /\ worker[w].pc = "answered"
  /\ Succeeds(w, j) \/ Retries(w, j) \/ GivesUp(w, j)
  /\ UNCHANGED <<receipt, broker, pending, reaper, crashes, dropped>>

\* The process of a thread dies.
WorkerDies(w) ==
  /\ "crash" \in Faults /\ crashes < MaxCrashes
  /\ worker[w].pc # "idle"
  /\ crashes' = crashes + 1
  /\ Returns(w)
  /\ UNCHANGED <<row, receipt, broker, pending, reaper, dropped>>

(***************************************************************************)
(* The broker's run and its WorkItem.                                      *)
(***************************************************************************)
\* The request crosses the execution boundary; the lease is read for the later bind.
BrokerBegins(j) ==
  /\ broker[j].run = "asked"
  /\ broker' = [broker EXCEPT ![j] = [@ EXCEPT !.run = "begun", !.holder = row[j].owner,
                                      !.by = IF row[j].owner = None THEN 0 ELSE row[j].attempt]]
  /\ UNCHANGED <<row, receipt, worker, pending, reaper, crashes, dropped>>

\* bind_aps_workitem: only for the attempt and the owner read before, while the lease lives.
Binds(j) ==
  /\ broker[j].by # 0 /\ row[j].attempt = broker[j].by
  /\ ~row[j].closed /\ Owns(broker[j].holder, j)
  /\ row[j].bound # row[j].attempt

Submits(j) ==
  /\ broker[j].run = "begun" /\ broker[j].item = "none"
  /\ broker' = [broker EXCEPT ![j].item = "live"]
  /\ row' = IF Binds(j) THEN [row EXCEPT ![j].bound = row[j].attempt] ELSE row
  /\ UNCHANGED <<receipt, worker, pending, reaper, crashes, dropped>>

ItemEnds(j) ==
  /\ broker[j].item = "live"
  /\ \E end \in {"success", "gone"} : broker' = [broker EXCEPT ![j].item = end]
  /\ UNCHANGED <<row, receipt, worker, pending, reaper, crashes, dropped>>

\* The run ends with its WorkItem, or fails without one.
BrokerEnds(j) ==
  /\ broker[j].run = "begun" /\ broker[j].item # "live"
  /\ broker' = [broker EXCEPT ![j].run = IF broker[j].item = "success" THEN "ok" ELSE "failed"]
  /\ UNCHANGED <<row, receipt, worker, pending, reaper, crashes, dropped>>

(***************************************************************************)
(* The completion adapter and the callback route.                          *)
(***************************************************************************)
\* translate_authoritative: one receipt per attempt, reserved only while the attempt runs under a
\* live lease; an existing one is returned as it is, even after the lease.
Reserve(j) ==
  LET a == row[j].attempt IN
  /\ "callback" \in Faults
  /\ broker[j].item = "success"
  /\ a # 0 /\ row[j].bound = a
  /\ receipt[j][a] = "none"
  /\ row[j].status = "running" /\ ~row[j].closed /\ row[j].live
  /\ receipt' = [receipt EXCEPT ![j][a] = "reserved"]
  /\ UNCHANGED <<row, worker, broker, pending, reaper, crashes, dropped>>

\* consume_callback: the nonce is used up; a second delivery of the envelope is a replay.
Consume(j, a) ==
  /\ receipt[j][a] = "reserved"
  /\ receipt' = [receipt EXCEPT ![j][a] = "consumed"]
  /\ UNCHANGED <<row, worker, broker, pending, reaper, crashes, dropped>>

\* Faulty: stamps the job's attempt on whatever callback arrives.
CallbackRestamped(j, a) ==
  /\ receipt[j][a] = "consumed"
  /\ receipt' = [receipt EXCEPT ![j][a] = "settled"]
  /\ IF Completes(j, row[j].attempt, None, FALSE)
     THEN row' = Ended(j, "complete", "callback", a)
     ELSE UNCHANGED row
  /\ UNCHANGED <<worker, broker, pending, reaper, crashes, dropped>>

\* _complete_callback_job: the signed attempt must be the job's.
CallbackCompletes(j, a) ==
  /\ receipt[j][a] = "consumed"
  /\ receipt' = [receipt EXCEPT ![j][a] = "settled"]
  /\ IF a = row[j].attempt /\ Completes(j, row[j].attempt, None, FALSE)
     THEN row' = Ended(j, "complete", "callback", a)
     ELSE UNCHANGED row
  /\ UNCHANGED <<worker, broker, pending, reaper, crashes, dropped>>

(***************************************************************************)
(* The orphan reaper.                                                      *)
(***************************************************************************)
Reclaimable(j, fresh) ==
  \/ row[j].closed
  \/ row[j].status = "running" /\ ~row[j].live
  \/ row[j].status = "submitted" /\ j \notin fresh

\* _reap_orphans_once reads its rows first; a submitted row counts once its heartbeat is stale.
Sweep(fresh) ==
  /\ reaper.pc = "idle"
  /\ LET listed == {[job |-> j, closed |-> row[j].closed] : j \in {i \in InFlight : Reclaimable(i, fresh)}}
         todo == {j \in Jobs : pending[j] > 0}
     IN /\ listed # {} \/ todo # {}
        /\ reaper' = [pc |-> "retrying", todo |-> todo, listed |-> listed, job |-> None, attempt |-> 0]
  /\ UNCHANGED <<row, receipt, worker, broker, pending, crashes, dropped>>

\* _remember_pending_reap.  The queue is every tenant's, so a cancel that is not in it yet may find it
\* at PENDING_REAP_MAX.
Remembered(j) ==
  \/ /\ pending[j] = 0 /\ "full" \in Faults
     /\ dropped' = [dropped EXCEPT ![j] = "full"]
     /\ UNCHANGED pending
  \/ /\ pending[j] < MaxReaps
     /\ pending' = [pending EXCEPT ![j] = @ + 1]
     /\ UNCHANGED dropped
  \/ /\ pending[j] = MaxReaps
     /\ pending' = [pending EXCEPT ![j] = 0]
     /\ dropped' = [dropped EXCEPT ![j] = "gave up"]

\* _cancel_remote_workitem with the broker's answer: the cancel is acknowledged only for a WorkItem
\* that was found and deleted; everything else is kept for a later sweep.
Cancelled(j) ==
  /\ broker[j].item = "live"
  /\ broker' = [broker EXCEPT ![j].item = "gone"]
  /\ pending' = [pending EXCEPT ![j] = 0]
  /\ UNCHANGED dropped

\* Faulty: takes an accepted request for a cancel.
AcceptedIsDone(j) == pending' = [pending EXCEPT ![j] = 0] /\ UNCHANGED <<broker, dropped>>

NotAcknowledged(j) == Remembered(j) /\ UNCHANGED broker

Unreachable(j) == "unreachable" \in Faults /\ Remembered(j) /\ UNCHANGED broker

\* _retry_pending_reaps stops at the first call that does not reach the broker.
RetryPending ==
  /\ reaper.pc = "retrying" /\ reaper.todo # {}
  /\ \E j \in reaper.todo :
       \/ /\ Cancelled(j) \/ NotAcknowledged(j)
          /\ reaper' = [reaper EXCEPT !.todo = @ \ {j}]
       \/ Unreachable(j) /\ reaper' = [reaper EXCEPT !.todo = {}]
  /\ UNCHANGED <<row, receipt, worker, crashes>>

RetriesDone ==
  /\ reaper.pc = "retrying" /\ reaper.todo = {}
  /\ reaper' = [reaper EXCEPT !.pc = "rows"]
  /\ UNCHANGED <<row, receipt, worker, broker, pending, crashes, dropped>>

Without(r) == [reaper EXCEPT !.listed = @ \ {r}]

\* A closed row is failed first, then its WorkItem is cancelled.
ReapClosed(r) ==
  /\ r.closed
  /\ row' = IF Completes(r.job, row[r.job].attempt, None, TRUE)
            THEN Ended(r.job, "failed", "closed", row[r.job].attempt) ELSE row
  /\ reaper' = [Without(r) EXCEPT !.pc = "cancelling", !.job = r.job]
  /\ UNCHANGED worker

\* Faulty: cancels the WorkItem of a stale row too.
RedispatchCancels(r) ==
  /\ ~r.closed
  /\ reaper' = [Without(r) EXCEPT !.pc = "cancelling", !.job = r.job]
  /\ UNCHANGED <<row, worker>>

\* Faulty: gives an exhausted job one more contender.
RedispatchExhausted(r) ==
  /\ ~r.closed
  /\ reaper' = Without(r)
  /\ \/ row[r.job].status \in Terminal /\ UNCHANGED worker
     \/ /\ row[r.job].status \notin Terminal
        /\ \/ \E w \in Workers : worker[w].pc = "idle" /\ worker' = Queued(w, r.job)
           \/ (\A w \in Workers : worker[w].pc # "idle") /\ UNCHANGED worker
  /\ UNCHANGED row

\* _redispatch_record reads the row: terminal, out of attempts, or given a new contender.
Redispatch(r) ==
  LET j == r.job IN
  /\ ~r.closed
  /\ \/ /\ row[j].status \in Terminal
        /\ reaper' = Without(r)
        /\ UNCHANGED worker
     \/ /\ row[j].status \notin Terminal /\ row[j].attempt >= MaxAttempts
        /\ reaper' = [Without(r) EXCEPT !.pc = "failing", !.job = j, !.attempt = row[j].attempt]
        /\ UNCHANGED worker
     \/ /\ row[j].status \notin Terminal /\ row[j].attempt < MaxAttempts
        /\ reaper' = Without(r)
        /\ \/ \E w \in Workers : worker[w].pc = "idle" /\ worker' = Queued(w, j)
           \/ (\A w \in Workers : worker[w].pc # "idle") /\ UNCHANGED worker
  /\ UNCHANGED row

ReapRow ==
  /\ reaper.pc = "rows"
  /\ \E r \in reaper.listed : ReapClosed(r) \/ Redispatch(r)
  /\ UNCHANGED <<receipt, broker, pending, crashes, dropped>>

CancelClosed ==
  /\ reaper.pc = "cancelling"
  /\ \/ Cancelled(reaper.job)
     \/ NotAcknowledged(reaper.job)
     \/ Unreachable(reaper.job)
  /\ reaper' = [reaper EXCEPT !.pc = "rows", !.job = None]
  /\ UNCHANGED <<row, receipt, worker, crashes>>

\* complete_callback of an exhausted job: no worker id, so no lease is asked for.
FailExhausted ==
  LET j == reaper.job IN
  /\ reaper.pc = "failing"
  /\ row' = IF Completes(j, reaper.attempt, None, FALSE)
            THEN Ended(j, "failed", "exhausted", reaper.attempt) ELSE row
  /\ reaper' = [reaper EXCEPT !.pc = "rows", !.job = None, !.attempt = 0]
  /\ UNCHANGED <<receipt, worker, broker, pending, crashes, dropped>>

SweepEnds ==
  /\ reaper.pc = "rows" /\ reaper.listed = {}
  /\ reaper' = Resting
  /\ UNCHANGED <<row, receipt, worker, broker, pending, crashes, dropped>>

\* The cancel of a row just failed, which the queue does not have yet.
InHand(j) == reaper.pc = "cancelling" /\ reaper.job = j /\ pending[j] = 0

\* The reaper's process dies and starts again: the queue is read back from its file, which a failed
\* write may have left without some entries, and ensure_started redispatches every submitted row.
ReaperDies ==
  /\ "crash" \in Faults /\ crashes < MaxCrashes
  /\ reaper.pc # "idle"
  /\ crashes' = crashes + 1
  /\ reaper' = [pc |-> "rows", todo |-> {}, job |-> None, attempt |-> 0,
                listed |-> {[job |-> j, closed |-> FALSE] : j \in {i \in Jobs : row[i].status = "submitted"}}]
  /\ \E lost \in SUBSET {j \in Jobs : pending[j] > 0} :
       /\ lost = {} \/ "unsaved" \in Faults
       /\ pending' = [j \in Jobs |-> IF j \in lost THEN 0 ELSE pending[j]]
       /\ dropped' = [j \in Jobs |-> IF j \in lost THEN "unsaved" ELSE IF InHand(j) THEN "crash" ELSE dropped[j]]
  /\ UNCHANGED <<row, receipt, worker, broker>>

WorkerStep(w) ==
  \/ Begin(w) \/ Call(w) \/ HeartbeatRefused(w) \/ Answered(w) \/ FallsBack(w) \/ FallbackEnds(w) \/ Finish(w)

ReaperStep == Sweep({}) \/ RetryPending \/ RetriesDone \/ ReapRow \/ CancelClosed \/ FailExhausted \/ SweepEnds

Next ==
  \/ \E j \in Jobs, w \in Workers : Submit(j, w)
  \/ \E j \in Jobs : Close(j) \/ LeaseLapses(j)
  \/ \E j \in Jobs : BrokerBegins(j) \/ Submits(j) \/ ItemEnds(j) \/ BrokerEnds(j) \/ Reserve(j)
  \/ \E j \in Jobs, a \in Attempts : Consume(j, a) \/ CallbackCompletes(j, a)
  \/ \E w \in Workers : WorkerStep(w) \/ WorkerDies(w)
  \/ \E fresh \in SUBSET Jobs : Sweep(fresh)
  \/ RetryPending \/ RetriesDone \/ ReapRow \/ CancelClosed \/ FailExhausted \/ SweepEnds \/ ReaperDies

Spec == Init /\ [][Next]_vars

\* Threads run, the reaper's loop never ends, JOB_MAX_S bounds a call, an unrenewed lease runs out.
Fairness ==
  /\ \A w \in Workers : WF_vars(WorkerStep(w))
  /\ WF_vars(ReaperStep)
  /\ \A j \in Jobs : WF_vars(LeaseLapses(j) /\ ~Held(j))

FairSpec == Spec /\ Fairness

(***************************************************************************)
(* Properties.                                                             *)
(***************************************************************************)
\* A finished job's evidence is of the attempt the job ended on: neither a worker that lost its lease,
\* nor a late callback, nor the reaper ends an attempt with what another one did; a callback's attempt
\* has its receipt and is bound to the WorkItem.
EvidenceIsCurrent ==
  \A j \in Jobs : row[j].status \in Terminal =>
    /\ row[j].proof = row[j].attempt
    /\ row[j].by = "callback" => row[j].bound = row[j].attempt /\ receipt[j][row[j].attempt] = "settled"

\* There are four ways to lose the cancel of a closed job, and no other: while its run may still bill a
\* WorkItem, the queue has it, the reaper is at it, or it was given up after its last attempt, refused
\* by a full queue, in hand when the process died, or missing from the file the next process read.
CancelRemembered ==
  \A j \in Jobs :
    (row[j].by = "closed" /\ broker[j].run \in {"asked", "begun"} /\ broker[j].item \in {"none", "live"}) =>
      pending[j] > 0 \/ dropped[j] \in Losses \/ (reaper.pc = "cancelling" /\ reaper.job = j)

\* Only the WorkItem of a job that was closed and failed for it is ever cancelled: a stale row's
\* WorkItem may be the one its next attempt adopts.
CancelsOnlyClosed ==
  \A j \in Jobs : pending[j] > 0 \/ (reaper.pc = "cancelling" /\ reaper.job = j) => row[j].by = "closed"

\* The queue is persisted so that a restart does not lose a cancel (jobs.py, PENDING_REAPS_PATH).
RestartKeepsCancel ==
  \A j \in Jobs : dropped[j] = "crash" => broker[j].item # "live"

\* A terminal row never changes.
TerminalIsFinal == [][\A j \in Jobs : row[j].status \in Terminal => row'[j] = row[j]]_vars

\* A closed job is never run again and never succeeds: it can only be failed.
ClosedStaysClosed ==
  [][\A j \in Jobs : row[j].closed =>
       \/ row'[j].closed /\ row'[j].attempt = row[j].attempt
       \/ row'[j].status = "failed"]_vars

\* The reaper leaves an attempt whose lease is alive to its worker.
ReaperSparesLive ==
  [][\A j \in Jobs : Held(j) /\ row[j].live => row'[j].by # "exhausted"]_vars

\* Every submitted job ends.
JobsEnd == \A j \in Jobs : row[j].status = "submitted" ~> row[j].status \in Terminal
=============================================================================

--------------------------- MODULE JobSpineProofs ---------------------------
(***************************************************************************)
(* Proofs about the job spine, for any number of jobs, threads, attempts   *)
(* and crashes: a terminal row never changes, a closed job can only be     *)
(* failed, a finished job's evidence is of the attempt it ended on, the    *)
(* reaper cancels the WorkItems of closed jobs only, and no such cancel is *)
(* forgotten without a trace.                                              *)
(***************************************************************************)
EXTENDS JobSpine, TLAPS

(***************************************************************************)
(* What the store may do to a row.                                         *)
(***************************************************************************)
Stepped(old, new) ==
  /\ new \in JobRow
  /\ old.status \in Terminal => new = old
  /\ old.closed => \/ new.closed /\ new.attempt = old.attempt
                   \/ new.status = "failed" /\ new.by = "closed"
  /\ new.attempt >= old.attempt
  /\ new.attempt = old.attempt => new.bound \in {old.bound, old.attempt}
  /\ new.closed => new.status \notin Terminal
  /\ new.status \notin Terminal => new.by = None
  /\ old.status \notin Terminal /\ new.status \in Terminal =>
       new.proof = old.attempt /\ new.attempt = old.attempt /\ new.bound = old.bound

\* A row that is not terminal has no author.
Open(r) == r \in JobRow /\ r.status \notin Terminal /\ r.by = None

\* The attempt of an open row.
LEMMA AttemptOrder ==
  ASSUME NEW r, Open(r)
  PROVE  r.attempt \in 0 .. MaxAttempts /\ r.attempt >= r.attempt
<1>1. r.attempt \in 0 .. MaxAttempts
  BY Zenon DEF Open, JobRow
<1> QED BY <1>1, SpineAssumption

\* Closing an open row.
LEMMA ClosedSteps ==
  ASSUME NEW r, Open(r)
  PROVE  Stepped(r, Closed(r))
<1>1. /\ Closed(r) \in JobRow /\ Closed(r).status = r.status /\ Closed(r).by = r.by
      /\ Closed(r).closed /\ Closed(r).attempt = r.attempt /\ Closed(r).bound = r.bound
  BY Zenon DEF Open, JobRow, Closed
<1> QED BY Zenon, <1>1, AttemptOrder DEF Stepped, Open

\* Claiming the next attempt of an open row.
LEMMA ClaimedSteps ==
  ASSUME NEW r, Open(r), ~r.closed, r.attempt < MaxAttempts, NEW w \in Workers
  PROVE  Stepped(r, Claimed(r, w))
<1>1. r.attempt + 1 \in 0 .. MaxAttempts /\ r.attempt \in 0 .. MaxAttempts
  BY SpineAssumption DEF Open, JobRow
<1>2. /\ Claimed(r, w) \in JobRow /\ Claimed(r, w).attempt = r.attempt + 1
      /\ Claimed(r, w).status = "running" /\ Claimed(r, w).by = r.by
  BY Zenon, <1>1 DEF Open, JobRow, Claimed
<1>3. r.attempt + 1 >= r.attempt /\ r.attempt + 1 # r.attempt
  BY <1>1, SpineAssumption
<1> QED BY Zenon, <1>2, <1>3 DEF Stepped, Open, Terminal

\* Giving an attempt back.
LEMMA ReleasedSteps ==
  ASSUME NEW r, Open(r), ~r.closed
  PROVE  Stepped(r, Released(r))
<1>1. /\ Released(r) \in JobRow /\ Released(r).status = "submitted" /\ Released(r).by = r.by
      /\ Released(r).attempt = r.attempt /\ Released(r).bound = r.bound
  BY Zenon DEF Open, JobRow, Released
<1> QED BY Zenon, <1>1, AttemptOrder DEF Stepped, Open, Terminal

\* A terminal write with the row's own attempt.
LEMMA EndSteps ==
  ASSUME NEW r, Open(r), NEW status \in Terminal, NEW by \in {"worker", "callback", "closed", "exhausted"},
         r.closed => status = "failed" /\ by = "closed"
  PROVE  /\ Stepped(r, End(r, status, by, r.attempt)) /\ End(r, status, by, r.attempt).by = by
         /\ End(r, status, by, r.attempt).status = status
<1>1. r.attempt \in 0 .. MaxAttempts
  BY Zenon DEF Open, JobRow
<1>2. LET new == End(r, status, by, r.attempt) IN
      /\ new \in JobRow /\ new.status = status /\ new.by = by /\ new.proof = r.attempt
      /\ new.attempt = r.attempt /\ new.bound = r.bound /\ ~new.closed
  BY Zenon, <1>1 DEF Open, JobRow, End
<1> QED BY <1>1, <1>2, SpineAssumption DEF Stepped, Open

\* The writes of one field: a lapsed lease, a submission, a bind.
LEMMA FieldSteps ==
  ASSUME NEW r, Open(r)
  PROVE  /\ Stepped(r, [r EXCEPT !.live = FALSE]) /\ Stepped(r, [r EXCEPT !.status = "submitted"])
         /\ Stepped(r, [r EXCEPT !.bound = r.attempt])
<1>1. r.attempt \in 0 .. MaxAttempts /\ r.attempt >= r.attempt
  BY Zenon, AttemptOrder
<1>2. Stepped(r, [r EXCEPT !.live = FALSE])
  <2> DEFINE new == [r EXCEPT !.live = FALSE]
  <2>1. /\ new \in JobRow /\ new.status = r.status /\ new.by = r.by /\ new.closed = r.closed
        /\ new.attempt = r.attempt /\ new.bound = r.bound
    BY Zenon DEF Open, JobRow
  <2> QED BY Zenon, <1>1, <2>1 DEF Stepped, Open
<1>3. Stepped(r, [r EXCEPT !.status = "submitted"])
  <2> DEFINE new == [r EXCEPT !.status = "submitted"]
  <2>1. /\ new \in JobRow /\ new.status = "submitted" /\ new.by = r.by /\ new.closed = r.closed
        /\ new.attempt = r.attempt /\ new.bound = r.bound
    BY Zenon DEF Open, JobRow
  <2> QED BY Zenon, <1>1, <2>1 DEF Stepped, Open, Terminal
<1>4. Stepped(r, [r EXCEPT !.bound = r.attempt])
  <2> DEFINE new == [r EXCEPT !.bound = r.attempt]
  <2>1. /\ new \in JobRow /\ new.status = r.status /\ new.by = r.by /\ new.closed = r.closed
        /\ new.attempt = r.attempt /\ new.bound = r.attempt
    BY Zenon, <1>1 DEF Open, JobRow
  <2> QED BY Zenon, <1>1, <2>1 DEF Stepped, Open
<1> QED BY Zenon, <1>2, <1>3, <1>4

(***************************************************************************)
(* Types, and the shape of what threads and the reaper hold.               *)
(***************************************************************************)
Shape ==
  /\ \A w \in Workers : worker[w].pc # "idle" => worker[w].job \in Jobs
  /\ reaper.pc \in {"cancelling", "failing"} => reaper.job \in Jobs
  /\ \A j \in Jobs : /\ row[j].closed => row[j].status \notin Terminal
                     /\ row[j].status \notin Terminal => row[j].by = None

BaseInv == TypeOK /\ Shape

\* Every row steps, or stays as it is.
RowSteps == /\ row' = [j \in Jobs |-> row'[j]]
            /\ \A j \in Jobs : row'[j] = row[j] \/ Stepped(row[j], row'[j])

\* One row that steps.
LEMMA OneRow ==
  ASSUME BaseInv, NEW k \in Jobs, NEW new, row' = [row EXCEPT ![k] = new],
         new = row[k] \/ Stepped(row[k], new)
  PROVE  RowSteps
<1>1. row \in [Jobs -> JobRow]
  BY Zenon DEF BaseInv, TypeOK
<1> QED BY Zenon, <1>1 DEF RowSteps

\* No row changes.
LEMMA SameRows ==
  ASSUME BaseInv, row' = row
  PROVE  RowSteps
<1>1. row \in [Jobs -> JobRow]
  BY Zenon DEF BaseInv, TypeOK
<1> QED BY Zenon, <1>1 DEF RowSteps

\* A row that is not terminal is open.
LEMMA OpenRow ==
  ASSUME BaseInv, NEW j \in Jobs, row[j].status \notin Terminal
  PROVE  Open(row[j])
BY Zenon DEF BaseInv, TypeOK, Shape, Open

\* Rows that step keep their types and shape.
LEMMA RowsKept ==
  ASSUME BaseInv, RowSteps
  PROVE  /\ row' \in [Jobs -> JobRow]
         /\ \A j \in Jobs : /\ row'[j].closed => row'[j].status \notin Terminal
                            /\ row'[j].status \notin Terminal => row'[j].by = None
BY Zenon DEF BaseInv, TypeOK, Shape, RowSteps, Stepped

(***************************************************************************)
(* The types of what an action writes.                                     *)
(***************************************************************************)
WorkerTo(w) == \E new \in Thread : /\ worker' = [worker EXCEPT ![w] = new]
                                   /\ new.pc # "idle" => new.job \in Jobs

WorkersTyped == worker' = worker \/ \E w \in Workers : WorkerTo(w)
ReaperTyped == /\ reaper' \in Reaping
               /\ reaper'.pc \in {"cancelling", "failing"} => reaper'.job \in Jobs
ReceiptsTyped == receipt' \in [Jobs -> [Attempts -> {"none", "reserved", "consumed", "settled"}]]
BrokerTyped == broker' \in [Jobs -> Run]
QueueTyped == /\ pending' \in [Jobs -> 0 .. MaxReaps]
              /\ dropped' \in [Jobs -> {"no"} \cup Losses]
CrashesTyped == crashes' \in 0 .. MaxCrashes

\* Rows that step and typed writes of the other variables keep the base invariant.
LEMMA BaseKept ==
  ASSUME BaseInv, RowSteps, WorkersTyped, ReaperTyped, ReceiptsTyped, BrokerTyped, QueueTyped, CrashesTyped
  PROVE  BaseInv'
<1>1. worker' \in [Workers -> Thread] /\ \A w \in Workers : worker'[w].pc # "idle" => worker'[w].job \in Jobs
  <2>1. worker \in [Workers -> Thread] /\ \A w \in Workers : worker[w].pc # "idle" => worker[w].job \in Jobs
    BY Zenon DEF BaseInv, TypeOK, Shape
  <2>2. CASE worker' = worker
    BY Zenon, <2>1, <2>2
  <2>3. ASSUME NEW v \in Workers, WorkerTo(v)
        PROVE  worker' \in [Workers -> Thread] /\ \A w \in Workers : worker'[w].pc # "idle" => worker'[w].job \in Jobs
    BY Zenon, <2>1, <2>3 DEF WorkerTo
  <2> QED BY Zenon, <2>2, <2>3 DEF WorkersTyped
<1> QED BY Zenon, <1>1, RowsKept DEF BaseInv, TypeOK, Shape, ReaperTyped, ReceiptsTyped, BrokerTyped, QueueTyped, CrashesTyped

\* A variable an action leaves alone keeps its type.
LEMMA Unchanged ==
  ASSUME BaseInv
  PROVE  /\ worker' = worker => WorkersTyped
         /\ reaper' = reaper => ReaperTyped
         /\ receipt' = receipt => ReceiptsTyped
         /\ broker' = broker => BrokerTyped
         /\ UNCHANGED <<pending, dropped>> => QueueTyped
         /\ crashes' = crashes => CrashesTyped
BY Zenon DEF BaseInv, TypeOK, Shape, WorkersTyped, ReaperTyped, ReceiptsTyped, BrokerTyped, QueueTyped, CrashesTyped

\* The threads an action may leave behind.
LEMMA Threads ==
  ASSUME BaseInv, NEW w \in Workers
  PROVE  /\ Returns(w) => WorkersTyped
         /\ \A j \in Jobs : worker' = Queued(w, j) => WorkersTyped
         /\ \A answer \in {"ok", "retry", "final"} : worker[w].pc # "idle" /\ Answers(w, answer) => WorkersTyped
         /\ \A pc \in {"calling", "fallback"} :
              worker[w].pc # "idle" /\ worker' = [worker EXCEPT ![w].pc = pc] => WorkersTyped
<1>1. worker \in [Workers -> Thread] /\ worker[w] \in Thread /\ (worker[w].pc # "idle" => worker[w].job \in Jobs)
  BY Zenon DEF BaseInv, TypeOK, Shape
<1>2. Returns(w) => WorkersTyped
  <2>1. Idle \in Thread /\ Idle.pc = "idle"
    BY SpineAssumption DEF Idle, Thread
  <2> QED BY Zenon, <2>1 DEF Returns, WorkersTyped, WorkerTo
<1>3. ASSUME NEW j \in Jobs, worker' = Queued(w, j) PROVE WorkersTyped
  <2> DEFINE new == [pc |-> "queued", job |-> j, attempt |-> 0, answer |-> None]
  <2>1. new \in Thread /\ new.job = j
    BY SpineAssumption DEF Thread
  <2>2. worker' = [worker EXCEPT ![w] = new]
    BY Zenon, <1>3 DEF Queued
  <2> HIDE DEF new
  <2> QED BY Zenon, <2>1, <2>2 DEF WorkersTyped, WorkerTo
<1>4. ASSUME NEW answer \in {"ok", "retry", "final"}, worker[w].pc # "idle", Answers(w, answer) PROVE WorkersTyped
  <2> DEFINE new == [worker[w] EXCEPT !.pc = "answered", !.answer = answer]
  <2>1. new \in Thread /\ new.job = worker[w].job
    BY Zenon, <1>1 DEF Thread
  <2>2. worker' = [worker EXCEPT ![w] = new]
    BY Zenon, <1>4, <1>1 DEF Answers
  <2> HIDE DEF new
  <2> QED BY Zenon, <1>1, <1>4, <2>1, <2>2 DEF WorkersTyped, WorkerTo
<1>5. ASSUME NEW pc \in {"calling", "fallback"}, worker[w].pc # "idle", worker' = [worker EXCEPT ![w].pc = pc]
      PROVE  WorkersTyped
  <2> DEFINE new == [worker[w] EXCEPT !.pc = pc]
  <2>1. new \in Thread /\ new.job = worker[w].job
    BY Zenon, <1>1 DEF Thread
  <2>2. worker' = [worker EXCEPT ![w] = new]
    BY Zenon, <1>5, <1>1
  <2> HIDE DEF new
  <2> QED BY Zenon, <1>1, <1>5, <2>1, <2>2 DEF WorkersTyped, WorkerTo
<1> QED BY Zenon, <1>2, <1>3, <1>4, <1>5

(***************************************************************************)
(* The rows each action leaves.  Only the callback route writes a row in   *)
(* the callback's name.                                                    *)
(***************************************************************************)
Uncalled == \A j \in Jobs : row'[j] = row[j] \/ row'[j].by # "callback"
Quiet == RowSteps /\ Uncalled

\* No write, or one write that steps its row and is not the callback's, is quiet.
LEMMA QuietRow ==
  ASSUME BaseInv, NEW k \in Jobs, NEW new, row' = [row EXCEPT ![k] = new], Stepped(row[k], new),
         new.status \notin Terminal \/ new.by # "callback"
  PROVE  Quiet
<1>1. row \in [Jobs -> JobRow]
  BY Zenon DEF BaseInv, TypeOK
<1>2. RowSteps
  BY Zenon, OneRow
<1>3. new.by # "callback"
  BY Zenon, SpineAssumption DEF Stepped
<1> QED BY Zenon, <1>1, <1>2, <1>3 DEF Quiet, Uncalled

\* A step without a write to a row is quiet.
LEMMA QuietSame ==
  ASSUME BaseInv, row' = row
  PROVE  Quiet
BY Zenon, SameRows DEF Quiet, Uncalled

\* A terminal write steps its row; it is quiet unless it is the callback's.
LEMMA EndsRow ==
  ASSUME BaseInv, NEW j \in Jobs, row[j].status \notin Terminal,
         NEW status \in Terminal, NEW by \in {"worker", "callback", "closed", "exhausted"},
         row[j].closed => status = "failed" /\ by = "closed",
         row' = Ended(j, status, by, row[j].attempt)
  PROVE  /\ RowSteps /\ row'[j].by = by /\ row'[j].status = status
         /\ by # "callback" => Quiet
         /\ \A i \in Jobs : i # j => row'[i] = row[i]
<1> DEFINE new == End(row[j], status, by, row[j].attempt)
<1>1. row' = [row EXCEPT ![j] = new] /\ row \in [Jobs -> JobRow]
  BY Zenon DEF Ended, BaseInv, TypeOK
<1>2. Stepped(row[j], new) /\ new.by = by /\ new.status = status
  BY OpenRow, EndSteps
<1> HIDE DEF new
<1>3. RowSteps
  BY Zenon, <1>1, <1>2, OneRow
<1>4. by # "callback" => Quiet
  BY Zenon, <1>1, <1>2, QuietRow
<1> QED BY Zenon, <1>1, <1>2, <1>3, <1>4

\* submit, the tab-close and the lapse of a lease.
LEMMA StoreActions ==
  ASSUME BaseInv, NEW j \in Jobs,
         (\E w \in Workers : Submit(j, w)) \/ Close(j) \/ LeaseLapses(j)
  PROVE  Quiet /\ BaseInv' /\ UNCHANGED <<receipt, pending, reaper>>
<1>1. row \in [Jobs -> JobRow] /\ row[j] \in JobRow
  BY Zenon DEF BaseInv, TypeOK
<1>2. ASSUME NEW w \in Workers, Submit(j, w) PROVE Quiet /\ WorkersTyped
  <2> DEFINE new == [row[j] EXCEPT !.status = "submitted"]
  <2>1. row' = [row EXCEPT ![j] = new] /\ new.status = "submitted"
    BY Zenon, <1>1, <1>2 DEF Submit, JobRow
  <2>2. Stepped(row[j], new)
    BY Zenon, <1>2, OpenRow, FieldSteps DEF Submit, Terminal
  <2> HIDE DEF new
  <2>3. Quiet
    BY Zenon, <2>1, <2>2, QuietRow DEF Terminal
  <2> QED BY Zenon, <1>2, <2>3, Threads DEF Submit
<1>3. CASE Close(j)
  <2>1. row[j].status \notin Terminal /\ row' = [row EXCEPT ![j] = Closed(row[j])]
    BY Zenon, <1>3 DEF Close, InFlight, Terminal
  <2>2. Stepped(row[j], Closed(row[j])) /\ Closed(row[j]).closed
    BY Zenon, <1>1, <2>1, OpenRow, ClosedSteps DEF Closed, JobRow
  <2>3. Closed(row[j]).status \notin Terminal
    BY Zenon, <2>2 DEF Stepped
  <2>4. Quiet
    BY Zenon, <2>1, <2>2, <2>3, QuietRow
  <2> QED BY Zenon, <1>3, <2>4, BaseKept, Unchanged DEF Close, Quiet
<1>4. CASE LeaseLapses(j)
  <2> DEFINE new == [row[j] EXCEPT !.live = FALSE]
  <2>1. row' = [row EXCEPT ![j] = new] /\ new.status = "running"
    BY Zenon, <1>1, <1>4 DEF LeaseLapses, JobRow
  <2>2. Stepped(row[j], new)
    BY Zenon, <1>4, OpenRow, FieldSteps DEF LeaseLapses, Terminal
  <2> HIDE DEF new
  <2>3. Quiet
    BY Zenon, <2>1, <2>2, QuietRow DEF Terminal
  <2> QED BY Zenon, <1>4, <2>3, BaseKept, Unchanged DEF LeaseLapses, Quiet
<1>5. CASE \E w \in Workers : Submit(j, w)
  BY Zenon, <1>2, <1>5, BaseKept, Unchanged DEF Submit, Quiet
<1> QED BY Zenon, <1>3, <1>4, <1>5

\* The claim of an attempt.
LEMMA BeginStep ==
  ASSUME BaseInv, NEW w \in Workers, Begin(w)
  PROVE  Quiet /\ WorkersTyped
<1> PICK j \in Jobs : j = worker[w].job
  BY Zenon DEF BaseInv, Shape, Begin
<1>1. row \in [Jobs -> JobRow] /\ row[j] \in JobRow /\ worker \in [Workers -> Thread] /\ worker[w] \in Thread
  BY Zenon DEF BaseInv, TypeOK
<1>2. CASE Claimable(j)
  <2>1. row' = [row EXCEPT ![j] = Claimed(row[j], w)]
    BY Zenon, <1>2 DEF Begin
  <2>2. row[j].status \notin Terminal /\ ~row[j].closed /\ row[j].attempt < MaxAttempts
    BY Zenon, <1>2 DEF Claimable, Terminal
  <2>3. Stepped(row[j], Claimed(row[j], w))
    BY Zenon, <2>2, OpenRow, ClaimedSteps
  <2>4. Claimed(row[j], w).status = "running"
    BY Zenon, <1>1 DEF Claimed, JobRow
  <2>5. Quiet
    BY Zenon, <2>1, <2>3, <2>4, QuietRow DEF Terminal
  <2> DEFINE new == [worker[w] EXCEPT !.pc = "claimed", !.attempt = row[j].attempt + 1]
  <2>6. worker' = [worker EXCEPT ![w] = new]
    BY Zenon, <1>1, <1>2 DEF Begin
  <2>7. row[j].attempt + 1 \in 0 .. MaxAttempts
    BY <1>1, <2>2, SpineAssumption DEF JobRow
  <2>8. new \in Thread /\ new.job = j
    BY Zenon, <1>1, <2>7 DEF Thread
  <2> HIDE DEF new
  <2> QED BY Zenon, <2>5, <2>6, <2>8 DEF WorkersTyped, WorkerTo
<1>3. CASE ~Claimable(j)
  BY Zenon, <1>3, QuietSame, Threads DEF Begin
<1> QED BY Zenon, <1>2, <1>3

\* The end of an attempt: the terminal write of its owner, or the hand-back for a retry.
LEMMA FinishStep ==
  ASSUME BaseInv, NEW w \in Workers, Finish(w)
  PROVE  Quiet /\ WorkersTyped
<1> PICK j \in Jobs : j = worker[w].job
  BY Zenon DEF BaseInv, Shape, Finish
<1>1. row \in [Jobs -> JobRow] /\ row[j] \in JobRow /\ w # None
  BY Zenon, SpineAssumption DEF BaseInv, TypeOK
<1>2. ASSUME NEW status \in Terminal,
             IF worker[w].attempt = row[j].attempt /\ Completes(j, row[j].attempt, w, FALSE)
             THEN row' = Ended(j, status, "worker", worker[w].attempt)
             ELSE UNCHANGED row
      PROVE  Quiet
  <2>1. CASE row' = row
    BY Zenon, <2>1, QuietSame
  <2>2. CASE worker[w].attempt = row[j].attempt /\ Completes(j, row[j].attempt, w, FALSE)
    <3>1. row[j].status \notin Terminal /\ ~row[j].closed /\ row' = Ended(j, status, "worker", row[j].attempt)
      BY Zenon, <1>2, <2>2 DEF Completes
    <3> QED BY Zenon, <3>1, EndsRow
  <2> QED BY Zenon, <1>2, <2>1, <2>2
<1>3. CASE Succeeds(w, j)
  BY Zenon, <1>2, <1>3, Threads DEF Succeeds, Terminal
<1>4. CASE GivesUp(w, j)
  BY Zenon, <1>2, <1>4, Threads DEF GivesUp, Terminal
<1>5. CASE Retries(w, j)
  <2>1. row' = [row EXCEPT ![j] = Released(row[j])] /\ row[j].status \notin Terminal /\ ~row[j].closed
    BY Zenon, <1>5 DEF Retries, Owns, Terminal
  <2>2. Stepped(row[j], Released(row[j])) /\ Released(row[j]).status = "submitted"
    BY Zenon, <1>1, <2>1, OpenRow, ReleasedSteps DEF Released, JobRow
  <2>3. Quiet
    BY Zenon, <2>1, <2>2, QuietRow DEF Terminal
  <2> QED BY Zenon, <1>5, <2>3, Threads DEF Retries
<1> QED BY Zenon, <1>3, <1>4, <1>5 DEF Finish

\* A death within the bound is counted within it.
LEMMA CrashCounted ==
  ASSUME BaseInv, crashes < MaxCrashes, crashes' = crashes + 1
  PROVE  CrashesTyped
<1>1. crashes \in 0 .. MaxCrashes
  BY Zenon DEF BaseInv, TypeOK
<1>2. crashes + 1 \in 0 .. MaxCrashes
  BY <1>1, SpineAssumption
<1> QED BY Zenon, <1>2 DEF CrashesTyped

\* Every step of a thread, and its death.
LEMMA WorkerActions ==
  ASSUME BaseInv, NEW w \in Workers, WorkerStep(w) \/ WorkerDies(w)
  PROVE  Quiet /\ BaseInv' /\ UNCHANGED <<receipt, pending, reaper>>
<1>1. CASE Begin(w)
  BY Zenon, <1>1, BeginStep, BaseKept, Unchanged DEF Begin, Quiet
<1>2. CASE Finish(w)
  BY Zenon, <1>2, FinishStep, BaseKept, Unchanged DEF Finish, Quiet
<1>3. CASE Call(w)
  <2> PICK j \in Jobs : j = worker[w].job
    BY Zenon, <1>3 DEF BaseInv, Shape, Call
  <2>1. broker \in [Jobs -> Run] /\ broker[j] \in Run
    BY Zenon DEF BaseInv, TypeOK
  <2>2. BrokerTyped
    BY Zenon, <1>3, <2>1 DEF Call, BrokerTyped, Run
  <2>3. WorkersTyped
    BY Zenon, <1>3, Threads DEF Call
  <2> QED BY Zenon, <1>3, <2>2, <2>3, QuietSame, BaseKept, Unchanged DEF Call, Quiet
<1>4. CASE HeartbeatRefused(w)
  BY Zenon, <1>4, Threads, QuietSame, BaseKept, Unchanged DEF HeartbeatRefused, Quiet
<1>5. CASE Answered(w)
  <2>1. WorkersTyped
    BY Zenon, <1>5, Threads DEF Answered
  <2> QED BY Zenon, <1>5, <2>1, QuietSame, BaseKept, Unchanged DEF Answered, Quiet
<1>6. CASE FallsBack(w)
  <2>1. WorkersTyped
    BY Zenon, <1>6, Threads DEF FallsBack
  <2> QED BY Zenon, <1>6, <2>1, QuietSame, BaseKept, Unchanged DEF FallsBack, Quiet
<1>7. CASE FallbackEnds(w)
  <2>1. WorkersTyped
    BY Zenon, <1>7, Threads DEF FallbackEnds
  <2> QED BY Zenon, <1>7, <2>1, QuietSame, BaseKept, Unchanged DEF FallbackEnds, Quiet
<1>8. CASE WorkerDies(w)
  <2>1. CrashesTyped
    BY Zenon, <1>8, CrashCounted DEF WorkerDies
  <2> QED BY Zenon, <1>8, <2>1, Threads, QuietSame, BaseKept, Unchanged DEF WorkerDies, Quiet
<1> QED BY Zenon, <1>1, <1>2, <1>3, <1>4, <1>5, <1>6, <1>7, <1>8 DEF WorkerStep

\* The broker's run and its WorkItem; the bind is the only write to a row.
LEMMA BrokerActions ==
  ASSUME BaseInv, NEW j \in Jobs, BrokerBegins(j) \/ Submits(j) \/ ItemEnds(j) \/ BrokerEnds(j)
  PROVE  Quiet /\ BaseInv' /\ UNCHANGED <<receipt, pending, reaper>>
<1>1. broker \in [Jobs -> Run] /\ broker[j] \in Run /\ row \in [Jobs -> JobRow] /\ row[j] \in JobRow
  BY Zenon DEF BaseInv, TypeOK
<1>2. CASE BrokerBegins(j)
  <2> DEFINE by == IF row[j].owner = None THEN 0 ELSE row[j].attempt
  <2>1. by \in 0 .. MaxAttempts /\ row[j].owner \in Workers \cup {None}
    BY <1>1, SpineAssumption DEF JobRow
  <2>2. broker' = [broker EXCEPT ![j] = [broker[j] EXCEPT !.run = "begun", !.holder = row[j].owner, !.by = by]]
    BY Zenon, <1>1, <1>2 DEF BrokerBegins
  <2> HIDE DEF by
  <2>3. BrokerTyped
    BY Zenon, <1>1, <2>1, <2>2 DEF BrokerTyped, Run
  <2> QED BY Zenon, <1>2, <2>3, QuietSame, BaseKept, Unchanged DEF BrokerBegins, Quiet
<1>3. CASE Submits(j)
  <2>1. BrokerTyped
    BY Zenon, <1>1, <1>3 DEF Submits, BrokerTyped, Run
  <2>2. Quiet
    <3>1. CASE Binds(j)
      <4> DEFINE new == [row[j] EXCEPT !.bound = row[j].attempt]
      <4>1. row' = [row EXCEPT ![j] = new] /\ new.status = "running"
        BY Zenon, <1>1, <1>3, <3>1 DEF Submits, Binds, Owns, JobRow
      <4>2. Stepped(row[j], new)
        BY Zenon, <3>1, OpenRow, FieldSteps DEF Binds, Owns, Terminal
      <4> HIDE DEF new
      <4> QED BY Zenon, <4>1, <4>2, QuietRow DEF Terminal
    <3>2. CASE ~Binds(j)
      BY Zenon, <1>3, <3>2, QuietSame DEF Submits
    <3> QED BY Zenon, <3>1, <3>2
  <2> QED BY Zenon, <1>3, <2>1, <2>2, BaseKept, Unchanged DEF Submits, Quiet
<1>4. CASE ItemEnds(j)
  <2>1. BrokerTyped
    BY <1>1, <1>4 DEF ItemEnds, BrokerTyped, Run
  <2> QED BY Zenon, <1>4, <2>1, QuietSame, BaseKept, Unchanged DEF ItemEnds, Quiet
<1>5. CASE BrokerEnds(j)
  <2>1. BrokerTyped
    BY Zenon, <1>1, <1>5 DEF BrokerEnds, BrokerTyped, Run
  <2> QED BY Zenon, <1>5, <2>1, QuietSame, BaseKept, Unchanged DEF BrokerEnds, Quiet
<1> QED BY Zenon, <1>2, <1>3, <1>4, <1>5

(***************************************************************************)
(* The receipts.                                                           *)
(***************************************************************************)
ReceiptSet(j, a, state) ==
  /\ receipt' = [receipt EXCEPT ![j][a] = state]
  /\ ReceiptsTyped
  /\ receipt'[j][a] = state
  /\ \A i \in Jobs, b \in Attempts : <<i, b>> # <<j, a>> => receipt'[i][b] = receipt[i][b]

\* A write to one receipt.
LEMMA ReceiptWrite ==
  ASSUME BaseInv, NEW j \in Jobs, NEW a \in Attempts, NEW state \in {"reserved", "consumed", "settled"},
         receipt' = [receipt EXCEPT ![j][a] = state]
  PROVE  ReceiptSet(j, a, state)
<1>1. receipt \in [Jobs -> [Attempts -> {"none", "reserved", "consumed", "settled"}]]
  BY Zenon DEF BaseInv, TypeOK
<1> QED BY Zenon, <1>1 DEF ReceiptSet, ReceiptsTyped

\* A receipt is reserved for the row's own attempt, bound to its WorkItem.
LEMMA ReserveStep ==
  ASSUME BaseInv, NEW j \in Jobs, Reserve(j)
  PROVE  /\ Quiet /\ BaseInv' /\ UNCHANGED <<row, pending, reaper>>
         /\ row[j].attempt \in Attempts /\ row[j].bound = row[j].attempt
         /\ receipt[j][row[j].attempt] = "none"
         /\ ReceiptSet(j, row[j].attempt, "reserved")
<1>1. row[j].attempt \in Attempts
  <2>1. row[j].attempt \in 0 .. MaxAttempts /\ row[j].attempt # 0
    BY Zenon DEF BaseInv, TypeOK, JobRow, Reserve
  <2> QED BY <2>1, SpineAssumption DEF Attempts
<1>2. ReceiptSet(j, row[j].attempt, "reserved")
  BY Zenon, <1>1, ReceiptWrite DEF Reserve
<1>3. Quiet /\ BaseInv'
  BY Zenon, <1>2, QuietSame, BaseKept, Unchanged DEF Reserve, Quiet, ReceiptSet
<1> QED BY Zenon, <1>1, <1>2, <1>3 DEF Reserve

\* A nonce is consumed after its receipt was reserved.
LEMMA ConsumeStep ==
  ASSUME BaseInv, NEW j \in Jobs, NEW a \in Attempts, Consume(j, a)
  PROVE  /\ Quiet /\ BaseInv' /\ UNCHANGED <<row, pending, reaper>>
         /\ receipt[j][a] = "reserved" /\ ReceiptSet(j, a, "consumed")
<1>1. ReceiptSet(j, a, "consumed")
  BY Zenon, ReceiptWrite DEF Consume
<1>2. Quiet /\ BaseInv'
  BY Zenon, <1>1, QuietSame, BaseKept, Unchanged DEF Consume, Quiet, ReceiptSet
<1> QED BY Zenon, <1>1, <1>2 DEF Consume

\* A callback settles its receipt, and ends only the attempt it was signed for.
LEMMA CallbackStep ==
  ASSUME BaseInv, NEW j \in Jobs, NEW a \in Attempts, CallbackCompletes(j, a)
  PROVE  /\ RowSteps /\ BaseInv' /\ UNCHANGED <<pending, reaper>>
         /\ receipt[j][a] = "consumed" /\ ReceiptSet(j, a, "settled")
         /\ \A i \in Jobs : row'[i] = row[i] \/ (i = j /\ a = row[j].attempt /\ row[j].status \notin Terminal)
         /\ row' # row => row'[j].status \in Terminal
<1>1. ReceiptSet(j, a, "settled")
  BY Zenon, ReceiptWrite DEF CallbackCompletes
<1>2. RowSteps /\ (\A i \in Jobs : row'[i] = row[i] \/ (i = j /\ a = row[j].attempt /\ row[j].status \notin Terminal))
      /\ (row' # row => row'[j].status \in Terminal)
  <2>1. CASE row' = row
    BY Zenon, <2>1, SameRows
  <2>2. CASE a = row[j].attempt /\ Completes(j, row[j].attempt, None, FALSE)
    <3>1. row[j].status \notin Terminal /\ ~row[j].closed /\ row' = Ended(j, "complete", "callback", row[j].attempt)
      BY Zenon, <2>2 DEF CallbackCompletes, Completes
    <3>2. /\ RowSteps /\ row'[j].status = "complete" /\ \A i \in Jobs : i # j => row'[i] = row[i]
      BY Zenon, <3>1, EndsRow DEF Terminal
    <3> QED BY Zenon, <2>2, <3>1, <3>2 DEF Terminal
  <2> QED BY Zenon, <2>1, <2>2 DEF CallbackCompletes
<1>3. BaseInv'
  BY Zenon, <1>1, <1>2, BaseKept, Unchanged DEF CallbackCompletes, ReceiptSet
<1> QED BY Zenon, <1>1, <1>2, <1>3 DEF CallbackCompletes

(***************************************************************************)
(* The reaper.                                                             *)
(***************************************************************************)
\* What the reaper is to cancel was closed and failed for it, and what it listed as closed still is.
Closing ==
  /\ \A j \in Jobs : pending[j] > 0 \/ j \in reaper.todo \/ (reaper.pc = "cancelling" /\ reaper.job = j)
                       => row[j].by = "closed"
  /\ \A r \in reaper.listed : r.closed => row[r.job].closed \/ row[r.job].by = "closed"

\* A closed row stays closed until it is failed for it, and that is final.
LEMMA ClosedKept ==
  ASSUME BaseInv, RowSteps, NEW j \in Jobs
  PROVE  /\ row[j].by = "closed" => row'[j] = row[j]
         /\ row[j].closed => row'[j].closed \/ row'[j].by = "closed"
BY Zenon, SpineAssumption DEF BaseInv, Shape, RowSteps, Stepped

\* The types of the reaper's fields.
LEMMA ReaperType ==
  ASSUME BaseInv
  PROVE  /\ reaper \in Reaping /\ reaper.todo \subseteq Jobs /\ reaper.listed \subseteq Listing
         /\ \A r \in reaper.listed : r.job \in Jobs /\ r.closed \in BOOLEAN
         /\ pending \in [Jobs -> 0 .. MaxReaps]
BY Zenon DEF BaseInv, TypeOK, Reaping, Listing

\* Steps that leave the reaper and its queue alone.
LEMMA ClosingUntouched ==
  ASSUME BaseInv, RowSteps, Closing, UNCHANGED <<pending, reaper>>
  PROVE  Closing'
<1>1. \A j \in Jobs : /\ row[j].by = "closed" => row'[j].by = "closed"
                      /\ row[j].closed => row'[j].closed \/ row'[j].by = "closed"
  BY Zenon, ClosedKept
<1> QED BY Zenon, <1>1, ReaperType DEF Closing

\* One cancel: the queue loses the job, or remembers it.
LEMMA QueueWrite ==
  ASSUME BaseInv, NEW j \in Jobs, Cancelled(j) \/ NotAcknowledged(j) \/ Unreachable(j)
  PROVE  QueueTyped /\ BrokerTyped /\ \A i \in Jobs : pending'[i] > 0 => pending[i] > 0 \/ i = j
<1>1. /\ pending \in [Jobs -> 0 .. MaxReaps] /\ dropped \in [Jobs -> {"no"} \cup Losses]
      /\ broker \in [Jobs -> Run] /\ broker[j] \in Run
  BY Zenon DEF BaseInv, TypeOK
<1>2. ASSUME Remembered(j) PROVE QueueTyped /\ \A i \in Jobs : pending'[i] > 0 => pending[i] > 0 \/ i = j
  <2>1. CASE pending' = pending /\ dropped' = [dropped EXCEPT ![j] = "full"]
    BY Zenon, <1>1, <2>1 DEF QueueTyped, Losses
  <2>2. CASE pending[j] < MaxReaps /\ pending' = [pending EXCEPT ![j] = pending[j] + 1] /\ dropped' = dropped
    <3>1. pending[j] + 1 \in 0 .. MaxReaps
      <4>1. pending[j] \in 0 .. MaxReaps /\ MaxReaps \in Nat
        BY Zenon, <1>1, SpineAssumption
      <4> QED BY <2>2, <4>1
    <3>2. QueueTyped
      BY Zenon, <1>1, <2>2, <3>1 DEF QueueTyped
    <3>3. \A i \in Jobs : i # j => pending'[i] = pending[i]
      BY Zenon, <1>1, <2>2
    <3> QED BY Zenon, <3>2, <3>3
  <2>3. CASE pending' = [pending EXCEPT ![j] = 0] /\ dropped' = [dropped EXCEPT ![j] = "gave up"]
    <3>1. 0 \in 0 .. MaxReaps
      BY SpineAssumption
    <3>2. QueueTyped
      BY Zenon, <1>1, <2>3, <3>1 DEF QueueTyped, Losses
    <3>3. \A i \in Jobs : i # j => pending'[i] = pending[i]
      BY Zenon, <1>1, <2>3
    <3> QED BY Zenon, <3>2, <3>3
  <2> QED BY Zenon, <1>1, <1>2, <2>1, <2>2, <2>3 DEF Remembered
<1>3. CASE Cancelled(j)
  <2>1. 0 \in 0 .. MaxReaps
    BY SpineAssumption
  <2>2. QueueTyped /\ \A i \in Jobs : pending'[i] > 0 => pending[i] > 0 \/ i = j
    BY Zenon, <1>1, <1>3, <2>1 DEF Cancelled, QueueTyped
  <2>3. BrokerTyped
    BY Zenon, <1>1, <1>3 DEF Cancelled, BrokerTyped, Run
  <2> QED BY Zenon, <2>2, <2>3
<1>4. CASE NotAcknowledged(j) \/ Unreachable(j)
  BY Zenon, <1>2, <1>4, Unchanged DEF NotAcknowledged, Unreachable
<1> QED BY Zenon, <1>3, <1>4

\* The reads that start a sweep, its end, and the steps between its two loops.
LEMMA SweepSteps ==
  ASSUME BaseInv, Closing, (\E fresh \in SUBSET Jobs : Sweep(fresh)) \/ RetriesDone \/ SweepEnds
  PROVE  Quiet /\ BaseInv' /\ Closing' /\ UNCHANGED receipt
<1>1. ASSUME NEW fresh \in SUBSET Jobs, Sweep(fresh) PROVE ReaperTyped /\ Closing' /\ UNCHANGED <<row, receipt, worker, broker, pending, crashes, dropped>>
  <2> DEFINE listed == {[job |-> j, closed |-> row[j].closed] : j \in {i \in InFlight : Reclaimable(i, fresh)}}
             todo == {j \in Jobs : pending[j] > 0}
  <2>1. reaper' = [pc |-> "retrying", todo |-> todo, listed |-> listed, job |-> None, attempt |-> 0]
    BY Zenon, <1>1 DEF Sweep
  <2>2. \A r \in listed : r.job \in Jobs /\ r.closed = row[r.job].closed /\ r \in Listing
    <3>1. \A j \in Jobs : row[j].closed \in BOOLEAN
      BY Zenon DEF BaseInv, TypeOK, JobRow
    <3>2. ASSUME NEW r \in listed
          PROVE  r.job \in Jobs /\ r.closed = row[r.job].closed /\ r \in Listing
      <4>1. PICK j \in Jobs : r = [job |-> j, closed |-> row[j].closed]
        BY Zenon DEF InFlight
      <4> QED BY Zenon, <3>1, <4>1 DEF Listing
    <3> QED BY Zenon, <3>2
  <2>3. listed \subseteq Listing /\ todo \subseteq Jobs /\ 0 \in 0 .. MaxAttempts
    BY <2>2, SpineAssumption
  <2>4. \A j \in todo : pending[j] > 0
    BY Zenon
  <2> HIDE DEF listed, todo
  <2>5. ReaperTyped
    BY Zenon, <2>1, <2>3 DEF ReaperTyped, Reaping
  <2>6. UNCHANGED <<row, receipt, worker, broker, pending, crashes, dropped>>
    BY Zenon, <1>1 DEF Sweep
  <2>7. Closing'
    BY Zenon, <2>1, <2>2, <2>4, <2>6 DEF Closing
  <2> QED BY Zenon, <2>5, <2>6, <2>7
<1>2. CASE RetriesDone
  <2>1. /\ reaper'.todo = reaper.todo /\ reaper'.listed = reaper.listed /\ reaper'.pc = "rows" /\ reaper' \in Reaping
    BY Zenon, <1>2, ReaperType DEF RetriesDone, Reaping
  <2>2. Closing' /\ ReaperTyped
    BY Zenon, <1>2, <2>1 DEF Closing, RetriesDone, ReaperTyped
  <2> QED BY Zenon, <1>2, <2>2, QuietSame, BaseKept, Unchanged DEF RetriesDone, Quiet
<1>3. CASE SweepEnds
  <2>1. /\ reaper'.todo = {} /\ reaper'.listed = {} /\ reaper'.pc = "idle"
    BY Zenon, <1>3 DEF SweepEnds, Resting
  <2>2. reaper' \in Reaping
    BY <1>3, SpineAssumption DEF SweepEnds, Resting, Reaping
  <2>3. Closing' /\ ReaperTyped
    BY Zenon, <1>3, <2>1, <2>2 DEF Closing, SweepEnds, ReaperTyped
  <2> QED BY Zenon, <1>3, <2>3, QuietSame, BaseKept, Unchanged DEF SweepEnds, Quiet
<1>4. CASE \E fresh \in SUBSET Jobs : Sweep(fresh)
  BY Zenon, <1>1, <1>4, QuietSame, BaseKept, Unchanged DEF Quiet
<1> QED BY Zenon, <1>2, <1>3, <1>4

\* The two places that cancel a WorkItem: the queue's retries and the row just failed.
LEMMA CancelSteps ==
  ASSUME BaseInv, Closing, RetryPending \/ CancelClosed
  PROVE  Quiet /\ BaseInv' /\ Closing' /\ UNCHANGED receipt
<1>1. CASE RetryPending
  <2>1. PICK j \in reaper.todo :
          /\ Cancelled(j) \/ NotAcknowledged(j) \/ Unreachable(j)
          /\ reaper' = [reaper EXCEPT !.todo = reaper.todo \ {j}] \/ reaper' = [reaper EXCEPT !.todo = {}]
    BY Zenon, <1>1, ReaperType DEF RetryPending, Reaping
  <2>2. j \in Jobs /\ row[j].by = "closed"
    BY Zenon, ReaperType DEF Closing
  <2>3. QueueTyped /\ BrokerTyped /\ \A i \in Jobs : pending'[i] > 0 => pending[i] > 0 \/ i = j
    BY Zenon, <2>1, <2>2, QueueWrite
  <2>4. /\ reaper' \in Reaping /\ reaper'.todo \subseteq reaper.todo /\ reaper'.listed = reaper.listed
        /\ reaper'.pc = "retrying"
    BY <1>1, <2>1, ReaperType DEF Reaping, RetryPending
  <2>5. ReaperTyped
    BY Zenon, <2>4 DEF ReaperTyped
  <2>6. UNCHANGED <<row, receipt, worker, crashes>>
    BY Zenon, <1>1 DEF RetryPending
  <2>7. Closing'
    BY Zenon, <2>2, <2>3, <2>4, <2>6 DEF Closing
  <2> QED BY Zenon, <2>3, <2>5, <2>6, <2>7, QuietSame, BaseKept, Unchanged DEF Quiet
<1>2. CASE CancelClosed
  <2>1. PICK j \in Jobs : j = reaper.job
    BY Zenon, <1>2 DEF BaseInv, Shape, CancelClosed
  <2>2. row[j].by = "closed"
    BY Zenon, <1>2, <2>1 DEF Closing, CancelClosed
  <2>3. QueueTyped /\ BrokerTyped /\ \A i \in Jobs : pending'[i] > 0 => pending[i] > 0 \/ i = j
    BY Zenon, <1>2, <2>1, QueueWrite DEF CancelClosed
  <2>4. /\ reaper' \in Reaping /\ reaper'.todo = reaper.todo /\ reaper'.listed = reaper.listed
        /\ reaper'.pc = "rows"
    BY Zenon, <1>2, ReaperType DEF Reaping, CancelClosed
  <2>5. ReaperTyped
    BY Zenon, <2>4 DEF ReaperTyped
  <2>6. UNCHANGED <<row, receipt, worker, crashes>>
    BY Zenon, <1>2 DEF CancelClosed
  <2>7. Closing'
    BY Zenon, <2>2, <2>3, <2>4, <2>6 DEF Closing
  <2> QED BY Zenon, <2>3, <2>5, <2>6, <2>7, QuietSame, BaseKept, Unchanged DEF Quiet
<1> QED BY Zenon, <1>1, <1>2

\* A row listed as closed is failed for it, or was.
LEMMA ReapClosedStep ==
  ASSUME BaseInv, Closing, NEW r \in reaper.listed, ReapClosed(r)
  PROVE  Quiet /\ row'[r.job].by = "closed"
<1>1. r.job \in Jobs /\ r.closed /\ (row[r.job].closed \/ row[r.job].by = "closed")
  BY Zenon, ReaperType DEF Closing, ReapClosed
<1>2. PICK j \in Jobs : j = r.job
  BY Zenon, <1>1
<1>3. row \in [Jobs -> JobRow] /\ (row[j].closed => row[j].status \notin Terminal)
      /\ (row[j].by = "closed" => row[j].status \in Terminal)
  BY Zenon, SpineAssumption DEF BaseInv, TypeOK, Shape
<1>4. CASE row[j].closed
  <2>1. row[j].status \notin Terminal /\ row' = Ended(j, "failed", "closed", row[j].attempt)
    BY Zenon, <1>2, <1>3, <1>4 DEF ReapClosed, Completes
  <2> QED BY Zenon, <1>2, <2>1, EndsRow DEF Terminal
<1>5. CASE row[j].by = "closed"
  <2>1. row' = row
    BY Zenon, <1>2, <1>3, <1>5 DEF ReapClosed, Completes
  <2> QED BY Zenon, <1>2, <1>5, <2>1, QuietSame
<1> QED BY Zenon, <1>1, <1>2, <1>4, <1>5

\* The second loop of a sweep.
LEMMA ReapRowStep ==
  ASSUME BaseInv, Closing, ReapRow
  PROVE  Quiet /\ BaseInv' /\ Closing' /\ UNCHANGED receipt
<1>1. PICK r \in reaper.listed : ReapClosed(r) \/ Redispatch(r)
  BY Zenon DEF ReapRow
<1>2. r.job \in Jobs /\ reaper.pc = "rows" /\ reaper \in Reaping
  BY Zenon, ReaperType DEF ReapRow
<1>3. UNCHANGED <<receipt, broker, pending, crashes, dropped>>
  BY Zenon DEF ReapRow
<1>4. CASE ReapClosed(r)
  <2>1. Quiet /\ row'[r.job].by = "closed" /\ worker' = worker
    BY Zenon, <1>4, ReapClosedStep DEF ReapClosed
  <2>2. /\ reaper' \in Reaping /\ reaper'.todo = reaper.todo /\ reaper'.listed \subseteq reaper.listed
        /\ reaper'.pc = "cancelling" /\ reaper'.job = r.job
    BY Zenon, <1>2, <1>4 DEF ReapClosed, Without, Reaping
  <2>3. \A j \in Jobs : /\ row[j].by = "closed" => row'[j].by = "closed"
                        /\ row[j].closed => row'[j].closed \/ row'[j].by = "closed"
    BY Zenon, <2>1, ClosedKept DEF Quiet
  <2>4. Closing'
    BY Zenon, <1>3, <2>1, <2>2, <2>3, ReaperType DEF Closing
  <2>5. ReaperTyped
    BY Zenon, <1>2, <2>2 DEF ReaperTyped
  <2> QED BY Zenon, <1>3, <2>1, <2>4, <2>5, BaseKept, Unchanged DEF Quiet
<1>5. CASE Redispatch(r)
  <2>1. row' = row /\ Quiet
    BY Zenon, <1>5, QuietSame DEF Redispatch
  <2>2. WorkersTyped
    BY Zenon, <1>2, <1>5, Threads, Unchanged DEF Redispatch
  <2>3. row[r.job].attempt \in 0 .. MaxAttempts
    BY Zenon, <1>2 DEF BaseInv, TypeOK, JobRow
  <2>4. reaper' = Without(r) \/ reaper' = [Without(r) EXCEPT !.pc = "failing", !.job = r.job, !.attempt = row[r.job].attempt]
    BY Zenon, <1>5 DEF Redispatch
  <2>5. /\ reaper' \in Reaping /\ reaper'.todo = reaper.todo /\ reaper'.listed \subseteq reaper.listed
        /\ reaper'.pc \in {"rows", "failing"} /\ (reaper'.pc = "failing" => reaper'.job = r.job)
    <3>1. CASE reaper' = Without(r)
      BY Zenon, <1>2, <3>1 DEF Without, Reaping
    <3>2. CASE reaper' = [Without(r) EXCEPT !.pc = "failing", !.job = r.job, !.attempt = row[r.job].attempt]
      <4>1. /\ Without(r) \in Reaping /\ Without(r).todo = reaper.todo
            /\ Without(r).listed \subseteq reaper.listed
        BY Zenon, <1>2 DEF Without, Reaping
      <4> QED BY Zenon, <1>2, <2>3, <3>2, <4>1 DEF Reaping
    <3> QED BY Zenon, <2>4, <3>1, <3>2
  <2>6. Closing'
    BY Zenon, <1>3, <2>1, <2>5 DEF Closing
  <2>7. ReaperTyped
    BY Zenon, <1>2, <2>5 DEF ReaperTyped
  <2> QED BY Zenon, <1>3, <2>1, <2>2, <2>6, <2>7, BaseKept, Unchanged DEF Quiet
<1> QED BY Zenon, <1>1, <1>4, <1>5

\* The failure of an exhausted job, and the death of the reaper's process.
LEMMA ReaperEnds ==
  ASSUME BaseInv, Closing, FailExhausted \/ ReaperDies
  PROVE  Quiet /\ BaseInv' /\ Closing' /\ UNCHANGED receipt
<1>1. CASE FailExhausted
  <2>1. PICK j \in Jobs : j = reaper.job
    BY Zenon, <1>1 DEF BaseInv, Shape, FailExhausted
  <2>2. Quiet
    <3>1. CASE Completes(j, reaper.attempt, None, FALSE)
      <4>1. row[j].status \notin Terminal /\ ~row[j].closed /\ row' = Ended(j, "failed", "exhausted", row[j].attempt)
        BY Zenon, <1>1, <2>1, <3>1 DEF FailExhausted, Completes
      <4> QED BY Zenon, <4>1, EndsRow DEF Terminal
    <3>2. CASE ~Completes(j, reaper.attempt, None, FALSE)
      BY Zenon, <1>1, <2>1, <3>2, QuietSame DEF FailExhausted
    <3> QED BY Zenon, <3>1, <3>2
  <2>3. /\ reaper'.todo = reaper.todo /\ reaper'.listed = reaper.listed /\ reaper'.pc = "rows"
        /\ reaper' \in Reaping
    <3>1. 0 \in 0 .. MaxAttempts
      BY SpineAssumption
    <3>2. reaper' = [reaper EXCEPT !.pc = "rows", !.job = None, !.attempt = 0]
      BY Zenon, <1>1 DEF FailExhausted
    <3> QED BY Zenon, <3>1, <3>2, ReaperType DEF Reaping
  <2>4. \A i \in Jobs : /\ row[i].by = "closed" => row'[i].by = "closed"
                        /\ row[i].closed => row'[i].closed \/ row'[i].by = "closed"
    BY Zenon, <2>2, ClosedKept DEF Quiet
  <2>5. Closing' /\ ReaperTyped
    <3>1. pending' = pending
      BY Zenon, <1>1 DEF FailExhausted
    <3>2. Closing'
      BY Zenon, <2>3, <2>4, <3>1, ReaperType DEF Closing
    <3> QED BY Zenon, <2>3, <3>2 DEF ReaperTyped
  <2> QED BY Zenon, <1>1, <2>2, <2>5, BaseKept, Unchanged DEF FailExhausted, Quiet
<1>2. CASE ReaperDies
  <2> DEFINE listed == {[job |-> j, closed |-> FALSE] : j \in {i \in Jobs : row[i].status = "submitted"}}
  <2>1. reaper' = [pc |-> "rows", todo |-> {}, job |-> None, attempt |-> 0, listed |-> listed]
    BY Zenon, <1>2 DEF ReaperDies
  <2>2. (\A r \in listed : ~r.closed) /\ listed \subseteq Listing /\ 0 \in 0 .. MaxAttempts
    <3>1. ASSUME NEW r \in listed PROVE ~r.closed /\ r \in Listing
      <4>1. PICK j \in Jobs : r = [job |-> j, closed |-> FALSE]
        BY Zenon
      <4> QED BY Zenon, <4>1 DEF Listing
    <3>2. 0 \in 0 .. MaxAttempts
      BY SpineAssumption
    <3> QED BY Zenon, <3>1, <3>2
  <2> HIDE DEF listed
  <2>3. ReaperTyped
    BY Zenon, <2>1, <2>2 DEF ReaperTyped, Reaping
  <2>4. UNCHANGED <<row, receipt, worker, broker>>
    BY Zenon, <1>2 DEF ReaperDies
  <2>5. Closing' /\ QueueTyped
    <3>1. PICK lost \in SUBSET {j \in Jobs : pending[j] > 0} :
            /\ pending' = [j \in Jobs |-> IF j \in lost THEN 0 ELSE pending[j]]
            /\ dropped' = [j \in Jobs |-> IF j \in lost THEN "unsaved" ELSE IF InHand(j) THEN "crash" ELSE dropped[j]]
      BY Zenon, <1>2 DEF ReaperDies
    <3>2. 0 \in 0 .. MaxReaps /\ ~(0 > 0)
      BY SpineAssumption
    <3>3. \A j \in Jobs : pending'[j] > 0 => pending[j] > 0
      BY Zenon, <3>1, <3>2
    <3>4. QueueTyped
      BY Zenon, <3>1, <3>2 DEF QueueTyped, Losses, BaseInv, TypeOK
    <3> QED BY Zenon, <2>1, <2>2, <2>4, <3>3, <3>4 DEF Closing
  <2>6. CrashesTyped
    BY Zenon, <1>2, CrashCounted DEF ReaperDies
  <2> QED BY Zenon, <2>3, <2>4, <2>5, <2>6, QuietSame, BaseKept, Unchanged DEF Quiet
<1> QED BY Zenon, <1>1, <1>2

(***************************************************************************)
(* The evidence.                                                           *)
(***************************************************************************)
\* A receipt is of an attempt already made, and of the bound one while the attempt is current.
Evidence ==
  /\ EvidenceIsCurrent
  /\ \A j \in Jobs : row[j].status \in Terminal /\ row[j].by = "callback" => row[j].attempt \in Attempts
  /\ \A j \in Jobs, a \in Attempts : receipt[j][a] # "none" =>
       a <= row[j].attempt /\ (a = row[j].attempt => row[j].bound = a)

\* A receipt appears for the current, bound attempt only, and a settled one stays.
ReceiptsGrow ==
  \A j \in Jobs, a \in Attempts :
    /\ receipt'[j][a] # "none" =>
         receipt[j][a] # "none" \/ (a = row[j].attempt /\ row[j].bound = a /\ row'[j] = row[j])
    /\ receipt[j][a] = "settled" => receipt'[j][a] = "settled"

\* A row ends in the callback's name with the receipt of its attempt.
CalledWithReceipt ==
  \A j \in Jobs : \/ row'[j] = row[j] \/ row'[j].by # "callback"
                  \/ /\ row[j].status \notin Terminal /\ row'[j].status \in Terminal
                     /\ row[j].attempt \in Attempts /\ row[j].bound = row[j].attempt
                     /\ receipt'[j][row[j].attempt] = "settled"

\* Rows that step, and receipts that grow, keep the evidence.
LEMMA EvidenceKept ==
  ASSUME BaseInv, Evidence, RowSteps, ReceiptsGrow, CalledWithReceipt
  PROVE  Evidence'
<1> SUFFICES ASSUME NEW j \in Jobs
             PROVE  /\ row'[j].status \in Terminal =>
                         /\ row'[j].proof = row'[j].attempt
                         /\ row'[j].by = "callback" =>
                              /\ row'[j].bound = row'[j].attempt /\ receipt'[j][row'[j].attempt] = "settled"
                              /\ row'[j].attempt \in Attempts
                    /\ \A a \in Attempts : receipt'[j][a] # "none" =>
                         a <= row'[j].attempt /\ (a = row'[j].attempt => row'[j].bound = a)
  BY Zenon DEF Evidence, EvidenceIsCurrent
<1>1. row[j] \in JobRow /\ (row'[j] = row[j] \/ Stepped(row[j], row'[j]))
  BY Zenon DEF RowSteps, BaseInv, TypeOK
<1>2. row'[j].status \in Terminal =>
        /\ row'[j].proof = row'[j].attempt
        /\ row'[j].by = "callback" =>
             /\ row'[j].bound = row'[j].attempt /\ receipt'[j][row'[j].attempt] = "settled"
             /\ row'[j].attempt \in Attempts
  <2>1. CASE row'[j] = row[j]
    BY <2>1 DEF Evidence, EvidenceIsCurrent, ReceiptsGrow
  <2>2. CASE row'[j] # row[j] /\ row'[j].status \in Terminal
    <3>1. Stepped(row[j], row'[j]) /\ row[j].status \notin Terminal
      BY Zenon, <1>1, <2>2 DEF Stepped
    <3>2. row'[j].proof = row[j].attempt /\ row'[j].attempt = row[j].attempt /\ row'[j].bound = row[j].bound
      BY Zenon, <2>2, <3>1 DEF Stepped
    <3> QED BY Zenon, <2>2, <3>2 DEF CalledWithReceipt
  <2> QED BY Zenon, <2>1, <2>2
<1>3. ASSUME NEW a \in Attempts, receipt'[j][a] # "none"
      PROVE  a <= row'[j].attempt /\ (a = row'[j].attempt => row'[j].bound = a)
  <2>1. row[j].attempt \in 0 .. MaxAttempts /\ a \in 1 .. MaxAttempts /\ row'[j].attempt \in 0 .. MaxAttempts
    BY Zenon, <1>1 DEF JobRow, Attempts, Stepped, BaseInv, TypeOK
  <2>2. a <= row[j].attempt /\ (a = row[j].attempt => row[j].bound = a)
    <3>1. CASE receipt[j][a] # "none"
      BY Zenon, <3>1 DEF Evidence
    <3>2. CASE a = row[j].attempt /\ row[j].bound = a
      BY <2>1, <3>2, SpineAssumption
    <3> QED BY Zenon, <1>3, <3>1, <3>2 DEF ReceiptsGrow
  <2>3. CASE row'[j] = row[j]
    BY Zenon, <2>2, <2>3
  <2>4. CASE Stepped(row[j], row'[j])
    <3>1. row'[j].attempt >= row[j].attempt
          /\ (row'[j].attempt = row[j].attempt => row'[j].bound \in {row[j].bound, row[j].attempt})
      BY Zenon, <2>4 DEF Stepped
    <3>2. a <= row'[j].attempt /\ (a = row'[j].attempt => row'[j].attempt = row[j].attempt)
      BY <2>1, <2>2, <3>1, SpineAssumption
    <3> QED BY Zenon, <2>2, <3>1, <3>2
  <2> QED BY Zenon, <1>1, <2>3, <2>4
<1> QED BY Zenon, <1>2, <1>3

(***************************************************************************)
(* The invariant.                                                          *)
(***************************************************************************)
SpineInv == BaseInv /\ Closing /\ Evidence

\* The initial state satisfies the invariant.
LEMMA InitInv ==
  ASSUME Init
  PROVE  SpineInv
<1>1. 0 \in 0 .. MaxAttempts /\ 0 \in 0 .. MaxReaps /\ 0 \in 0 .. MaxCrashes
  BY SpineAssumption
<1>2. Unsubmitted \in JobRow /\ Idle \in Thread /\ Resting \in Reaping
  BY Zenon, <1>1 DEF Unsubmitted, JobRow, Idle, Thread, Resting, Reaping
<1>3. [run |-> "none", by |-> 0, holder |-> None, item |-> "none"] \in Run
  BY Zenon, <1>1 DEF Run
<1>4. /\ row \in [Jobs -> JobRow] /\ worker \in [Workers -> Thread] /\ reaper \in Reaping
      /\ broker \in [Jobs -> Run] /\ pending \in [Jobs -> 0 .. MaxReaps] /\ crashes \in 0 .. MaxCrashes
      /\ dropped \in [Jobs -> {"no"} \cup Losses]
      /\ receipt \in [Jobs -> [Attempts -> {"none", "reserved", "consumed", "settled"}]]
  BY Zenon, <1>1, <1>2, <1>3 DEF Init
<1>5. TypeOK
  BY Zenon, <1>4 DEF TypeOK
<1>6. \A j \in Jobs : row[j].status = "none" /\ ~row[j].closed /\ row[j].by = None
  BY Zenon DEF Init, Unsubmitted
<1>7. /\ \A w \in Workers : worker[w].pc = "idle"
      /\ reaper.pc = "idle" /\ reaper.todo = {} /\ reaper.listed = {}
  BY Zenon DEF Init, Idle, Resting
<1>8. Shape
  BY Zenon, <1>6, <1>7 DEF Shape, Terminal
<1>9. Closing
  <2>1. \A j \in Jobs : ~(pending[j] > 0)
    BY DEF Init
  <2> QED BY Zenon, <1>7, <2>1 DEF Closing
<1>10. Evidence
  <2>1. \A j \in Jobs, a \in Attempts : receipt[j][a] = "none"
    BY Zenon DEF Init
  <2> QED BY Zenon, <1>6, <2>1 DEF Evidence, EvidenceIsCurrent, Terminal
<1> QED BY Zenon, <1>5, <1>8, <1>9, <1>10 DEF SpineInv, BaseInv

\* A quiet step that leaves the receipts alone keeps the evidence.
LEMMA QuietEvidence ==
  ASSUME BaseInv, Evidence, Quiet, receipt' = receipt
  PROVE  Evidence'
BY Zenon, EvidenceKept DEF Quiet, Uncalled, CalledWithReceipt, ReceiptsGrow

\* The three steps of a callback.
LEMMA ReceiptSteps ==
  ASSUME SpineInv, NEW j \in Jobs, Reserve(j) \/ \E a \in Attempts : Consume(j, a) \/ CallbackCompletes(j, a)
  PROVE  SpineInv' /\ RowSteps
<1>1. CASE Reserve(j)
  <2>1. ReceiptsGrow /\ CalledWithReceipt /\ RowSteps /\ BaseInv' /\ UNCHANGED <<pending, reaper>>
    BY <1>1, ReserveStep DEF SpineInv, ReceiptSet, ReceiptsGrow, CalledWithReceipt, Quiet
  <2> QED BY Zenon, <2>1, EvidenceKept, ClosingUntouched DEF SpineInv
<1>2. ASSUME NEW a \in Attempts, Consume(j, a) PROVE SpineInv' /\ RowSteps
  <2>1. ReceiptsGrow /\ CalledWithReceipt /\ RowSteps /\ BaseInv' /\ UNCHANGED <<pending, reaper>>
    BY <1>2, ConsumeStep DEF SpineInv, ReceiptSet, ReceiptsGrow, CalledWithReceipt, Quiet
  <2> QED BY Zenon, <2>1, EvidenceKept, ClosingUntouched DEF SpineInv
<1>3. ASSUME NEW a \in Attempts, CallbackCompletes(j, a) PROVE SpineInv' /\ RowSteps
  <2>1. /\ RowSteps /\ BaseInv' /\ UNCHANGED <<pending, reaper>>
        /\ receipt[j][a] = "consumed" /\ ReceiptSet(j, a, "settled")
        /\ \A i \in Jobs : row'[i] = row[i] \/ (i = j /\ a = row[j].attempt /\ row[j].status \notin Terminal)
        /\ row' # row => row'[j].status \in Terminal
    BY Zenon, <1>3, CallbackStep DEF SpineInv
  <2>2. ReceiptsGrow
    BY Zenon, <2>1 DEF ReceiptSet, ReceiptsGrow
  <2>3. CalledWithReceipt
    <3>1. a = row[j].attempt => row[j].bound = row[j].attempt
      BY Zenon, <2>1 DEF SpineInv, Evidence
    <3>2. receipt'[j][a] = "settled"
      BY Zenon, <2>1 DEF ReceiptSet
    <3> QED BY Zenon, <2>1, <3>1, <3>2 DEF CalledWithReceipt
  <2> QED BY Zenon, <2>1, <2>2, <2>3, EvidenceKept, ClosingUntouched DEF SpineInv
<1> QED BY Zenon, <1>1, <1>2, <1>3

\* Every step keeps the invariant and steps the rows.
LEMMA NextInv ==
  ASSUME SpineInv, Next
  PROVE  SpineInv' /\ RowSteps
<1> USE DEF SpineInv
<1>1. ASSUME Quiet, BaseInv', UNCHANGED <<receipt, pending, reaper>> PROVE SpineInv' /\ RowSteps
  BY Zenon, <1>1, QuietEvidence, ClosingUntouched DEF Quiet
<1>2. ASSUME Quiet, BaseInv', Closing', UNCHANGED receipt PROVE SpineInv' /\ RowSteps
  BY Zenon, <1>2, QuietEvidence DEF Quiet
<1>3. CASE \E j \in Jobs, w \in Workers : Submit(j, w)
  BY Zenon, <1>1, <1>3, StoreActions
<1>4. CASE \E j \in Jobs : Close(j) \/ LeaseLapses(j)
  BY Zenon, <1>1, <1>4, StoreActions
<1>5. CASE \E j \in Jobs : BrokerBegins(j) \/ Submits(j) \/ ItemEnds(j) \/ BrokerEnds(j)
  BY Zenon, <1>1, <1>5, BrokerActions
<1>6. CASE \E j \in Jobs : Reserve(j) \/ \E a \in Attempts : Consume(j, a) \/ CallbackCompletes(j, a)
  BY Zenon, <1>6, ReceiptSteps
<1>7. CASE \E w \in Workers : WorkerStep(w) \/ WorkerDies(w)
  BY Zenon, <1>1, <1>7, WorkerActions
<1>8. CASE (\E fresh \in SUBSET Jobs : Sweep(fresh)) \/ RetriesDone \/ SweepEnds
  BY Zenon, <1>2, <1>8, SweepSteps
<1>9. CASE RetryPending \/ CancelClosed
  BY Zenon, <1>2, <1>9, CancelSteps
<1>10. CASE ReapRow
  BY Zenon, <1>2, <1>10, ReapRowStep
<1>11. CASE FailExhausted \/ ReaperDies
  BY Zenon, <1>2, <1>11, ReaperEnds
<1> QED BY Zenon, <1>3, <1>4, <1>5, <1>6, <1>7, <1>8, <1>9, <1>10, <1>11 DEF Next

\* The spine's inductive invariant holds of every behaviour.
THEOREM SpineInvariant == Spec => []SpineInv
<1>1. Init => SpineInv
  BY Zenon, InitInv
<1>2. ASSUME SpineInv, UNCHANGED vars PROVE SpineInv'
  <2>1. UNCHANGED <<row, receipt, worker, broker, pending, reaper, crashes, dropped>>
    BY Zenon, <1>2 DEF vars
  <2>2. RowSteps /\ Quiet
    BY Zenon, <1>2, <2>1, QuietSame, SameRows DEF SpineInv
  <2>3. BaseInv'
    BY Zenon, <1>2, <2>1, <2>2, BaseKept, Unchanged DEF SpineInv
  <2>4. Closing'
    BY Zenon, <1>2, <2>1, <2>2, ClosingUntouched DEF SpineInv
  <2>5. Evidence'
    BY Zenon, <1>2, <2>1, <2>2, QuietEvidence DEF SpineInv
  <2> QED BY Zenon, <2>3, <2>4, <2>5 DEF SpineInv
<1>3. SpineInv /\ [Next]_vars => SpineInv'
  BY Zenon, <1>2, NextInv
<1> QED BY <1>1, <1>3, PTL DEF Spec

\* Every reachable state of the rows, threads, queue and reaper is typed, whatever the number of jobs.
THEOREM TypeCorrect == Spec => []TypeOK
<1>1. SpineInv => TypeOK
  BY Zenon DEF SpineInv, BaseInv
<1> QED BY <1>1, SpineInvariant, PTL

\* A job that ended carries the evidence of the attempt it ended on: complete() of jobs.py never mixes
\* attempts, however leases lapse and callbacks are delayed.
THEOREM EvidenceCurrent == Spec => []EvidenceIsCurrent
<1>1. SpineInv => EvidenceIsCurrent
  BY Zenon DEF SpineInv, Evidence
<1> QED BY <1>1, SpineInvariant, PTL

\* The reaper cancels the WorkItems of closed jobs only.
THEOREM CancelsClosed == Spec => []CancelsOnlyClosed
<1>1. SpineInv => CancelsOnlyClosed
  BY Zenon DEF SpineInv, Closing, CancelsOnlyClosed
<1> QED BY <1>1, SpineInvariant, PTL

\* No step changes a terminal row.
THEOREM TerminalFinal == Spec => TerminalIsFinal
<1>1. SpineInv /\ Next => \A j \in Jobs : row[j].status \in Terminal => row'[j] = row[j]
  BY Zenon, NextInv DEF RowSteps, Stepped
<1>2. SpineInv /\ [Next]_vars => [\A j \in Jobs : row[j].status \in Terminal => row'[j] = row[j]]_vars
  BY Zenon, <1>1
<1> QED BY <1>2, SpineInvariant, PTL DEF Spec, TerminalIsFinal

\* A closed job keeps its attempt and stays closed until it is failed.
THEOREM ClosedFinal == Spec => ClosedStaysClosed
<1>1. SpineInv /\ Next =>
        \A j \in Jobs : row[j].closed => \/ row'[j].closed /\ row'[j].attempt = row[j].attempt
                                         \/ row'[j].status = "failed"
  BY Zenon, NextInv DEF RowSteps, Stepped
<1>2. SpineInv /\ [Next]_vars =>
        [\A j \in Jobs : row[j].closed => \/ row'[j].closed /\ row'[j].attempt = row[j].attempt
                                          \/ row'[j].status = "failed"]_vars
  BY Zenon, <1>1
<1> QED BY <1>2, SpineInvariant, PTL DEF Spec, ClosedStaysClosed

(***************************************************************************)
(* The cancel of a closed job.                                             *)
(***************************************************************************)
\* The broker's run may still start, or bill, a WorkItem.
MayBill(b) == b.run \in {"none", "asked", "begun"} /\ b.item \in {"none", "live"}
Cancels(j) == pending[j] > 0 \/ dropped[j] \in Losses \/ (reaper.pc = "cancelling" /\ reaper.job = j)

\* Inductive: also before the run is asked for, since a thread that claimed the attempt before the
\* tab was closed may still call the broker afterwards.
Remembering == \A j \in Jobs : row[j].by = "closed" /\ MayBill(broker[j]) => Cancels(j)

\* No row is failed for its closed tab; no run that could not bill a WorkItem can do so now.
NoneClosed == \A j \in Jobs : row'[j].by = "closed" => row[j].by = "closed"
BrokerOnward == \A j \in Jobs : MayBill(broker'[j]) => MayBill(broker[j])
Unowed == NoneClosed /\ BrokerOnward

\* Steps that leave the queue and the reaper alone.
LEMMA OwedKept ==
  ASSUME Remembering, Unowed, UNCHANGED <<pending, reaper, dropped>>
  PROVE  Remembering'
BY Zenon DEF Remembering, Unowed, NoneClosed, BrokerOnward, Cancels

LEMMA SameBroker ==
  ASSUME broker' = broker
  PROVE  BrokerOnward
BY Zenon DEF BrokerOnward

LEMMA NoRowEnds ==
  ASSUME row' = row
  PROVE  NoneClosed
BY Zenon DEF NoneClosed

\* One row gets another author than the tab-close, or keeps the one it has.
LEMMA RowAuthor ==
  ASSUME BaseInv, NEW k \in Jobs, NEW new, row' = [row EXCEPT ![k] = new],
         new.by # "closed" \/ new.by = row[k].by
  PROVE  NoneClosed
<1>1. row \in [Jobs -> JobRow]
  BY Zenon DEF BaseInv, TypeOK
<1> QED BY Zenon, <1>1 DEF NoneClosed

LEMMA EndAuthor ==
  ASSUME BaseInv, NEW k \in Jobs, NEW status, NEW by, NEW proof, by # "closed", row' = Ended(k, status, by, proof)
  PROVE  NoneClosed
<1>1. row[k] \in JobRow
  BY Zenon DEF BaseInv, TypeOK
<1>2. End(row[k], status, by, proof).by = by
  BY Zenon, <1>1 DEF End, JobRow
<1>3. row' = [row EXCEPT ![k] = End(row[k], status, by, proof)]
  BY Zenon DEF Ended
<1> QED BY Zenon, <1>2, <1>3, RowAuthor

\* submit, the tab-close and the lapse of a lease fail no row.
LEMMA StoreOwes ==
  ASSUME BaseInv, NEW j \in Jobs, (\E w \in Workers : Submit(j, w)) \/ Close(j) \/ LeaseLapses(j)
  PROVE  Unowed /\ UNCHANGED <<pending, reaper, dropped>>
<1>1. row[j] \in JobRow /\ row \in [Jobs -> JobRow]
  BY Zenon DEF BaseInv, TypeOK
<1>2. broker' = broker /\ UNCHANGED <<pending, reaper, dropped>>
  BY Zenon DEF Submit, Close, LeaseLapses
<1>3. ASSUME NEW w \in Workers, Submit(j, w) PROVE NoneClosed
  <2> DEFINE new == [row[j] EXCEPT !.status = "submitted"]
  <2>1. row' = [row EXCEPT ![j] = new] /\ new.by = row[j].by
    BY Zenon, <1>1, <1>3 DEF Submit, JobRow
  <2> HIDE DEF new
  <2> QED BY Zenon, <2>1, RowAuthor
<1>4. CASE Close(j)
  <2>1. row' = [row EXCEPT ![j] = Closed(row[j])] /\ Closed(row[j]).by = row[j].by
    BY Zenon, <1>1, <1>4 DEF Close, Closed, JobRow
  <2> QED BY Zenon, <1>2, <2>1, RowAuthor, SameBroker DEF Unowed
<1>5. CASE LeaseLapses(j)
  <2> DEFINE new == [row[j] EXCEPT !.live = FALSE]
  <2>1. row' = [row EXCEPT ![j] = new] /\ new.by = row[j].by
    BY Zenon, <1>1, <1>5 DEF LeaseLapses, JobRow
  <2> HIDE DEF new
  <2> QED BY Zenon, <1>2, <2>1, RowAuthor, SameBroker DEF Unowed
<1>6. CASE \E w \in Workers : Submit(j, w)
  BY Zenon, <1>2, <1>3, <1>6, SameBroker DEF Unowed
<1> QED BY Zenon, <1>4, <1>5, <1>6

\* A thread fails a row in its own name only; its call starts a run that had not started.
LEMMA WorkerOwes ==
  ASSUME BaseInv, NEW w \in Workers, WorkerStep(w) \/ WorkerDies(w)
  PROVE  Unowed /\ UNCHANGED <<pending, reaper, dropped>>
<1>1. row \in [Jobs -> JobRow] /\ broker \in [Jobs -> Run]
  BY Zenon DEF BaseInv, TypeOK
<1>2. CASE Begin(w)
  <2>1. PICK j \in Jobs : j = worker[w].job
    BY Zenon, <1>2 DEF BaseInv, Shape, Begin
  <2>2. row' = row \/ row' = [row EXCEPT ![j] = Claimed(row[j], w)]
    BY Zenon, <1>2, <2>1 DEF Begin
  <2>3. Claimed(row[j], w).by = row[j].by
    BY Zenon, <1>1 DEF Claimed, JobRow
  <2>4. NoneClosed
    BY Zenon, <2>2, <2>3, RowAuthor, NoRowEnds
  <2> QED BY Zenon, <1>2, <2>4, SameBroker DEF Begin, Unowed
<1>3. CASE Finish(w)
  <2>1. PICK j \in Jobs : j = worker[w].job
    BY Zenon, <1>3 DEF BaseInv, Shape, Finish
  <2>2. \/ row' = row \/ row' = [row EXCEPT ![j] = Released(row[j])]
        \/ \E status \in Terminal : row' = Ended(j, status, "worker", worker[w].attempt)
    BY Zenon, <1>3, <2>1 DEF Finish, Succeeds, Retries, GivesUp, Terminal
  <2>3. Released(row[j]).by = row[j].by
    BY Zenon, <1>1 DEF Released, JobRow
  <2>4. NoneClosed
    BY Zenon, <2>2, <2>3, RowAuthor, EndAuthor, NoRowEnds
  <2> QED BY Zenon, <1>3, <2>4, SameBroker DEF Finish, Unowed
<1>4. CASE Call(w)
  <2>1. PICK j \in Jobs : j = worker[w].job
    BY Zenon, <1>4 DEF BaseInv, Shape, Call
  <2>2. /\ \A i \in Jobs : i # j => broker'[i] = broker[i]
        /\ broker'[j].item = broker[j].item
        /\ broker[j].run # "none" => broker'[j].run = broker[j].run
    BY Zenon, <1>1, <1>4, <2>1 DEF Call, Run
  <2>3. BrokerOnward
    BY Zenon, <2>2 DEF BrokerOnward, MayBill
  <2> QED BY Zenon, <1>4, <2>3, NoRowEnds DEF Call, Unowed
<1>5. CASE HeartbeatRefused(w) \/ Answered(w) \/ FallsBack(w) \/ FallbackEnds(w) \/ WorkerDies(w)
  <2>1. UNCHANGED <<row, broker, pending, reaper, dropped>>
    BY Zenon, <1>5 DEF HeartbeatRefused, Answered, FallsBack, FallbackEnds, WorkerDies
  <2> QED BY Zenon, <2>1, SameBroker, NoRowEnds DEF Unowed
<1> QED BY Zenon, <1>2, <1>3, <1>4, <1>5 DEF WorkerStep

\* The broker's run only goes forward, and a bind is no end.
LEMMA BrokerOwes ==
  ASSUME BaseInv, NEW j \in Jobs, BrokerBegins(j) \/ Submits(j) \/ ItemEnds(j) \/ BrokerEnds(j)
  PROVE  Unowed /\ UNCHANGED <<pending, reaper, dropped>>
<1>1. row \in [Jobs -> JobRow] /\ broker \in [Jobs -> Run] /\ row[j] \in JobRow /\ broker[j] \in Run
  BY Zenon DEF BaseInv, TypeOK
<1>2. UNCHANGED <<pending, reaper, dropped>>
  BY Zenon DEF BrokerBegins, Submits, ItemEnds, BrokerEnds
<1>3. NoneClosed
  <2> DEFINE new == [row[j] EXCEPT !.bound = row[j].attempt]
  <2>1. row' = row \/ row' = [row EXCEPT ![j] = new]
    BY Zenon, <1>1 DEF BrokerBegins, Submits, ItemEnds, BrokerEnds
  <2>2. new.by = row[j].by
    BY Zenon, <1>1 DEF JobRow
  <2> HIDE DEF new
  <2> QED BY Zenon, <2>1, <2>2, RowAuthor, NoRowEnds
<1>4. /\ \A i \in Jobs : i # j => broker'[i] = broker[i]
      /\ MayBill(broker'[j]) => MayBill(broker[j])
  <2>1. CASE BrokerBegins(j)
    <3>1. /\ \A i \in Jobs : i # j => broker'[i] = broker[i]
          /\ broker'[j].item = broker[j].item
      BY Zenon, <1>1, <2>1 DEF BrokerBegins, Run
    <3> QED BY Zenon, <2>1, <3>1 DEF MayBill, BrokerBegins
  <2>2. CASE Submits(j)
    <3>1. /\ \A i \in Jobs : i # j => broker'[i] = broker[i]
      BY Zenon, <1>1, <2>2 DEF Submits
    <3> QED BY Zenon, <2>2, <3>1 DEF MayBill, Submits
  <2>3. CASE ItemEnds(j)
    <3>1. PICK end \in {"success", "gone"} : broker' = [broker EXCEPT ![j].item = end]
      BY Zenon, <2>3 DEF ItemEnds
    <3>2. /\ \A i \in Jobs : i # j => broker'[i] = broker[i]
          /\ broker'[j].item = end
      BY Zenon, <1>1, <3>1 DEF Run
    <3> QED BY Zenon, <3>2 DEF MayBill
  <2>4. CASE BrokerEnds(j)
    <3>1. /\ \A i \in Jobs : i # j => broker'[i] = broker[i]
          /\ broker'[j].run = IF broker[j].item = "success" THEN "ok" ELSE "failed"
      BY Zenon, <1>1, <2>4 DEF BrokerEnds, Run
    <3> QED BY Zenon, <3>1 DEF MayBill
  <2> QED BY Zenon, <2>1, <2>2, <2>3, <2>4
<1> QED BY Zenon, <1>2, <1>3, <1>4 DEF Unowed, BrokerOnward

\* A callback ends a row in its own name only.
LEMMA CallbackOwes ==
  ASSUME BaseInv, NEW j \in Jobs, Reserve(j) \/ \E a \in Attempts : Consume(j, a) \/ CallbackCompletes(j, a)
  PROVE  Unowed /\ UNCHANGED <<pending, reaper, dropped>>
<1>1. row' = row \/ \E a \in Attempts : row' = Ended(j, "complete", "callback", a)
  BY Zenon DEF Reserve, Consume, CallbackCompletes
<1>2. NoneClosed
  BY Zenon, <1>1, EndAuthor, NoRowEnds
<1>3. UNCHANGED <<broker, pending, reaper, dropped>>
  BY Zenon DEF Reserve, Consume, CallbackCompletes
<1> QED BY Zenon, <1>2, <1>3, SameBroker DEF Unowed

\* One call of the broker's cancel leaves the job's WorkItem deleted, or its cancel remembered.
LEMMA CancelOwes ==
  ASSUME BaseInv, NEW j \in Jobs, Cancelled(j) \/ NotAcknowledged(j) \/ Unreachable(j)
  PROVE  /\ ~MayBill(broker'[j]) \/ pending'[j] > 0 \/ dropped'[j] \in Losses
         /\ \A i \in Jobs : i # j => broker'[i] = broker[i] /\ pending'[i] = pending[i] /\ dropped'[i] = dropped[i]
<1>1. /\ pending \in [Jobs -> 0 .. MaxReaps] /\ dropped \in [Jobs -> {"no"} \cup Losses]
      /\ broker \in [Jobs -> Run]
  BY Zenon DEF BaseInv, TypeOK
<1>2. CASE Cancelled(j)
  <2>1. /\ broker'[j].item = "gone" /\ dropped' = dropped
        /\ \A i \in Jobs : i # j => broker'[i] = broker[i] /\ pending'[i] = pending[i]
    BY Zenon, <1>1, <1>2 DEF Cancelled, Run
  <2> QED BY Zenon, <2>1 DEF MayBill
<1>3. ASSUME Remembered(j), broker' = broker
      PROVE  /\ pending'[j] > 0 \/ dropped'[j] \in Losses
             /\ \A i \in Jobs : i # j => broker'[i] = broker[i] /\ pending'[i] = pending[i] /\ dropped'[i] = dropped[i]
  <2>1. ASSUME NEW why \in {"full", "gave up"}, dropped' = [dropped EXCEPT ![j] = why],
               pending' = pending \/ pending' = [pending EXCEPT ![j] = 0]
        PROVE  /\ dropped'[j] \in Losses
               /\ \A i \in Jobs : i # j => pending'[i] = pending[i] /\ dropped'[i] = dropped[i]
    BY Zenon, <1>1, <2>1 DEF Losses
  <2>2. CASE pending' = pending /\ dropped' = [dropped EXCEPT ![j] = "full"]
    BY Zenon, <1>3, <2>1, <2>2
  <2>3. CASE pending' = [pending EXCEPT ![j] = pending[j] + 1] /\ dropped' = dropped
    <3>1. pending[j] \in 0 .. MaxReaps /\ MaxReaps \in Nat
      BY Zenon, <1>1, SpineAssumption
    <3>2. pending[j] + 1 > 0
      BY <3>1
    <3>3. pending'[j] = pending[j] + 1 /\ \A i \in Jobs : i # j => pending'[i] = pending[i]
      BY Zenon, <1>1, <2>3
    <3> QED BY <1>3, <2>3, <3>2, <3>3
  <2>4. CASE pending' = [pending EXCEPT ![j] = 0] /\ dropped' = [dropped EXCEPT ![j] = "gave up"]
    BY Zenon, <1>3, <2>1, <2>4
  <2> QED BY Zenon, <1>1, <1>3, <2>2, <2>3, <2>4 DEF Remembered
<1>4. CASE NotAcknowledged(j) \/ Unreachable(j)
  BY Zenon, <1>3, <1>4 DEF NotAcknowledged, Unreachable
<1> QED BY Zenon, <1>2, <1>4

\* The two places that cancel: the queue's retries and the row just failed.
LEMMA CancelRemembers ==
  ASSUME BaseInv, Closing, Remembering, RetryPending \/ CancelClosed
  PROVE  Remembering'
<1>1. PICK j \in Jobs : /\ Cancelled(j) \/ NotAcknowledged(j) \/ Unreachable(j)
                        /\ reaper.pc = "cancelling" => reaper.job = j
  <2>1. CASE RetryPending
    BY Zenon, <2>1, ReaperType DEF RetryPending
  <2>2. CASE CancelClosed
    BY Zenon, <2>2 DEF CancelClosed, BaseInv, Shape
  <2> QED BY Zenon, <2>1, <2>2
<1>2. /\ ~MayBill(broker'[j]) \/ pending'[j] > 0 \/ dropped'[j] \in Losses
      /\ \A i \in Jobs : i # j => broker'[i] = broker[i] /\ pending'[i] = pending[i] /\ dropped'[i] = dropped[i]
  BY Zenon, <1>1, CancelOwes
<1>3. row' = row
  BY Zenon DEF RetryPending, CancelClosed
<1>4. ASSUME NEW i \in Jobs, row'[i].by = "closed" /\ MayBill(broker'[i]) PROVE Cancels(i)'
  <2>1. CASE i = j
    BY Zenon, <1>2, <1>4, <2>1 DEF Cancels
  <2>2. CASE i # j
    <3>1. Cancels(i) /\ pending'[i] = pending[i] /\ dropped'[i] = dropped[i]
      BY Zenon, <1>2, <1>3, <1>4, <2>2 DEF Remembering
    <3>2. ~(reaper.pc = "cancelling" /\ reaper.job = i)
      BY Zenon, <1>1, <2>2
    <3> QED BY Zenon, <3>1, <3>2 DEF Cancels
  <2> QED BY Zenon, <2>1, <2>2
<1> QED BY Zenon, <1>4 DEF Remembering

\* A sweep that is not cancelling holds no cancel of its own; the row it fails it cancels next.
LEMMA SweepRemembers ==
  ASSUME BaseInv, Closing, Remembering,
         (\E fresh \in SUBSET Jobs : Sweep(fresh)) \/ RetriesDone \/ SweepEnds \/ ReapRow \/ FailExhausted
  PROVE  Remembering'
<1>1. UNCHANGED <<broker, pending, dropped>> /\ reaper.pc # "cancelling"
  BY Zenon DEF Sweep, RetriesDone, SweepEnds, ReapRow, FailExhausted
<1>2. ASSUME NoneClosed PROVE Remembering'
  BY Zenon, <1>1, <1>2 DEF Remembering, NoneClosed, Cancels
<1>3. CASE (\E fresh \in SUBSET Jobs : Sweep(fresh)) \/ RetriesDone \/ SweepEnds
  <2>1. row' = row
    BY Zenon, <1>3 DEF Sweep, RetriesDone, SweepEnds
  <2> QED BY Zenon, <1>2, <2>1, NoRowEnds
<1>4. CASE FailExhausted
  <2>1. PICK j \in Jobs : j = reaper.job
    BY Zenon, <1>4 DEF BaseInv, Shape, FailExhausted
  <2>2. row' = row \/ row' = Ended(j, "failed", "exhausted", reaper.attempt)
    BY Zenon, <1>4, <2>1 DEF FailExhausted
  <2> QED BY Zenon, <1>2, <2>2, EndAuthor, NoRowEnds
<1>5. CASE ReapRow
  <2>1. PICK r \in reaper.listed : ReapClosed(r) \/ Redispatch(r)
    BY Zenon, <1>5 DEF ReapRow
  <2>2. CASE Redispatch(r)
    BY Zenon, <1>2, <2>2, NoRowEnds DEF Redispatch
  <2>3. CASE ReapClosed(r)
    <3>1. PICK j \in Jobs : j = r.job
      BY Zenon, ReaperType
    <3>2. reaper'.pc = "cancelling" /\ reaper'.job = j
      BY Zenon, <2>3, <3>1, ReaperType DEF ReapClosed, Without, Reaping
    <3>3. \A i \in Jobs : i # j => row'[i] = row[i]
      BY Zenon, <2>3, <3>1 DEF ReapClosed, Ended, BaseInv, TypeOK
    <3> QED BY Zenon, <1>1, <3>2, <3>3 DEF Remembering, Cancels
  <2> QED BY Zenon, <2>1, <2>2, <2>3
<1> QED BY Zenon, <1>3, <1>4, <1>5

\* The death of the reaper's process is recorded for the cancel it had in hand.
LEMMA DeathRemembers ==
  ASSUME BaseInv, Remembering, ReaperDies
  PROVE  Remembering'
<1>1. UNCHANGED <<row, broker>> /\ reaper'.pc = "rows"
  BY Zenon DEF ReaperDies
<1>2. PICK lost \in SUBSET {j \in Jobs : pending[j] > 0} :
        /\ pending' = [j \in Jobs |-> IF j \in lost THEN 0 ELSE pending[j]]
        /\ dropped' = [j \in Jobs |-> IF j \in lost THEN "unsaved" ELSE IF InHand(j) THEN "crash" ELSE dropped[j]]
  BY Zenon DEF ReaperDies
<1>3. ASSUME NEW i \in Jobs, Cancels(i)
      PROVE  Cancels(i)'
  <2>1. CASE i \in lost
    BY Zenon, <1>2, <2>1 DEF Cancels, Losses
  <2>2. CASE i \notin lost /\ InHand(i)
    BY Zenon, <1>2, <2>2 DEF Cancels, Losses
  <2>3. CASE i \notin lost /\ ~InHand(i)
    <3>1. pending'[i] = pending[i] /\ dropped'[i] = dropped[i]
      BY Zenon, <1>2, <2>3
    <3>2. pending[i] = 0 \/ pending[i] > 0
      <4>1. pending[i] \in 0 .. MaxReaps /\ MaxReaps \in Nat
        BY Zenon, SpineAssumption DEF BaseInv, TypeOK
      <4> QED BY <4>1
    <3> QED BY Zenon, <1>3, <2>3, <3>1, <3>2 DEF Cancels, InHand
  <2> QED BY Zenon, <2>1, <2>2, <2>3
<1> QED BY Zenon, <1>1, <1>3 DEF Remembering

\* Every step keeps it.
LEMMA NextRemembers ==
  ASSUME SpineInv, Remembering, Next
  PROVE  Remembering'
<1>1. BaseInv /\ Closing
  BY Zenon DEF SpineInv
<1>2. CASE \E j \in Jobs : (\E w \in Workers : Submit(j, w)) \/ Close(j) \/ LeaseLapses(j)
  BY Zenon, <1>1, <1>2, StoreOwes, OwedKept
<1>3. CASE \E j \in Jobs : BrokerBegins(j) \/ Submits(j) \/ ItemEnds(j) \/ BrokerEnds(j)
  BY Zenon, <1>1, <1>3, BrokerOwes, OwedKept
<1>4. CASE \E j \in Jobs : Reserve(j) \/ \E a \in Attempts : Consume(j, a) \/ CallbackCompletes(j, a)
  BY Zenon, <1>1, <1>4, CallbackOwes, OwedKept
<1>5. CASE \E w \in Workers : WorkerStep(w) \/ WorkerDies(w)
  BY Zenon, <1>1, <1>5, WorkerOwes, OwedKept
<1>6. CASE (\E fresh \in SUBSET Jobs : Sweep(fresh)) \/ RetriesDone \/ SweepEnds \/ ReapRow \/ FailExhausted
  BY Zenon, <1>1, <1>6, SweepRemembers
<1>7. CASE RetryPending \/ CancelClosed
  BY Zenon, <1>1, <1>7, CancelRemembers
<1>8. CASE ReaperDies
  BY Zenon, <1>1, <1>8, DeathRemembers
<1> QED BY Zenon, <1>2, <1>3, <1>4, <1>5, <1>6, <1>7, <1>8 DEF Next

\* The cancel of a closed job is never forgotten silently: whatever the order of the tab-close, the
\* thread's late call, the cancel's answers and the crashes, it is queued, under way, or lost in one of
\* the four ways Losses names (_remember_pending_reap of jobs.py).
THEOREM CancelsRemembered == Spec => []CancelRemembered
<1>1. Init => Remembering
  <2>1. ASSUME Init, NEW j \in Jobs PROVE row[j].by # "closed"
    <3>1. row[j].by = None
      BY Zenon, <2>1 DEF Init, Unsubmitted
    <3> QED BY Zenon, <3>1, SpineAssumption
  <2> QED BY Zenon, <2>1 DEF Remembering
<1>2. SpineInv /\ Remembering /\ [Next]_vars => Remembering'
  <2>1. ASSUME Remembering, UNCHANGED vars PROVE Remembering'
    BY Zenon, <2>1, OwedKept, SameBroker, NoRowEnds DEF vars, Unowed
  <2> QED BY Zenon, <2>1, NextRemembers
<1>3. Remembering => CancelRemembered
  BY Zenon DEF Remembering, CancelRemembered, MayBill, Cancels
<1> QED BY <1>1, <1>2, <1>3, SpineInvariant, PTL DEF Spec
=============================================================================

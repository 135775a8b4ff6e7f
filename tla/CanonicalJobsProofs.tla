------------------------ MODULE CanonicalJobsProofs ------------------------
(***************************************************************************)
(* The canonical jobs, for any number of jobs, workers, attempts, polls,   *)
(* versions and checkouts.  The cloud is asked once for a job, an exchange *)
(* moves under its job's lease only, and what is settled stays settled;    *)
(* the drawing's history is one chain, a job has its output exactly when   *)
(* it has succeeded, and a solve is committed onto the version it was      *)
(* computed from.  First the base invariant: types, and the shape of what  *)
(* a worker holds.                                                         *)
(***************************************************************************)
EXTENDS CanonicalJobs, FiniteSetTheorems, TLAPS

Pcs == Guarded \cup {"idle", "complete", "retry", "fail"}
States == {"none", "prepared", "sending", "responded", "evident"} \cup Settled

\* The types that hold without knowing how often a job completes.
TypeBase ==
  /\ job \in [Jobs -> JobRow]
  /\ exchange \in [Jobs -> ExchangeRow]
  /\ records \in [Jobs -> Nat]
  /\ versions \in Seq(VersionRow)
  /\ checkout \in [live: BOOLEAN, fence: 0 .. MaxFence]
  /\ project \in BOOLEAN /\ entitled \in BOOLEAN
  /\ request \in RequestRow
  /\ worker \in [Workers -> WorkerRow]
  /\ asked \in [Jobs -> [posts: Nat, keys: SUBSET Principals]]

\* A busy worker has a job that was submitted, and asks as the principal that asked first; a pending
\* submission is for a key that was not submitted.
Shape ==
  /\ \A w \in Workers : worker[w].pc # "idle" =>
       worker[w].job \in Jobs /\ job[worker[w].job].status # "absent"
  /\ \A w \in Workers : worker[w].pc = "submit" => worker[w].principal = "asker"
  /\ request # NoRequest =>
       /\ request.job \in Jobs /\ request.kind \in Kinds
       /\ job[request.job].status = "absent"
  /\ \A j \in Jobs : job[j].status = "absent" => exchange[j].state = "none"

BaseInv == TypeBase /\ Shape

\* What a step of worker w does to the loops, and to the exchange of its job.
WorkerTo(w) ==
  \E r \in WorkerRow : /\ worker' = [worker EXCEPT ![w] = r]
                       /\ r.pc # "idle" => r.job = worker[w].job
                       /\ r.pc = "submit" => r.principal = "asker"
ExchangeTo(w) ==
  \E e \in ExchangeRow : exchange' = [exchange EXCEPT ![worker[w].job] = e]

\* A worker that returns to its loop is idle.
LEMMA ReturnsTo ==
  ASSUME NEW w, Returns(w)
  PROVE  WorkerTo(w)
<1>1. Idle \in WorkerRow /\ Idle.pc = "idle"
  BY CanonicalAssumption DEF Idle, WorkerRow
<1> QED BY Zenon, <1>1 DEF Returns, WorkerTo

\* A worker that goes to one of its steps keeps its job.
LEMMA GoesTo ==
  ASSUME worker \in [Workers -> WorkerRow], NEW w \in Workers, NEW pc \in Pcs \ {"submit"},
         Goes(w, pc)
  PROVE  WorkerTo(w)
<1> DEFINE r == [worker[w] EXCEPT !.pc = pc]
<1>1. r \in WorkerRow /\ r.job = worker[w].job /\ r.pc = pc
  BY Zenon DEF WorkerRow, Pcs
<1>2. worker' = [worker EXCEPT ![w] = r]
  BY Zenon DEF Goes
<1> QED BY Zenon, <1>1, <1>2 DEF WorkerTo

\* The same where the code asks first whether the lease was lost.
LEMMA GoesIfHeldTo ==
  ASSUME worker \in [Workers -> WorkerRow], NEW w \in Workers, NEW pc \in Pcs \ {"submit"},
         GoesIfHeld(w, pc)
  PROVE  WorkerTo(w)
BY Zenon, ReturnsTo, GoesTo DEF GoesIfHeld

\* A worker that takes a principal, and goes on.
LEMMA AsksTo ==
  ASSUME worker \in [Workers -> WorkerRow], NEW w \in Workers, NEW pc \in Pcs \ {"submit", "idle"},
         NEW principal \in Principals \cup {None},
         worker' = [worker EXCEPT ![w] = [worker[w] EXCEPT !.pc = pc, !.principal = principal]]
  PROVE  WorkerTo(w)
<1> DEFINE r == [worker[w] EXCEPT !.pc = pc, !.principal = principal]
<1>1. r \in WorkerRow /\ r.job = worker[w].job /\ r.pc = pc
  BY Zenon DEF WorkerRow, Pcs
<1> QED BY Zenon, <1>1 DEF WorkerTo

\* The same for a poll.
LEMMA PollsTo ==
  ASSUME worker \in [Workers -> WorkerRow], NEW w \in Workers, NEW pc \in {"get", "submit"},
         pc = "submit" => worker[w].principal = "asker", worker[w].polls < MaxPolls,
         worker' = [worker EXCEPT ![w] = [worker[w] EXCEPT !.pc = pc, !.polls = worker[w].polls + 1]]
  PROVE  WorkerTo(w)
<1> DEFINE r == [worker[w] EXCEPT !.pc = pc, !.polls = worker[w].polls + 1]
<1>1. worker[w].polls + 1 \in 0 .. MaxPolls
  BY CanonicalAssumption DEF WorkerRow
<1>2. r \in WorkerRow
  BY ZenonT(30), <1>1 DEF WorkerRow, Guarded
<1>3. r.job = worker[w].job /\ r.pc = pc /\ r.principal = worker[w].principal
  BY Zenon DEF WorkerRow
<1> QED BY Zenon, <1>2, <1>3 DEF WorkerTo

\* A worker that leaves the exchanges alone, or writes its exchange's state.
LEMMA MovesTo ==
  ASSUME exchange \in [Jobs -> ExchangeRow], NEW w, worker[w].job \in Jobs, NEW state \in States,
         Moves(w, state) \/ UNCHANGED exchange
  PROVE  ExchangeTo(w)
<1>1. [Exchange(w) EXCEPT !.state = state] \in ExchangeRow
  BY DEF ExchangeRow, States, Exchange
<1>2. UNCHANGED exchange => exchange' = [exchange EXCEPT ![worker[w].job] = exchange[worker[w].job]]
  BY Zenon
<1> QED BY Zenon, <1>1, <1>2 DEF Moves, Sets, ExchangeTo

\* A row that ends, or goes back to the queue, is still a row.
LEMMA UnleasedKeeps ==
  ASSUME NEW row \in JobRow, NEW status \in {"queued", "failed", "succeeded"}
  PROVE  Unleased(row, status) \in JobRow
BY Zenon DEF Unleased, JobRow, Terminal

\* Initially every type and shape is right.
LEMMA InitBase == Init => BaseInv
<1> SUFFICES ASSUME Init PROVE BaseInv BY Zenon
<1>1. Absent \in JobRow /\ NoExchange \in ExchangeRow /\ NoRequest \in RequestRow /\ Idle \in WorkerRow
  BY CanonicalAssumption
     DEF Absent, JobRow, NoExchange, ExchangeRow, NoRequest, RequestRow, Idle, WorkerRow
<1>2. versions \in Seq(VersionRow)
  <2>1. [by |-> Editor, parent |-> 0, fence |-> 0] \in VersionRow
    BY CanonicalAssumption DEF VersionRow
  <2> QED BY <2>1 DEF Init
<1>3. TypeBase
  BY <1>1, <1>2, CanonicalAssumption DEF TypeBase, Init
<1>4. Shape
  BY Zenon DEF Shape, Init, Idle, NoRequest, NoExchange
<1> QED BY Zenon, <1>3, <1>4 DEF BaseInv

\* Appending a version to the drawing's history.
LEMMA PublishedKeeps ==
  ASSUME versions \in Seq(VersionRow), NEW by \in Jobs \cup {Editor}, NEW parent \in Nat,
         NEW fence \in 0 .. MaxFence
  PROVE  Published(by, parent, fence) \in Seq(VersionRow)
<1>1. [by |-> by, parent |-> parent, fence |-> fence] \in VersionRow
  BY Zenon DEF VersionRow
<1> QED BY <1>1 DEF Published

\* The steps of the editor and of the environment leave the types and the shape right.
LEMMA EditorBase ==
  ASSUME BaseInv, AcquireCheckout \/ CheckoutEnds \/ EditorSaves \/ TierFalls \/ ProjectDeleted
  PROVE  BaseInv'
<1> USE DEF BaseInv, tables, tenancy
<1>1. CASE AcquireCheckout
  <2>1. checkout' \in [live: BOOLEAN, fence: 0 .. MaxFence]
    BY <1>1, CanonicalAssumption DEF TypeBase, AcquireCheckout
  <2> QED BY Zenon, <1>1, <2>1 DEF TypeBase, Shape, AcquireCheckout
<1>2. CASE CheckoutEnds
  <2>1. checkout' \in [live: BOOLEAN, fence: 0 .. MaxFence]
    BY Zenon, <1>2, CanonicalAssumption DEF TypeBase, CheckoutEnds
  <2> QED BY Zenon, <1>2, <2>1 DEF TypeBase, Shape, CheckoutEnds
<1>3. CASE EditorSaves
  <2>1. Latest \in Nat /\ checkout.fence \in 0 .. MaxFence
    BY DEF TypeBase, Latest
  <2>2. versions' \in Seq(VersionRow)
    BY Zenon, <1>3, <2>1, PublishedKeeps DEF TypeBase, EditorSaves
  <2> QED BY Zenon, <1>3, <2>2 DEF TypeBase, Shape, EditorSaves
<1>4. CASE TierFalls
  BY Zenon, <1>4 DEF TypeBase, Shape, TierFalls
<1>5. CASE ProjectDeleted
  BY Zenon, <1>5 DEF TypeBase, Shape, ProjectDeleted
<1> QED BY Zenon, <1>1, <1>2, <1>3, <1>4, <1>5

\* A row that is inserted is a row.
LEMMA InsertKeeps ==
  ASSUME NEW r \in RequestRow, r.kind \in Kinds
  PROVE  Inserted(r) \in JobRow /\ Inserted(r).status = "queued"
BY CanonicalAssumption DEF Inserted, RequestRow, JobRow

\* A submission's checks and its insert leave the types and the shape right.
LEMMA SubmitBase ==
  ASSUME BaseInv, SubmitInserts \/ \E j \in Jobs, kind \in Kinds : SubmitChecks(j, kind)
  PROVE  BaseInv'
<1> USE DEF BaseInv, tables, tenancy
<1>1. CASE SubmitInserts
  <2> DEFINE new == Inserted(request)
  <2>1. request.job \in Jobs /\ request.kind \in Kinds /\ job[request.job].status = "absent"
    BY Zenon, <1>1 DEF Shape, SubmitInserts
  <2>2. new \in JobRow /\ new.status = "queued"
    BY Zenon, <2>1, InsertKeeps DEF TypeBase
  <2> HIDE DEF new
  <2>3. job' = [job EXCEPT ![request.job] = new] \/ job' = job
    BY Zenon, <1>1 DEF SubmitInserts, new
  <2>4. job' \in [Jobs -> JobRow]
    BY Zenon, <2>1, <2>2, <2>3 DEF TypeBase
  <2>5. NoRequest \in RequestRow
    BY CanonicalAssumption DEF NoRequest, RequestRow
  <2>6. TypeBase'
    BY Zenon, <1>1, <2>4, <2>5 DEF TypeBase, SubmitInserts
  <2>7. \A j \in Jobs : /\ job'[j] = job[j] \/ (j = request.job /\ job'[j].status = "queued")
                        /\ job'[j].status = "absent" => job[j].status = "absent"
    BY Zenon, <2>1, <2>2, <2>3 DEF TypeBase
  <2>8. Shape'
    BY Zenon, <1>1, <2>1, <2>7 DEF Shape, SubmitInserts
  <2> QED BY Zenon, <2>6, <2>8
<1>2. CASE \E j \in Jobs, kind \in Kinds : SubmitChecks(j, kind)
  <2> PICK j \in Jobs, kind \in Kinds : SubmitChecks(j, kind)
    BY Zenon, <1>2
  <2>1. Latest \in Nat /\ checkout.fence \in 0 .. MaxFence
    BY DEF TypeBase, Latest
  <2>2. request' \in RequestRow /\ request'.job = j /\ request'.kind = kind
    BY Zenon, <2>1 DEF SubmitChecks, RequestRow
  <2>3. TypeBase'
    BY Zenon, <2>2 DEF TypeBase, SubmitChecks
  <2>4. Shape'
    BY Zenon, <2>2 DEF Shape, SubmitChecks
  <2> QED BY Zenon, <2>3, <2>4
<1> QED BY Zenon, <1>1, <1>2

\* A step of a busy worker that writes no job leaves the types and the shape right.
LEMMA StepBase ==
  ASSUME BaseInv, NEW w \in Workers, worker[w].pc # "idle", WorkerTo(w), ExchangeTo(w),
         UNCHANGED <<job, records, versions, tenancy>>,
         asked' \in [Jobs -> [posts: Nat, keys: SUBSET Principals]]
  PROVE  BaseInv'
<1> USE DEF BaseInv, tenancy
<1>1. worker' \in [Workers -> WorkerRow] /\ exchange' \in [Jobs -> ExchangeRow]
  BY ZenonT(30) DEF WorkerTo, ExchangeTo, TypeBase
<1>2. TypeBase'
  BY Zenon, <1>1 DEF TypeBase
<1>3. \A v \in Workers : worker'[v].pc # "idle" =>
                           worker[v].pc # "idle" /\ worker'[v].job = worker[v].job
  BY Zenon DEF WorkerTo, TypeBase
<1>4. \A j \in Jobs : exchange'[j] = exchange[j] \/ j = worker[w].job
  BY Zenon DEF ExchangeTo, TypeBase
<1>5. Shape'
  <2>1. \A v \in Workers : worker'[v].pc = "submit" => worker'[v].principal = "asker"
    BY DEF WorkerTo, TypeBase, Shape
  <2> QED BY Zenon, <1>3, <1>4, <2>1 DEF Shape
<1> QED BY Zenon, <1>2, <1>5

\* The steps of an exchange, of its cloud calls and of the guard leave the types and the shape right.
LEMMA ExchangeBase ==
  ASSUME BaseInv, NEW w \in Workers,
         \/ SolverEnds(w) \/ Reserve(w) \/ Resume(w) \/ Send(w) \/ Post(w) \/ PostEnds(w)
         \/ Poll(w) \/ SubmitAsync(w) \/ AsyncAnswers(w) \/ RecordGrid(w)
         \/ Capture(w) \/ Refuse(w) \/ RecordUnknown(w) \/ Evidence(w)
         \/ Prepare(w) \/ GrantFails(w) \/ WorkerDies(w)
  PROVE  BaseInv' /\ worker[w].pc # "idle" /\ WorkerTo(w) /\ UNCHANGED <<job, records, versions, tenancy>>
<1>0. worker \in [Workers -> WorkerRow] /\ exchange \in [Jobs -> ExchangeRow]
  BY Zenon DEF BaseInv, TypeBase
<1>b. asked \in [Jobs -> [posts: Nat, keys: SUBSET Principals]]
  BY Zenon DEF BaseInv, TypeBase
<1>c. worker[w].pc # "idle"
  BY Zenon DEF SolverEnds, Reserve, Resume, ResumePolls, Send, Post, PostEnds, Poll, SubmitAsync, AsyncAnswers,
         RecordGrid, Capture, Refuse, RecordUnknown, Evidence, Prepare, GrantFails, WorkerDies
<1>d. worker[w].job \in Jobs
  BY Zenon, <1>c DEF BaseInv, Shape
<1>e. UNCHANGED <<job, records, versions, tenancy>>
  BY Zenon DEF SolverEnds, Reserve, Resume, Send, Post, PostEnds, Poll, SubmitAsync, AsyncAnswers,
         RecordGrid, Capture, Refuse, RecordUnknown, Evidence, Prepare, GrantFails, WorkerDies, tables
<1>f. UNCHANGED exchange => ExchangeTo(w)
  BY Zenon, <1>0, <1>d, MovesTo DEF States
<1>1. CASE SolverEnds(w)
  <2>1. WorkerTo(w)
    BY Zenon, <1>0, <1>1, GoesIfHeldTo DEF SolverEnds, Pcs
  <2> QED BY Zenon, <1>1, <2>1, <1>b, <1>c, <1>e, <1>f, StepBase DEF SolverEnds, tables
<1>2. CASE Reserve(w)
  <2>1. WorkerTo(w)
    BY Zenon, <1>0, <1>2, GoesTo, GoesIfHeldTo DEF Reserve, Pcs, Guarded
  <2>2. ExchangeTo(w)
    BY Zenon, <1>0, <1>2, <1>d, <1>f, MovesTo DEF Reserve, States
  <2> QED BY Zenon, <1>2, <2>1, <2>2, <1>b, <1>c, <1>e, StepBase DEF Reserve
<1>3. CASE Resume(w)
  <2>1. WorkerTo(w)
    <3>1. CASE ResumePolls(w)
      <4>1. "asker" \in Principals
        BY Zenon DEF Principals
      <4>2. \/ Goes(w, "poll") \/ Goes(w, "refuse")
            \/ \E g \in Principals :
                 worker' = [worker EXCEPT ![w] = [worker[w] EXCEPT !.pc = "poll", !.principal = g]]
        BY Zenon, <3>1, <1>0, <4>1 DEF ResumePolls
      <4> QED BY Zenon, <4>2, <1>0, GoesTo, AsksTo DEF Pcs, Guarded
    <3> QED BY Zenon, <3>1, <1>0, <1>3, GoesTo, GoesIfHeldTo DEF Resume, Pcs, Guarded
  <2>2. ExchangeTo(w)
    BY Zenon, <1>0, <1>3, <1>d, <1>f, MovesTo DEF Resume, ResumePolls, States, Settled
  <2> QED BY Zenon, <1>3, <2>1, <2>2, <1>b, <1>c, <1>e, StepBase DEF Resume
<1>4. CASE Send(w)
  <2> DEFINE async == Async /\ job[worker[w].job].kind = "proposal"
  <2>1. WorkerTo(w)
    <3>1. \/ Returns(w)
          \/ \E pc \in {"poll", "post"}, g \in {"asker", None} :
               worker' = [worker EXCEPT ![w] = [worker[w] EXCEPT !.pc = pc, !.principal = g]]
      BY Zenon, <1>4, <1>0 DEF Send
    <3>2. {"poll", "post"} \subseteq Pcs \ {"submit", "idle"} /\ {"asker", None} \subseteq Principals \cup {None}
      BY Zenon DEF Pcs, Guarded, Principals
    <3> QED BY Zenon, <1>0, <3>1, <3>2, ReturnsTo, AsksTo
  <2>2. ExchangeTo(w)
    <3> DEFINE e == [Exchange(w) EXCEPT !.state = "sending", !.async = async,
                                        !.sender = IF async THEN None ELSE w,
                                        !.attempt = IF async THEN 0 ELSE worker[w].attempt]
    <3>0. async \in BOOLEAN
      BY Zenon, CanonicalAssumption
    <3>1. 0 \in 0 .. MaxAttempts /\ worker[w].attempt \in 0 .. MaxAttempts
      BY <1>0, CanonicalAssumption DEF WorkerRow
    <3> HIDE DEF async
    <3>2. e \in ExchangeRow
      BY ZenonT(30), <1>0, <1>d, <3>0, <3>1 DEF ExchangeRow, Exchange
    <3>3. UNCHANGED exchange \/ exchange' = [exchange EXCEPT ![worker[w].job] = e]
      BY Zenon, <1>4 DEF Send, async, Sets
    <3> QED BY Zenon, <3>2, <3>3, <1>f DEF ExchangeTo
  <2> QED BY Zenon, <1>4, <2>1, <2>2, <1>b, <1>c, <1>e, StepBase DEF Send
<1>5. CASE Post(w)
  <2>1. WorkerTo(w)
    BY Zenon, <1>0, <1>5, GoesTo DEF Post, Pcs, Guarded
  <2>2. asked' \in [Jobs -> [posts: Nat, keys: SUBSET Principals]]
    BY <1>5, <1>b, <1>d DEF Post
  <2> QED BY Zenon, <1>5, <2>1, <2>2, <1>c, <1>e, <1>f, StepBase DEF Post, tables
<1>6. CASE PostEnds(w)
  <2>1. WorkerTo(w)
    BY Zenon, <1>0, <1>6, ReturnsTo, GoesIfHeldTo DEF PostEnds, Pcs, Guarded
  <2> QED BY Zenon, <1>6, <2>1, <1>b, <1>c, <1>e, <1>f, StepBase DEF PostEnds, tables
<1>7. CASE Poll(w)
  <2>1. WorkerTo(w)
    <3>1. \/ Returns(w) \/ GoesIfHeld(w, "fail")
          \/ /\ worker[w].polls < MaxPolls
             /\ \E pc \in {"get", "submit"} :
                  /\ pc = "submit" => worker[w].principal = "asker"
                  /\ worker' = [worker EXCEPT ![w] = [worker[w] EXCEPT !.pc = pc,
                                                                       !.polls = worker[w].polls + 1]]
      BY Zenon, <1>7, <1>0 DEF Poll, Resubmits
    <3> QED BY Zenon, <1>0, <3>1, ReturnsTo, GoesIfHeldTo, PollsTo DEF Pcs
  <2>2. ExchangeTo(w)
    BY Zenon, <1>0, <1>7, <1>d, <1>f, MovesTo DEF Poll, States, Settled
  <2> QED BY Zenon, <1>7, <2>1, <2>2, <1>b, <1>c, <1>e, StepBase DEF Poll
<1>8. CASE SubmitAsync(w)
  <2>1. WorkerTo(w)
    BY Zenon, <1>0, <1>8, GoesTo DEF SubmitAsync, Pcs, Guarded
  <2>2. worker[w].principal = "asker"
    BY Zenon, <1>8 DEF SubmitAsync, BaseInv, Shape
  <2>3. asked' \in [Jobs -> [posts: Nat, keys: SUBSET Principals]]
    BY <1>8, <1>b, <1>d, <2>2 DEF SubmitAsync, Principals
  <2> QED BY Zenon, <1>8, <2>1, <2>3, <1>c, <1>e, <1>f, StepBase DEF SubmitAsync, tables
<1>9. CASE AsyncAnswers(w)
  <2>1. WorkerTo(w)
    BY Zenon, <1>0, <1>9, GoesIfHeldTo DEF AsyncAnswers, Pcs, Guarded
  <2> QED BY Zenon, <1>9, <2>1, <1>b, <1>c, <1>e, <1>f, StepBase DEF AsyncAnswers, tables
<1>10. CASE RecordGrid(w)
  <2>1. WorkerTo(w)
    BY Zenon, <1>0, <1>10, GoesTo, ReturnsTo DEF RecordGrid, Pcs, Guarded
  <2>2. ExchangeTo(w)
    <3>1. [Exchange(w) EXCEPT !.grid = TRUE] \in ExchangeRow
      BY ZenonT(30), <1>0, <1>d DEF ExchangeRow, Exchange
    <3> QED BY Zenon, <3>1, <1>10, <1>f DEF RecordGrid, Sets, ExchangeTo
  <2> QED BY Zenon, <1>10, <2>1, <2>2, <1>b, <1>c, <1>e, StepBase DEF RecordGrid
<1>11. CASE Capture(w)
  <2>1. WorkerTo(w)
    BY Zenon, <1>0, <1>11, GoesTo, ReturnsTo DEF Capture, Pcs, Guarded
  <2>2. ExchangeTo(w)
    BY Zenon, <1>0, <1>11, <1>d, <1>f, MovesTo DEF Capture, States
  <2> QED BY Zenon, <1>11, <2>1, <2>2, <1>b, <1>c, <1>e, StepBase DEF Capture
<1>12. CASE Refuse(w)
  <2>1. WorkerTo(w)
    BY Zenon, <1>0, <1>12, GoesIfHeldTo DEF Refuse, Pcs
  <2>2. ExchangeTo(w)
    BY Zenon, <1>0, <1>12, <1>d, <1>f, MovesTo DEF Refuse, States, Settled
  <2> QED BY Zenon, <1>12, <2>1, <2>2, <1>b, <1>c, <1>e, StepBase DEF Refuse
<1>13. CASE RecordUnknown(w)
  <2>1. WorkerTo(w)
    BY Zenon, <1>0, <1>13, GoesIfHeldTo DEF RecordUnknown, Pcs
  <2>2. ExchangeTo(w)
    BY Zenon, <1>0, <1>13, <1>d, <1>f, MovesTo DEF RecordUnknown, States, Settled
  <2> QED BY Zenon, <1>13, <2>1, <2>2, <1>b, <1>c, <1>e, StepBase DEF RecordUnknown
<1>14. CASE Evidence(w)
  <2>1. WorkerTo(w)
    BY Zenon, <1>0, <1>14, GoesTo, ReturnsTo DEF Evidence, Pcs, Guarded
  <2>2. ExchangeTo(w)
    BY Zenon, <1>0, <1>14, <1>d, <1>f, MovesTo DEF Evidence, States, Settled
  <2> QED BY Zenon, <1>14, <2>1, <2>2, <1>b, <1>c, <1>e, StepBase DEF Evidence
<1>15. CASE Prepare(w)
  <2>1. WorkerTo(w)
    BY Zenon, <1>0, <1>15, GoesIfHeldTo DEF Prepare, Pcs
  <2> QED BY Zenon, <1>15, <2>1, <1>b, <1>c, <1>e, <1>f, StepBase DEF Prepare, tables
<1>16. CASE GrantFails(w)
  <2>1. WorkerTo(w)
    BY Zenon, <1>0, <1>16, GoesTo, GoesIfHeldTo DEF GrantFails, Pcs, Guarded
  <2> QED BY Zenon, <1>16, <2>1, <1>b, <1>c, <1>e, <1>f, StepBase DEF GrantFails, tables
<1>17. CASE WorkerDies(w)
  <2>1. WorkerTo(w)
    BY Zenon, <1>17, ReturnsTo DEF WorkerDies
  <2> QED BY Zenon, <1>17, <2>1, <1>b, <1>c, <1>e, <1>f, StepBase DEF WorkerDies, tables
<1> QED BY Zenon, <1>1, <1>2, <1>3, <1>4, <1>5, <1>6, <1>7, <1>8, <1>9, <1>10, <1>11, <1>12, <1>13, <1>14,
           <1>15, <1>16, <1>17, <1>c, <1>e

\* What a lease and its outcome may do to a row: its inputs stay, and it ends once.
RowStep(j) ==
  /\ job'[j] \in JobRow
  /\ job'[j].kind = job[j].kind /\ job'[j].parent = job[j].parent /\ job'[j].fence = job[j].fence
  /\ job'[j].status # "absent" <=> job[j].status # "absent"
  /\ job[j].status \in Terminal => job'[j] = job[j]

\* A row that is given up or ended makes such a step, if it was running.
LEMMA UnleasedStep ==
  ASSUME NEW row \in JobRow, row.status = "running", NEW status \in {"queued", "failed", "succeeded"}
  PROVE  LET new == Unleased(row, status) IN
         /\ new \in JobRow /\ new.status = status
         /\ new.kind = row.kind /\ new.parent = row.parent /\ new.fence = row.fence
BY Zenon DEF Unleased, JobRow, Terminal

\* A row that is claimed makes such a step.
LEMMA ClaimedStep ==
  ASSUME NEW row \in JobRow, row.attempt < MaxAttempts, NEW w \in Workers
  PROVE  /\ Claimed(w, row) \in JobRow /\ Claimed(w, row).status = "running"
         /\ Claimed(w, row).kind = row.kind /\ Claimed(w, row).parent = row.parent
         /\ Claimed(w, row).fence = row.fence
<1>1. row.attempt + 1 \in 0 .. MaxAttempts
  BY CanonicalAssumption DEF JobRow
<1> QED BY Zenon, <1>1 DEF JobRow, Claimed

\* The sweep of exhausted rows ends only running rows.
LEMMA SweptRows ==
  ASSUME BaseInv, NEW kind \in Kinds, NEW j \in Jobs
  PROVE  /\ Swept(kind)[j] \in JobRow
         /\ Swept(kind)[j].kind = job[j].kind /\ Swept(kind)[j].parent = job[j].parent
         /\ Swept(kind)[j].fence = job[j].fence
         /\ Swept(kind)[j] = job[j] \/ (job[j].status = "running" /\ Swept(kind)[j].status = "failed")
<1>1. job[j] \in JobRow
  BY Zenon DEF BaseInv, TypeBase
<1>2. Exhausted(j) => job[j].status = "running"
  BY Zenon DEF Exhausted
<1>3. Swept(kind)[j] = IF job[j].kind = kind /\ Exhausted(j) THEN Unleased(job[j], "failed") ELSE job[j]
  BY Zenon DEF Swept
<1> QED BY <1>1, <1>2, <1>3, UnleasedStep

\* A worker's claim and the sweep of exhausted rows keep every row's inputs and end only running rows.
LEMMA ClaimRows ==
  ASSUME BaseInv, NEW w \in Workers, NEW kind \in Kinds, Claim(w, kind)
  PROVE  /\ job' = [j \in Jobs |-> job'[j]]
         /\ \A j \in Jobs : RowStep(j)
<1>0. \A j \in Jobs : job[j] \in JobRow
  BY Zenon DEF BaseInv, TypeBase
<1>1. Swept(kind) = [j \in Jobs |-> Swept(kind)[j]]
  BY Zenon DEF Swept
<1>2. CASE job' = Swept(kind)
  BY Zenon, <1>1, <1>2, SweptRows DEF RowStep, Terminal
<1>3. ASSUME NEW k \in Jobs, Claimable(k), job' = [Swept(kind) EXCEPT ![k] = Claimed(w, job[k])]
      PROVE  job' = [j \in Jobs |-> job'[j]] /\ \A j \in Jobs : RowStep(j)
  <2>1. \A j \in Jobs : job'[j] = IF j = k THEN Claimed(w, job[k]) ELSE Swept(kind)[j]
    BY Zenon, <1>3, <1>1
  <2>2. job[k].status \in {"queued", "running"} /\ job[k].attempt < MaxAttempts
    BY Zenon, <1>3 DEF Claimable
  <2>3. RowStep(k)
    BY <1>0, <2>1, <2>2, ClaimedStep DEF RowStep, Terminal
  <2>4. \A j \in Jobs : j # k => RowStep(j)
    BY <2>1, SweptRows DEF RowStep, Terminal
  <2> QED BY Zenon, <1>1, <1>3, <2>3, <2>4
<1> QED BY Zenon, <1>2, <1>3 DEF Claim

\* A worker that has just claimed a job is a worker.
LEMMA ClaimedTo ==
  ASSUME BaseInv, NEW w \in Workers, NEW kind \in Kinds, Claim(w, kind)
  PROVE  \/ UNCHANGED worker
         \/ \E j \in Jobs, r \in WorkerRow :
              /\ job[j].status # "absent" /\ r.job = j /\ r.pc \in {"solve", "reserve", "prepare"}
              /\ worker' = [worker EXCEPT ![w] = r]
<1>1. FirstStep(kind) \in {"solve", "reserve", "prepare"}
  BY Zenon DEF FirstStep, Kinds
<1>2. \A j \in Jobs : job[j] \in JobRow
  BY Zenon DEF BaseInv, TypeBase
<1>3. ASSUME NEW j \in Jobs, Claimable(j)
      PROVE  /\ job[j].status # "absent"
             /\ Working(j, FirstStep(kind)) \in WorkerRow
             /\ Working(j, FirstStep(kind)).job = j /\ Working(j, FirstStep(kind)).pc = FirstStep(kind)
  <2>1. job[j].attempt + 1 \in 0 .. MaxAttempts /\ job[j].status # "absent"
    BY <1>2, <1>3, CanonicalAssumption DEF JobRow, Claimable
  <2> QED BY <1>1, <2>1, CanonicalAssumption DEF Working, WorkerRow, Guarded
<1> QED BY <1>1, <1>3 DEF Claim

\* A lease that is taken, lapses or ends: the types and the shape stay right, and rows step.
LEMMA LeaseBase ==
  ASSUME BaseInv,
         \/ \E w \in Workers, kind \in Kinds : Claim(w, kind)
         \/ \E j \in Jobs : LeaseLapses(j)
         \/ \E w \in Workers : Fail(w) \/ CompleteProposal(w)
  PROVE  /\ BaseInv' /\ \A j \in Jobs : RowStep(j)
         /\ UNCHANGED <<exchange, records, versions, tenancy, asked>>
<1>0. job \in [Jobs -> JobRow] /\ worker \in [Workers -> WorkerRow]
  BY Zenon DEF BaseInv, TypeBase
<1>a. ASSUME \A j \in Jobs : RowStep(j), job' = [j \in Jobs |-> job'[j]],
             worker' \in [Workers -> WorkerRow],
             \A v \in Workers : \/ worker'[v] = worker[v]
                                \/ worker'[v].pc = "idle"
                                \/ /\ worker'[v].pc # "submit" /\ worker'[v].job \in Jobs
                                   /\ job[worker'[v].job].status # "absent",
             UNCHANGED <<exchange, records, versions, tenancy, asked>>
      PROVE  BaseInv'
  <2>1. job' \in [Jobs -> JobRow]
    BY Zenon, <1>a DEF RowStep
  <2>2. TypeBase'
    BY Zenon, <1>a, <2>1 DEF BaseInv, TypeBase, tenancy
  <2>3. \A w \in Workers : worker'[w].pc # "idle" =>
          worker'[w].job \in Jobs /\ job'[worker'[w].job].status # "absent"
    BY <1>a DEF BaseInv, Shape, RowStep
  <2>4. \A w \in Workers : worker'[w].pc = "submit" => worker'[w].principal = "asker"
    BY Zenon, <1>a DEF BaseInv, Shape
  <2>5. Shape'
    BY Zenon, <1>a, <2>3, <2>4 DEF BaseInv, Shape, tenancy, RowStep
  <2> QED BY Zenon, <2>2, <2>5 DEF BaseInv
<1>1. ASSUME NEW w \in Workers, NEW kind \in Kinds, Claim(w, kind)
      PROVE  /\ BaseInv' /\ \A j \in Jobs : RowStep(j)
             /\ UNCHANGED <<exchange, records, versions, tenancy, asked>>
  <2>1. UNCHANGED <<exchange, records, versions, tenancy, asked>>
    BY Zenon, <1>1 DEF Claim
  <2>2. /\ job' = [j \in Jobs |-> job'[j]] /\ \A j \in Jobs : RowStep(j)
        /\ \/ UNCHANGED worker
           \/ \E j \in Jobs, r \in WorkerRow :
                /\ job[j].status # "absent" /\ r.job = j /\ r.pc \in {"solve", "reserve", "prepare"}
                /\ worker' = [worker EXCEPT ![w] = r]
    BY Zenon, <1>0, <1>1, ClaimRows, ClaimedTo
  <2>3. worker' \in [Workers -> WorkerRow]
    BY Zenon, <1>0, <2>2
  <2>4. \A v \in Workers : \/ worker'[v] = worker[v]
                           \/ /\ worker'[v].pc # "submit" /\ worker'[v].job \in Jobs
                              /\ job[worker'[v].job].status # "absent"
    BY Zenon, <1>0, <2>2
  <2> QED BY Zenon, <1>a, <2>1, <2>2, <2>3, <2>4
<1>2. ASSUME NEW k \in Jobs, LeaseLapses(k)
      PROVE  /\ BaseInv' /\ \A j \in Jobs : RowStep(j)
             /\ UNCHANGED <<exchange, records, versions, tenancy, asked>>
  <2>1. [job[k] EXCEPT !.live = FALSE] \in JobRow
    BY Zenon, <1>0 DEF JobRow
  <2>2. job' = [job EXCEPT ![k] = [job[k] EXCEPT !.live = FALSE]] /\ job[k].status = "running"
    BY Zenon, <1>2 DEF LeaseLapses
  <2>3. \A j \in Jobs : RowStep(j)
    BY Zenon, <1>0, <2>1, <2>2 DEF RowStep, Terminal, JobRow
  <2>4. UNCHANGED <<exchange, records, versions, tenancy, asked, worker>>
    BY Zenon, <1>2 DEF LeaseLapses
  <2>5. job' = [j \in Jobs |-> job'[j]]
    BY Zenon, <1>0, <2>2
  <2> QED BY Zenon, <1>0, <1>a, <2>3, <2>4, <2>5
<1>3. ASSUME NEW w \in Workers, Fail(w) \/ CompleteProposal(w)
      PROVE  /\ BaseInv' /\ \A j \in Jobs : RowStep(j)
             /\ UNCHANGED <<exchange, records, versions, tenancy, asked>>
  <2> DEFINE k == worker[w].job
  <2>1. k \in Jobs
    BY Zenon, <1>3 DEF Fail, CompleteProposal, BaseInv, Shape
  <2>2. /\ Returns(w) /\ UNCHANGED <<exchange, records, versions, tenancy, asked>>
        /\ \/ job' = job
           \/ /\ job[k].status = "running"
              /\ \E status \in {"queued", "failed", "succeeded"} :
                   job' = [job EXCEPT ![k] = Unleased(job[k], status)]
    BY Zenon, <1>3 DEF Fail, Fails, CompleteProposal, Custody, Holds, Current
  <2> HIDE DEF k
  <2>3. \A j \in Jobs : RowStep(j)
    BY <1>0, <2>1, <2>2, UnleasedStep DEF RowStep, Terminal
  <2>4. job' = [j \in Jobs |-> job'[j]]
    BY Zenon, <1>0, <2>2
  <2>5. worker' \in [Workers -> WorkerRow] /\ \A v \in Workers : worker'[v] = worker[v] \/ worker'[v].pc = "idle"
    BY Zenon, <1>0, <2>2, ReturnsTo DEF WorkerTo, Returns, Idle
  <2> QED BY Zenon, <1>a, <2>2, <2>3, <2>4, <2>5
<1> QED BY Zenon, <1>1, <1>2, <1>3

\* A job that completes with an output: its row succeeds in the same step, or nothing happens.
Succeeds(w) ==
  /\ job[worker[w].job].status = "running" /\ job[worker[w].job].live
  /\ job' = [job EXCEPT ![worker[w].job] = Unleased(job[worker[w].job], "succeeded")]

\* A completion leaves the types and the shape right, and rows step.
LEMMA CompleteBase ==
  ASSUME BaseInv, NEW w \in Workers, CompleteSolve(w) \/ CompleteGraph(w)
  PROVE  /\ BaseInv' /\ \A j \in Jobs : RowStep(j)
         /\ worker[w].pc = "complete" /\ worker[w].job \in Jobs
         /\ Returns(w) /\ UNCHANGED <<tenancy, asked>>
         /\ Succeeds(w) \/ UNCHANGED <<job, records, versions, exchange>>
<1> DEFINE k == worker[w].job
<1>0. job \in [Jobs -> JobRow] /\ worker \in [Workers -> WorkerRow] /\ exchange \in [Jobs -> ExchangeRow]
  BY Zenon DEF BaseInv, TypeBase
<1>1. worker[w].pc = "complete" /\ Returns(w) /\ UNCHANGED <<tenancy, asked>>
  BY Zenon DEF CompleteSolve, CompleteGraph
<1>2. k \in Jobs /\ job[k].status # "absent"
  BY Zenon, <1>1 DEF BaseInv, Shape
<1>3. Succeeds(w) \/ UNCHANGED <<job, records, versions, exchange>>
  BY Zenon DEF CompleteSolve, CompleteGraph, Succeeds, Holds, Current
<1>4. records' \in [Jobs -> Nat]
  <2>1. records' = records \/ records' = [records EXCEPT ![k] = records[k] + 1]
    BY Zenon DEF CompleteSolve, CompleteGraph
  <2> QED BY <1>2, <2>1 DEF BaseInv, TypeBase
<1>5. versions' \in Seq(VersionRow)
  <2>1. versions' = versions \/ versions' = Published(k, job[k].parent, job[k].fence)
    BY Zenon DEF CompleteSolve, CompleteGraph
  <2>2. job[k].parent \in Nat /\ job[k].fence \in 0 .. MaxFence
    BY Zenon, <1>0, <1>2 DEF JobRow
  <2>3. versions \in Seq(VersionRow) /\ k \in Jobs \cup {Editor}
    BY Zenon, <1>2 DEF BaseInv, TypeBase
  <2>4. Published(k, job[k].parent, job[k].fence) \in Seq(VersionRow)
    <3> HIDE DEF k
    <3> QED BY Zenon, <2>2, <2>3, PublishedKeeps
  <2> QED BY Zenon, <2>1, <2>3, <2>4
<1>6. ExchangeTo(w)
  <2>1. UNCHANGED exchange \/ Moves(w, "published")
    BY Zenon DEF CompleteSolve, CompleteGraph
  <2> QED BY Zenon, <1>0, <1>2, <2>1, MovesTo DEF States, Settled
<1>7. exchange' \in [Jobs -> ExchangeRow] /\ \A j \in Jobs : exchange'[j] = exchange[j] \/ j = k
  BY Zenon, <1>0, <1>2, <1>6 DEF ExchangeTo
<1>8. worker' \in [Workers -> WorkerRow] /\ \A v \in Workers : worker'[v] = worker[v] \/ worker'[v].pc = "idle"
  BY Zenon, <1>0, <1>1, ReturnsTo DEF WorkerTo, Returns, Idle
<1> HIDE DEF k
<1>9. \A j \in Jobs : RowStep(j)
  BY SMTT(20), <1>0, <1>2, <1>3, UnleasedStep DEF RowStep, Terminal, Succeeds, k
<1>10. job' \in [Jobs -> JobRow]
  BY <1>0, <1>2, <1>3, UnleasedStep DEF Succeeds, k
<1>11. TypeBase'
  BY Zenon, <1>1, <1>4, <1>5, <1>7, <1>8, <1>10 DEF BaseInv, TypeBase, tenancy
<1>12. Shape'
  <2>1. \A v \in Workers : worker'[v].pc # "idle" =>
          worker'[v].job \in Jobs /\ job'[worker'[v].job].status # "absent"
    BY <1>8, <1>9 DEF BaseInv, Shape, RowStep
  <2>2. \A v \in Workers : worker'[v].pc = "submit" => worker'[v].principal = "asker"
    BY Zenon, <1>8 DEF BaseInv, Shape
  <2>3. \A j \in Jobs : job'[j].status = "absent" => exchange'[j].state = "none"
    BY <1>2, <1>7, <1>9 DEF BaseInv, Shape, RowStep
  <2>4. request' # NoRequest =>
          request'.job \in Jobs /\ request'.kind \in Kinds /\ job'[request'.job].status = "absent"
    BY Zenon, <1>1, <1>9 DEF BaseInv, Shape, tenancy, RowStep
  <2> QED BY Zenon, <2>1, <2>2, <2>3, <2>4 DEF Shape
<1> QED BY Zenon, <1>1, <1>2, <1>3, <1>9, <1>11, <1>12 DEF BaseInv, k

\* The steps, grouped as the lemmas above treat them.
EnvironmentStep == AcquireCheckout \/ CheckoutEnds \/ EditorSaves \/ TierFalls \/ ProjectDeleted
SubmissionStep == SubmitInserts \/ \E j \in Jobs, kind \in Kinds : SubmitChecks(j, kind)
LeaseStep == \/ \E w \in Workers, kind \in Kinds : Claim(w, kind)
             \/ \E j \in Jobs : LeaseLapses(j)
             \/ \E w \in Workers : Fail(w) \/ CompleteProposal(w)
CompletionStep(w) == CompleteSolve(w) \/ CompleteGraph(w)
ExchangeStep(w) ==
  \/ SolverEnds(w) \/ Reserve(w) \/ Resume(w) \/ Send(w) \/ Post(w) \/ PostEnds(w)
  \/ Poll(w) \/ SubmitAsync(w) \/ AsyncAnswers(w) \/ RecordGrid(w)
  \/ Capture(w) \/ Refuse(w) \/ RecordUnknown(w) \/ Evidence(w)
  \/ Prepare(w) \/ GrantFails(w) \/ WorkerDies(w)

\* Every step is one of these.
LEMMA NextCases ==
  ASSUME Next
  PROVE  \/ EnvironmentStep \/ SubmissionStep \/ LeaseStep
         \/ \E w \in Workers : CompletionStep(w) \/ ExchangeStep(w)
BY Zenon DEF Next, WorkerStep, EnvironmentStep, SubmissionStep, LeaseStep, CompletionStep, ExchangeStep

\* Every step leaves the types and the shape right.
LEMMA BaseStep ==
  ASSUME BaseInv, Next
  PROVE  BaseInv'
<1>1. CASE EnvironmentStep
  BY Zenon, <1>1, EditorBase DEF EnvironmentStep
<1>2. CASE SubmissionStep
  BY Zenon, <1>2, SubmitBase DEF SubmissionStep
<1>3. CASE LeaseStep
  BY Zenon, <1>3, LeaseBase DEF LeaseStep
<1>4. ASSUME NEW w \in Workers, CompletionStep(w) PROVE BaseInv'
  BY Zenon, <1>4, CompleteBase DEF CompletionStep
<1>5. ASSUME NEW w \in Workers, ExchangeStep(w) PROVE BaseInv'
  BY Zenon, <1>5, ExchangeBase DEF ExchangeStep
<1> QED BY Zenon, <1>1, <1>2, <1>3, <1>4, <1>5, NextCases

\* The types and the shape hold in every reachable state.
THEOREM BaseInvariant == Spec => []BaseInv
<1>1. Init => BaseInv
  BY Zenon, InitBase
<1>2. BaseInv /\ [Next]_vars => BaseInv'
  <2> SUFFICES ASSUME BaseInv, [Next]_vars PROVE BaseInv'
    BY Zenon
  <2>1. CASE UNCHANGED vars
    BY Zenon, <2>1 DEF BaseInv, TypeBase, Shape, vars
  <2> QED BY Zenon, <2>1, BaseStep
<1> QED BY <1>1, <1>2, PTL DEF Spec

(***************************************************************************)
(* The custody of an exchange.                                             *)
(***************************************************************************)

\* A step's effect on the exchange of job j, where it writes its state: the lease's holder does it.
Held(j) ==
  /\ job[j].status = "running" /\ job[j].live /\ project
  /\ \E w \in Workers : worker[w].job = j /\ Current(w) /\ worker'[w] # worker[w]

StateStep(j) ==
  exchange'[j].state # exchange[j].state => Held(j) /\ exchange[j].state \notin Settled

\* The worker that moves its exchange goes on to another step of its own.
LEMMA Moved ==
  ASSUME BaseInv, NEW w \in Workers, worker[w].pc # "idle",
         \/ Returns(w)
         \/ \E pc \in Pcs : pc # worker[w].pc /\ (Goes(w, pc) \/ GoesIfHeld(w, pc))
  PROVE  worker'[w] # worker[w]
<1>0. worker \in [Workers -> WorkerRow]
  BY Zenon DEF BaseInv, TypeBase
<1>1. CASE Returns(w)
  BY <1>0, <1>1 DEF Returns, Idle
<1>2. ASSUME NEW pc \in Pcs, pc # worker[w].pc, Goes(w, pc) PROVE worker'[w] # worker[w]
  <2>1. worker'[w].pc = pc
    BY Zenon, <1>0, <1>2 DEF Goes, WorkerRow
  <2> QED BY Zenon, <1>2, <2>1
<1> QED BY Zenon, <1>1, <1>2 DEF GoesIfHeld

\* Nothing has been sent.
Before == {"none", "prepared"}

\* What a step of worker w does to the exchanges: nothing, or it writes its own under its lease.
Wrote(w) ==
  \/ UNCHANGED exchange
  \/ /\ \A j \in Jobs : j # worker[w].job => exchange'[j] = exchange[j]
     /\ Custody(w) /\ Exchange(w).state \notin Settled /\ worker'[w] # worker[w]
     /\ LET new == exchange'[worker[w].job]
        IN /\ new.state \in Before => Exchange(w).state \in Before
           /\ Exchange(w).state \notin Before => new.async = Exchange(w).async
           /\ new.state = "published" => CompletionStep(w)

\* A worker that writes its exchange's state under its lease, and goes on.
LEMMA MovesWrites ==
  ASSUME BaseInv, NEW w \in Workers, worker[w].job \in Jobs, NEW state \in States, Moves(w, state),
         Custody(w), Exchange(w).state \notin Settled, worker'[w] # worker[w],
         state \in Before => Exchange(w).state \in Before, state = "published" => CompletionStep(w)
  PROVE  Wrote(w)
<1>1. exchange \in [Jobs -> ExchangeRow]
  BY Zenon DEF BaseInv, TypeBase
<1>2. \A j \in Jobs : j # worker[w].job => exchange'[j] = exchange[j]
  BY Zenon, <1>1 DEF Moves, Sets
<1>3. exchange'[worker[w].job].state = state /\ exchange'[worker[w].job].async = Exchange(w).async
  BY <1>1 DEF Moves, Sets, Exchange, ExchangeRow
<1> QED BY Zenon, <1>2, <1>3 DEF Wrote

\* The send marks the exchange, and the worker goes on by the protocol it marked.
LEMMA SendSends ==
  ASSUME BaseInv, NEW w \in Workers, Send(w), ~(UNCHANGED exchange /\ Returns(w))
  PROVE  LET new == exchange'[worker[w].job]
         IN /\ new.state = "sending"
            /\ worker'[w].pc = IF new.async THEN "poll" ELSE "post"
            /\ Exchange(w).state = "prepared"
<1> DEFINE async == Async /\ job[worker[w].job].kind = "proposal"
           sender == IF async THEN None ELSE w
           attempt == IF async THEN 0 ELSE worker[w].attempt
<1>0. exchange \in [Jobs -> ExchangeRow] /\ worker \in [Workers -> WorkerRow]
  BY Zenon DEF BaseInv, TypeBase
<1>1. worker[w].job \in Jobs
  BY Zenon DEF Send, BaseInv, Shape
<1>2. Exchange(w) \in ExchangeRow
  BY Zenon, <1>0, <1>1 DEF Exchange
<1>3. /\ exchange' = [exchange EXCEPT ![worker[w].job] =
                        [Exchange(w) EXCEPT !.state = "sending", !.async = async,
                                            !.sender = sender, !.attempt = attempt]]
      /\ worker' = [worker EXCEPT ![w].pc = IF async THEN "poll" ELSE "post",
                                  ![w].principal = IF async THEN "asker" ELSE None]
      /\ Exchange(w).state = "prepared"
  BY Zenon DEF Send, Sets
<1> HIDE DEF async, sender, attempt
<1>4. exchange'[worker[w].job] = [Exchange(w) EXCEPT !.state = "sending", !.async = async,
                                                     !.sender = sender, !.attempt = attempt]
  BY <1>0, <1>1, <1>3
<1>5. exchange'[worker[w].job].state = "sending" /\ exchange'[worker[w].job].async = async
  BY Zenon, <1>2, <1>4 DEF ExchangeRow
<1>6. worker'[w].pc = IF async THEN "poll" ELSE "post"
  BY Zenon, <1>0, <1>3 DEF WorkerRow
<1> QED BY Zenon, <1>3, <1>5, <1>6

\* An exchange's own steps write it under the lease.
LEMMA ExchangeWrites ==
  ASSUME BaseInv, NEW w \in Workers, ExchangeStep(w)
  PROVE  Wrote(w)
<1>0. exchange \in [Jobs -> ExchangeRow] /\ worker \in [Workers -> WorkerRow]
  BY Zenon DEF BaseInv, TypeBase
<1>1. worker[w].pc # "idle"
  BY Zenon, ExchangeBase DEF ExchangeStep
<1>2. worker[w].job \in Jobs
  BY Zenon, <1>1 DEF BaseInv, Shape
<1>3. \A state \in States \ {"published"} :
        /\ Moves(w, state) /\ Custody(w) /\ Exchange(w).state \notin Settled
        /\ worker'[w] # worker[w] /\ (state \in Before => Exchange(w).state \in Before)
        => Wrote(w)
  BY Zenon, <1>2, MovesWrites
<1>4. CASE SolverEnds(w) \/ Post(w) \/ PostEnds(w) \/ SubmitAsync(w) \/ AsyncAnswers(w) \/ Prepare(w)
           \/ GrantFails(w) \/ WorkerDies(w)
  BY Zenon, <1>4 DEF SolverEnds, Post, PostEnds, SubmitAsync, AsyncAnswers, Prepare, GrantFails, WorkerDies,
              tables, Wrote
<1>5. CASE Reserve(w)
  <2>1. CASE Moves(w, "prepared") /\ Goes(w, "resume") /\ Custody(w) /\ Exchange(w) = NoExchange
    <3>1. worker'[w] # worker[w]
      BY Zenon, <1>1, <1>5, <2>1, Moved DEF Reserve, Pcs, Guarded
    <3>2. Exchange(w).state \notin Settled /\ Exchange(w).state \in Before
      BY <2>1 DEF NoExchange, Settled, Before
    <3> QED BY Zenon, <1>3, <2>1, <3>1, <3>2 DEF States
  <2> QED BY Zenon, <1>5, <2>1 DEF Reserve, Wrote
<1>6. CASE Resume(w)
  <2>1. CASE Moves(w, "unknown") /\ GoesIfHeld(w, "fail") /\ Custody(w) /\ Exchange(w).state = "sending"
    <3>1. worker'[w] # worker[w]
      BY Zenon, <1>1, <1>6, <2>1, Moved DEF Resume, Pcs
    <3> QED BY Zenon, <1>3, <2>1, <3>1 DEF States, Settled, Before
  <2> QED BY Zenon, <1>6, <2>1 DEF Resume, ResumePolls, Wrote
<1>7. CASE Send(w)
  <2>1. CASE UNCHANGED exchange
    BY Zenon, <2>1 DEF Wrote
  <2>2. CASE ~UNCHANGED exchange
    <3>1. Custody(w) /\ Exchange(w).state = "prepared"
      BY Zenon, <1>7, <2>2 DEF Send
    <3>2. \A j \in Jobs : j # worker[w].job => exchange'[j] = exchange[j]
      BY SMTT(20), <1>0, <1>2, <1>7, <2>2 DEF Send, Sets
    <3>3. worker'[w].pc # "send"
      BY <1>0, <1>7, <2>2 DEF Send, WorkerRow
    <3>4. worker'[w] # worker[w]
      BY Zenon, <1>7, <3>3 DEF Send
    <3>5. exchange'[worker[w].job].state = "sending"
      BY Zenon, <1>7, <2>2, SendSends
    <3> QED BY Zenon, <3>1, <3>2, <3>4, <3>5 DEF Wrote, Settled, Before
  <2> QED BY Zenon, <2>1, <2>2
<1>8. CASE Poll(w)
  <2>1. CASE Moves(w, "unknown") /\ GoesIfHeld(w, "fail") /\ Custody(w) /\ Exchange(w).state = "sending"
    <3>1. worker'[w] # worker[w]
      BY SMTT(20), <1>1, <1>8, <2>1, Moved DEF Poll, Pcs
    <3> QED BY Zenon, <1>3, <2>1, <3>1 DEF States, Settled, Before
  <2> QED BY SMTT(20), <1>8, <2>1 DEF Poll, Wrote
<1>9. CASE RecordGrid(w)
  <2>1. CASE UNCHANGED exchange
    BY Zenon, <2>1 DEF Wrote
  <2>2. CASE ~UNCHANGED exchange
    <3>1. Custody(w) /\ Exchange(w).state = "sending" /\ Goes(w, "poll")
      BY Zenon, <1>9, <2>2 DEF RecordGrid
    <3>2. \A j \in Jobs : j # worker[w].job => exchange'[j] = exchange[j]
      BY Zenon, <1>0, <1>2, <1>9, <2>2 DEF RecordGrid, Sets
    <3>3. worker'[w] # worker[w]
      BY Zenon, <1>1, <1>9, <3>1, Moved DEF RecordGrid, Pcs, Guarded
    <3>4. /\ exchange'[worker[w].job].state = Exchange(w).state
          /\ exchange'[worker[w].job].async = Exchange(w).async
      BY <1>0, <1>2, <1>9, <2>2 DEF RecordGrid, Sets, Exchange, ExchangeRow
    <3> QED BY Zenon, <3>1, <3>2, <3>3, <3>4 DEF Wrote, Settled
  <2> QED BY Zenon, <2>1, <2>2
<1>10. CASE Capture(w)
  <2>1. CASE Moves(w, "responded") /\ Goes(w, "evidence") /\ Custody(w) /\ Exchange(w).state = "sending"
    <3>1. worker'[w] # worker[w]
      BY <1>1, <1>10, <2>1, Moved DEF Capture, Pcs, Guarded
    <3> QED BY Zenon, <1>3, <2>1, <3>1 DEF States, Settled, Before
  <2> QED BY Zenon, <1>10, <2>1 DEF Capture, Wrote
<1>11. CASE Refuse(w)
  <2>1. worker'[w] # worker[w]
    BY Zenon, <1>1, <1>11, Moved DEF Refuse, Pcs
  <2>2. CASE Moves(w, "refused") /\ Custody(w) /\ Exchange(w).state \in {"prepared", "responded", "sending"}
    BY Zenon, <1>3, <2>1, <2>2 DEF States, Settled, Before
  <2> QED BY Zenon, <1>11, <2>2 DEF Refuse, Wrote
<1>12. CASE RecordUnknown(w)
  <2>1. worker'[w] # worker[w]
    BY Zenon, <1>1, <1>12, Moved DEF RecordUnknown, Pcs
  <2>2. CASE Moves(w, "unknown") /\ Custody(w) /\ Exchange(w).state = "sending"
    BY SMTT(20), <1>3, <2>1, <2>2 DEF States, Settled, Before
  <2> QED BY Zenon, <1>12, <2>2 DEF RecordUnknown, Wrote
<1>13. CASE Evidence(w)
  <2>1. CASE UNCHANGED exchange
    BY Zenon, <2>1 DEF Wrote
  <2>2. CASE ~UNCHANGED exchange
    <3>1. /\ Custody(w) /\ Exchange(w).state = "responded"
          /\ \E state \in {"evident", "completed"} : Moves(w, state)
          /\ \E pc \in {"prepare", "complete"} : Goes(w, pc)
      BY Zenon, <1>13, <2>2 DEF Evidence
    <3>2. worker'[w] # worker[w]
      BY Zenon, <1>1, <1>13, <3>1, Moved DEF Evidence, Pcs, Guarded
    <3> QED BY Zenon, <1>3, <3>1, <3>2 DEF States, Settled, Before
  <2> QED BY Zenon, <2>1, <2>2
<1> QED BY SMTT(20), <1>4, <1>5, <1>6, <1>7, <1>8, <1>9, <1>10, <1>11, <1>12, <1>13 DEF ExchangeStep

\* So do the completions.
LEMMA CompletionWrites ==
  ASSUME BaseInv, NEW w \in Workers, CompletionStep(w)
  PROVE  Wrote(w)
<1>1. worker[w].pc = "complete" /\ worker[w].job \in Jobs /\ Returns(w)
  BY Zenon, CompleteBase DEF CompletionStep
<1>2. worker'[w] # worker[w]
  BY Zenon, <1>1, Moved
<1>3. \/ UNCHANGED exchange
      \/ Custody(w) /\ Exchange(w).state = "evident" /\ Moves(w, "published")
  BY Zenon DEF CompletionStep, CompleteSolve, CompleteGraph, Custody, Publishable, Exchange
<1>4. CASE UNCHANGED exchange
  BY Zenon, <1>4 DEF Wrote
<1>5. CASE Custody(w) /\ Exchange(w).state = "evident" /\ Moves(w, "published")
  BY Zenon, <1>1, <1>2, <1>5, MovesWrites DEF States, Settled, Before
<1> QED BY Zenon, <1>3, <1>4, <1>5

\* Whoever writes an exchange's state holds the job, and never moves a settled one.
LEMMA StateSteps ==
  ASSUME BaseInv, Next, NEW j \in Jobs
  PROVE  StateStep(j)
<1>1. ASSUME NEW w \in Workers, Wrote(w) PROVE StateStep(j)
  BY Zenon, <1>1 DEF Wrote, StateStep, Held, Custody, Holds, Current, Exchange
<1>2. CASE EnvironmentStep \/ SubmissionStep \/ LeaseStep
  <2>1. UNCHANGED exchange
    BY Zenon, <1>2 DEF EnvironmentStep, AcquireCheckout, CheckoutEnds, EditorSaves, TierFalls, ProjectDeleted,
                SubmissionStep, SubmitChecks, SubmitInserts, LeaseStep, Claim, LeaseLapses, Fail,
                CompleteProposal, tables
  <2> QED BY Zenon, <2>1 DEF StateStep
<1> QED BY Zenon, <1>1, <1>2, ExchangeWrites, CompletionWrites, NextCases

\* Every step keeps the inputs of the rows there are, and ends them once.
LEMMA RowSteps ==
  ASSUME BaseInv, Next, NEW j \in Jobs, job[j].status # "absent"
  PROVE  RowStep(j)
<1>0. job \in [Jobs -> JobRow]
  BY Zenon DEF BaseInv, TypeBase
<1>1. CASE UNCHANGED job
  BY Zenon, <1>0, <1>1 DEF RowStep
<1>2. CASE EnvironmentStep
  BY Zenon, <1>1, <1>2 DEF EnvironmentStep, AcquireCheckout, CheckoutEnds, EditorSaves, TierFalls, ProjectDeleted,
                    tables
<1>3. CASE SubmissionStep
  <2>1. ASSUME NEW k \in Jobs, NEW kind \in Kinds, SubmitChecks(k, kind) PROVE UNCHANGED job
    BY Zenon, <2>1 DEF SubmitChecks, tables
  <2>2. CASE SubmitInserts
    <3>1. request # NoRequest /\ (job' = job \/ job' = [job EXCEPT ![request.job] = Inserted(request)])
      BY Zenon, <2>2 DEF SubmitInserts
    <3>2. j # request.job
      BY Zenon, <3>1 DEF BaseInv, Shape
    <3>3. job'[j] = job[j]
      BY Zenon, <1>0, <3>1, <3>2
    <3> QED BY <1>0, <3>3 DEF RowStep
  <2> QED BY Zenon, <1>1, <1>3, <2>1, <2>2 DEF SubmissionStep
<1>4. CASE LeaseStep
  BY Zenon, <1>4, LeaseBase DEF LeaseStep
<1>5. ASSUME NEW w \in Workers, CompletionStep(w) PROVE RowStep(j)
  BY Zenon, <1>5, CompleteBase DEF CompletionStep
<1>6. ASSUME NEW w \in Workers, ExchangeStep(w) PROVE RowStep(j)
  BY Zenon, <1>1, <1>6, ExchangeBase DEF ExchangeStep
<1> QED BY Zenon, <1>2, <1>3, <1>4, <1>5, <1>6, NextCases

\* An exchange moves only in a step of the worker that holds the job's live lease (_lock and
\* LIVE_EXISTS_SQL on every write of project_sizing_store.py and project_solve_store.py).
THEOREM HolderMoves == Spec => HolderMovesExchange
<1>1. BaseInv /\ [Next]_vars =>
        [\A j \in Jobs : exchange'[j].state # exchange[j].state =>
           /\ job[j].live /\ project
           /\ \E w \in Workers : /\ worker[w].job = j /\ Current(w)
                                 /\ worker'[w] # worker[w]]_vars
  BY Zenon, StateSteps DEF StateStep, Held
<1> QED BY <1>1, BaseInvariant, PTL DEF Spec, HolderMovesExchange

\* A job or an exchange that is settled stays as it is (the status and state guards of every UPDATE).
THEOREM SettledStaysSettled == Spec => SettledIsFinal
<1>1. BaseInv /\ [Next]_vars =>
        [\A j \in Jobs :
           /\ job[j].status \in Terminal => job'[j].status = job[j].status
           /\ exchange[j].state \in Settled => exchange'[j].state = exchange[j].state]_vars
  <2> SUFFICES ASSUME BaseInv, Next, NEW j \in Jobs
               PROVE  /\ job[j].status \in Terminal => job'[j].status = job[j].status
                      /\ exchange[j].state \in Settled => exchange'[j].state = exchange[j].state
    BY Zenon
  <2>1. job[j].status \in Terminal => job'[j].status = job[j].status
    BY Zenon, RowSteps DEF RowStep, Terminal
  <2> QED BY Zenon, <2>1, StateSteps DEF StateStep
<1> QED BY <1>1, BaseInvariant, PTL DEF Spec, SettledIsFinal

(***************************************************************************)
(* The cloud is asked once.                                                *)
(***************************************************************************)

\* The steps of the asynchronous protocol.
Polling == {"poll", "submit", "get", "answer", "grid"}

\* A worker that is about to post is the only one of its job, on a synchronous exchange that was not
\* posted; whoever polls has an asynchronous one; and nothing is asked before an exchange is sent.
AskInv ==
  /\ \A w \in Workers : worker[w].pc = "post" =>
       Exchange(w).state \notin Before /\ ~Exchange(w).async /\ asked[worker[w].job].posts = 0
  /\ \A w \in Workers : worker[w].pc \in Polling => Exchange(w).state \notin Before /\ Exchange(w).async
  /\ \A v, w \in Workers : worker[v].pc = "post" /\ worker[w].pc = "post" /\ worker[v].job = worker[w].job =>
       v = w
  /\ \A j \in Jobs : /\ exchange[j].state \in Before => asked[j].posts = 0 /\ asked[j].keys = {}
                     /\ asked[j].posts <= 1 /\ asked[j].keys \subseteq {"asker"}
                     /\ asked[j].posts = 0 \/ ~exchange[j].async
                     /\ asked[j].keys = {} \/ exchange[j].async

\* Where a worker that moves is next.
LEMMA NextPc ==
  ASSUME BaseInv, NEW w \in Workers
  PROVE  /\ Returns(w) => worker'[w].pc = "idle"
         /\ \A pc \in Pcs : /\ Goes(w, pc) => worker'[w].pc = pc
                            /\ GoesIfHeld(w, pc) => worker'[w].pc \in {pc, "idle"}
<1>0. worker \in [Workers -> WorkerRow]
  BY Zenon DEF BaseInv, TypeBase
<1>1. Returns(w) => worker'[w].pc = "idle"
  BY <1>0 DEF Returns, Idle
<1>2. \A pc \in Pcs : Goes(w, pc) => worker'[w].pc = pc
  BY Zenon, <1>0 DEF Goes, WorkerRow
<1> QED BY Zenon, <1>1, <1>2 DEF GoesIfHeld

\* How a worker comes to post, and to poll.
Enters(w) ==
  LET new == exchange'[worker[w].job] IN
  /\ worker'[w].pc = "post" =>
       Exchange(w).state = "prepared" /\ new.state = "sending" /\ ~new.async
  /\ worker'[w].pc \in Polling => worker[w].pc \in Polling \/ (new.state = "sending" /\ new.async)

\* A worker posts after moving the exchange to sending, and polls while it is there.
LEMMA ExchangeEnters ==
  ASSUME BaseInv, NEW w \in Workers, ExchangeStep(w)
  PROVE  Enters(w)
<1>0. exchange \in [Jobs -> ExchangeRow] /\ worker \in [Workers -> WorkerRow]
  BY Zenon DEF BaseInv, TypeBase
<1>1. CASE worker'[w].pc \notin Polling \cup {"post"}
  BY Zenon, <1>1 DEF Enters
<1>2. CASE SolverEnds(w) \/ PostEnds(w) \/ Prepare(w) \/ GrantFails(w) \/ WorkerDies(w)
  BY <1>1, <1>2, NextPc DEF SolverEnds, PostEnds, Prepare, GrantFails, WorkerDies, Pcs, Guarded, Polling
<1>3. CASE Reserve(w) \/ Capture(w) \/ Refuse(w) \/ RecordUnknown(w) \/ Evidence(w) \/ Post(w)
  <2>1. CASE Reserve(w) \/ Capture(w)
    BY SMTT(20), <1>1, <2>1, NextPc DEF Reserve, Capture, Pcs, Guarded, Polling
  <2>2. CASE Refuse(w) \/ RecordUnknown(w) \/ Post(w)
    BY <1>1, <2>2, NextPc DEF Refuse, RecordUnknown, Post, Pcs, Guarded, Polling
  <2>3. CASE Evidence(w)
    BY Zenon, <1>1, <2>3, NextPc DEF Evidence, Pcs, Guarded, Polling
  <2> QED BY ZenonT(30), <1>3, <2>1, <2>2, <2>3
<1>4. CASE Resume(w)
  <2>1. CASE ResumePolls(w)
    <3>1. Exchange(w).state = "sending" /\ Exchange(w).async /\ UNCHANGED exchange
      BY Zenon, <2>1 DEF ResumePolls
    <3>2. worker'[w].pc \in {"poll", "refuse"}
      BY <1>0, <2>1 DEF ResumePolls, Goes, WorkerRow
    <3> QED BY Zenon, <3>1, <3>2 DEF Enters, Exchange
  <2> QED BY <1>1, <1>4, <2>1, NextPc DEF Resume, Pcs, Guarded, Polling
<1>5. CASE Send(w)
  <2>1. CASE Returns(w)
    BY Zenon, <1>1, <2>1, NextPc DEF Polling
  <2>2. CASE ~Returns(w)
    BY Zenon, <1>5, <2>2, SendSends DEF Enters, Polling
  <2> QED BY Zenon, <2>1, <2>2
<1>6. CASE Poll(w) \/ SubmitAsync(w) \/ AsyncAnswers(w) \/ RecordGrid(w)
  <2>1. worker[w].pc \in Polling
    BY Zenon, <1>6 DEF Poll, SubmitAsync, AsyncAnswers, RecordGrid, Polling
  <2>2. worker'[w].pc # "post"
    <3>1. CASE Poll(w)
      <4>1. CASE Returns(w) \/ GoesIfHeld(w, "fail")
        BY <4>1, NextPc DEF Pcs
      <4>2. CASE ~(Returns(w) \/ GoesIfHeld(w, "fail"))
        BY SMTT(20), <1>0, <3>1, <4>2 DEF Poll, WorkerRow
      <4> QED BY Zenon, <4>1, <4>2
    <3>2. CASE SubmitAsync(w) \/ AsyncAnswers(w) \/ RecordGrid(w)
      BY <3>2, NextPc DEF SubmitAsync, AsyncAnswers, RecordGrid, Pcs, Guarded
    <3> QED BY Zenon, <1>6, <3>1, <3>2
  <2> QED BY Zenon, <2>1, <2>2 DEF Enters
<1> QED BY Zenon, <1>2, <1>3, <1>4, <1>5, <1>6 DEF ExchangeStep

\* A step of an exchange keeps it.
LEMMA ExchangeAsks ==
  ASSUME BaseInv, AskInv, NEW w \in Workers, ExchangeStep(w)
  PROVE  AskInv'
<1>0. /\ exchange \in [Jobs -> ExchangeRow] /\ worker \in [Workers -> WorkerRow]
      /\ asked \in [Jobs -> [posts: Nat, keys: SUBSET Principals]]
  BY Zenon DEF BaseInv, TypeBase
<1>1. worker[w].pc # "idle" /\ WorkerTo(w) /\ Wrote(w) /\ Enters(w)
  BY Zenon, ExchangeBase, ExchangeWrites, ExchangeEnters DEF ExchangeStep
<1>2. PICK k \in Jobs : k = worker[w].job
  BY Zenon, <1>1 DEF BaseInv, Shape
<1>3. /\ \A v \in Workers : v # w => worker'[v] = worker[v]
      /\ worker'[w].pc # "idle" => worker'[w].job = k
  BY Zenon, <1>0, <1>1, <1>2 DEF WorkerTo
<1>4. \A j \in Jobs : /\ j # k => exchange'[j] = exchange[j]
                      /\ exchange'[j].state \in Before => exchange[j].state \in Before
                      /\ exchange[j].state \notin Before => exchange'[j].async = exchange[j].async
  BY Zenon, <1>1, <1>2 DEF Wrote, Exchange
<1>5. \/ asked' = asked
      \/ /\ worker[w].pc = "post" /\ worker'[w].pc = "await"
         /\ asked' = [asked EXCEPT ![k].posts = @ + 1]
      \/ /\ worker[w].pc = "submit" /\ worker'[w].pc = "answer"
         /\ asked' = [asked EXCEPT ![k].keys = @ \cup {"asker"}]
  <2>1. CASE Post(w)
    BY Zenon, <1>2, <2>1, NextPc DEF Post, Pcs, Guarded
  <2>2. CASE SubmitAsync(w)
    BY Zenon, <1>2, <2>2, NextPc DEF SubmitAsync, Pcs, Guarded, BaseInv, Shape
  <2>3. CASE ~Post(w) /\ ~SubmitAsync(w)
    BY Zenon, <2>3 DEF ExchangeStep, SolverEnds, Reserve, Resume, Send, PostEnds, Poll, AsyncAnswers, RecordGrid,
                Capture, Refuse, RecordUnknown, Evidence, Prepare, GrantFails, WorkerDies
  <2> QED BY Zenon, <2>1, <2>2, <2>3
<1>6. \A j \in Jobs : /\ j # k => asked'[j] = asked[j]
                      /\ asked'[j] = asked[j] \/ exchange[j].state \notin Before
  BY ZenonT(30), <1>0, <1>2, <1>5 DEF AskInv, Exchange, Polling
<1>7. /\ worker[w].pc = "post" \/ asked'[k].posts = asked[k].posts
      /\ worker[w].pc = "submit" \/ asked'[k].keys = asked[k].keys
      /\ asked'[k].posts \in {asked[k].posts, asked[k].posts + 1}
      /\ asked'[k].keys \subseteq asked[k].keys \cup {"asker"}
  BY <1>0, <1>2, <1>5
<1>8. \A j \in Jobs : exchange[j].state \in Before => asked[j].posts = 0 /\ asked[j].keys = {}
  BY Zenon DEF AskInv
<1>9. ASSUME NEW j \in Jobs
      PROVE  /\ exchange'[j].state \in Before => asked'[j].posts = 0 /\ asked'[j].keys = {}
             /\ asked'[j].posts <= 1 /\ asked'[j].keys \subseteq {"asker"}
             /\ asked'[j].posts = 0 \/ ~exchange'[j].async
             /\ asked'[j].keys = {} \/ exchange'[j].async
  <2>1. CASE asked'[j] = asked[j]
    BY <1>4, <1>8, <2>1 DEF AskInv
  <2>2. CASE asked'[j] # asked[j]
    <3>1. j = k /\ exchange[k].state \notin Before
      BY Zenon, <1>6, <2>2
    <3>2. exchange'[k].state \notin Before /\ exchange'[k].async = exchange[k].async
      BY Zenon, <1>2, <1>4, <3>1
    <3>3. CASE worker[w].pc = "post"
      <4>1. ~exchange[k].async /\ asked[k].posts = 0 /\ asked[k].keys = {}
        BY Zenon, <1>2, <3>3 DEF AskInv, Exchange
      <4> QED BY SMTT(20), <1>7, <3>1, <3>2, <3>3, <4>1
    <3>4. CASE worker[w].pc = "submit"
      <4>1. exchange[k].async /\ asked[k].posts = 0 /\ asked[k].keys \subseteq {"asker"}
        BY Zenon, <1>0, <1>2, <3>4 DEF AskInv, Exchange, Polling
      <4> QED BY SMTT(20), <1>7, <3>1, <3>2, <3>4, <4>1
    <3> QED BY Zenon, <1>5, <2>2, <3>3, <3>4
  <2> QED BY Zenon, <2>1, <2>2
<1>10. ASSUME NEW v \in Workers, worker'[v].pc = "post"
       PROVE  /\ exchange'[worker'[v].job].state \notin Before /\ ~exchange'[worker'[v].job].async
              /\ asked'[worker'[v].job].posts = 0
  <2>1. CASE v = w
    <3>1. exchange[k].state \in Before /\ exchange'[k].state = "sending" /\ ~exchange'[k].async
      BY Zenon, <1>1, <1>2, <1>10, <2>1 DEF Enters, Before, Exchange
    <3>2. asked'[k].posts = 0
      BY Zenon, <1>2, <1>6, <1>8, <3>1
    <3> QED BY Zenon, <1>3, <1>10, <2>1, <3>1, <3>2 DEF Before
  <2>2. CASE v # w
    <3> DEFINE l == worker[v].job
    <3>1. /\ worker'[v] = worker[v] /\ worker[v].pc = "post" /\ l \in Jobs
          /\ exchange[l].state \notin Before /\ ~exchange[l].async /\ asked[l].posts = 0
      BY <1>3, <1>10, <2>2 DEF AskInv, Exchange, BaseInv, Shape
    <3>2. exchange'[l].state \notin Before /\ ~exchange'[l].async
      BY Zenon, <1>4, <3>1
    <3>3. l = k => worker[w].pc # "post"
      BY Zenon, <1>2, <2>2, <3>1 DEF AskInv
    <3>4. asked'[l].posts = 0
      BY Zenon, <1>6, <1>7, <3>1, <3>3
    <3> QED BY ZenonT(30), <3>1, <3>2, <3>4
  <2> QED BY Zenon, <2>1, <2>2
<1>11. ASSUME NEW v \in Workers, worker'[v].pc \in Polling
       PROVE  exchange'[worker'[v].job].state \notin Before /\ exchange'[worker'[v].job].async
  <2>1. CASE v = w /\ worker[w].pc \notin Polling
    BY Zenon, <1>1, <1>2, <1>3, <1>11, <2>1 DEF Enters, Polling, Before
  <2>2. CASE v # w \/ worker[w].pc \in Polling
    <3>1. /\ worker'[v].job = worker[v].job /\ worker[v].pc \in Polling /\ worker[v].job \in Jobs
          /\ exchange[worker[v].job].state \notin Before /\ exchange[worker[v].job].async
      BY ZenonT(30), <1>2, <1>3, <1>11, <2>2 DEF AskInv, Exchange, Polling, BaseInv, Shape
    <3> QED BY Zenon, <1>4, <3>1
  <2> QED BY Zenon, <2>1, <2>2
<1>12. ASSUME NEW u \in Workers, NEW v \in Workers, worker'[u].pc = "post", worker'[v].pc = "post",
              worker'[u].job = worker'[v].job
       PROVE  u = v
  <2>1. worker'[w].pc = "post" => exchange[k].state \in Before
    BY Zenon, <1>1, <1>2 DEF Enters, Before, Exchange
  <2>2. \A x \in Workers : x # w /\ worker[x].pc = "post" => exchange[worker[x].job].state \notin Before
    BY Zenon DEF AskInv, Exchange
  <2> QED BY SMTT(20), <1>3, <1>12, <2>1, <2>2 DEF AskInv
<1> QED BY Zenon, <1>9, <1>10, <1>11, <1>12 DEF AskInv, Exchange

\* A worker that is posting or polling after another kind of step was at the same step before it.
LEMMA OthersAsk ==
  ASSUME BaseInv, AskInv, UNCHANGED asked,
         \A v \in Workers : worker'[v].pc \in Polling \cup {"post"} => worker'[v] = worker[v],
         \A j \in Jobs : /\ exchange'[j].state \in Before => exchange[j].state \in Before
                         /\ exchange[j].state \notin Before => exchange'[j].async = exchange[j].async,
         \A j \in Jobs : exchange[j].state \in Before => exchange'[j] = exchange[j]
  PROVE  AskInv'
<1>1. \A v \in Workers : worker[v].pc \in Polling \cup {"post"} => worker[v].job \in Jobs
  BY Zenon DEF BaseInv, Shape, Polling
<1>2. \A j \in Jobs : /\ exchange'[j].state \in Before => asked[j].posts = 0 /\ asked[j].keys = {}
                      /\ asked[j].posts = 0 \/ ~exchange'[j].async
                      /\ asked[j].keys = {} \/ exchange'[j].async
  BY Zenon DEF AskInv
<1>3. \A v \in Workers : worker'[v].pc = "post" =>
        /\ exchange'[worker'[v].job].state \notin Before /\ ~exchange'[worker'[v].job].async
        /\ asked[worker'[v].job].posts = 0
  BY <1>1 DEF AskInv, Exchange
<1>4. \A v \in Workers : worker'[v].pc \in Polling =>
        exchange'[worker'[v].job].state \notin Before /\ exchange'[worker'[v].job].async
  BY Zenon, <1>1 DEF AskInv, Exchange
<1>5. \A v, w \in Workers :
        worker'[v].pc = "post" /\ worker'[w].pc = "post" /\ worker'[v].job = worker'[w].job => v = w
  BY DEF AskInv
<1> QED BY Zenon, <1>2, <1>3, <1>4, <1>5 DEF AskInv, Exchange

\* Every step keeps it.
LEMMA NextAsks ==
  ASSUME BaseInv, AskInv, Next
  PROVE  AskInv'
<1>0. worker \in [Workers -> WorkerRow]
  BY Zenon DEF BaseInv, TypeBase
<1>1. CASE EnvironmentStep \/ SubmissionStep
  <2>1. UNCHANGED <<exchange, asked, worker>>
    BY Zenon, <1>1 DEF EnvironmentStep, AcquireCheckout, CheckoutEnds, EditorSaves, TierFalls, ProjectDeleted,
                SubmissionStep, SubmitChecks, SubmitInserts, tables
  <2> QED BY Zenon, <2>1, OthersAsk
<1>2. CASE LeaseStep
  <2>1. UNCHANGED <<exchange, asked>>
    BY Zenon, <1>2, LeaseBase DEF LeaseStep
  <2>2. \A v \in Workers : worker'[v].pc \in Polling \cup {"post"} => worker'[v] = worker[v]
    <3>1. ASSUME NEW w \in Workers, NEW kind \in Kinds, Claim(w, kind)
          PROVE  \A v \in Workers : worker'[v].pc \in Polling \cup {"post"} => worker'[v] = worker[v]
      BY Zenon, <1>0, <3>1, ClaimedTo DEF Polling
    <3>2. ASSUME NEW w \in Workers, Fail(w) \/ CompleteProposal(w)
          PROVE  \A v \in Workers : worker'[v].pc \in Polling \cup {"post"} => worker'[v] = worker[v]
      BY <1>0, <3>2 DEF Fail, CompleteProposal, Returns, Idle, Polling
    <3>3. ASSUME NEW j \in Jobs, LeaseLapses(j) PROVE worker' = worker
      BY Zenon, <3>3 DEF LeaseLapses
    <3> QED BY Zenon, <1>2, <3>1, <3>2, <3>3 DEF LeaseStep
  <2> QED BY Zenon, <2>1, <2>2, OthersAsk
<1>3. ASSUME NEW w \in Workers, CompletionStep(w) PROVE AskInv'
  <2>1. Returns(w) /\ UNCHANGED asked /\ Wrote(w) /\ worker[w].job \in Jobs
    BY Zenon, <1>3, CompleteBase, CompletionWrites DEF CompletionStep
  <2>2. \A v \in Workers : worker'[v].pc \in Polling \cup {"post"} => worker'[v] = worker[v]
    BY Zenon, <1>0, <2>1 DEF Returns, Idle, Polling
  <2>3. \A j \in Jobs : /\ exchange'[j].state \in Before => exchange[j].state \in Before
                        /\ exchange[j].state \notin Before => exchange'[j].async = exchange[j].async
    BY Zenon, <2>1 DEF Wrote, Exchange
  <2>4. UNCHANGED exchange \/ Exchange(w).state = "evident"
    BY Zenon, <1>3 DEF CompletionStep, CompleteSolve, CompleteGraph, Exchange
  <2>5. \A j \in Jobs : exchange[j].state \in Before => exchange'[j] = exchange[j]
    BY Zenon, <2>1, <2>4 DEF Wrote, Exchange, Before
  <2> QED BY Zenon, <2>1, <2>2, <2>3, <2>5, OthersAsk
<1> QED BY Zenon, <1>1, <1>2, <1>3, ExchangeAsks, NextCases

\* It says that the cloud was asked once.
LEMMA AskedOnceFollows ==
  ASSUME BaseInv, AskInv
  PROVE  AskedOnce
<1> SUFFICES ASSUME NEW j \in Jobs
             PROVE  /\ asked[j].posts <= 1 /\ Cardinality(asked[j].keys) <= 1
                    /\ asked[j].posts = 0 \/ asked[j].keys = {}
  BY Zenon DEF AskedOnce
<1>1. /\ asked[j].posts <= 1 /\ asked[j].keys \subseteq {"asker"}
      /\ asked[j].posts = 0 \/ ~exchange[j].async
      /\ asked[j].keys = {} \/ exchange[j].async
  BY Zenon DEF AskInv
<1>2. asked[j].keys = {} \/ asked[j].keys = {"asker"}
  BY Zenon, <1>1
<1>3. Cardinality({}) = 0 /\ Cardinality({"asker"}) = 1
  BY Zenon, FS_EmptySet, FS_Singleton
<1>4. Cardinality(asked[j].keys) <= 1
  BY SMTT(20), <1>2, <1>3
<1> QED BY Zenon, <1>1, <1>4

\* Whatever dies, stalls or is retried, the cloud service is asked once for a job: begin_send commits
\* the intent before the call, and resume_exchange repeats only an asynchronous request, under its key
\* and principal.
THEOREM CloudAskedOnce == Spec => []AskedOnce
<1>1. Init => AskInv
  BY DEF Init, AskInv, Idle, NoExchange, Before, Polling, Exchange
<1>2. BaseInv /\ AskInv /\ [Next]_vars => AskInv'
  <2> SUFFICES ASSUME BaseInv, AskInv, [Next]_vars PROVE AskInv'
    BY Zenon
  <2>1. CASE UNCHANGED vars
    BY Zenon, <2>1 DEF vars, AskInv, Exchange
  <2> QED BY Zenon, <2>1, NextAsks
<1>3. BaseInv /\ AskInv => AskedOnce
  BY Zenon, AskedOnceFollows
<1> QED BY <1>1, <1>2, <1>3, BaseInvariant, PTL DEF Spec

-----------------------------------------------------------------------------
(***************************************************************************)
(* The history of the drawing.                                             *)
(***************************************************************************)

\* The history starts with the editor's first version, and no version is of a later checkout.
HistoryInv ==
  /\ Len(versions) >= 1 /\ versions[1].by = Editor
  /\ \A i \in 2 .. Len(versions) : versions[i].parent = i - 1 /\ versions[i].fence >= versions[i - 1].fence
  /\ \A i \in 1 .. Len(versions) : versions[i].fence <= checkout.fence

\* Who adds a version adds it to the last one, under the checkout's fence.
Adds(by) ==
  /\ UNCHANGED checkout
  /\ versions' = Append(versions, [by |-> by, parent |-> Len(versions), fence |-> checkout.fence])

\* A version added on the last one keeps the history a chain.
LEMMA AddsHistory ==
  ASSUME BaseInv, HistoryInv, NEW by \in Jobs \cup {Editor}, Adds(by)
  PROVE  HistoryInv'
<1> DEFINE n == Len(versions)
           new == [by |-> by, parent |-> n, fence |-> checkout.fence]
<1>1. /\ versions \in Seq(VersionRow) /\ n \in Nat /\ n >= 1 /\ checkout.fence \in Nat
      /\ \A i \in 1 .. n : versions[i].fence \in Nat
  <2>1. versions \in Seq(VersionRow) /\ checkout.fence \in 0 .. MaxFence
    BY Zenon DEF BaseInv, TypeBase
  <2>2. \A i \in 1 .. n : versions[i] \in VersionRow
    BY <2>1
  <2> QED BY <2>1, <2>2, CanonicalAssumption DEF HistoryInv, VersionRow
<1>2. new \in VersionRow /\ new.parent = n /\ new.fence = checkout.fence
  BY Zenon, <1>1 DEF VersionRow, BaseInv, TypeBase
<1> HIDE DEF new
<1>3. versions' = Append(versions, new) /\ checkout' = checkout
  BY Zenon DEF Adds, new
<1>4. /\ Len(versions') = n + 1 /\ versions'[n + 1] = new
      /\ \A i \in 1 .. n : versions'[i] = versions[i]
  BY <1>1, <1>2, <1>3
<1> HIDE DEF n
<1>5. \A i \in 2 .. n + 1 : i \in 2 .. n \/ i = n + 1
  BY <1>1
<1>6. \A i \in 2 .. n : i \in 1 .. n /\ i - 1 \in 1 .. n
  BY <1>1
<1>7. \A i \in 2 .. n : versions'[i].parent = i - 1 /\ versions'[i].fence >= versions'[i - 1].fence
  BY Zenon, <1>4, <1>6 DEF HistoryInv, n
<1>8. n + 1 \in 2 .. n + 1 => /\ versions'[n + 1].parent = (n + 1) - 1
                              /\ versions'[n + 1].fence >= versions'[(n + 1) - 1].fence
  <2>1. (n + 1) - 1 = n /\ n \in 1 .. n
    BY <1>1
  <2>2. versions'[n] = versions[n] /\ versions[n].fence <= checkout.fence
    BY Zenon, <1>4, <2>1 DEF HistoryInv, n
  <2> QED BY SMTT(20), <1>1, <1>2, <1>4, <2>1, <2>2
<1>9. \A i \in 1 .. n + 1 : versions'[i].fence <= checkout'.fence
  <2>1. \A i \in 1 .. n : versions'[i].fence <= checkout.fence
    BY Zenon, <1>4 DEF HistoryInv, n
  <2>2. \A i \in 1 .. n + 1 : i \in 1 .. n \/ i = n + 1
    BY <1>1
  <2> QED BY SMTT(20), <1>1, <1>2, <1>3, <1>4, <2>1, <2>2
<1>10. n + 1 >= 1 /\ versions'[1].by = Editor
  <2>1. 1 \in 1 .. n
    BY <1>1
  <2> QED BY SMTT(20), <1>1, <1>4, <2>1 DEF HistoryInv
<1> QED BY ZenonT(30), <1>4, <1>5, <1>7, <1>8, <1>9, <1>10 DEF HistoryInv

\* What a step does to the versions: nothing, or a version is added by the editor or a completed job.
LEMMA VersionSteps ==
  ASSUME BaseInv, Next
  PROVE  \/ UNCHANGED versions /\ (checkout' = checkout \/ checkout'.fence >= checkout.fence)
         \/ Adds(Editor) /\ UNCHANGED <<job, exchange, records, request>>
         \/ \E w \in Workers : CompleteGraph(w) /\ Adds(worker[w].job) /\ Succeeds(w)
<1>1. CASE EditorSaves
  BY Zenon, <1>1 DEF EditorSaves, Publishable, HoldsCheckout, Published, Adds, Latest, tenancy
<1>2. CASE AcquireCheckout \/ CheckoutEnds
  <2>1. checkout \in [live: BOOLEAN, fence: 0 .. MaxFence] /\ versions' = versions
    BY Zenon, <1>2 DEF AcquireCheckout, CheckoutEnds, tables, BaseInv, TypeBase
  <2>2. checkout'.fence \in {checkout.fence, checkout.fence + 1}
    BY <1>2, <2>1 DEF AcquireCheckout, CheckoutEnds
  <2> QED BY <2>1, <2>2, CanonicalAssumption
<1>3. CASE TierFalls \/ ProjectDeleted
  BY Zenon, <1>3 DEF TierFalls, ProjectDeleted, tables
<1>4. CASE SubmissionStep
  BY Zenon, <1>4 DEF SubmissionStep, SubmitChecks, SubmitInserts, tables
<1>5. CASE LeaseStep
  BY Zenon, <1>5, LeaseBase DEF LeaseStep, tenancy
<1>6. ASSUME NEW w \in Workers, ExchangeStep(w)
      PROVE  UNCHANGED <<versions, checkout>>
  BY Zenon, <1>6, ExchangeBase DEF ExchangeStep, tenancy
<1>7. ASSUME NEW w \in Workers, CompletionStep(w)
      PROVE  \/ UNCHANGED <<versions, checkout>>
             \/ CompleteGraph(w) /\ Adds(worker[w].job) /\ Succeeds(w)
  <2>1. CASE CompleteSolve(w)
    BY Zenon, <2>1 DEF CompleteSolve, tenancy
  <2>2. CASE CompleteGraph(w)
    BY Zenon, <2>2 DEF CompleteGraph, Publishable, HoldsCheckout, Published, Latest, Adds, Succeeds, Holds, Current,
                tenancy
  <2> QED BY Zenon, <1>7, <2>1, <2>2 DEF CompletionStep
<1> QED BY ZenonT(30), <1>1, <1>2, <1>3, <1>4, <1>5, <1>6, <1>7, NextCases DEF EnvironmentStep

\* Every step keeps the history a chain.
LEMMA NextHistory ==
  ASSUME BaseInv, HistoryInv, Next
  PROVE  HistoryInv'
<1>1. CASE UNCHANGED versions /\ (checkout' = checkout \/ checkout'.fence >= checkout.fence)
  <2>1. checkout \in [live: BOOLEAN, fence: 0 .. MaxFence] /\ versions \in Seq(VersionRow)
    BY Zenon DEF BaseInv, TypeBase
  <2>2. checkout' \in [live: BOOLEAN, fence: 0 .. MaxFence]
    <3>1. BaseInv'
      BY Zenon, BaseStep
    <3> QED BY Zenon, <3>1 DEF BaseInv, TypeBase
  <2>3. \A i \in 1 .. Len(versions) : versions[i].fence \in 0 .. MaxFence
    <3>1. \A i \in 1 .. Len(versions) : versions[i] \in VersionRow
      BY <2>1
    <3> QED BY Zenon, <3>1 DEF VersionRow
  <2>4. \A i \in 1 .. Len(versions) : versions[i].fence <= checkout'.fence
    BY SMTT(20), <1>1, <2>1, <2>2, <2>3, CanonicalAssumption DEF HistoryInv
  <2> QED BY Zenon, <1>1, <2>4 DEF HistoryInv
<1>2. ASSUME NEW w \in Workers, CompleteGraph(w), Adds(worker[w].job) PROVE HistoryInv'
  <2>1. worker[w].job \in Jobs
    BY Zenon, <1>2, CompleteBase
  <2> QED BY Zenon, <1>2, <2>1, AddsHistory
<1> QED BY Zenon, <1>1, <1>2, AddsHistory, VersionSteps

\* The versions of a drawing are one chain: publish_version adds to the version that is the head under
\* the artifact's lock, for the holder of the checkout.
THEOREM HistoryLinear == Spec => []HistoryIsLinear
<1>1. Init => HistoryInv
  BY CanonicalAssumption DEF Init, HistoryInv
<1>2. BaseInv /\ HistoryInv /\ [Next]_vars => HistoryInv'
  <2>1. ASSUME HistoryInv, UNCHANGED vars PROVE HistoryInv'
    BY Zenon, <2>1 DEF vars, HistoryInv
  <2> QED BY Zenon, <2>1, NextHistory
<1>3. HistoryInv => HistoryIsLinear
  BY Zenon DEF HistoryInv, HistoryIsLinear
<1> QED BY <1>1, <1>2, <1>3, BaseInvariant, PTL DEF Spec

(***************************************************************************)
(* Outputs.                                                                *)
(***************************************************************************)

Publishing == {"edit", "commit", "sizing"}
Done(j) == job[j].status = "succeeded"

\* The version of each job that has succeeded, and the record, the exchange and the candidate of each.
OutputInv ==
  /\ \A i \in 1 .. Len(versions) : versions[i].by \in Jobs =>
       /\ Done(versions[i].by) /\ job[versions[i].by].kind \in Publishing
       /\ versions[i].parent = job[versions[i].by].parent
  /\ \A i, k \in 1 .. Len(versions) : versions[i].by \in Jobs /\ versions[i].by = versions[k].by => i = k
  /\ \A j \in Jobs :
       /\ Done(j) /\ job[j].kind \in Publishing => \E i \in 1 .. Len(versions) : versions[i].by = j
       /\ records[j] = IF Done(j) /\ job[j].kind = "solve" THEN 1 ELSE 0
       /\ job[j].kind = "sizing" => (Done(j) <=> exchange[j].state = "published")
       /\ Done(j) /\ job[j].kind = "proposal" => exchange[j].state = "completed"

\* A lease succeeds only as a proposal does, with its candidate frozen.
LEMMA LeaseOutcome ==
  ASSUME BaseInv, LeaseStep, NEW j \in Jobs, job'[j].status = "succeeded"
  PROVE  job[j].status = "succeeded" \/ (job[j].kind = "proposal" /\ exchange[j].state = "completed")
<1>0. job \in [Jobs -> JobRow]
  BY Zenon DEF BaseInv, TypeBase
<1>1. ASSUME NEW w \in Workers, NEW kind \in Kinds, Claim(w, kind) PROVE job[j].status = "succeeded"
  <2>1. Swept(kind) = [i \in Jobs |-> Swept(kind)[i]]
    BY Zenon DEF Swept
  <2>2. \/ job' = Swept(kind)
        \/ \E i \in Jobs : /\ job[i].attempt < MaxAttempts
                           /\ job' = [Swept(kind) EXCEPT ![i] = Claimed(w, job[i])]
    BY Zenon, <1>1 DEF Claim, Claimable
  <2>3. \/ job'[j] = Swept(kind)[j]
        \/ job'[j] = Claimed(w, job[j]) /\ job[j].attempt < MaxAttempts
    BY Zenon, <2>1, <2>2
  <2>4. job'[j] = Swept(kind)[j]
    BY Zenon, <1>0, <2>3, ClaimedStep
  <2> QED BY Zenon, <2>4, SweptRows
<1>2. ASSUME NEW k \in Jobs, LeaseLapses(k) PROVE job[j].status = "succeeded"
  BY Zenon, <1>0, <1>2 DEF LeaseLapses, JobRow
<1>3. ASSUME NEW w \in Workers, Fail(w) PROVE job[j].status = "succeeded"
  <2>1. worker[w].job \in Jobs
    BY Zenon, <1>3 DEF Fail, BaseInv, Shape
  <2>2. job' = job \/ \E status \in {"queued", "failed"} :
                        job' = [job EXCEPT ![worker[w].job] = Unleased(job[worker[w].job], status)]
    BY Zenon, <1>3 DEF Fail, Fails
  <2>3. \A status : Unleased(job[worker[w].job], status).status = status
    BY <1>0, <2>1 DEF Unleased, JobRow
  <2> QED BY Zenon, <1>0, <2>1, <2>2, <2>3
<1>4. ASSUME NEW w \in Workers, CompleteProposal(w), job[j].status # "succeeded"
      PROVE  job[j].kind = "proposal" /\ exchange[j].state = "completed"
  <2>1. worker[w].job \in Jobs
    BY Zenon, <1>4 DEF CompleteProposal, BaseInv, Shape
  <2>2. /\ job[worker[w].job].kind = "proposal"
        /\ job' = job \/ exchange[worker[w].job].state = "completed"
        /\ \A i \in Jobs : i # worker[w].job => job'[i] = job[i]
    BY Zenon, <1>0, <1>4, <2>1 DEF CompleteProposal
  <2> QED BY Zenon, <1>4, <2>2
<1> QED BY Zenon, <1>1, <1>2, <1>3, <1>4 DEF LeaseStep

\* A step that neither publishes nor records: rows are inserted, leased, ended and given back, and
\* exchanges move, and whatever succeeds is a proposal.
Quiet ==
  /\ UNCHANGED <<versions, records>>
  /\ \A j \in Jobs : \/ RowStep(j)
                     \/ /\ job[j].status = "absent" /\ job'[j].status = "queued"
                        /\ exchange[j].state = "none"
  /\ \A j \in Jobs : job'[j].status = "succeeded" =>
       job[j].status = "succeeded" \/ (job[j].kind = "proposal" /\ exchange[j].state = "completed")
  /\ \A j \in Jobs : /\ exchange'[j].state = "published" => exchange[j].state = "published"
                     /\ exchange[j].state \in Settled => exchange'[j].state = exchange[j].state

\* Steps that end no job with an output keep outputs and outcomes together.
LEMMA QuietOutputs ==
  ASSUME BaseInv, OutputInv, Quiet
  PROVE  OutputInv'
<1>1. \A j \in Jobs : \/ /\ job'[j].kind = job[j].kind /\ job'[j].parent = job[j].parent
                         /\ job[j].status = "succeeded" => job'[j].status = "succeeded"
                      \/ /\ job[j].status = "absent" /\ job'[j].status = "queued"
                         /\ exchange[j].state = "none"
  BY Zenon DEF Quiet, RowStep, Terminal
<1>2. \A i \in 1 .. Len(versions') : versions'[i].by \in Jobs =>
        /\ job'[versions'[i].by].status = "succeeded" /\ job'[versions'[i].by].kind \in Publishing
        /\ versions'[i].parent = job'[versions'[i].by].parent
  <2> SUFFICES ASSUME NEW i \in 1 .. Len(versions), versions[i].by \in Jobs
               PROVE  /\ job'[versions[i].by].status = "succeeded"
                      /\ job'[versions[i].by].kind \in Publishing
                      /\ versions[i].parent = job'[versions[i].by].parent
    BY Zenon DEF Quiet, Done
  <2>1. PICK j \in Jobs : j = versions[i].by
    BY Zenon
  <2>2. job[j].status = "succeeded" /\ job[j].kind \in Publishing /\ versions[i].parent = job[j].parent
    BY Zenon, <2>1 DEF OutputInv, Done
  <2> QED BY Zenon, <1>1, <2>1, <2>2
<1>3. \A i, k \in 1 .. Len(versions') :
        versions'[i].by \in Jobs /\ versions'[i].by = versions'[k].by => i = k
  BY Zenon DEF Quiet, OutputInv
<1>4. ASSUME NEW j \in Jobs
      PROVE  /\ Done(j)' /\ job'[j].kind \in Publishing => \E i \in 1 .. Len(versions') : versions'[i].by = j
             /\ records'[j] = IF Done(j)' /\ job'[j].kind = "solve" THEN 1 ELSE 0
             /\ job'[j].kind = "sizing" => (Done(j)' <=> exchange'[j].state = "published")
             /\ Done(j)' /\ job'[j].kind = "proposal" => exchange'[j].state = "completed"
  <2>1. CASE job[j].status = "succeeded"
    <3>1. job'[j].kind = job[j].kind /\ job'[j].status = "succeeded"
      BY ZenonT(30), <1>1, <2>1
    <3>2. /\ job[j].kind = "sizing" => exchange'[j].state = "published"
          /\ job[j].kind = "proposal" => exchange'[j].state = "completed"
      BY <2>1 DEF OutputInv, Done, Quiet, Settled
    <3>3. job[j].kind \in Publishing => \E i \in 1 .. Len(versions') : versions'[i].by = j
      BY Zenon, <2>1 DEF OutputInv, Done, Quiet
    <3>4. records'[j] = IF job[j].kind = "solve" THEN 1 ELSE 0
      BY Zenon, <2>1 DEF OutputInv, Done, Quiet
    <3> QED BY Zenon, <3>1, <3>2, <3>3, <3>4 DEF Done
  <2>2. CASE job[j].status # "succeeded" /\ job'[j].status = "succeeded"
    <3>1. job[j].kind = "proposal" /\ exchange[j].state = "completed" /\ job'[j].kind = "proposal"
      BY <1>1, <2>2 DEF Quiet
    <3>2. exchange'[j].state = "completed"
      BY Zenon, <3>1 DEF Quiet, Settled
    <3>3. records'[j] = 0
      BY Zenon, <2>2 DEF OutputInv, Done, Quiet
    <3> QED BY ZenonT(30), <2>2, <3>1, <3>2, <3>3 DEF Done, Publishing
  <2>3. CASE job[j].status # "succeeded" /\ job'[j].status # "succeeded"
    <3>1. records'[j] = 0
      BY Zenon, <2>3 DEF OutputInv, Done, Quiet
    <3>2. job'[j].kind = "sizing" => exchange'[j].state # "published"
      BY <1>1, <2>3 DEF OutputInv, Done, Quiet
    <3> QED BY Zenon, <2>3, <3>1, <3>2 DEF Done
  <2> QED BY Zenon, <2>1, <2>2, <2>3
<1> QED BY Zenon, <1>2, <1>3, <1>4 DEF OutputInv, Done

\* Every step but a completion and a save of the editor's is quiet.
LEMMA QuietSteps ==
  ASSUME BaseInv, Next, ~EditorSaves, \A w \in Workers : ~CompletionStep(w)
  PROVE  Quiet
<1>0. job \in [Jobs -> JobRow] /\ \A j \in Jobs : job[j].status = "absent" => exchange[j].state = "none"
  BY Zenon DEF BaseInv, TypeBase, Shape
<1>1. \A j \in Jobs : exchange[j].state \in Settled => exchange'[j].state = exchange[j].state
  BY Zenon, StateSteps DEF StateStep
<1>2. \A j \in Jobs : job[j].status # "absent" => RowStep(j)
  BY Zenon, RowSteps
<1>3. ASSUME UNCHANGED <<versions, records, job>>,
             \A j \in Jobs : exchange'[j].state = "published" => exchange[j].state = "published"
      PROVE  Quiet
  BY Zenon, <1>0, <1>1, <1>3 DEF Quiet, RowStep
<1>4. CASE EnvironmentStep
  <2>1. UNCHANGED <<versions, records, job, exchange>>
    BY Zenon, <1>4 DEF EnvironmentStep, AcquireCheckout, CheckoutEnds, TierFalls, ProjectDeleted, tables
  <2> QED BY Zenon, <1>3, <2>1
<1>5. CASE SubmissionStep
  <2>1. ASSUME NEW j \in Jobs, NEW kind \in Kinds, SubmitChecks(j, kind)
        PROVE  UNCHANGED <<versions, records, job, exchange>>
    BY Zenon, <2>1 DEF SubmitChecks, tables
  <2>2. CASE SubmitInserts
    <3>1. /\ request.job \in Jobs /\ job[request.job].status = "absent"
          /\ Inserted(request).status = "queued"
      BY Zenon, <2>2, InsertKeeps DEF SubmitInserts, BaseInv, Shape, TypeBase
    <3>2. /\ UNCHANGED <<versions, records, exchange>>
          /\ job' = job \/ job' = [job EXCEPT ![request.job] = Inserted(request)]
      BY Zenon, <2>2 DEF SubmitInserts
    <3>3. \A j \in Jobs : \/ job'[j] = job[j]
                          \/ job[j].status = "absent" /\ job'[j].status = "queued"
      BY Zenon, <1>0, <3>1, <3>2
    <3> QED BY SMTT(20), <1>0, <1>1, <3>2, <3>3 DEF Quiet, RowStep
  <2> QED BY Zenon, <1>3, <1>5, <2>1, <2>2 DEF SubmissionStep
<1>6. CASE LeaseStep
  <2>1. UNCHANGED <<versions, records, exchange>> /\ \A j \in Jobs : RowStep(j)
    BY Zenon, <1>6, LeaseBase DEF LeaseStep
  <2>2. \A j \in Jobs : job'[j].status = "succeeded" =>
          job[j].status = "succeeded" \/ (job[j].kind = "proposal" /\ exchange[j].state = "completed")
    BY Zenon, <1>6, LeaseOutcome
  <2> QED BY Zenon, <1>1, <2>1, <2>2 DEF Quiet
<1>7. ASSUME NEW w \in Workers, ExchangeStep(w) PROVE Quiet
  <2>1. UNCHANGED <<versions, records, job>> /\ Wrote(w)
    BY Zenon, <1>7, ExchangeBase, ExchangeWrites DEF ExchangeStep
  <2>2. \A j \in Jobs : exchange'[j].state = "published" => exchange[j].state = "published"
    BY Zenon, <2>1 DEF Wrote
  <2> QED BY Zenon, <1>3, <2>1, <2>2
<1> QED BY Zenon, <1>4, <1>5, <1>6, <1>7, NextCases

\* A completion writes its job's outcome and its output.
LEMMA SolveOutputs ==
  ASSUME BaseInv, OutputInv, NEW w \in Workers, CompleteSolve(w)
  PROVE  OutputInv'
<1>0. job \in [Jobs -> JobRow] /\ records \in [Jobs -> Nat]
  BY Zenon DEF BaseInv, TypeBase
<1>1. CASE UNCHANGED <<job, records>>
  <2>1. UNCHANGED <<job, records, versions, exchange>>
    BY Zenon, <1>1 DEF CompleteSolve
  <2> QED BY <2>1 DEF OutputInv, Done
<1>2. CASE ~UNCHANGED <<job, records>>
  <2>1. PICK k \in Jobs : k = worker[w].job
    BY Zenon DEF CompleteSolve, BaseInv, Shape
  <2>2. /\ job[k].status = "running" /\ job[k].kind = "solve"
        /\ job' = [job EXCEPT ![k] = Unleased(job[k], "succeeded")]
        /\ records' = [records EXCEPT ![k] = records[k] + 1]
        /\ UNCHANGED <<versions, exchange>>
    BY Zenon, <1>2, <2>1 DEF CompleteSolve, Holds, Current, Graph
  <2>3. /\ job'[k].status = "succeeded" /\ job'[k].kind = "solve"
        /\ \A j \in Jobs : j # k => job'[j] = job[j] /\ records'[j] = records[j]
    BY Zenon, <1>0, <2>2, UnleasedStep
  <2>4. records'[k] = 1
    <3>1. records[k] = 0
      BY Zenon, <2>2 DEF OutputInv, Done
    <3> QED BY <1>0, <2>2, <3>1
  <2>5. \A i \in 1 .. Len(versions) : versions[i].by # k
    BY SMTT(20), <2>2 DEF OutputInv, Done
  <2>6. \A i \in 1 .. Len(versions') : versions'[i].by \in Jobs =>
          /\ job'[versions'[i].by].status = "succeeded" /\ job'[versions'[i].by].kind \in Publishing
          /\ versions'[i].parent = job'[versions'[i].by].parent
    BY SMTT(20), <2>2, <2>3, <2>5 DEF OutputInv, Done
  <2>7. \A i, j \in 1 .. Len(versions') :
          versions'[i].by \in Jobs /\ versions'[i].by = versions'[j].by => i = j
    BY Zenon, <2>2 DEF OutputInv
  <2>8. ASSUME NEW j \in Jobs
        PROVE  /\ Done(j)' /\ job'[j].kind \in Publishing =>
                    \E i \in 1 .. Len(versions') : versions'[i].by = j
               /\ records'[j] = IF Done(j)' /\ job'[j].kind = "solve" THEN 1 ELSE 0
               /\ job'[j].kind = "sizing" => (Done(j)' <=> exchange'[j].state = "published")
               /\ Done(j)' /\ job'[j].kind = "proposal" => exchange'[j].state = "completed"
    <3>1. CASE j = k
      BY ZenonT(30), <2>3, <2>4, <3>1 DEF Publishing, Done
    <3>2. CASE j # k
      BY SMTT(20), <2>2, <2>3, <3>2 DEF OutputInv, Done
    <3> QED BY Zenon, <3>1, <3>2
  <2> QED BY Zenon, <2>6, <2>7, <2>8 DEF OutputInv, Done
<1> QED BY Zenon, <1>1, <1>2

\* What is in the history once a version is added.
LEMMA AddsFacts ==
  ASSUME BaseInv, NEW by \in Jobs \cup {Editor}, Adds(by)
  PROVE  /\ Len(versions) \in Nat /\ Len(versions') = Len(versions) + 1
         /\ versions'[Len(versions) + 1].by = by /\ versions'[Len(versions) + 1].parent = Len(versions)
         /\ \A i \in 1 .. Len(versions) : versions'[i] = versions[i]
         /\ \A i \in 1 .. Len(versions') : i \in 1 .. Len(versions) \/ i = Len(versions) + 1
<1> DEFINE n == Len(versions)
           new == [by |-> by, parent |-> n, fence |-> checkout.fence]
<1>1. versions \in Seq(VersionRow) /\ n \in Nat
  BY DEF BaseInv, TypeBase
<1>2. new \in VersionRow /\ new.parent = n /\ new.by = by
  BY Zenon, <1>1 DEF VersionRow, BaseInv, TypeBase
<1> HIDE DEF new
<1>3. versions' = Append(versions, new)
  BY Zenon DEF Adds, new
<1>4. /\ Len(versions') = n + 1 /\ versions'[n + 1] = new
      /\ \A i \in 1 .. n : versions'[i] = versions[i]
  BY SMTT(20), <1>1, <1>2, <1>3
<1> QED BY <1>1, <1>2, <1>4

\* The editor's version is no job's output.
LEMMA EditorOutputs ==
  ASSUME BaseInv, OutputInv, Adds(Editor), UNCHANGED <<job, exchange, records>>
  PROVE  OutputInv'
<1>1. Editor \notin Jobs
  BY Zenon, CanonicalAssumption
<1>2. /\ Len(versions') = Len(versions) + 1 /\ versions'[Len(versions) + 1].by = Editor
      /\ \A i \in 1 .. Len(versions) : versions'[i] = versions[i]
      /\ \A i \in 1 .. Len(versions') : i \in 1 .. Len(versions) \/ i = Len(versions) + 1
      /\ \A i \in 1 .. Len(versions) : i \in 1 .. Len(versions')
  BY AddsFacts
<1>3. \A i \in 1 .. Len(versions') : versions'[i].by \in Jobs =>
        i \in 1 .. Len(versions) /\ versions'[i] = versions[i]
  BY Zenon, <1>1, <1>2
<1>4. \A i \in 1 .. Len(versions') : versions'[i].by \in Jobs =>
        /\ job'[versions'[i].by].status = "succeeded" /\ job'[versions'[i].by].kind \in Publishing
        /\ versions'[i].parent = job'[versions'[i].by].parent
  BY SMTT(20), <1>3 DEF OutputInv, Done
<1>5. \A i, k \in 1 .. Len(versions') :
        versions'[i].by \in Jobs /\ versions'[i].by = versions'[k].by => i = k
  BY SMTT(20), <1>3 DEF OutputInv
<1>6. \A j \in Jobs : job[j].status = "succeeded" /\ job[j].kind \in Publishing =>
        \E i \in 1 .. Len(versions') : versions'[i].by = j
  BY <1>2 DEF OutputInv, Done
<1> QED BY <1>4, <1>5, <1>6 DEF OutputInv, Done

\* A graph job's version, its exchange and its outcome appear together.
LEMMA GraphOutputs ==
  ASSUME BaseInv, OutputInv, NEW w \in Workers, CompleteGraph(w), Adds(worker[w].job), Succeeds(w)
  PROVE  OutputInv'
<1>0. job \in [Jobs -> JobRow] /\ exchange \in [Jobs -> ExchangeRow] /\ records \in [Jobs -> Nat]
  BY Zenon DEF BaseInv, TypeBase
<1>1. PICK k \in Jobs : k = worker[w].job
  BY Zenon, CompleteBase
<1>2. /\ Len(versions') = Len(versions) + 1 /\ versions'[Len(versions) + 1].by = k
      /\ versions'[Len(versions) + 1].parent = Len(versions)
      /\ \A i \in 1 .. Len(versions) : versions'[i] = versions[i]
      /\ \A i \in 1 .. Len(versions') : i \in 1 .. Len(versions) \/ i = Len(versions) + 1
      /\ \A i \in 1 .. Len(versions) : i \in 1 .. Len(versions')
      /\ Len(versions) + 1 \in 1 .. Len(versions')
  BY <1>1, AddsFacts
<1>3. /\ job[k].status = "running" /\ job[k].kind \in Publishing
      /\ job' = [job EXCEPT ![k] = Unleased(job[k], "succeeded")]
      /\ UNCHANGED records
  BY Zenon, <1>1 DEF CompleteGraph, Succeeds, Publishing
<1>4. /\ job'[k].status = "succeeded" /\ job'[k].kind = job[k].kind /\ job'[k].parent = job[k].parent
      /\ \A j \in Jobs : j # k => job'[j] = job[j]
  BY Zenon, <1>0, <1>3, UnleasedStep
<1>5. job[k].parent = Len(versions)
  <2>1. versions' # versions
    BY SMTT(20), <1>2, AddsFacts
  <2> QED BY Zenon, <1>1, <2>1 DEF CompleteGraph, Publishable, Latest
<1>6. /\ job[k].kind = "sizing" => exchange'[k].state = "published"
      /\ \A j \in Jobs : j # k => exchange'[j] = exchange[j]
  <2>1. versions' # versions
    BY <1>2, AddsFacts
  <2>2. IF job[k].kind = "sizing" THEN Moves(w, "published") ELSE UNCHANGED exchange
    BY Zenon, <1>1, <2>1 DEF CompleteGraph
  <2>3. Moves(w, "published") => /\ exchange'[k].state = "published"
                                 /\ \A j \in Jobs : j # k => exchange'[j] = exchange[j]
    BY <1>0, <1>1 DEF Moves, Sets, Exchange, ExchangeRow
  <2> QED BY SMTT(20), <2>2, <2>3
<1>7. \A i \in 1 .. Len(versions) : versions[i].by # k
  <2>1. \A i \in 1 .. Len(versions) : versions[i].by \in Jobs => job[versions[i].by].status = "succeeded"
    BY ZenonT(30) DEF OutputInv, Done
  <2> QED BY Zenon, <1>3, <2>1
<1>8. \A i \in 1 .. Len(versions') : versions'[i].by \in Jobs =>
        /\ job'[versions'[i].by].status = "succeeded" /\ job'[versions'[i].by].kind \in Publishing
        /\ versions'[i].parent = job'[versions'[i].by].parent
  <2>1. \A i \in 1 .. Len(versions) : versions[i].by \in Jobs =>
          /\ job[versions[i].by].status = "succeeded" /\ job[versions[i].by].kind \in Publishing
          /\ versions[i].parent = job[versions[i].by].parent
    BY Zenon DEF OutputInv, Done
  <2>2. \A i \in 1 .. Len(versions) : versions[i].by \in Jobs =>
          job'[versions[i].by] = job[versions[i].by]
    BY Zenon, <1>4, <1>7
  <2> QED BY SMTT(20), <1>2, <1>3, <1>4, <1>5, <2>1, <2>2
<1>9. \A i, j \in 1 .. Len(versions') :
        versions'[i].by \in Jobs /\ versions'[i].by = versions'[j].by => i = j
  <2>1. \A i, j \in 1 .. Len(versions) :
          versions[i].by \in Jobs /\ versions[i].by = versions[j].by => i = j
    BY Zenon DEF OutputInv
  <2> QED BY Zenon, <1>2, <1>7, <2>1
<1>10. ASSUME NEW j \in Jobs
       PROVE  /\ Done(j)' /\ job'[j].kind \in Publishing =>
                   \E i \in 1 .. Len(versions') : versions'[i].by = j
              /\ records'[j] = IF Done(j)' /\ job'[j].kind = "solve" THEN 1 ELSE 0
              /\ job'[j].kind = "sizing" => (Done(j)' <=> exchange'[j].state = "published")
              /\ Done(j)' /\ job'[j].kind = "proposal" => exchange'[j].state = "completed"
  <2>1. CASE j = k
    <3>1. records'[k] = 0
      BY ZenonT(30), <1>3 DEF OutputInv, Done
    <3> QED BY SMTT(20), <1>2, <1>3, <1>4, <1>6, <2>1, <3>1 DEF Publishing, Done
  <2>2. CASE j # k
    <3>1. job'[j] = job[j] /\ exchange'[j] = exchange[j] /\ records' = records
      BY Zenon, <1>3, <1>4, <1>6, <2>2
    <3>2. job[j].status = "succeeded" /\ job[j].kind \in Publishing =>
            \E i \in 1 .. Len(versions') : versions'[i].by = j
      <4>1. job[j].status = "succeeded" /\ job[j].kind \in Publishing =>
              \E i \in 1 .. Len(versions) : versions[i].by = j
        BY Zenon DEF OutputInv, Done
      <4> QED BY Zenon, <1>2, <4>1
    <3> QED BY <3>1, <3>2 DEF OutputInv, Done
  <2> QED BY ZenonT(30), <2>1, <2>2
<1> QED BY Zenon, <1>8, <1>9, <1>10 DEF OutputInv, Done

\* Every step keeps it.
LEMMA NextOutputs ==
  ASSUME BaseInv, OutputInv, Next
  PROVE  OutputInv'
<1>1. ASSUME NEW w \in Workers, CompletionStep(w) PROVE OutputInv'
  <2>1. CASE CompleteGraph(w)
    <3>1. (Adds(worker[w].job) /\ Succeeds(w)) \/ UNCHANGED <<versions, job, exchange, records>>
      BY Zenon, <2>1 DEF CompleteGraph, Publishable, HoldsCheckout, Published, Latest, Adds, Succeeds, Holds, Current,
                  tenancy
    <3>2. UNCHANGED <<versions, job, exchange, records>> => OutputInv'
      <4>1. SUFFICES ASSUME versions' = versions, job' = job, exchange' = exchange, records' = records
                     PROVE  OutputInv'
        BY Zenon
      <4> QED BY <4>1, Zenon DEF OutputInv, Done
    <3> QED BY SMTT(20), <2>1, <3>1, <3>2, GraphOutputs
  <2> QED BY Zenon, <1>1, <2>1, SolveOutputs DEF CompletionStep
<1>2. CASE EditorSaves
  <2>1. Adds(Editor) /\ UNCHANGED <<job, exchange, records>>
    BY Zenon, <1>2 DEF EditorSaves, Publishable, Published, Adds, Latest, tenancy
  <2> QED BY Zenon, <2>1, EditorOutputs
<1> QED BY Zenon, <1>1, <1>2, QuietSteps, QuietOutputs

\* It says that a job has its output exactly when it has succeeded.
LEMMA OutputFollows ==
  ASSUME BaseInv, OutputInv
  PROVE  OutputIffSucceeded
<1> SUFFICES ASSUME NEW j \in Jobs
             PROVE  /\ Cardinality({i \in DOMAIN versions : versions[i].by = j}) =
                         (IF Done(j) /\ job[j].kind \in Publishing THEN 1 ELSE 0)
                    /\ records[j] = (IF Done(j) /\ job[j].kind = "solve" THEN 1 ELSE 0)
                    /\ job[j].kind = "sizing" => (Done(j) <=> exchange[j].state = "published")
                    /\ Done(j) /\ job[j].kind = "proposal" => exchange[j].state = "completed"
  BY Zenon DEF OutputIffSucceeded, Done, Publishing
<1>1. /\ records[j] = (IF Done(j) /\ job[j].kind = "solve" THEN 1 ELSE 0)
      /\ job[j].kind = "sizing" => (Done(j) <=> exchange[j].state = "published")
      /\ Done(j) /\ job[j].kind = "proposal" => exchange[j].state = "completed"
  BY Zenon DEF OutputInv
<1> DEFINE mine == {i \in DOMAIN versions : versions[i].by = j}
<1>2. DOMAIN versions = 1 .. Len(versions)
  BY DEF BaseInv, TypeBase
<1>3. CASE Done(j) /\ job[j].kind \in Publishing
  <2>1. PICK i \in 1 .. Len(versions) : versions[i].by = j
    BY Zenon, <1>3 DEF OutputInv
  <2>2. mine = {i}
    BY <1>2, <2>1 DEF OutputInv
  <2>3. Cardinality(mine) = 1
    BY Zenon, <2>2, FS_Singleton
  <2> QED BY Zenon, <1>1, <1>3, <2>3
<1>4. CASE ~(Done(j) /\ job[j].kind \in Publishing)
  <2>1. mine = {}
    BY <1>2, <1>4 DEF OutputInv
  <2>2. Cardinality(mine) = 0
    BY Zenon, <2>1, FS_EmptySet
  <2> QED BY Zenon, <1>1, <1>4, <2>2
<1> QED BY Zenon, <1>3, <1>4

\* The jobs' outputs, in every reachable state.
THEOREM OutputInvariant == Spec => []OutputInv
<1>1. Init => OutputInv
  <2> SUFFICES ASSUME Init PROVE OutputInv
    BY Zenon
  <2>1. Len(versions) = 1 /\ versions[1].by = Editor /\ Editor \notin Jobs
    BY Zenon, CanonicalAssumption DEF Init
  <2>2. \A i \in 1 .. Len(versions) : versions[i].by \notin Jobs
    BY SMTT(20), <2>1
  <2>3. \A j \in Jobs : job[j].status = "absent" /\ job[j].kind = None /\ records[j] = 0
                        /\ exchange[j].state = "none"
    BY SMTT(20) DEF Init, Absent, NoExchange
  <2> QED BY Zenon, <2>2, <2>3 DEF OutputInv, Done
<1>2. BaseInv /\ OutputInv /\ [Next]_vars => OutputInv'
  <2>1. ASSUME OutputInv, UNCHANGED vars PROVE OutputInv'
    BY <2>1 DEF vars, OutputInv, Done
  <2> QED BY Zenon, <2>1, NextOutputs
<1> QED BY <1>1, <1>2, BaseInvariant, PTL DEF Spec

\* A job has its output exactly when it has succeeded: complete_solve, complete_project_graph_job and
\* complete_exchange write both in one transaction, under the lease.
THEOREM OutputsExact == Spec => []OutputIffSucceeded
BY OutputInvariant, BaseInvariant, OutputFollows, PTL

\* Type correctness; a job inserts one solve record at most.
THEOREM TypeCorrect == Spec => []TypeOK
<1>1. BaseInv /\ OutputInv => TypeOK
  <2> SUFFICES ASSUME BaseInv, OutputInv PROVE TypeOK
    BY Zenon
  <2>1. \A j \in Jobs : records[j] \in 0 .. 1
    BY DEF OutputInv
  <2>2. records \in [Jobs -> 0 .. 1]
    BY Zenon, <2>1 DEF BaseInv, TypeBase
  <2> QED BY Zenon, <2>2 DEF BaseInv, TypeBase, TypeOK
<1> QED BY <1>1, OutputInvariant, BaseInvariant, PTL

(***************************************************************************)
(* Commits.                                                                *)
(***************************************************************************)

\* A commit, from its checks on, names a version that a succeeded proposal read.
CommitInv ==
  /\ request # NoRequest /\ request.kind = "commit" => Proposed(request.parent)
  /\ \A j \in Jobs : job[j].status # "absent" /\ job[j].kind = "commit" => Proposed(job[j].parent)

\* A proposal that succeeded on a version stays so.
LEMMA ProposedStays ==
  ASSUME BaseInv, Next, NEW parent, Proposed(parent)
  PROVE  \E p \in Jobs : job'[p].kind = "proposal" /\ job'[p].status = "succeeded" /\ job'[p].parent = parent
<1>1. PICK p \in Jobs : job[p].kind = "proposal" /\ job[p].status = "succeeded" /\ job[p].parent = parent
  BY Zenon DEF Proposed
<1>2. RowStep(p)
  BY Zenon, <1>1, RowSteps
<1> QED BY Zenon, <1>1, <1>2 DEF RowStep, Terminal

\* The rows that a step inserts come from the pending submission.
LEMMA Insertions ==
  ASSUME BaseInv, Next, NEW j \in Jobs, job'[j].status # "absent"
  PROVE  \/ job[j].status # "absent" /\ job'[j].kind = job[j].kind /\ job'[j].parent = job[j].parent
         \/ /\ request # NoRequest /\ entitled
            /\ job'[j].kind = request.kind /\ job'[j].parent = request.parent
<1>1. CASE job[j].status # "absent"
  BY Zenon, <1>1, RowSteps DEF RowStep
<1>2. CASE job[j].status = "absent"
  <2>0. job \in [Jobs -> JobRow]
    BY Zenon DEF BaseInv, TypeBase
  <2>1. CASE SubmitInserts
    <3>1. job' = job \/ (entitled /\ job' = [job EXCEPT ![request.job] = Inserted(request)])
      BY Zenon, <2>1 DEF SubmitInserts
    <3>2. job'[j] = Inserted(request) /\ entitled
      BY Zenon, <1>2, <2>0, <3>1
    <3> QED BY <2>1, <3>2 DEF SubmitInserts, Inserted
  <2>2. CASE ~SubmitInserts
    <3>1. CASE EnvironmentStep \/ SubmissionStep
      BY Zenon, <1>2, <2>2, <3>1 DEF EnvironmentStep, AcquireCheckout, CheckoutEnds, EditorSaves, TierFalls,
                              ProjectDeleted, SubmissionStep, SubmitChecks, tables
    <3>2. CASE LeaseStep
      BY Zenon, <1>2, <3>2, LeaseBase DEF LeaseStep, RowStep
    <3>3. ASSUME NEW w \in Workers, CompletionStep(w) PROVE FALSE
      BY Zenon, <1>2, <3>3, CompleteBase DEF CompletionStep, RowStep
    <3>4. ASSUME NEW w \in Workers, ExchangeStep(w) PROVE FALSE
      BY Zenon, <1>2, <3>4, ExchangeBase DEF ExchangeStep
    <3> QED BY ZenonT(30), <3>1, <3>2, <3>3, <3>4, NextCases
  <2> QED BY Zenon, <2>1, <2>2
<1> QED BY Zenon, <1>1, <1>2

\* No job is inserted for an organization whose stored tier no longer admits it (submit_solve_job's and
\* submit_project_graph_job's re-reading of the pinned tier inside the insert's transaction).
THEOREM InsertsEntitled == Spec => InsertedEntitled
<1>1. BaseInv /\ [Next]_vars =>
        [\A j \in Jobs : job[j].status = "absent" /\ job'[j].status = "queued" => entitled]_vars
  BY Zenon, Insertions
<1> QED BY <1>1, BaseInvariant, PTL DEF Spec, InsertedEntitled

\* The submission that is pending after a step was pending before it, or has just been checked.
LEMMA Requests ==
  ASSUME BaseInv, Next, request' # NoRequest
  PROVE  request' = request \/ (request'.kind = "commit" => Proposed(request'.parent))
<1>1. ASSUME NEW j \in Jobs, NEW kind \in Kinds, SubmitChecks(j, kind)
      PROVE  request'.kind = "commit" => Proposed(request'.parent)
  <2>1. request'.kind = kind /\ request'.parent = Latest /\ (kind = "commit" => Proposed(Latest))
    BY Zenon, <1>1 DEF SubmitChecks
  <2> QED BY Zenon, <2>1
<1>2. CASE EnvironmentStep
  BY Zenon, <1>2 DEF EnvironmentStep, AcquireCheckout, CheckoutEnds, EditorSaves, TierFalls, ProjectDeleted, tenancy
<1>3. CASE SubmissionStep
  BY Zenon, <1>1, <1>3 DEF SubmissionStep, SubmitInserts
<1>4. CASE LeaseStep
  BY Zenon, <1>4, LeaseBase DEF LeaseStep, tenancy
<1>5. ASSUME NEW w \in Workers, CompletionStep(w) PROVE request' = request
  BY Zenon, <1>5, CompleteBase DEF CompletionStep, tenancy
<1>6. ASSUME NEW w \in Workers, ExchangeStep(w) PROVE request' = request
  BY Zenon, <1>6, ExchangeBase DEF ExchangeStep, tenancy
<1> QED BY ZenonT(30), <1>2, <1>3, <1>4, <1>5, <1>6, NextCases

\* Every step keeps the commits on proposed versions.
LEMMA NextCommits ==
  ASSUME BaseInv, CommitInv, Next
  PROVE  CommitInv'
<1>1. \A parent : Proposed(parent) =>
        \E p \in Jobs : job'[p].kind = "proposal" /\ job'[p].status = "succeeded" /\ job'[p].parent = parent
  BY Zenon, ProposedStays
<1>2. \A j \in Jobs : job'[j].status # "absent" /\ job'[j].kind = "commit" => Proposed(job'[j].parent)
  BY Zenon, Insertions DEF CommitInv
<1>3. request' # NoRequest /\ request'.kind = "commit" => Proposed(request'.parent)
  BY Zenon, Requests DEF CommitInv
<1>4. \A j \in Jobs : job'[j].status # "absent" /\ job'[j].kind = "commit" =>
        \E p \in Jobs : /\ job'[p].kind = "proposal" /\ job'[p].status = "succeeded"
                        /\ job'[p].parent = job'[j].parent
  BY Zenon, <1>1, <1>2
<1>5. request' # NoRequest /\ request'.kind = "commit" =>
        \E p \in Jobs : /\ job'[p].kind = "proposal" /\ job'[p].status = "succeeded"
                        /\ job'[p].parent = request'.parent
  BY Zenon, <1>1, <1>3
<1> QED BY Zenon, <1>4, <1>5 DEF CommitInv, Proposed

\* A solve is committed onto the version it was computed from: freeze_proposal at submission,
\* publish_version's head check at the end.
THEOREM CommitsProposed == Spec => []CommitsItsProposal
<1>1. Init => CommitInv
  BY DEF Init, CommitInv, Absent
<1>2. BaseInv /\ CommitInv /\ [Next]_vars => CommitInv'
  <2>1. ASSUME CommitInv, UNCHANGED vars PROVE CommitInv'
    BY ZenonT(30), <2>1 DEF vars, CommitInv, Proposed
  <2> QED BY Zenon, <2>1, NextCommits
<1>3. Init => HistoryInv
  BY CanonicalAssumption DEF Init, HistoryInv
<1>4. BaseInv /\ HistoryInv /\ [Next]_vars => HistoryInv'
  <2>1. ASSUME HistoryInv, UNCHANGED vars PROVE HistoryInv'
    BY Zenon, <2>1 DEF vars, HistoryInv
  <2> QED BY Zenon, <2>1, NextHistory
<1>5. BaseInv /\ HistoryInv /\ OutputInv /\ CommitInv => CommitsItsProposal
  <2> SUFFICES ASSUME BaseInv, HistoryInv, OutputInv, CommitInv, NEW i \in DOMAIN versions,
                      versions[i].by # Editor, job[versions[i].by].kind = "commit"
               PROVE  \E p \in Jobs : /\ job[p].kind = "proposal" /\ job[p].status = "succeeded"
                                      /\ job[p].parent = i - 1
    BY Zenon DEF CommitsItsProposal
  <2>1. i \in 1 .. Len(versions) /\ versions[i] \in VersionRow
    BY DEF BaseInv, TypeBase
  <2>2. PICK j \in Jobs : j = versions[i].by
    BY Zenon, <2>1 DEF VersionRow
  <2>3. job[j].status = "succeeded" /\ versions[i].parent = job[j].parent /\ job[j].kind = "commit"
    BY Zenon, <2>1, <2>2 DEF OutputInv, Done
  <2>4. versions[i].parent = i - 1
    <3>1. i # 1
      BY Zenon DEF HistoryInv
    <3>2. i \in 2 .. Len(versions)
      BY <2>1, <3>1
    <3> QED BY Zenon, <3>2 DEF HistoryInv
  <2>5. Proposed(job[j].parent)
    BY Zenon, <2>3 DEF CommitInv
  <2> QED BY Zenon, <2>3, <2>4, <2>5 DEF Proposed
<1> QED BY <1>1, <1>2, <1>3, <1>4, <1>5, BaseInvariant, OutputInvariant, PTL DEF Spec
=============================================================================

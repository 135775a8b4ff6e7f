--------------------------- MODULE CanonicalJobs ---------------------------
(***************************************************************************)
(* The canonical jobs of a project (platform/canonical_jobs.py) and the    *)
(* workers that run them (server/canonical_worker.py,                      *)
(* server/solar_project_jobs.py, server/solar_project_solve.py): the local *)
(* solves; the graph jobs, which publish the drawing's next version under  *)
(* the submitter's checkout (platform/project_graph_store.py); and the     *)
(* jobs that ask a cloud service one question, whose custody is a durable  *)
(* exchange (platform/project_sizing_store.py, project_solve_store.py).    *)
(*                                                                         *)
(* Every database transaction is one action.  A worker holds between two   *)
(* of them only what it claimed, its guard's verdict on the lease and the  *)
(* grant it resolved.  The cloud services are external.                    *)
(***************************************************************************)
EXTENDS Integers, Sequences, FiniteSets

CONSTANTS
  Jobs,        \* one per idempotency key of the project
  KindsOf,     \* the kinds of job each key may be submitted as
  Workers,     \* canonical worker loops
  MaxAttempts, \* max_attempts
  MaxPolls,    \* SOLVE_POLL_BUDGET_SECONDS, in iterations of the polling loop
  MaxVersions, \* bound on the versions an editor saves
  MaxFence,    \* bound on the generations of the checkout
  Async,       \* SOLVE_ASYNC_PROTOCOL_ENABLED
  Faults,      \* subset of {"stall", "heartbeat", "crash", "database", "cloud", "grant", "age", "downgrade", "delete"}
  Editor,      \* stands for every publication that is not a job's
  None

Kinds == {"solve", "edit", "commit", "sizing", "proposal"}

ASSUME CanonicalAssumption ==
  /\ {None, Editor} \cap (Jobs \cup Workers) = {}
  /\ KindsOf \in [Jobs -> SUBSET Kinds]
  /\ MaxAttempts \in Nat \ {0} /\ MaxPolls \in Nat \ {0}
  /\ MaxVersions \in Nat /\ MaxFence \in Nat
  /\ Async \in BOOLEAN

VARIABLES
  job,      \* the jobs table
  exchange, \* project_sizing_exchanges and project_solve_exchanges
  records,  \* solve_records a job has inserted
  versions, \* drawing_versions, the sequence number of each its index
  checkout, \* project_drawing_checkouts
  project,  \* FALSE once the project is deleted
  entitled, \* the stored tier of the organization admits jobs
  request,  \* a submission between its checks and its insert
  worker,   \* the worker loops
  asked     \* history: what the cloud service was asked for each job

vars == <<job, exchange, records, versions, checkout, project, entitled, request, worker,
          asked>>
tables == <<job, exchange, records, versions>>
tenancy == <<checkout, project, entitled, request>>

\* Cloud principals, by what tells them apart: the one an exchange was sent as, or another.
Principals == {"asker", "other"}
Terminal == {"succeeded", "failed"}
Settled == {"published", "completed", "refused", "unknown"}
Absent == [kind |-> None, status |-> "absent", attempt |-> 0, owner |-> None, live |-> FALSE,
           parent |-> 0, fence |-> 0]
NoExchange == [state |-> "none", sender |-> None, attempt |-> 0, async |-> FALSE,
               grid |-> FALSE]
NoRequest == [job |-> None, kind |-> None, parent |-> 0, fence |-> 0]
Idle == [pc |-> "idle", job |-> None, attempt |-> 0, principal |-> None, polls |-> 0]

\* While its guard's thread renews the lease of the job; completing and failing come after close().
Guarded == {"solve", "reserve", "resume", "send", "post", "await", "poll", "submit", "get", "answer",
            "grid", "capture", "refuse", "unknown", "evidence", "prepare"}

JobRow == [kind: Kinds \cup {None}, status: {"absent", "queued", "running"} \cup Terminal,
           attempt: 0 .. MaxAttempts, owner: Workers \cup {None}, live: BOOLEAN,
           parent: Nat, fence: 0 .. MaxFence]
ExchangeRow == [state: {"none", "prepared", "sending", "responded", "evident"} \cup Settled,
                sender: Workers \cup {None}, attempt: 0 .. MaxAttempts, async: BOOLEAN, grid: BOOLEAN]
VersionRow == [by: Jobs \cup {Editor}, parent: Nat, fence: 0 .. MaxFence]
RequestRow == [job: Jobs \cup {None}, kind: Kinds \cup {None}, parent: Nat, fence: 0 .. MaxFence]
WorkerRow == [pc: Guarded \cup {"idle", "complete", "retry", "fail"}, job: Jobs \cup {None},
              attempt: 0 .. MaxAttempts, principal: Principals \cup {None}, polls: 0 .. MaxPolls]

\* Type correctness.
TypeOK ==
  /\ job \in [Jobs -> JobRow]
  /\ exchange \in [Jobs -> ExchangeRow]
  /\ records \in [Jobs -> 0 .. 1]
  /\ versions \in Seq(VersionRow)
  /\ checkout \in [live: BOOLEAN, fence: 0 .. MaxFence]
  /\ project \in BOOLEAN /\ entitled \in BOOLEAN
  /\ request \in RequestRow
  /\ worker \in [Workers -> WorkerRow]
  /\ asked \in [Jobs -> [posts: Nat, keys: SUBSET Principals]]

Init ==
  /\ job = [j \in Jobs |-> Absent]
  /\ exchange = [j \in Jobs |-> NoExchange]
  /\ records = [j \in Jobs |-> 0]
  /\ versions = <<[by |-> Editor, parent |-> 0, fence |-> 0]>>
  /\ checkout = [live |-> FALSE, fence |-> 0]
  /\ project = TRUE /\ entitled = TRUE
  /\ request = NoRequest
  /\ worker = [w \in Workers |-> Idle]
  /\ asked = [j \in Jobs |-> [posts |-> 0, keys |-> {}]]

Latest == Len(versions)
Graph(j) == job[j].kind # "solve"

(***************************************************************************)
(* The drawing: its checkout, and the versions saved from the editor.      *)
(***************************************************************************)

\* acquire_checkout: a free or lapsed checkout, or the holder renewing theirs; a new fence each time.
AcquireCheckout ==
  /\ project
  /\ checkout.fence < MaxFence
  /\ checkout' = [live |-> TRUE, fence |-> checkout.fence + 1]
  /\ UNCHANGED <<tables, project, entitled, request, worker, asked>>

\* release_checkout, or the lease runs out.
CheckoutEnds ==
  /\ checkout.live
  /\ checkout' = [checkout EXCEPT !.live = FALSE]
  /\ UNCHANGED <<tables, project, entitled, request, worker, asked>>

\* verify_checkout.  A fence is issued once, so equal fences have the same holder.
HoldsCheckout(fence) == checkout.live /\ checkout.fence = fence

\* Faulty: publishes on the version the job read, current or not.
PublishableOnAnyParent(parent, fence) == project /\ HoldsCheckout(fence)

\* publish_version: the scope, the checkout and the expected parent, under the artifact's row lock.
Publishable(parent, fence) == project /\ HoldsCheckout(fence) /\ parent = Latest

Published(by, parent, fence) == Append(versions, [by |-> by, parent |-> parent, fence |-> fence])

EditorSaves ==
  /\ Latest < MaxVersions
  /\ Publishable(Latest, checkout.fence)
  /\ versions' = Published(Editor, Latest, checkout.fence)
  /\ UNCHANGED <<job, exchange, records, tenancy, worker, asked>>

(***************************************************************************)
(* Submission: the checks, and the insert in a transaction of its own.     *)
(***************************************************************************)

\* Faulty: accepts a proposal for an earlier version.
ProposedOnce(parent) == \E p \in Jobs : job[p].kind = "proposal" /\ job[p].status = "succeeded"

\* freeze_proposal: a commit names a proposal that succeeded on the very version it commits to.
Proposed(parent) ==
  \E p \in Jobs : job[p].kind = "proposal" /\ job[p].status = "succeeded" /\ job[p].parent = parent

\* A known key is answered with its job and changes nothing.  The verdict on the stored tier is pinned.
SubmitChecks(j, kind) ==
  /\ request = NoRequest
  /\ job[j].status = "absent" /\ kind \in KindsOf[j]
  /\ entitled
  /\ kind # "solve" => Publishable(Latest, checkout.fence)
  /\ kind = "commit" => Proposed(Latest)
  /\ request' = [job |-> j, kind |-> kind, parent |-> Latest, fence |-> checkout.fence]
  /\ UNCHANGED <<tables, checkout, project, entitled, worker, asked>>

Inserted(r) == [kind |-> r.kind, status |-> "queued", attempt |-> 0, owner |-> None, live |-> FALSE,
                parent |-> r.parent, fence |-> r.fence]

\* The insert re-reads the project and the pinned tier; a graph job also the head and the checkout.
SubmitInserts ==
  /\ request # NoRequest
  /\ LET r == request
         admitted == /\ project /\ entitled
                     /\ r.kind # "solve" => Publishable(r.parent, r.fence)
     IN job' = IF admitted
               THEN [job EXCEPT ![r.job] = Inserted(r)]
               ELSE job
  /\ request' = NoRequest
  /\ UNCHANGED <<exchange, records, versions, checkout, project, entitled, worker, asked>>

(***************************************************************************)
(* Leases.                                                                 *)
(***************************************************************************)

\* project stands for every predicate of the claim on the project's side: it is live, its
\* organisation active and its authority mode postgres_canonical.
Claimable(j) ==
  /\ job[j].status = "queued" \/ (job[j].status = "running" /\ ~job[j].live)
  /\ job[j].attempt < MaxAttempts
  /\ project

\* Faulty: leaves an exhausted job to the next claim.
ExhaustedNever(j) == FALSE

\* A local solve is failed even in a deleted project; the graph lane only looks at live projects.
Exhausted(j) ==
  /\ job[j].status = "running" /\ ~job[j].live /\ job[j].attempt >= MaxAttempts
  /\ Graph(j) => project

Unleased(row, status) == [row EXCEPT !.status = status, !.owner = None, !.live = FALSE]

Swept(kind) == [j \in Jobs |-> IF job[j].kind = kind /\ Exhausted(j)
                               THEN Unleased(job[j], "failed") ELSE job[j]]
Claimed(w, row) == [row EXCEPT !.status = "running", !.attempt = @ + 1, !.owner = w, !.live = TRUE]
Working(j, pc) == [pc |-> pc, job |-> j, attempt |-> job[j].attempt + 1, principal |-> None, polls |-> 0]

\* run_once of each worker.
FirstStep(kind) ==
  CASE kind = "solve" -> "solve"
    [] kind \in {"sizing", "proposal"} -> "reserve"
    [] kind \in {"edit", "commit"} -> "prepare"

\* claim_next and claim_project_graph_job: one tool's exhausted jobs are failed, then one job is taken.
\* SKIP LOCKED lets a worker pass over a row that another one is taking, so any may be the one.
Claim(w, kind) ==
  /\ worker[w].pc = "idle"
  /\ \/ \E j \in Jobs : /\ job[j].kind = kind /\ Claimable(j)
                        /\ job' = [Swept(kind) EXCEPT ![j] = Claimed(w, job[j])]
                        /\ worker' = [worker EXCEPT ![w] = Working(j, FirstStep(kind))]
     \/ /\ \A j \in Jobs : job[j].kind = kind => ~Claimable(j)
        /\ Swept(kind) # job
        /\ job' = Swept(kind)
        /\ UNCHANGED worker
  /\ UNCHANGED <<exchange, records, versions, tenancy, asked>>

\* The row names this worker and this attempt (ATTEMPT_SQL); with an unexpired lease (LIVE_SQL).
Current(w) ==
  LET r == job[worker[w].job]
  IN r.status = "running" /\ r.owner = w /\ r.attempt = worker[w].attempt

Holds(w) == Current(w) /\ job[worker[w].job].live

\* An exchange is written under the lease and within the graph scope (_lock).
Custody(w) == Holds(w) /\ project

\* A running guard renews in time, unless its process stalls.
LeaseLapses(j) ==
  /\ job[j].status = "running" /\ job[j].live
  /\ \/ "stall" \in Faults
     \/ \A w \in Workers : worker[w].job # j \/ worker[w].pc \notin Guarded
  /\ job' = [job EXCEPT ![j].live = FALSE]
  /\ UNCHANGED <<exchange, records, versions, tenancy, worker, asked>>

\* LeaseGuard.lost, GraphLeaseGuard.lost: a heartbeat has been refused, or has raised.  A lease once
\* lost is not regained, so what the thread may have noticed by now depends on the row alone.
MayBeLost(w) == worker[w].pc \in Guarded /\ (~Holds(w) \/ "heartbeat" \in Faults)

Returns(w) == worker' = [worker EXCEPT ![w] = Idle]
Goes(w, pc) == worker' = [worker EXCEPT ![w].pc = pc]

\* Where the code asks guard.lost first: a worker that lost its lease returns without a write.
GoesIfHeld(w, pc) == Goes(w, pc) \/ (MayBeLost(w) /\ Returns(w))

(***************************************************************************)
(* Failing an attempt, and the local solves.                               *)
(***************************************************************************)

Fails(w) ==
  IF worker[w].pc = "retry" /\ worker[w].attempt < MaxAttempts
  THEN "queued" ELSE "failed"

\* fail_or_retry, fail_project_graph_job.  On another attempt's row the first raises, and the process
\* is restarted; the second answers that the worker is not the owner.
Fail(w) ==
  LET j == worker[w].job IN
  /\ worker[w].pc \in {"retry", "fail"}
  /\ job' = IF Holds(w) THEN [job EXCEPT ![j] = Unleased(@, Fails(w))] ELSE job
  /\ Returns(w)
  /\ UNCHANGED <<exchange, records, versions, tenancy, asked>>

\* The solver returns, raises, or times out.
SolverEnds(w) ==
  /\ worker[w].pc = "solve"
  /\ \E pc \in {"complete", "retry", "fail"} : GoesIfHeld(w, pc)
  /\ UNCHANGED <<tables, tenancy, asked>>

\* complete_solve: the record, the history and the outcome in one transaction.  Whatever it raises or
\* refuses, the worker goes on and the lease runs out.
CompleteSolve(w) ==
  LET j == worker[w].job IN
  /\ worker[w].pc = "complete" /\ ~Graph(j)
  /\ IF Holds(w)
     THEN /\ records' = [records EXCEPT ![j] = @ + 1]
          /\ job' = [job EXCEPT ![j] = Unleased(@, "succeeded")]
     ELSE UNCHANGED <<records, job>>
  /\ Returns(w)
  /\ UNCHANGED <<exchange, versions, tenancy, asked>>

(***************************************************************************)
(* The cloud exchange, up to the send.                                     *)
(***************************************************************************)
Exchange(w) == exchange[worker[w].job]
Sets(w, e) == exchange' = [exchange EXCEPT ![worker[w].job] = e]
Moves(w, state) == Sets(w, [Exchange(w) EXCEPT !.state = state])

\* get_exchange, then prepare_exchange if there is none yet.  A store that cannot be reached
\* for the job's context fails the attempt as Prepare does, before anything is written.
Reserve(w) ==
  /\ worker[w].pc = "reserve"
  /\ \/ /\ Custody(w) /\ Exchange(w) = NoExchange
        /\ Moves(w, "prepared") /\ Goes(w, "resume")
     \/ /\ Current(w) /\ project /\ Exchange(w) # NoExchange
        /\ UNCHANGED exchange /\ Goes(w, "resume")
     \/ /\ IF Exchange(w) = NoExchange THEN ~Custody(w) ELSE ~(Current(w) /\ project)
        /\ UNCHANGED exchange /\ GoesIfHeld(w, "fail")
  /\ UNCHANGED <<job, records, versions, tenancy, asked>>

\* Three hours have passed since the request was sent.  Whoever finds so settles the exchange, so
\* the passing of that moment needs no memory.
MayHaveAged == "age" \in Faults

\* An unanswered request of an earlier attempt.  A synchronous one can never be told from a lost one;
\* an asynchronous one is followed by its grid, or asked again under its key and principal for three
\* hours.
Unanswerable(w) == ~Exchange(w).async \/ (MayHaveAged /\ ~Exchange(w).grid)

\* Faulty: asks again as whoever the grant now names.
ResubmitsAnyone(principal) == TRUE

\* The key of an unanswered request belongs to the principal that sent it.
Resubmits(principal) == principal = "asker"

\* The grant resolves to the principal that asked, or has been reissued to another one.
ResumePolls(w) ==
  /\ worker[w].pc = "resume"
  /\ Custody(w) /\ Exchange(w).state = "sending" /\ Exchange(w).async
  /\ IF Exchange(w).grid THEN Goes(w, "poll")
     ELSE \E grant \in IF "grant" \in Faults THEN Principals ELSE {"asker"} :
            IF Resubmits(grant)
            THEN worker' = [worker EXCEPT ![w].pc = "poll", ![w].principal = grant]
            ELSE Goes(w, "refuse")
  /\ UNCHANGED exchange

\* resume_exchange.  An attempt resumes once, before it sends, so the sender is always another one.
Resume(w) ==
  LET e == Exchange(w) IN
  /\ worker[w].pc = "resume"
  /\ \/ /\ Current(w) /\ e.state \in {"refused", "unknown"}
        /\ UNCHANGED exchange /\ GoesIfHeld(w, "fail")
     \/ /\ Current(w) /\ e.state = "completed"
        /\ UNCHANGED exchange /\ Goes(w, "evidence")
     \/ /\ IF e.state \in Settled THEN ~Current(w) ELSE ~Custody(w)
        /\ UNCHANGED exchange /\ GoesIfHeld(w, "fail")
     \/ /\ Custody(w) /\ e.state = "prepared"
        /\ UNCHANGED exchange /\ Goes(w, "send")
     \/ /\ Custody(w) /\ e.state = "sending" /\ Unanswerable(w)
        /\ Moves(w, "unknown") /\ GoesIfHeld(w, "fail")
     \/ ResumePolls(w)
     \/ /\ Custody(w) /\ e.state \in {"responded", "evident"}
        /\ UNCHANGED exchange /\ Goes(w, "evidence")
  /\ UNCHANGED <<job, records, versions, tenancy, asked>>

\* resolve_grant, or reading its principal, fails: before the send the exchange is refused, while an
\* asynchronous request is out its custody is kept and the attempt fails.
GrantFails(w) ==
  /\ "grant" \in Faults
  /\ \/ worker[w].pc = "send" /\ Goes(w, "refuse")
     \/ /\ worker[w].pc = "resume" /\ Exchange(w).state = "sending" /\ Exchange(w).async
        /\ GoesIfHeld(w, "fail")
  /\ UNCHANGED <<tables, tenancy, asked>>

\* begin_send: the intent to send is committed before anything is sent, with the sender that only a
\* synchronous exchange ever asks for and the principal that only an asynchronous one does.
Send(w) ==
  LET async == Async /\ job[worker[w].job].kind = "proposal" IN
  /\ worker[w].pc = "send"
  /\ \/ /\ Custody(w) /\ Exchange(w).state = "prepared"
        /\ Sets(w, [Exchange(w) EXCEPT !.state = "sending", !.async = async,
                                       !.sender = IF async THEN None ELSE w,
                                       !.attempt = IF async THEN 0 ELSE worker[w].attempt])
        /\ worker' = [worker EXCEPT ![w].pc = IF async THEN "poll" ELSE "post",
                                    ![w].principal = IF async THEN "asker" ELSE None]
     \/ /\ MayBeLost(w) \/ ~Custody(w) \/ Exchange(w).state # "prepared"
        /\ UNCHANGED exchange /\ Returns(w)
  /\ UNCHANGED <<job, records, versions, tenancy, asked>>

(***************************************************************************)
(* The synchronous call: post_string_length, post_stringer.                *)
(***************************************************************************)
Post(w) ==
  /\ worker[w].pc = "post"
  /\ asked' = [asked EXCEPT ![worker[w].job].posts = @ + 1]
  /\ Goes(w, "await")
  /\ UNCHANGED <<tables, tenancy>>

\* An answer, a refusal, no knowing, or an exception that says nothing about the delivery.
PostEnds(w) ==
  /\ worker[w].pc = "await"
  /\ \/ GoesIfHeld(w, "capture")
     \/ /\ "cloud" \in Faults
        /\ \E pc \in {"refuse", "unknown"} : GoesIfHeld(w, pc)
     \/ "cloud" \in Faults /\ Returns(w)
  /\ UNCHANGED <<tables, tenancy, asked>>

(***************************************************************************)
(* The asynchronous protocol: _async_response, one key for the job's life. *)
(***************************************************************************)

\* One iteration: the budget, the custody and, without a grid, the right to ask again, which the
\* grant of this attempt has not lost since it resumed or sent.
Poll(w) ==
  LET e == Exchange(w) IN
  /\ worker[w].pc = "poll"
  /\ \/ /\ MayBeLost(w) \/ worker[w].polls = MaxPolls \/ ~Current(w)
        /\ UNCHANGED exchange /\ Returns(w)
     \/ /\ worker[w].polls < MaxPolls /\ Current(w) /\ e.grid
        /\ UNCHANGED exchange
        /\ worker' = [worker EXCEPT ![w].pc = "get", ![w].polls = @ + 1]
     \/ /\ worker[w].polls < MaxPolls /\ Current(w) /\ ~e.grid
        /\ \/ ~Custody(w) /\ UNCHANGED exchange /\ Returns(w)
           \/ /\ Custody(w) /\ MayHaveAged /\ e.state = "sending"
              /\ Moves(w, "unknown") /\ GoesIfHeld(w, "fail")
           \/ /\ Custody(w) /\ Resubmits(worker[w].principal)
              /\ UNCHANGED exchange
              /\ worker' = [worker EXCEPT ![w].pc = "submit", ![w].polls = @ + 1]
  /\ UNCHANGED <<job, records, versions, tenancy, asked>>

\* submit_stringer_async: the service knows a solve by its key and the principal that asked.
SubmitAsync(w) ==
  /\ worker[w].pc = "submit"
  /\ asked' = [asked EXCEPT ![worker[w].job].keys = @ \cup {worker[w].principal}]
  /\ Goes(w, "answer")
  /\ UNCHANGED <<tables, tenancy>>

\* Completed, accepted, not yet, a definite refusal, or one (401) that leaves the custody as it is.
AsyncAnswers(w) ==
  LET submitted == worker[w].pc = "answer" IN
  /\ worker[w].pc \in {"get", "answer"}
  /\ \/ \E pc \in {"capture", "poll"} : GoesIfHeld(w, pc)
     \/ submitted /\ GoesIfHeld(w, "grid")
     \/ "cloud" \in Faults /\ GoesIfHeld(w, "refuse")
     \/ "grant" \in Faults /\ GoesIfHeld(w, "fail")
  /\ UNCHANGED <<tables, tenancy, asked>>

\* record_grid.
RecordGrid(w) ==
  /\ worker[w].pc = "grid"
  /\ IF Custody(w) /\ Exchange(w).state = "sending" /\ Exchange(w).async
     THEN Sets(w, [Exchange(w) EXCEPT !.grid = TRUE]) /\ Goes(w, "poll")
     ELSE UNCHANGED exchange /\ Returns(w)
  /\ UNCHANGED <<job, records, versions, tenancy, asked>>

(***************************************************************************)
(* The exchange after the answer.                                          *)
(***************************************************************************)

\* _sender: the attempt that sent, or any attempt of an asynchronous exchange.
Sender(w) ==
  LET e == Exchange(w) IN e.async \/ (e.sender = w /\ e.attempt = worker[w].attempt)

\* capture_response.
Capture(w) ==
  /\ worker[w].pc = "capture"
  /\ IF Custody(w) /\ Sender(w) /\ Exchange(w).state = "sending"
     THEN Moves(w, "responded") /\ Goes(w, "evidence")
     ELSE UNCHANGED exchange /\ Returns(w)
  /\ UNCHANGED <<job, records, versions, tenancy, asked>>

\* refuse_exchange.  Refused or not, the attempt then fails for good.
Refuse(w) ==
  LET e == Exchange(w) IN
  /\ worker[w].pc = "refuse"
  /\ IF Custody(w) /\ (e.state \in {"prepared", "responded"} \/ (e.state = "sending" /\ Sender(w)))
     THEN Moves(w, "refused") ELSE UNCHANGED exchange
  /\ GoesIfHeld(w, "fail")
  /\ UNCHANGED <<job, records, versions, tenancy, asked>>

\* record_outcome_unknown.
RecordUnknown(w) ==
  /\ worker[w].pc = "unknown"
  /\ IF Custody(w) /\ Exchange(w).state = "sending" THEN Moves(w, "unknown") ELSE UNCHANGED exchange
  /\ GoesIfHeld(w, "fail")
  /\ UNCHANGED <<job, records, versions, tenancy, asked>>

\* The answer is checked and what follows from it stored: attach_evidence for a sizing, whose prepared
\* commit is then rebuilt from the store, complete_exchange for a proposal.
Evidence(w) ==
  LET e == Exchange(w)
      sizing == job[worker[w].job].kind = "sizing"
      next == IF sizing THEN "prepare" ELSE "complete"
  IN
  /\ worker[w].pc = "evidence"
  /\ \/ MayBeLost(w) /\ UNCHANGED exchange /\ Returns(w)
     \/ ~Current(w) /\ UNCHANGED exchange /\ Goes(w, "fail")
     \/ /\ Current(w) /\ e.state \in {"evident", "completed"}
        /\ UNCHANGED exchange /\ Goes(w, next)
     \/ /\ Current(w) /\ e.state = "responded"
        /\ \/ "cloud" \in Faults /\ UNCHANGED exchange /\ Goes(w, "refuse")
           \/ /\ Custody(w)
              /\ Moves(w, IF sizing THEN "evident" ELSE "completed") /\ Goes(w, next)
           \/ /\ ~Custody(w) /\ UNCHANGED exchange
              /\ IF sizing THEN Returns(w) ELSE Goes(w, "fail")
  /\ UNCHANGED <<job, records, versions, tenancy, asked>>

(***************************************************************************)
(* Preparing and completing a graph job.                                   *)
(***************************************************************************)

\* prepare_project_graph_job reads the scope and the parent; a database that times out is retried.
Prepare(w) ==
  /\ worker[w].pc = "prepare"
  /\ \/ project /\ GoesIfHeld(w, "complete")
     \/ ~project /\ GoesIfHeld(w, "fail")
     \/ "database" \in Faults /\ GoesIfHeld(w, "retry")
  /\ UNCHANGED <<tables, tenancy, asked>>

\* Faulty: publishes the version and then settles the job, if it still can.
CompleteGraphApart(w) ==
  LET j == worker[w].job
      sizing == job[j].kind = "sizing"
  IN
  /\ worker[w].pc = "complete" /\ job[j].kind \in {"edit", "commit", "sizing"}
  /\ IF /\ Publishable(job[j].parent, job[j].fence)
        /\ sizing => exchange[j].state = "evident"
     THEN /\ versions' = Published(j, job[j].parent, job[j].fence)
          /\ job' = IF Holds(w) THEN [job EXCEPT ![j] = Unleased(@, "succeeded")] ELSE job
          /\ IF sizing /\ Holds(w) THEN Moves(w, "published") ELSE UNCHANGED exchange
     ELSE UNCHANGED <<versions, job, exchange>>
  /\ Returns(w)
  /\ UNCHANGED <<records, tenancy, asked>>

\* complete_project_graph_job, for a sizing inside complete_exchange: the version, the history, the
\* exchange and the outcome in one transaction.  Whatever it raises, the lease runs out.
CompleteGraph(w) ==
  LET j == worker[w].job
      sizing == job[j].kind = "sizing"
  IN
  /\ worker[w].pc = "complete" /\ job[j].kind \in {"edit", "commit", "sizing"}
  /\ IF /\ Holds(w) /\ Publishable(job[j].parent, job[j].fence)
        /\ sizing => exchange[j].state = "evident"
     THEN /\ versions' = Published(j, job[j].parent, job[j].fence)
          /\ job' = [job EXCEPT ![j] = Unleased(@, "succeeded")]
          /\ IF sizing THEN Moves(w, "published") ELSE UNCHANGED exchange
     ELSE UNCHANGED <<versions, job, exchange>>
  /\ Returns(w)
  /\ UNCHANGED <<records, tenancy, asked>>

\* complete_project_solve_job: nothing is published, the frozen candidate is the result.
CompleteProposal(w) ==
  LET j == worker[w].job IN
  /\ worker[w].pc = "complete" /\ job[j].kind = "proposal"
  /\ job' = IF Custody(w) /\ exchange[j].state = "completed"
            THEN [job EXCEPT ![j] = Unleased(@, "succeeded")] ELSE job
  /\ Returns(w)
  /\ UNCHANGED <<exchange, records, versions, tenancy, asked>>

(***************************************************************************)
(* The environment.                                                        *)
(***************************************************************************)
\* The process dies and is restarted; or an outcome cannot be written, because the database is away or
\* the mutation fence is closed, and the worker goes on to its next poll.
WorkerDies(w) ==
  /\ "crash" \in Faults
  /\ worker[w].pc # "idle"
  /\ Returns(w)
  /\ UNCHANGED <<tables, tenancy, asked>>

\* Only a submission reads the tier: it falls between the checks and the insert.
TierFalls ==
  /\ "downgrade" \in Faults /\ entitled /\ request # NoRequest
  /\ entitled' = FALSE
  /\ UNCHANGED <<tables, checkout, project, request, worker, asked>>

ProjectDeleted ==
  /\ "delete" \in Faults /\ project
  /\ project' = FALSE
  /\ UNCHANGED <<tables, checkout, entitled, request, worker, asked>>

WorkerStep(w) ==
  \/ SolverEnds(w) \/ CompleteSolve(w) \/ Fail(w)
  \/ Reserve(w) \/ Resume(w) \/ Send(w) \/ Post(w) \/ PostEnds(w)
  \/ Poll(w) \/ SubmitAsync(w) \/ AsyncAnswers(w) \/ RecordGrid(w)
  \/ Capture(w) \/ Refuse(w) \/ RecordUnknown(w) \/ Evidence(w)
  \/ Prepare(w) \/ CompleteGraph(w) \/ CompleteProposal(w)

Next ==
  \/ AcquireCheckout \/ CheckoutEnds \/ EditorSaves
  \/ \E j \in Jobs, kind \in Kinds : SubmitChecks(j, kind)
  \/ SubmitInserts
  \/ \E j \in Jobs : LeaseLapses(j)
  \/ \E w \in Workers, kind \in Kinds : Claim(w, kind)
  \/ \E w \in Workers : \/ WorkerStep(w) \/ GrantFails(w) \/ WorkerDies(w)
  \/ TierFalls \/ ProjectDeleted

Spec == Init /\ [][Next]_vars

\* Workers poll for ever and are restarted when they die, and a lease nobody renews runs out.
FairSpec ==
  /\ Spec
  /\ \A w \in Workers : WF_vars(WorkerStep(w))
  /\ WF_vars(\E w \in Workers, kind \in Kinds : Claim(w, kind))
  /\ WF_vars(\E j \in Jobs : LeaseLapses(j))

(***************************************************************************)
(* Properties.                                                             *)
(***************************************************************************)

\* Whatever dies, stalls or is retried, the cloud service is asked once for a job: a synchronous
\* request is posted at most once, and an asynchronous one is only ever repeated under the job's key
\* by the principal that asked first, so that the service can tell the repeat
\* (project_sizing_store.begin_send and resume_exchange, project_solve_store.resume_exchange).
AskedOnce ==
  \A j \in Jobs : /\ asked[j].posts <= 1
                  /\ Cardinality(asked[j].keys) <= 1
                  /\ asked[j].posts = 0 \/ asked[j].keys = {}

\* A job has its output exactly when it has succeeded: one version for a graph job, with the exchange
\* it came from published, one solve record for a local solve, a frozen candidate for a proposal
\* (complete_solve, complete_project_graph_job, complete_exchange, complete_project_solve_job).
OutputIffSucceeded ==
  \A j \in Jobs :
    LET mine == {i \in DOMAIN versions : versions[i].by = j}
        done == job[j].status = "succeeded"
        kind == job[j].kind
    IN /\ Cardinality(mine) = (IF done /\ kind \in {"edit", "commit", "sizing"} THEN 1 ELSE 0)
       /\ records[j] = (IF done /\ kind = "solve" THEN 1 ELSE 0)
       /\ kind = "sizing" => (done <=> exchange[j].state = "published")
       /\ done /\ kind = "proposal" => exchange[j].state = "completed"

\* The versions of a drawing are one chain: each was made from the one before it, under a checkout
\* no older than that one's (publish_version's head and fence checks).
HistoryIsLinear ==
  \A i \in 2 .. Len(versions) : /\ versions[i].parent = i - 1
                                /\ versions[i].fence >= versions[i - 1].fence

\* A solve is committed onto the version it was computed from: just before the version that a commit
\* publishes is the one that a succeeded proposal read (freeze_proposal at submission, publish_version's
\* head check at the end, and whatever was saved in between).
CommitsItsProposal ==
  \A i \in DOMAIN versions :
    LET j == versions[i].by IN
    (IF j = Editor THEN FALSE ELSE job[j].kind = "commit") =>
      \E p \in Jobs : job[p].kind = "proposal" /\ job[p].status = "succeeded" /\ job[p].parent = i - 1

\* An exchange moves only in a step of the worker that holds the job's live lease, for the attempt
\* that worker claimed, in a live project: a stale attempt neither stores its answer nor refuses or
\* settles what its successor is using (_lock and LIVE_EXISTS_SQL on every write).
HolderMovesExchange ==
  [][\A j \in Jobs : exchange'[j].state # exchange[j].state =>
       /\ job[j].live /\ project
       /\ \E w \in Workers : /\ worker[w].job = j /\ Current(w)
                             /\ worker'[w] # worker[w]]_vars

\* A job or an exchange that is settled stays as it is.
SettledIsFinal ==
  [][\A j \in Jobs :
       /\ job[j].status \in Terminal => job'[j].status = job[j].status
       /\ exchange[j].state \in Settled => exchange'[j].state = exchange[j].state]_vars

\* No job is inserted for an organization whose stored tier no longer admits it, however the verdict
\* and the insert are interleaved with the downgrade (submit_solve_job's pinned tier).
InsertedEntitled ==
  [][\A j \in Jobs : job[j].status = "absent" /\ job'[j].status = "queued" => entitled]_vars

\* Every submitted job is settled in the end, unless its project is deleted.
JobsSettle ==
  \A j \in Jobs : job[j].status = "queued" ~> (job[j].status \in Terminal \/ ~project)

\* What solar_project_solve.py:220 says: a grant error leaves asynchronous custody to the next
\* attempt, so a job with attempts left is not failed while its request is out.
CustodyResumes ==
  [][\A j \in Jobs :
       /\ exchange[j].state = "sending" /\ exchange[j].async
       /\ job[j].status = "running" /\ job[j].attempt < MaxAttempts
       => job'[j].status # "failed"]_vars
=============================================================================

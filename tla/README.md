# TLA+ models of LEAF's shared, durable and concurrent parts

This directory models the parts of the repository in which several processes,
threads or machines share state and can fail independently. TLC checks the
models on small instances, and TLAPS checks proofs that hold for every value of
the constants.

## 1. The system and its parts

Eight parts are modelled, each in a module of its own.

| Part | Code | What is hard about it |
|---|---|---|
| Instant control plane | `executor/control_plane/{store,service,reaper}.py` | a request is several transactions and executor calls; two processes, a reaper and the hosts interleave |
| Instant accounting | `executor/control_plane/{accounting,store,reaper}.py` | records late, reordered, repeated or lost; two calls with one id |
| Warm executor | `executor/runtime/{supervisor,child,registration}.py` | threads, two locks, killed children, late answers in a pipe |
| Device bridge | `server/device_store.py`, `server/routers/device*.py`, `device-agent/leaf_agent/core.py` | an agent that crashes and whose requests or answers get lost; revocation at any moment |
| Broker admission | `server/broker.py`, `broker_pg_store.py`, `broker_admission_reconciler.py` | a paid, irreversible start; quotas and slots shared by threads; crash between submit and record |
| Job spine | `server/jobs.py`, `job_pg_store.py`, `server/da/aps_callback_adapter.py` | leases, retries, a reaper and a signed callback compete to end a job |
| Canonical jobs | `platform/canonical_jobs.py`, `server/canonical_worker.py`, `server/solar_project_*.py` | fenced attempts, one durable question to a cloud service, publication of drawing versions |
| Fair gate | `da/queue.py` | a lock, a semaphore and a ring shared with callers that take no lock |

How they meet:

```
 browser / API                                 customer's machine: device agent
      |                                              | polls, results (signed)
      v                                              v
 application (server/) ---- device bridge (PostgreSQL rows, relay tokens)
   |        |        \
   |        |         +--- canonical jobs (PostgreSQL) --- canonical workers --- cloud solver
   |        +--- job spine (async_jobs) --- executor threads, reaper
   |                      | run, reap                ^ signed callback
   |                      v                          |
   |              broker: admission, slots, ledger --+-- fair gate --- APS Design Automation
   | assign, rebind, renew, release, invalidate
   v
 instant control plane (PostgreSQL) <--- reaper
   | assign, release                  ^ register, readiness, heartbeat, accounting records
   v                                  |
 warm executor: registrar, supervisor threads, one child process per slot
```

The broker's run of a job is external in `JobSpine` and modelled by
`BrokerAdmission`. An executor is a set of bound assignments in
`InstantControlPlane`, and its inside is `InstantSupervisor`. `PROJECT.json`
lists every other part of the repository with its status and the reason.

## 2. Modules

| Module | Models |
|---|---|
| `InstantStore` | the rows of the instant control plane and the effect of each transaction of `PostgresStore` |
| `InstantControlPlane` | workers, reaper, registrars and executors around `InstantStore` |
| `InstantAccounting` | emission, delivery, ingestion and recovery of accounting records |
| `ChargeOnce` | abstract: what the ledger promises its readers |
| `InstantSupervisor` | threads, slots, locks and children of one executor |
| `DeviceBridge` | the device tables, the relay routes and the agent |
| `BrokerAdmission` | admissions, slots, ledger, correlations, run threads, reaping, reconciler |
| `JobSpine` | job rows, leases, executor threads, the reaper with its pending cancels, callbacks |
| `CanonicalJobs` | jobs, exchanges, solve records, drawing versions, checkout and workers |
| `FairGate` | `fair_admit` and `admit` on one semaphore |
| `MC*` | constants and symmetry sets for TLC |
| `*Proofs` | the lemmas and theorems about the module they are named after (section 4) |

Definitions marked *Faulty* are variants of the operator that follows them, with
a plausible mistake. No specification uses them. Each shows that a property can
fail: put in the place of the original, TLC finds the property violated.

### InstantStore and InstantControlPlane

A store method is one operator; where the method can raise, a second operator
ending in `OK` is the condition under which it commits. A request is a worker
with a program counter. It is cut exactly where the code leaves the process:
before a store transaction and before an executor call. So `_assign` is
`Lookup`, `ClaimSlot`, `Create`, `Load`, `ActivateSession`, with its failure
handler as `Fail` (then `FinishSession`, `Unload`, `Complete`) or `Abort`.

Abstractions:

- A claim identifier stands for the claim, the assignment id minted with it and
  the slot the session row names. `create_session` writes all three at once.
- `host.epoch` stands for `host_epoch` and for the `slot_epoch` of the host's
  slots. `register_host` is the only place where either is raised.
- Time is what the SQL compares: a claim or lease has expired or not, the last
  heartbeat is fresh or not, the session is idle or not. The first lease of a
  claim expires with the claim; a renewed one later.
- An executor is the set of assignments it has bound; it accepts an assignment
  while it has a free slot.
- What the environment may do is chosen by the constant `Faults`: leases expire,
  sessions become idle, calls fail or take effect late, workers crash, the reaper
  stops between two steps of a pass (`reaper_stop`, its process dies or the store
  is unavailable), lifecycle requests fail, executors restart, readiness reports
  arrive late, hosts drain, heartbeats lapse.
- An item of `reaper.todo` records in `retry` whether this pass fenced its session
  or found it in the outbox; no guard reads it.
- `SingleFlight` is what `server/instant_execution.py` does for one application
  process, with one idealisation: the application gives its lock back when its
  HTTP call times out (10 s), while the worker may still be serving; the model
  waits for the worker. `MCInstantControlPlane_cross_activation` shows what two
  overlapping requests can do. The lock of `service.py` is local to a worker
  process and a synchronous worker serves one request at a time, so it never
  blocks.
- A transaction commits or not and the caller knows which. Ambiguous commits are
  not modelled.

### InstantAccounting and ChargeOnce

A call emits `accepted`, `started` and one terminal record. `sent` keeps every
record, and any element may be ingested at any time before `Horizon`, any number
of times: that covers late, reordered, repeated and lost delivery. The lane that
carries the records is outside the repository. `validate_record` is reduced to its
delivery window: the bound against the future (five minutes past now) is about
clocks that disagree, and the model has one clock. The shape of a record is the
type `Record`. The identity columns of a record are fixed by its lease, and the
session row's digest (`code`) changes with a rebind. `recover_stale_invocations`
runs after `reconcile` in the same loop body; `stuck` says that `reconcile`
raises.

`ChargeOnce` says: an invocation is opened, closed at most once with one bill
that never changes, and announced once. The refinement maps `status` to the
class of the row state, `bill` to the accounting row and `notices` to the
number of outbox rows.

### InstantSupervisor

One thread serves one request. `_state_lock` is a variable only where a thread
waits while it holds it (`release`), and otherwise covers one step. `slot.lock`
is a variable. A command takes effect in the child when it is sent and its
answer is appended to the pipe; the parent takes the first answer of the pipe.
Closing a connection under another thread's read puts that thread in `broken`.
A child that dies may take an unread answer with it. `poll` and `recv` of an
answer are one step: only the thread with `slot.lock` reads the pipe.
`ReleaseWaits` says that the control plane releases an assignment after its
`assign` was answered. `runs`, `top` and `answer` are history variables.

### DeviceBridge

Every store operation is one transaction under the device's or the tenant's
lock, so it is one action. The agent is a sequential process with a program
counter; its seed (`key`), its configuration and its result table survive a
crash. A request or
its answer may be lost (`Loses`), and an upload whose sender has given up goes
on at the server row by row (`late`). A command's lease lapses and its time to
live passes as steps of the environment. A result is told apart by the try that
produced it and by its size: an upload with an oversize row, or with two large
ones, exceeds `MAX_BODY` and is refused as a whole with 413, before the server
looks at the signature (`Fits`, `UploadRefused`). The 400 for rows that are not of
the schema has no action of its own, because the agent builds its results to it.
`wipe_identity` unlinks the seed, then the configuration, and the results are
deleted after that (`SeesRevoked`, `WipeConfig`, `ClearResults`): the agent may die
between any two. Without a seed it cannot sign and stops (`NoKey`). `Uninstall`,
run by hand, is one step. A lease ends with its command's state (`LeaseEnds`, the
code sets `lease_until` to NULL).

### BrokerAdmission

A request is identified by its ledger event key and may be delivered any number of
times. A request thread is a program counter over the store methods it calls and
the correlation registry it keeps; the sidecar file survives a crash, memory does
not. APS is external: a WorkItem, once accepted, runs to its end whether or not
anyone polls it. Money is counted in units of `DEFAULT_EST_USD`: a run reserves
one unit, and costs nothing, that unit, or more (2 stands for any cost above the
reservation). A line of the sidecar may fail to be written, or be unreadable to
the replay (fault `unsaved`); `known` says for each WorkItem whether its id is
nowhere, in memory only, or saved. The compaction of the sidecar rewrites it from
memory and so can only restore lines; its 24 hour time to live is left out. Keys
belong to one job each. One broker process is modelled, as deployed. The replay
time to live, the day boundary of the daily limit and the fair gate (module
`FairGate`) are left out.

### JobSpine

The PostgreSQL mode with live reaping on, and polling as the completion mode. The
callback route is modelled as well, although `callback-primary` is refused at
start-up. Under the job's stable event key the broker starts a run at most once
and answers every later call with the same result. A call may come back empty at
any moment, also after its run has ended. The queue of pending cancels is bounded
and shared by all tenants, so that a cancel may find it full (`full`), and its file
may not be written (`unsaved`); a queued cancel that is already settled and comes
back with an old file is only tried again. A sweep retries every entry:
`PENDING_REAP_BATCH` is left out. The cap on jobs in flight is only a guard of
`Submit`. The SQLite mode, the platform mirrors and the lanes
that run no WorkItem (native preview, lab corpus, capability, completion) are
not modelled.

### CanonicalJobs

Jobs of five kinds: local solves, drawing edits, commits of a proposal, and the
two kinds that ask a cloud service (sizing and proposal), whose exchange row is
the custody of the question. One actor submits, so holding the checkout is
comparing its fence. Retention of the asynchronous solver's key is external.
The order by creation time, the `terminal_conflict` column, snapshot pins, the
outbox and the table of worker heartbeats are left out. The resume branches for
`awaiting_response` and `published` exchanges are unreachable from the other
code and so have no action. `project` stands for all that a claim asks of the
project: live, of an active organisation, in the `postgres_canonical` mode. A store
that cannot be reached for a job's context is a step of `Prepare`, not a second one
of `Reserve`. A downgrade (`TierFalls`) is bounded to a pending
request.

### FairGate

Each request is a thread. The tickets and the ring are only touched under
`_fair_lock`, so taking the lock and changing them is one step; the semaphore is
shared with `admit`, which takes no lock, so each step of the dispatcher's loop
is one of its own. The ceiling may change while the gate is idle. `FairQueue`,
the batch scheduler that only tests drive, is not modelled.

## 3. What TLC checks

| Run | Properties | Instance |
|---|---|---|
| `acct_ledger` | `ChargeIsProven` `ClosedUnlessStuck` `ImplementsChargeOnce` | 1 invocation id, 2 calls, a lease and its renewal for the same digest, lost hosts |
| `cp_capacity` | `SlotExclusive` `LiveSessionHoldsClaim` | 2 sessions, 2 workers, 1 slot, all host faults, no single flight |
| `cp_faults` | `ReadyIsUnclaimed` `OneActiveLease` `FirstReleaseSparesLive` | 1 session, 2 workers, 2 slots; crashes, failed calls, a reaper that stops half way; one registration |
| `cp_leases` | `LeaseNamesBinding` `ExpiredIsReclaimed` | 1 slot, all five routes with single flight; crashes, failed and late calls, a reaper that stops half way, expiry, fair |
| `sup_interleaving` | `OwnReply` `FreshChild` | 3 threads, 2 slots, 7 requests; refusals, unreachable accounting, expiring records |
| `sup_progress` | `RequestsEnd` | 3 threads, 1 slot, 4 requests; slow and dying children, fair |
| `device_bridge` | `RevokedIsQuiet` `OwnResults` `DeliveredIsNew` `PollsUnlessBlocked` `RevokedIsWiped` | 2 devices, 2 commands, 1 token, 1 crash, 1 loss, fair |
| `broker_admission` | `StartsOnce` `SlotsCountExecutions` `QuotasHold` `TerminalIsAccounted` `AnswersAreTrue` `RunningIsAddressable` | 2 paid runs of 2 jobs, 2 threads, 2 WorkItems; cap, limit and ceiling 1; overruns and every fault |
| `job_spine` | `EvidenceIsCurrent` `CancelRemembered` `CancelsOnlyClosed` `JobsEnd` | 1 job, 2 threads, 2 attempts, 2 crashes, a full or unsaved queue, fair |
| `canonical_jobs` | `AskedOnce` `OutputIffSucceeded` `HistoryIsLinear` `CommitsItsProposal` `JobsSettle` | 2 jobs, 2 workers, 2 attempts, every fault, fair |
| `fair_gate` | `PermitsBalance` `TicketsMatchWaiters` `NoIdlePermit` `TurnsRotate` `TicketsAnswered` | 3 fair callers of 3 tenants, 1 caller of `admit`, ceilings 1 and 2, fair |

Every run but `fair_gate` sets `CHECK_DEADLOCK FALSE`: those systems may stop,
either idle or at a bound. That nobody waits for ever is stated by the liveness
properties. `fair_gate` checks deadlock. The largest run has about 1.3 million
distinct states and no run takes more than about four minutes on two cores.

### Where the code and its documents differ

One listed run, `sup_double_run`, ends with a counterexample: two concurrent
calls with one invocation id both run user code (`RunsAtMostOnce`), against the
sentence of the contracts' README that `PROJECT.json` quotes.

Further configurations are kept for the same purpose, outside the list of runs.
Each checks one property and TLC finds it violated. SPEC is
`docs/instant-execution/CONTROL-PLANE-SPEC.md`, README is
`executor/control_plane/README.md`.

| Configuration | Property | Sentence | Shortest story |
|---|---|---|---|
| `MCInstantControlPlane_stranded` | `StrandedClaimReclaimed` | SPEC 301-302, "the reconciler scans PostgreSQL for ... active claims without active sessions" | A worker dies between claim and session row; nothing scans claims. |
| `MCInstantControlPlane_releasing` | `ReleasingEnds` | README 106-108, "then `complete_reclaim` makes it ready" | A reclaimed session is assigned to another slot before its completion; its first slot stays `RELEASING`. |
| `MCInstantControlPlane_early_ready` | `ReadyMeansReleased` | `store.py` 855, "only after executor release succeeds" | A completion for the earlier binding makes the slot of a fenced, still bound one `READY`. |
| `MCInstantControlPlane_reregister_leases` | `OneActiveLease` | SPEC 307-308, registration "invalidates old sessions and leases for that host" | Registration leaves lease rows `ACTIVE`. |
| `MCInstantControlPlane_reregister_epoch` | `StaleHostEpochRejected` | SPEC 393-394, a "stale host epoch" is rejected by the executor | Re-registration after a failed heartbeat keeps bindings of the older epoch. |
| `MCInstantControlPlane_cross_activation` | `LeaseNamesBinding` | SPEC 135-136, a lease is issued after the executor confirms the claim | Two processes serve one session without the application's single flight; activation writes the lease of one binding onto the other. |
| `MCInstantControlPlane_epoch_reset` | `BindingEpochGrows` | SPEC 252-255, a replacement only after "its epoch is increased" | `assign` after `rebind` and `release` goes back to epoch 1. |
| `MCInstantControlPlane_late_readiness` | `ReadyIsUnclaimed` | SPEC 381, "Require matching host and slot epoch" | A late readiness report makes a claimed slot `READY`. |
| `MCInstantSupervisor_unclean_child` | `FreshChild` | SPEC 361-362, "its process is cleared before reuse" | After a late restore the next assignment is loaded beside the old source. |
| `MCInstantSupervisor_early_release` | `ReadyConfirms` | SPEC 135-136 | A release overtakes a load; the loader confirms another assignment. |
| `MCInstantSupervisor_sequence` | `SequenceFence` | SPEC 177-180, "a lease sequence lower than the highest accepted sequence" is rejected | Compare and write of the lease sequence interleave. |
| `MCInstantAccounting_lost_host` | `AbandonedIsClosed` | README 82-84, "closed once as failed with zero usage" | A release to a vanished executor raises in every pass of the reaper before the accounting step. |
| `MCInstantControlPlane_stale_outbox` | `ReaperSparesLive` | `reaper.py` 4-6, an outbox record "before this worker asks an executor to release its assignment" | A release that failed, or that the reaper did not get to complete, is retried after the session was bound again, against the new binding. |
| `MCInstantSupervisor_crossed_reply` | `OwnReply` | `executor/contracts/README.md` 80, "Replaying the same id returns that result" | A late restore leaves its answer in the pipe, and an invocation is answered with another one's result. |
| `MCBrokerAdmission_ceiling` | `InFlightWithinCeiling` | `da/client.py` 616-619, "at most APS_MAX_CONCURRENCY WorkItems are in flight" | A run ends at the poll ceiling and its cancel fails: the slot is given back while the WorkItem runs on. |
| `MCDeviceBridge_stale_result` | `PollsContinue` | the agent's README, "Polls and heartbeats continue" | A command expires while its result is under way; the server refuses the row, and every cycle ends at the failed upload, before its poll. |
| `MCDeviceBridge_torn_wipe` | `RevokedIsForgotten` | the agent's README, "Revocation from any signed endpoint removes the seed and config" | The agent dies between the two files: every later start finds a configuration, has no seed to sign with, and never learns of the revocation again. |
| `MCJobSpine_live_attempt` | `ReaperSparesLive` | `server/jobs.py` 2266, "this routine does not terminate the row first" | The sweep lists a job whose lease lapsed; its last attempt is claimed, and the reaper fails the row as exhausted under the worker that now holds it. |
| `MCJobSpine_restart` | `RestartKeepsCancel` | `server/jobs.py` 2370-2374, "an app restart would otherwise lose the ONLY remaining signal" | The process dies between the row's failure and the queued cancel. |
| `MCCanonicalJobs_custody` | `CustodyResumes` | `solar_project_solve.py` 220, "the lease lapses and the next attempt resumes" | On the last attempt there is no next one, and the exchange stays in custody. |

Some passing runs state what holds beside these counterexamples:

- `cp_faults` has one registration per host (otherwise `OneActiveLease` and
  `ReadyIsUnclaimed` fail as above). `FirstReleaseSparesLive` is about the sessions
  a pass of the reaper fences itself. `ReaperSparesLive`, about retried outbox rows
  too, fails in this run as in `stale_outbox`: the outbox row of a call that failed
  or of a reaper that stopped is joined with the session's new binding.
- `cp_leases` has the single flight.
- `sup_interleaving` has no missed child deadline and no dying child: `FreshChild`
  needs both, `OwnReply` only the first (section 4).
- `job_spine` lists the four ways in which a cancel is lost, and shows that there is
  no fifth. The crash between the failed row and the queued cancel is one of them.
- `broker_admission` lets spend exceed the cap by what single runs cost beyond their
  reservation (`Overrun`), which no admission can foresee, and lets a restart forget
  a WorkItem whose line was not written (`broker.py`, "it only costs restart
  recovery"); nothing else may do either.
- `device_bridge` states that the agent polls again and again unless an upload is
  refused from some moment on (`Blocked`), and that a revoked agent loses its seed
  or its configuration, so that it can no longer sign.

With missed deadlines or dying children the supervisor can also bind one
assignment in two slots, or leave a restored binding that refuses every call as
loading: between the clearing and the restoring of a replaced slot
(`supervisor.py` 557-569) another thread may bind the slot, and `slot.loading`
survives the replacement. No document speaks of these two, so they have no
configuration of their own. `orphan_lease_records` of `server/jobs.py` (2725-2728)
offers the records of jobs that are merely stale for a cancel too, against
`CancelsOnlyClosed`, but nothing calls it.

### Bounds

- Control plane: 1 host, 1-2 slots, 1-2 sessions, 1-2 workers, 2-3 claims, binding
  epochs, lease sequences and registrations up to 2. Two slots let a session move;
  two claims let it come back; a third claim is needed for assign, rebind and
  assign. Two workers and the reaper are the three processes that can touch one
  session. Epochs and sequences are only compared, so one step beyond the first
  value shows each comparison.
- Accounting: every duration is one tick and actions stop at tick 2 (recovery goes
  on), so a lease can be valid, expired and replaced, and a record can be inside
  and outside its delivery window. The two leases are for one digest; a rebinding
  to another is covered by the proofs. One invocation id suffices because no
  operation relates two of them except the reaper's set, which the proofs cover
  for any set.
- Supervisor: two slots for a move, one slot where contention matters, three
  threads so that one can overtake two others, 4-7 requests.
- Device bridge: two devices, so that one machine can be revoked or uninstalled
  and enrolled again; two commands, so that a batch has a rest; one crash and one
  loss (`MaxCrashes`, `MaxLosses`), each at any step; three sizes, so that rows
  are refused alone or only together.
- Broker: two keys compete for a cap, a daily limit and a ceiling of one; two
  threads deliver either key twice; two WorkItems are what the blank-drawing
  producer submits.
- Job spine: two threads and two attempts, so that an old attempt can act beside a
  new one, and two deaths (`MaxCrashes`).
- Canonical jobs: two jobs, one of any kind and the commit of its proposal, two
  attempts, `MaxPolls`, `MaxVersions` and `MaxFence` as small as a second poll, a
  second saved version and a second holder allow.
- Fair gate: three tenants make a rotation visible; two ceilings let the gate be
  replaced. One caller of `admit`: it has no caller in production, and two of them
  could starve every ticket.

Symmetry is used in safety runs only, over sets whose members are interchanged
freely (workers, claims, slots of one host, sessions, calls, threads, WorkItems).
In `broker_admission` the two keys are exchanged together with their jobs.

### Fairness

- Control-plane workers (`Serve`), the reaper and the registrar are weakly fair:
  each is a loop without a blocking wait other than calls with timeouts. The
  choice between success and failure of a call is the environment's; a crash is
  always possible when in `Faults`. Requests never have to arrive.
- `Tick` and `Time` are weakly fair: time passes.
- Recovery of one invocation is strongly fair. `SKIP LOCKED` leaves a row out
  only while another transaction holds it, and no transaction does for ever.
- A supervisor thread is weakly fair in its next step (`Continue`): `poll` has a
  timeout and a freed lock goes to some waiter. In `sup_progress` requests are
  finitely many, so no waiter starves.
- The device agent is weakly fair: launchd and systemd restart it
  (`device-agent/leaf_agent/launchd.py` 18 and 48), and only finitely many of its
  requests are lost. Its answer that the device is revoked is strongly fair: the
  agent sends a signed heartbeat every 30 seconds, whatever becomes of its uploads,
  and the server refuses each of them once the device is revoked.
- Executor threads and the reaper of the job spine are weakly fair, and a lease
  no thread renews lapses.
- Canonical workers are weakly fair, a job that can be claimed is claimed, and a
  lapsing lease lapses.
- In the fair gate the steps that need the lock are strongly fair, all others
  weakly: a Python lock goes to some waiter, and callers are finitely many.

## 4. What is proved

Every safety property that a passing run checks is also a theorem, for every
value of the constants. TLAPS checks every step; nothing is assumed but the
named `ASSUME`s of the modules, which TLC evaluates on every run, and the
restrictions that a theorem states in its own hypothesis.

| Module | Theorems | Hypothesis |
|---|---|---|
| `InstantAccountingProofs` | `TypeCorrect` `LedgerConsistent` `ChargesProven` `ChargedOnce` `RowsOnlyAdvance` `Refinement` | none |
| `InstantControlPlaneProofs` | `TypeCorrect` `HoldsClaim` `Exclusive` `EndedStaysEnded` `FirstReleaseSpares` | none |
| | `ReadyUnclaimed` | `PromptReports` |
| | `LeaseUnique` | `RegistersOnce` |
| | `LeaseBound` | `SingleFlight` |
| | `ActiveBound` | `SingleFlight`, `ExecutorsStay` |
| `InstantSupervisorProofs` | `TypeCorrect` with the lock discipline | none |
| | `RepliesOwned` | `Prompt` |
| | `CalmInvariant` `ChildrenFresh` | `Calm` |
| `DeviceBridgeProofs` | `TypeCorrect` `RevocationQuiets` `ResultsOwned` `RecordedIsSaved` `DeliveredOnce` `ResultsFinal` | none |
| `BrokerAdmissionProofs` | `TypeCorrect` `StartedAtMostOnce` `SlotsCounted` `QuotasKept` `TerminalsAccounted` `AnswersTrue` `RunningAddressable` `TerminalRowsFinal` | none |
| `JobSpineProofs` | `TypeCorrect` `EvidenceCurrent` `CancelsClosed` `CancelsRemembered` `TerminalFinal` `ClosedFinal` | none |
| `CanonicalJobsProofs` | `TypeCorrect` `CloudAskedOnce` `HistoryLinear` `OutputsExact` `CommitsProposed` `InsertsEntitled` `HolderMoves` `SettledStaysSettled` | none |
| `FairGateProofs` | `TypeCorrect` `PermitsBalanced` `TicketsMatch` `NoLostWakeup` `RoundRobin` | none |

A restriction under "Hypothesis" excludes the faults for which section 3 shows a
counterexample:

- `PromptReports`: no readiness report arrives after the host's next registration.
- `RegistersOnce`: `PromptReports`, and a host registers once (no failed lifecycle
  request, no executor restart, no drain).
- `ExecutorsStay`: an executor answers every release call, a pass of the reaper
  runs to its end, and no executor restarts.
- `Prompt`: no child misses its deadline. Children may die, be replaced and
  restored.
- `Calm`: no child misses its deadline or dies, and a release waits for the answer
  of the assign it undoes.

### InstantAccountingProofs

The inductive invariant is `TypeOK`, `LedgerAgrees`, `ChargeIsProven`,
`ChargedAtMostOnce` and four auxiliary facts:

- `RowsNameLeases`: a row that exists names a lease, so the bill the reaper
  writes has one.
- `StartIsWitnessed`: an open row that has started has a started record in
  `sent` of the same lease. `ChargeIsProven` needs it when the terminal record
  arrives.
- `RecordsInPast`: no record is later than the clock, so a revocation stamped
  now cannot precede a bill already written.
- `TerminalsMeasured`: terminal records carry an outcome and a measured usage.

`RowsOnlyAdvance` and `Refinement` (the model implements `ChargeOnce`) are step
properties proved from it: each action either leaves the ledger alone, opens one
invocation or closes a set.

### InstantControlPlaneProofs

The invariant has a durable part, `StoreInv`, and a volatile one. `StoreInv`
says that claims that exist name a slot and that the row of every session that
exists names a claim of its own, which it holds while it is live. That no two
session rows name one claim is what makes `SlotExclusive` follow from
`LiveSessionHoldsClaim`: two live sessions on one slot would both be the slot's
current claim. The volatile part says that a worker past its claim names an
existing claim and, between claim and create (`PendingClaims`), one that no
session and no other worker names; this is what `create_session` needs to keep
claims apart. Each store transaction has a lemma saying that it keeps `StoreInv`
and, except for `CreateSession`, binds no session to a new claim; each action
cites the lemma of its transaction.

The theorems with a hypothesis add one inductive invariant each:

- `ReadinessInv`: no report is pending, and a slot whose readiness is still to be
  reported has no claim.
- `HostsOnce` and `LeasesLive`: a host that is still to register has no claim, any
  other stays active, and an active lease row is of a live session.
- `BindingInv`: requests of one session exclude each other, so the claim a worker
  loads, activates, renews or commits is the one its session row names.
- `FencedInv`: what a pass of the reaper has fenced itself is over.
- `SweepInv`: with releases that complete, what a sweep still has to release is
  over, and the outbox asks for no more than that.
- `LoadedInv`: a worker unloads only claims that are over, and activates one that
  its executor has confirmed. `ActiveBound` needs `BindingInv` and `SweepInv` too.

### InstantSupervisorProofs

`LockInv` holds under every fault: a thread holds `slot.lock` exactly between its
acquire and release (`SlotLocks`), `_state_lock` exactly while it releases, and
has what its place in the request needs (`Shapes`). Under `Calm`, `CalmInv` adds
that pipes hold the answer to the lock holder's command and nothing else
(`Pipes`), that one thread loads a slot and what it loads is what the slot is
bound to (`Owners`), and that a child holds no other source (`Sources`), from which
`FreshChild` follows; that no assignment is bound twice and none is left loading
without its loader are further conjuncts the induction needs. `OwnReply` needs only
`Prompt` and has an invariant of its own, `PromptInv`: an answer in a pipe is to the
command some thread waits for (`PipesOwned`), also when children are killed, die
with their answers or are replaced under a reader, because a replacement comes with
a new pipe.

### DeviceBridgeProofs

For any numbers of devices, commands, tokens, crashes and losses. The invariant
`BridgeInv` ties the server's rows to the agent's disk:

- `Issued`: a command has a device from its issue on. `CommandMove` says what a
  transaction may do to a command: nothing, issue it to an active device, expire
  it, or have its own active device lease or complete it. `RevokedIsQuiet` and
  `ResultIsFinal` follow from it.
- `AgentOK`, `RowsOK`, `OneEach`: a working agent signs as the identity that its
  result table belongs to, and the table has at most one row per command, each of
  that identity.
- `PostingOK`, `LateOK`, `DoneIsSaved`: an upload takes every pending row; a result
  still under way after its sender gave up is the one on disk; and a result the
  server has recorded is on disk with the same body. So no command whose result is
  on disk is delivered or run again (`DeliveredIsNew`).
- `Room`: what is pending or may become so fits into one upload. This needs to
  count: a poll hands out at most `Limit` commands, and the agent polls only when
  nothing is pending (`PollOK`).
- `Unstarted`: an identity that never started was handed no command.

### BrokerAdmissionProofs

For any numbers of keys, jobs, threads and WorkItems, any cap, daily limit and
ceiling, and every fault. `BrokerInv` has one clause per object:

- `RowOK`: in each state of an admission, what the ledger row, the slot and the
  number of starts are. `StartsOnce`, `SlotsCountExecutions` and
  `TerminalIsAccounted` are read off it.
- `ThreadOK`: a thread past the execution boundary is the one whose token the row
  keeps; of the key's WorkItems only its own can be running. This is what fences
  a redelivery, and makes the answers of `AnswersAreTrue` true.
- `ItemOK`: a WorkItem belongs to a key that took a slot and is not recorded as
  free of charge.
- `JobOK`, `ReapersOK`: the owner of a correlation is at work on the key of its
  WorkItem, and what the reap request and the reconciler read stays true until
  they use it. `RunningIsAddressable` needs both.
- `CountInv`: the sets that the cap, the limit and the ceiling count, as
  cardinalities; each transaction adds at most the key it admits, after its check.

Store transactions are grouped by what they do to a row (`Takes`, `Begins`,
`Stages`, `Ends`); each has one lemma, and each step of a thread, of the reaper
and of the reconciler cites it.

### JobSpineProofs

`SpineInv` has three parts. `BaseInv`: types, and that only terminal rows have an
author. `Closing`: what is queued, listed or being cancelled belongs to a job that
was closed. `Evidence`: a receipt is of an attempt already made, and of the bound
one while that attempt is current. Each action is shown to step every row as
`Stepped` allows, from which `TerminalIsFinal` and `ClosedStaysClosed` follow.

`CancelsRemembered` has an invariant of its own, `Remembering`. It extends
`CancelRemembered` to runs that were not asked for yet: a thread that claimed the
attempt before the tab was closed may call the broker after the reaper has sent
its cancel. Without that case the property is not inductive.

### CanonicalJobsProofs

`BaseInv` (types, and what a worker holds) serves all theorems. `HolderMoves` and
`SettledStaysSettled` say that an exchange is written only under its job's lease
and never after it is settled. On top: `AskInv` (the worker about to post is the
only one, on an exchange not posted yet) gives `AskedOnce`; `HistoryInv` (each
version has its predecessor as parent, under a fence that never falls) gives
`HistoryIsLinear`; `OutputInv` (one version, record or candidate for each job that
succeeded, by kind) gives `OutputIffSucceeded`; `CommitInv` (a commit names a
version that a succeeded proposal read) gives `CommitsItsProposal`.

### FairGateProofs

`GateInv`: the lock is held exactly from an enqueue or a release to the end of the
dispatcher (`Holder`); free permits and owners add up to the semaphore's size
(`Balance`); the size differs from the ceiling only while nobody owns a permit
(`Resized`); tickets, FIFOs and ring agree (`Placed`, `Tickets`, `RingMatches`);
and a tenant served since another's last turn stands behind it (`Turns`).
`NoIdlePermit` is inductive with these: whoever could leave a permit beside a
waiting ticket holds the lock and dispatches before giving it back.

### Only model-checked

Liveness under fairness is out of the prover's reach. `ClosedUnlessStuck`,
`ExpiredIsReclaimed`, `RequestsEnd`, `PollsUnlessBlocked`, `RevokedIsWiped`,
`JobsEnd`, `JobsSettle` and `TicketsAnswered` are checked by TLC on the instances
of section 3 only. The counterexamples of section 3 are TLC's as well.

## 5. Hazards

`PROJECT.json` lists what a test of this code would hardly reach, at its line,
with the properties that cover it.

## 6. Not modelled

- Signatures, TLS, request validation, Redis hints, logging: no durable state, or
  advisory only.
- `InMemoryStore`, `candidate`, `claim_slot` of the control plane; the SQLite mode
  of the job spine; `FairQueue`: used by hermetic tests, by development or not at
  all.
- `health`, source resolution and resource limits of the warm executor's child:
  they read state or compute data.
- Ambiguous commits and partial visibility within a transaction: PostgreSQL is
  taken as serialisable for these statements, which lock the rows they change.
- The browser application, the drawing and geometry code, the solvers, the
  authoring and build services, and the deployment: pure computation, user
  interface or state of a single owner. `PROJECT.json` gives the reason for each.

## 7. Running

```
tlc -config MCInstantControlPlane_faults.cfg MCInstantControlPlane
tlapm BrokerAdmissionProofs.tla
```

The larger proof modules (`BrokerAdmissionProofs`, `DeviceBridgeProofs`,
`InstantControlPlaneProofs`) take up to half an hour each from nothing on two
cores.

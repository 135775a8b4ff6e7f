------------------------ MODULE InstantControlPlane ------------------------
(***************************************************************************)
(* The instant-execution control plane: the request workers of             *)
(* control_plane/service.py, the scheduled reaper, and the executor hosts  *)
(* they drive, around the durable store of InstantStore.                   *)
(*                                                                         *)
(* A worker is one synchronous gunicorn process (two in the deployed       *)
(* image): it serves one request at a time, so the process-local           *)
(* assignment lock never makes it wait, and between two store transactions *)
(* or executor calls of its request every other process may run.  An       *)
(* executor is reduced to the set of assignments its supervisor has bound  *)
(* and its number of slots (InstantSupervisor models its inside).          *)
(***************************************************************************)
EXTENDS InstantStore

CONSTANTS
  Workers,        \* control-plane processes
  Requests,       \* routes the application uses
  Faults,         \* what the environment may do
  SingleFlight,   \* does the application serialise requests per session?
  MaxEpoch,       \* bound on binding epochs
  MaxSeq,         \* bound on lease sequences
  MaxHostEpoch    \* bound on registrations of a host

ASSUME ControlPlaneAssumption ==
  /\ Requests \subseteq {"assign", "rebind", "renew", "release", "invalidate"}
  /\ Faults \subseteq {"expire", "idle", "call_error", "call_late", "crash", "reregister",
                       "restart", "late_readiness", "drain", "lapse", "reaper_stop"}
  /\ SingleFlight \in BOOLEAN
  /\ MaxEpoch \in Nat /\ MaxSeq \in Nat /\ MaxHostEpoch \in Nat

VARIABLES
  worker,         \* the request each worker is serving and where it is in it
  reaper,         \* the reaper's sweep
  bound,          \* assignments bound at each executor
  late,           \* assign calls that timed out and may still take effect
  registrar,      \* each host's registration loop
  lateReady       \* readiness reports that timed out and may still be applied

vars == <<host, slot, claim, session, leases, outbox,
          worker, reaper, bound, late, registrar, lateReady>>

Idle == [pc |-> "idle", ses |-> None, claim |-> None, epoch |-> 0, seq |-> 0,
         hostEpoch |-> 0, expect |-> None, ret |-> "idle"]

Asleep == [pc |-> "idle", todo |-> {}, item |-> None]

HostOfClaim(c) == HostOf[SlotOf(c)]

Init ==
  /\ StoreInit
  /\ worker = [w \in Workers |-> Idle]
  /\ reaper = Asleep
  /\ bound = [h \in Hosts |-> {}]
  /\ late = {}
  /\ registrar = [h \in Hosts |-> [pc |-> "register", left |-> {}]]
  /\ lateReady = {}

executorVars == <<bound, late>>
registrarVars == <<registrar, lateReady>>

-----------------------------------------------------------------------------
(* Requests.  Step(w, pc) moves worker w on with its locals as they are.   *)

Step(w, pc) == worker' = [worker EXCEPT ![w].pc = pc]
Finish(w) == worker' = [worker EXCEPT ![w] = Idle]

\* Faulty: two requests of one session are let through.
MayStartConcurrently(w, s) == worker[w].pc = "idle"

\* The application's single-flight guard (control_plane/README.md).  The application
\* holds it until its HTTP call returns or times out; the model, until the worker is
\* done.  What overlapping requests do is explored with SingleFlight = FALSE.
MayStart(w, s) ==
  /\ worker[w].pc = "idle"
  /\ SingleFlight => \A v \in Workers : worker[v].ses # s

Start(w, s, pc, e, expect, ret) ==
  worker' = [worker EXCEPT ![w] = [Idle EXCEPT !.pc = pc, !.ses = s, !.epoch = e,
                                               !.expect = expect, !.ret = ret]]

StartAssign(w, s) ==
  /\ "assign" \in Requests /\ MayStart(w, s)
  /\ Start(w, s, "lookup", 1, None, "idle")
  /\ UNCHANGED <<storeVars, reaper, executorVars, registrarVars>>

\* rebind reads the old row, invalidates it under its epoch, then assigns
\* with the next epoch.
StartRebind(w, s) ==
  /\ "rebind" \in Requests /\ MayStart(w, s)
  /\ session[s].epoch < MaxEpoch
  /\ IF session[s].state = "NONE"
     THEN Start(w, s, "lookup", 1, None, "idle")
     ELSE Start(w, s, "finish", session[s].epoch + 1, session[s].epoch, "lookup")
  /\ UNCHANGED <<storeVars, reaper, executorVars, registrarVars>>

StartRelease(w, s) ==
  /\ "release" \in Requests /\ MayStart(w, s)
  /\ Start(w, s, "finish", 0, None, "idle")
  /\ UNCHANGED <<storeVars, reaper, executorVars, registrarVars>>

\* The caller names the epoch of the binding it means, or none.
StartInvalidate(w, s, e) ==
  /\ "invalidate" \in Requests /\ MayStart(w, s)
  /\ Start(w, s, "finish", 0, e, "idle")
  /\ UNCHANGED <<storeVars, reaper, executorVars, registrarVars>>

\* renew reads the session first and refuses an expired one.
StartRenew(w, s, e) ==
  /\ "renew" \in Requests /\ MayStart(w, s)
  /\ session[s].exp = "valid" /\ session[s].seq < MaxSeq
  /\ worker' = [worker EXCEPT ![w] = [Idle EXCEPT !.pc = "renew", !.ses = s, !.claim = session[s].claim,
                                       !.seq = session[s].seq + 1, !.epoch = session[s].epoch, !.expect = e]]
  /\ UNCHANGED <<storeVars, reaper, executorVars, registrarVars>>

-----------------------------------------------------------------------------
(* _assign. *)

\* A live row that has not expired is SESSION_ALREADY_BOUND; an expired one
\* is released first.
Lookup(w) ==
  LET s == worker[w].ses
  IN /\ worker[w].pc = "lookup"
     /\ IF session[s].state \in Live
        THEN IF session[s].exp = "past"
             THEN worker' = [worker EXCEPT ![w].pc = "finish", ![w].ret = "claim", ![w].expect = None]
             ELSE Finish(w)
        ELSE Step(w, "claim")
     /\ UNCHANGED <<storeVars, reaper, executorVars, registrarVars>>

\* claim_ready_slot picks some READY slot at random.
ClaimSlot(w, s, c) ==
  /\ worker[w].pc = "claim"
  /\ claim[c].state = "NONE" /\ ClaimReadySlotOK(s)
  /\ ClaimReadySlot(s, c)
  /\ worker' = [worker EXCEPT ![w].pc = "create", ![w].claim = c, ![w].hostEpoch = host[HostOf[s]].epoch]
  /\ UNCHANGED <<reaper, executorVars, registrarVars>>

\* NO_CAPACITY, or the unique index refuses the picked slot.
ClaimRefused(w) ==
  /\ worker[w].pc = "claim"
  /\ (\A s \in Slots : ~Claimable(s)) \/ (\E s \in Slots : Claimable(s) /\ SlotHasActiveClaim(s))
  /\ Finish(w)
  /\ UNCHANGED <<storeVars, reaper, executorVars, registrarVars>>

\* The artifact's bytes do not match its digests: found after the claim.
RejectArtifact(w) ==
  /\ worker[w].pc = "create"
  /\ Step(w, "abort")
  /\ UNCHANGED <<storeVars, reaper, executorVars, registrarVars>>

Create(w) ==
  LET s == worker[w].ses  c == worker[w].claim
  IN /\ worker[w].pc = "create"
     /\ IF CreateSessionOK(s, c)
        THEN CreateSession(s, c, worker[w].epoch) /\ Step(w, "load")
        ELSE Step(w, "abort") /\ UNCHANGED storeVars
     /\ UNCHANGED <<reaper, executorVars, registrarVars>>

Abort(w) ==
  /\ worker[w].pc = "abort"
  /\ AbortClaim(worker[w].claim)
  /\ Finish(w)
  /\ UNCHANGED <<reaper, executorVars, registrarVars>>

\* The failure handler: release(session_id), by session and without a fence.
Fail(w) ==
  worker' = [worker EXCEPT ![w].pc = "finish", ![w].ret = "idle", ![w].expect = None]

\* The supervisor binds the assignment if a warm slot is free.
CanBind(c) == Cardinality(bound[HostOfClaim(c)]) < Cardinality(SlotsOf(HostOfClaim(c)))
Bind(c) == bound' = [bound EXCEPT ![HostOfClaim(c)] = @ \cup {c}]

Load(w) ==
  /\ worker[w].pc = "load" /\ CanBind(worker[w].claim)
  /\ Bind(worker[w].claim) /\ Step(w, "activate")
  /\ UNCHANGED <<storeVars, reaper, late, registrarVars>>

\* No warm slot, the child rejects the source, or the call fails before it
\* reaches the executor.
LoadRefused(w) ==
  /\ worker[w].pc = "load"
  /\ ~CanBind(worker[w].claim) \/ "call_error" \in Faults
  /\ Fail(w)
  /\ UNCHANGED <<storeVars, reaper, executorVars, registrarVars>>

\* The call times out at the worker: the executor has bound the assignment,
\* or will do so later.
LoadTimesOut(w) ==
  /\ worker[w].pc = "load" /\ "call_late" \in Faults
  /\ late' = late \cup {worker[w].claim}
  /\ Fail(w)
  /\ UNCHANGED <<storeVars, reaper, bound, registrarVars>>

LateBind(c) ==
  /\ c \in late
  /\ late' = late \ {c}
  /\ IF CanBind(c) THEN Bind(c) ELSE UNCHANGED bound
  /\ UNCHANGED <<storeVars, worker, reaper, registrarVars>>

ActivateSession(w) ==
  LET s == worker[w].ses
  IN /\ worker[w].pc = "activate"
     /\ IF ActivateOK(s, worker[w].epoch)
        THEN Activate(s, worker[w].claim, worker[w].hostEpoch, worker[w].epoch) /\ Finish(w)
        ELSE Fail(w) /\ UNCHANGED storeVars
     /\ UNCHANGED <<reaper, executorVars, registrarVars>>

-----------------------------------------------------------------------------
(* release and invalidate: the store transaction, the executor call, and   *)
(* complete_reclaim.  An exception of the executor call ends the request.  *)

FinishSession(w) ==
  LET s == worker[w].ses
      stale == worker[w].expect # None /\ session[s].epoch # worker[w].expect
  IN /\ worker[w].pc = "finish"
     /\ IF session[s].state = "NONE" \/ stale
        THEN Finish(w) /\ UNCHANGED storeVars
        ELSE /\ FinishSessions({s}) /\ UNCHANGED outbox
             /\ worker' = [worker EXCEPT ![w].pc = "unload", ![w].claim = session[s].claim]
     /\ UNCHANGED <<reaper, executorVars, registrarVars>>

\* The supervisor's release replaces the child; an unknown id is a no-op.
Unbind(c) == bound' = [bound EXCEPT ![HostOfClaim(c)] = @ \ {c}]

Unload(w) ==
  /\ worker[w].pc = "unload"
  /\ Unbind(worker[w].claim) /\ Step(w, "complete")
  /\ UNCHANGED <<storeVars, reaper, late, registrarVars>>

\* The call raises, whether or not the executor acted on it.
UnloadFails(w) ==
  /\ worker[w].pc = "unload" /\ "call_error" \in Faults
  /\ Unbind(worker[w].claim) \/ UNCHANGED bound
  /\ Finish(w)
  /\ UNCHANGED <<storeVars, reaper, late, registrarVars>>

Complete(w) ==
  /\ worker[w].pc = "complete"
  /\ CompleteReclaim(worker[w].ses)
  /\ IF worker[w].ret = "idle" THEN Finish(w) ELSE Step(w, worker[w].ret)
  /\ UNCHANGED <<reaper, executorVars, registrarVars>>

-----------------------------------------------------------------------------
(* renew: the slot and the claim are read after the session, the           *)
(* transaction runs after both.                                            *)

RenewRead(w) ==
  LET c == worker[w].claim
  IN /\ worker[w].pc = "renew"
     /\ IF claim[c].state = "ACTIVE"
        THEN worker' = [worker EXCEPT ![w].pc = "commit", ![w].hostEpoch = host[HostOfClaim(c)].epoch]
        ELSE Finish(w)
     /\ UNCHANGED <<storeVars, reaper, executorVars, registrarVars>>

RenewCommit(w) ==
  LET s == worker[w].ses
  IN /\ worker[w].pc = "commit"
     /\ IF RenewOK(s, worker[w].expect, worker[w].seq)
        THEN Renew(s, worker[w].claim, worker[w].hostEpoch, worker[w].epoch, worker[w].seq)
        ELSE UNCHANGED storeVars
     /\ Finish(w)
     /\ UNCHANGED <<reaper, executorVars, registrarVars>>

\* The process dies, or the store is unavailable for the rest of the request.
WorkerCrash(w) ==
  /\ "crash" \in Faults /\ worker[w].pc # "idle"
  /\ Finish(w)
  /\ UNCHANGED <<storeVars, reaper, executorVars, registrarVars>>

-----------------------------------------------------------------------------
(* The reaper process: ControlPlaneReaper.sweep in an endless loop. *)

\* retry: the row is left over from a pass that did not complete it (history).
Pending == {[ses |-> s, claim |-> session'[s].claim, retry |-> s \in outbox] : s \in outbox'}

\* One transaction fences the eligible sessions and returns the session rows
\* of every unpublished release, old ones included.
Sweep ==
  /\ reaper.pc = "idle"
  /\ Reclaimable("idle" \in Faults) \cup outbox # {}
  /\ ReclaimInstantSessions("idle" \in Faults)
  /\ reaper' = [reaper EXCEPT !.pc = "unload", !.todo = Pending]
  /\ UNCHANGED <<worker, executorVars, registrarVars>>

ReaperUnload(i) ==
  /\ reaper.pc = "unload" /\ i \in reaper.todo
  /\ Unbind(i.claim)
  /\ reaper' = [reaper EXCEPT !.pc = "complete", !.item = i]
  /\ UNCHANGED <<storeVars, worker, late, registrarVars>>

\* The release call raises: the pass is over, the outbox rows stay.
ReaperUnloadFails(i) ==
  /\ reaper.pc = "unload" /\ i \in reaper.todo /\ "call_error" \in Faults
  /\ reaper' = Asleep
  /\ UNCHANGED <<storeVars, worker, executorVars, registrarVars>>

ReaperComplete ==
  /\ reaper.pc = "complete"
  /\ CompleteReclaim(reaper.item.ses)
  /\ LET rest == reaper.todo \ {reaper.item}
     IN reaper' = IF rest = {} THEN Asleep ELSE [pc |-> "unload", todo |-> rest, item |-> None]
  /\ UNCHANGED <<worker, executorVars, registrarVars>>

\* The process dies, or the store is unavailable to it, between two steps of a
\* pass: the supervising loop begins a new pass, the outbox rows stay.
ReaperStops ==
  /\ "reaper_stop" \in Faults /\ reaper.pc # "idle"
  /\ reaper' = Asleep
  /\ UNCHANGED <<storeVars, worker, executorVars, registrarVars>>

ReaperStep ==
  \/ Sweep
  \/ \E i \in reaper.todo : ReaperUnload(i) \/ ReaperUnloadFails(i)
  \/ ReaperComplete \/ ReaperStops

-----------------------------------------------------------------------------
(* The executor host: HostRegistrar's loop in runtime/registration.py.  It *)
(* runs beside the supervisor and never touches its bindings.              *)

Registering(h, pc, left) == registrar' = [registrar EXCEPT ![h] = [pc |-> pc, left |-> left]]

Register(h) ==
  /\ registrar[h].pc = "register" /\ host[h].epoch < MaxHostEpoch
  /\ RegisterHost(h)
  /\ Registering(h, "ready", SlotsOf(h))
  /\ UNCHANGED <<worker, reaper, executorVars, lateReady>>

\* The answer KeyError (the host was drained meanwhile) restarts the loop.
ReportReady(h, s) ==
  /\ registrar[h].pc = "ready" /\ s \in registrar[h].left
  /\ IF SetReadinessOK(s)
     THEN /\ SetReadiness(s)
          /\ Registering(h, IF registrar[h].left = {s} THEN "beat" ELSE "ready", registrar[h].left \ {s})
     ELSE UNCHANGED storeVars /\ Registering(h, "register", {})
  /\ UNCHANGED <<worker, reaper, executorVars, lateReady>>

Beat(h) ==
  /\ registrar[h].pc \in {"beat", "steady"}
  /\ registrar[h].pc = "beat" \/ ~host[h].fresh
  /\ HeartbeatOK(h) /\ Heartbeat(h)
  /\ Registering(h, "steady", {})
  /\ UNCHANGED <<worker, reaper, executorVars, lateReady>>

\* A lifecycle request fails: heartbeat_once and _recover start over.
LifecycleFails(h) ==
  /\ "reregister" \in Faults /\ registrar[h].pc # "register" /\ host[h].epoch < MaxHostEpoch
  /\ Registering(h, "register", {})
  /\ UNCHANGED <<storeVars, worker, reaper, executorVars, lateReady>>

\* A readiness report times out at the executor and is served later.
ReportTimesOut(h, s) ==
  /\ "late_readiness" \in Faults /\ registrar[h].pc = "ready" /\ s \in registrar[h].left
  /\ host[h].epoch < MaxHostEpoch
  /\ lateReady' = lateReady \cup {s}
  /\ Registering(h, "register", {})
  /\ UNCHANGED <<storeVars, worker, reaper, executorVars>>

LateReport(s) ==
  /\ s \in lateReady
  /\ lateReady' = lateReady \ {s}
  /\ IF SetReadinessOK(s) THEN SetReadiness(s) ELSE UNCHANGED storeVars
  /\ UNCHANGED <<worker, reaper, executorVars, registrar>>

\* The executor process restarts under the same identity with fresh children.
ExecutorRestart(h) ==
  /\ "restart" \in Faults /\ host[h].epoch \in 1 .. MaxHostEpoch - 1
  /\ bound' = [bound EXCEPT ![h] = {}]
  /\ late' = {c \in late : HostOfClaim(c) # h}
  /\ Registering(h, "register", {})
  /\ UNCHANGED <<storeVars, worker, reaper, lateReady>>

DrainHost(h) ==
  /\ "drain" \in Faults /\ host[h].state = "ACTIVE"
  /\ Drain(h)
  /\ UNCHANGED <<worker, reaper, executorVars, registrarVars>>

-----------------------------------------------------------------------------
Time ==
  /\ \/ "expire" \in Faults /\ \E c \in Claims : ExpireClaim(c)
     \/ "expire" \in Faults /\ \E s \in Sessions : ExpireLease(s)
     \/ "idle" \in Faults /\ \E s \in Sessions : BecomeIdle(s)
     \/ "lapse" \in Faults /\ \E h \in Hosts : HeartbeatLapses(h)
  /\ UNCHANGED <<worker, reaper, executorVars, registrarVars>>

Request(w) ==
  \E s \in Sessions :
    \/ StartAssign(w, s)
    \/ StartRebind(w, s)
    \/ StartRelease(w, s)
    \/ \E e \in (1 .. MaxEpoch) \cup {None} : StartInvalidate(w, s, e)
    \/ \E e \in 1 .. MaxEpoch : StartRenew(w, s, e)

\* A step of the request worker w is serving.
Serve(w) ==
  \/ Lookup(w) \/ ClaimRefused(w)
  \/ \E s \in Slots, c \in Claims : ClaimSlot(w, s, c)
  \/ RejectArtifact(w) \/ Create(w) \/ Abort(w)
  \/ Load(w) \/ LoadRefused(w) \/ LoadTimesOut(w) \/ ActivateSession(w)
  \/ FinishSession(w) \/ Unload(w) \/ UnloadFails(w) \/ Complete(w)
  \/ RenewRead(w) \/ RenewCommit(w)

HostStep(h) ==
  \/ Register(h) \/ Beat(h) \/ LifecycleFails(h) \/ ExecutorRestart(h) \/ DrainHost(h)
  \/ \E s \in SlotsOf(h) : ReportReady(h, s) \/ ReportTimesOut(h, s)

Next ==
  \/ \E w \in Workers : Request(w) \/ Serve(w) \/ WorkerCrash(w)
  \/ \E c \in Claims : LateBind(c)
  \/ ReaperStep
  \/ \E h \in Hosts : HostStep(h)
  \/ \E s \in Slots : LateReport(s)
  \/ Time

Spec == Init /\ [][Next]_vars

\* Processes keep running: a worker finishes the request it serves unless it
\* crashes, the reaper's endless loop sweeps again, the registrar retries with
\* capped backoff, and time passes.  Whether an executor call succeeds is the
\* environment's choice.
FairSpec ==
  /\ Spec
  /\ \A w \in Workers : WF_vars(Serve(w))
  /\ WF_vars(ReaperStep)
  /\ \A h \in Hosts : WF_vars(Register(h) \/ Beat(h) \/ \E s \in SlotsOf(h) : ReportReady(h, s))
  /\ WF_vars(Time)

-----------------------------------------------------------------------------
(* Properties. *)

PCs == {"idle", "lookup", "claim", "create", "load", "activate", "abort", "finish", "unload",
        "complete", "renew", "commit"}

Job == [pc : PCs, ses : Sessions \cup {None}, claim : Claims \cup {None}, epoch : Nat, seq : Nat,
        hostEpoch : Nat, expect : Nat \cup {None}, ret : {"idle", "lookup", "claim"}]

\* Type invariant of the durable rows, the workers, the reaper and the hosts.
TypeOK ==
  /\ StoreTypeOK
  /\ worker \in [Workers -> Job]
  /\ reaper.pc \in {"idle", "unload", "complete"}
  /\ reaper.todo \subseteq [ses : Sessions, claim : Claims, retry : BOOLEAN]
  /\ reaper.item \in reaper.todo \cup {None}
  /\ bound \in [Hosts -> SUBSET Claims]
  /\ late \subseteq Claims
  /\ registrar \in [Hosts -> [pc : {"register", "ready", "beat", "steady"}, left : SUBSET Slots]]
  /\ lateReady \subseteq Slots

\* No two live sessions ever hold the same warm slot, although claim, create,
\* activate, release and reclaim are separate transactions of several
\* processes ("Two concurrent claim attempts create one active PostgreSQL
\* claim and one bound session").
SlotExclusive ==
  \A s, t \in Sessions :
    /\ s # t /\ session[s].state \in Live /\ session[t].state \in Live
    => SlotOf(session[s].claim) # SlotOf(session[t].claim)

\* A live session's claim is still ACTIVE and its slot's current_claim_id is
\* still that claim: no abort, reclaim, late readiness report, drain or
\* registration takes the slot from under it.
LiveSessionHoldsClaim ==
  \A s \in Sessions : session[s].state \in Live =>
    LET c == session[s].claim
    IN claim[c].state = "ACTIVE" /\ slot[SlotOf(c)].claim = c

\* A slot offered to the next assignment has no active claim left on it, so
\* claim_ready_slot cannot run into the one_active_claim_per_slot index.
ReadyIsUnclaimed ==
  \A s \in Slots : slot[s].state = "READY" => ~SlotHasActiveClaim(s)

\* Activation and renewal leave a session one active lease row: renew
\* supersedes, _finish_session revokes, register_host "invalidates old
\* sessions and leases for that host".
OneActiveLease ==
  \A k, l \in leases : k.session = l.session /\ k.state = "ACTIVE" /\ l.state = "ACTIVE" => k = l

\* The lease a live session carries was signed for the claim the session is
\* bound to, not for an earlier binding of the same session.
LeaseNamesBinding ==
  \A s \in Sessions : session[s].state \in {"ACTIVE", "DRAINING"} => session[s].lease = session[s].claim

\* An ACTIVE session's assignment is bound at its executor: activate follows
\* the executor's confirmation and every release follows the fence.
ActiveIsBound ==
  \A s \in Sessions : session[s].state = "ACTIVE" =>
    session[s].claim \in bound[HostOfClaim(session[s].claim)]

\* The sessions a sweep is about to release at their executors are terminal:
\* the reclaim transaction "marks the returned sessions terminal".
ReaperSparesLive ==
  \A i \in reaper.todo : \A s \in Sessions : session[s].state \in Live => session[s].claim # i.claim

\* The same for the bindings this pass has ended itself, whoever binds their
\* sessions again before the reaper reaches them and wherever earlier passes
\* broke off: only a retried row can name a live binding.
FirstReleaseSparesLive ==
  \A i \in reaper.todo : ~i.retry =>
    \A s \in Sessions : session[s].state \in Live => session[s].claim # i.claim

\* "A slot remains RELEASING until the executor accepts cleanup": a slot is
\* offered again only when no assignment made on it is bound any more.
ReadyMeansReleased ==
  \A s \in Slots : slot[s].state = "READY" => \A c \in bound[HostOf[s]] : SlotOf(c) # s

\* A lease issued under an older registration of its host is not usable at
\* the executor (_verify_lease finds no bound assignment for it).
StaleHostEpochRejected ==
  \A l \in leases : l.claim \in bound[HostOfClaim(l.claim)] => l.hostEpoch = host[HostOfClaim(l.claim)].epoch

\* A binding that ended never becomes live again, and a claim is used by one
\* binding of one session: a session comes back only with a fresh claim.
NoResurrection ==
  [][\A s \in Sessions : session[s].state \notin Live /\ session'[s].state \in Live =>
       /\ session'[s].claim # session[s].claim
       /\ \A t \in Sessions : session[t].claim # session'[s].claim]_vars

\* A rebound session carries a higher binding epoch than every earlier
\* binding of it.
BindingEpochGrows ==
  [][\A s \in Sessions : session[s].state # "NONE" /\ session'[s].claim # session[s].claim =>
       session'[s].epoch > session[s].epoch]_vars

\* The reaper ends every binding whose lease has expired, whatever executors
\* and workers do: the fence commits before the executor is called.
ExpiredIsReclaimed ==
  \A s \in Sessions : session[s].state \in Live /\ session[s].exp = "past" ~> session[s].state \notin Live

Stranded(c) ==
  /\ claim[c].state = "ACTIVE"
  /\ \A s \in Sessions : session[s].claim # c
  /\ \A w \in Workers : worker[w].claim # c

\* "The reconciler scans PostgreSQL for ... active claims without active
\* sessions": capacity claimed by a request that died comes back.
StrandedClaimReclaimed ==
  \A c \in Claims : Stranded(c) ~> claim[c].state # "ACTIVE"

\* A slot whose session was reclaimed returns to service.
ReleasingEnds ==
  \A s \in Slots : slot[s].state = "RELEASING" ~> slot[s].state # "RELEASING"
=============================================================================

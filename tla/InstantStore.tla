---------------------------- MODULE InstantStore ----------------------------
(***************************************************************************)
(* The durable authority of instant execution: the PostgreSQL rows of      *)
(* control_plane/store.py (PostgresStore) and its transactions.  Each      *)
(* operator below is the effect of one method, which runs in one database  *)
(* transaction; an operator whose name ends in OK is the condition under   *)
(* which the method commits instead of raising StaleFence or KeyError.     *)
(*                                                                         *)
(* A session row and its claim are created together and the assignment id  *)
(* is minted with them, so one claim identifier stands for both.  A slot   *)
(* row's slot_epoch is raised exactly where its host's host_epoch is       *)
(* (register_host), so host.epoch stands for both.  Time is abstracted to  *)
(* what the statements compare: whether an expiry has passed, whether the  *)
(* last heartbeat is fresh, whether the last activity is older than the    *)
(* idle timeout.                                                           *)
(***************************************************************************)
EXTENDS Naturals, FiniteSets

CONSTANTS Hosts, Slots, HostOf, Sessions,
          Claims,       \* claim identifiers (uuid4), each used at most once
          None          \* SQL NULL

ASSUME StoreAssumption ==
  /\ HostOf \in [Slots -> Hosts]
  /\ None \notin Claims /\ None \notin Slots

VARIABLES host,         \* executor_hosts
          slot,         \* executor_slots
          claim,        \* capacity_claims
          session,      \* instant_sessions
          leases,       \* executor_leases
          outbox        \* sessions with an unpublished 'executor.release' row

storeVars == <<host, slot, claim, session, leases, outbox>>

Live == {"BINDING", "ACTIVE", "DRAINING"}

SlotsOf(h) == {s \in Slots : HostOf[s] = h}

\* The slot a session row names is the slot of its claim.
SlotOf(c) == claim[c].slot

HostRow == [state : {"ABSENT", "ACTIVE", "DRAINING"}, epoch : Nat, fresh : BOOLEAN]

SlotRow == [state : {"ABSENT", "STARTING", "READY", "CLAIMED", "RELEASING", "DRAINING"},
            claim : Claims \cup {None}]

ClaimRow == [state : {"NONE", "ACTIVE", "RELEASED"}, slot : Slots \cup {None}, expired : BOOLEAN]

SessionRow == [state : {"NONE", "INVALID"} \cup Live, claim : Claims \cup {None}, epoch : Nat,
               seq : Nat, lease : Claims \cup {None}, exp : {"none", "valid", "past"},
               activity : {"none", "recent", "idle"}]

LeaseRow == [session : Sessions, claim : Claims, hostEpoch : Nat, epoch : Nat, seq : Nat,
             state : {"ACTIVE", "SUPERSEDED", "REVOKED"}]

StoreTypeOK ==
  /\ host \in [Hosts -> HostRow]
  /\ slot \in [Slots -> SlotRow]
  /\ claim \in [Claims -> ClaimRow]
  /\ session \in [Sessions -> SessionRow]
  /\ leases \subseteq LeaseRow
  /\ outbox \subseteq Sessions

StoreInit ==
  /\ host = [h \in Hosts |-> [state |-> "ABSENT", epoch |-> 0, fresh |-> FALSE]]
  /\ slot = [s \in Slots |-> [state |-> "ABSENT", claim |-> None]]
  /\ claim = [c \in Claims |-> [state |-> "NONE", slot |-> None, expired |-> FALSE]]
  /\ session = [s \in Sessions |-> [state |-> "NONE", claim |-> None, epoch |-> 0, seq |-> 0,
                                    lease |-> None, exp |-> "none", activity |-> "none"]]
  /\ leases = {}
  /\ outbox = {}

-----------------------------------------------------------------------------
(* Hosts and slots. *)

\* Faulty: sessions that are still BINDING survive the registration.
RegisterHostKeepsBinding(h) ==
  /\ host' = [host EXCEPT ![h] = [state |-> "ACTIVE", epoch |-> @.epoch + 1, fresh |-> TRUE]]
  /\ session' = [s \in Sessions |->
       IF session[s].state \in {"ACTIVE", "DRAINING"} /\ SlotOf(session[s].claim) \in SlotsOf(h)
       THEN [session[s] EXCEPT !.state = "INVALID"] ELSE session[s]]
  /\ claim' = [c \in Claims |->
       IF claim[c].state = "ACTIVE" /\ claim[c].slot \in SlotsOf(h)
       THEN [claim[c] EXCEPT !.state = "RELEASED"] ELSE claim[c]]
  /\ slot' = [s \in Slots |->
       IF s \in SlotsOf(h) THEN [state |-> "STARTING", claim |-> None] ELSE slot[s]]
  /\ UNCHANGED <<leases, outbox>>

\* register_host: a new host epoch, every live session of the host INVALID,
\* every active claim on it RELEASED, every slot STARTING and unclaimed.  The
\* statements leave executor_leases and control_outbox alone.
RegisterHost(h) ==
  /\ host' = [host EXCEPT ![h] = [state |-> "ACTIVE", epoch |-> @.epoch + 1, fresh |-> TRUE]]
  /\ session' = [s \in Sessions |->
       IF session[s].state \in Live /\ SlotOf(session[s].claim) \in SlotsOf(h)
       THEN [session[s] EXCEPT !.state = "INVALID"] ELSE session[s]]
  /\ claim' = [c \in Claims |->
       IF claim[c].state = "ACTIVE" /\ claim[c].slot \in SlotsOf(h)
       THEN [claim[c] EXCEPT !.state = "RELEASED"] ELSE claim[c]]
  /\ slot' = [s \in Slots |->
       IF s \in SlotsOf(h) THEN [state |-> "STARTING", claim |-> None] ELSE slot[s]]
  /\ UNCHANGED <<leases, outbox>>

\* set_readiness(ready = true): the only condition is an ACTIVE host.
SetReadinessOK(s) == host[HostOf[s]].state = "ACTIVE"

SetReadiness(s) ==
  /\ slot' = [slot EXCEPT ![s].state = "READY"]
  /\ UNCHANGED <<host, claim, session, leases, outbox>>

HeartbeatOK(h) == host[h].state # "ABSENT"

Heartbeat(h) ==
  /\ host' = [host EXCEPT ![h].fresh = TRUE]
  /\ UNCHANGED <<slot, claim, session, leases, outbox>>

\* drain: the host, all of its slots and its ACTIVE sessions.
Drain(h) ==
  /\ host' = [host EXCEPT ![h].state = "DRAINING"]
  /\ slot' = [s \in Slots |->
       IF s \in SlotsOf(h) /\ slot[s].state # "ABSENT"
       THEN [slot[s] EXCEPT !.state = "DRAINING"] ELSE slot[s]]
  /\ session' = [s \in Sessions |->
       IF session[s].state = "ACTIVE" /\ SlotOf(session[s].claim) \in SlotsOf(h)
       THEN [session[s] EXCEPT !.state = "DRAINING"] ELSE session[s]]
  /\ UNCHANGED <<claim, leases, outbox>>

-----------------------------------------------------------------------------
(* Claims. *)

\* The rows claim_ready_slot picks from.
Claimable(s) == slot[s].state = "READY" /\ host[HostOf[s]].state = "ACTIVE" /\ host[HostOf[s]].fresh

\* The unique index one_active_claim_per_slot of migration 001.
SlotHasActiveClaim(s) == \E c \in Claims : claim[c].state = "ACTIVE" /\ claim[c].slot = s

\* Faulty: without the unique index.
ClaimReadySlotNoIndex(s) == Claimable(s)

ClaimReadySlotOK(s) == Claimable(s) /\ ~SlotHasActiveClaim(s)

ClaimReadySlot(s, c) ==
  /\ slot' = [slot EXCEPT ![s] = [state |-> "CLAIMED", claim |-> c]]
  /\ claim' = [claim EXCEPT ![c] = [state |-> "ACTIVE", slot |-> s, expired |-> FALSE]]
  /\ UNCHANGED <<host, session, leases, outbox>>

\* Faulty: the slot is handed back and the claim row is forgotten.
AbortClaimSlotOnly(c) ==
  /\ slot' = [s \in Slots |->
       IF claim[c].state = "ACTIVE" /\ claim[c].slot = s /\ slot[s].claim = c /\ slot[s].state = "CLAIMED"
       THEN [state |-> "READY", claim |-> None] ELSE slot[s]]
  /\ UNCHANGED <<host, claim, session, leases, outbox>>

\* The claim is released if it is active; its slot becomes READY if the slot
\* still belongs to it.
AbortClaim(c) ==
  /\ claim' = [claim EXCEPT ![c].state = "RELEASED"]
  /\ slot' = [s \in Slots |->
       IF claim[c].state = "ACTIVE" /\ claim[c].slot = s /\ slot[s].claim = c /\ slot[s].state = "CLAIMED"
       THEN [state |-> "READY", claim |-> None] ELSE slot[s]]
  /\ UNCHANGED <<host, session, leases, outbox>>

-----------------------------------------------------------------------------
(* Sessions and leases. *)

\* create_session: a valid claim on the slot, and no live row for the session.
CreateSessionOK(s, c) ==
  /\ claim[c].state = "ACTIVE" /\ ~claim[c].expired
  /\ slot[SlotOf(c)].state = "CLAIMED" /\ slot[SlotOf(c)].claim = c
  /\ session[s].state \notin Live

\* The upsert resets the lease columns and keeps last_activity_at.
CreateSession(s, c, e) ==
  /\ session' = [session EXCEPT ![s] = [state |-> "BINDING", claim |-> c, epoch |-> e, seq |-> 0,
                                        lease |-> None, exp |-> "none", activity |-> @.activity]]
  /\ UNCHANGED <<host, slot, claim, leases, outbox>>

\* activate selects the row by session and binding epoch; the claim it tests
\* is the claim of that row, not the claim the lease names.
ActivateOK(s, e) ==
  /\ session[s].state = "BINDING" /\ session[s].epoch = e
  /\ claim[session[s].claim].state = "ACTIVE"
  /\ slot[SlotOf(session[s].claim)].state = "CLAIMED"
  /\ host[HostOf[SlotOf(session[s].claim)]].state = "ACTIVE"

NewLease(s, c, he, e, q) ==
  [session |-> s, claim |-> c, hostEpoch |-> he, epoch |-> e, seq |-> q, state |-> "ACTIVE"]

\* The first lease expires together with the claim it names.
Activate(s, c, he, e) ==
  /\ session' = [session EXCEPT ![s].state = "ACTIVE", ![s].seq = 1, ![s].lease = c,
                                ![s].exp = IF claim[c].expired THEN "past" ELSE "valid",
                                ![s].activity = "recent"]
  /\ leases' = leases \cup {NewLease(s, c, he, e, 1)}
  /\ UNCHANGED <<host, slot, claim, outbox>>

\* renew: the row is selected by session, epoch and sequence.  The claim that
\* must be active and unexpired is the claim of the row.
RenewOK(s, e, q) ==
  /\ session[s].state = "ACTIVE" /\ session[s].epoch = e /\ session[s].seq < q
  /\ claim[session[s].claim].state = "ACTIVE" /\ ~claim[session[s].claim].expired

\* The session's active leases, each moved to state t.
Retire(s, t) ==
  {l \in leases : l.session # s \/ l.state # "ACTIVE"}
    \cup {[l EXCEPT !.state = t] : l \in {k \in leases : k.session = s /\ k.state = "ACTIVE"}}

\* Faulty: the previous lease stays ACTIVE.
RenewKeepsPrevious(s, c, he, e, q) ==
  /\ session' = [session EXCEPT ![s].seq = q, ![s].lease = c, ![s].exp = "valid",
                                ![s].activity = "recent"]
  /\ leases' = leases \cup {NewLease(s, c, he, e, q)}
  /\ UNCHANGED <<host, slot, claim, outbox>>

Renew(s, c, he, e, q) ==
  /\ session' = [session EXCEPT ![s].seq = q, ![s].lease = c, ![s].exp = "valid",
                                ![s].activity = "recent"]
  /\ leases' = Retire(s, "SUPERSEDED") \cup {NewLease(s, c, he, e, q)}
  /\ UNCHANGED <<host, slot, claim, outbox>>

\* _finish_session, on a set of sessions: the rows INVALID, their active
\* leases REVOKED, their active claims RELEASED and the slots those claims
\* still hold RELEASING.
FinishSessions(S) ==
  LET ended == {session[s].claim : s \in S}
  IN /\ session' = [s \in Sessions |->
          IF s \in S THEN [session[s] EXCEPT !.state = "INVALID"] ELSE session[s]]
     /\ leases' = {IF l.session \in S /\ l.state = "ACTIVE" THEN [l EXCEPT !.state = "REVOKED"] ELSE l :
                     l \in leases}
     /\ claim' = [c \in Claims |->
          IF c \in ended /\ claim[c].state = "ACTIVE"
          THEN [claim[c] EXCEPT !.state = "RELEASED"] ELSE claim[c]]
     /\ slot' = [s \in Slots |->
          IF slot[s].state = "CLAIMED" /\ slot[s].claim \in ended
          THEN [slot[s] EXCEPT !.state = "RELEASING"] ELSE slot[s]]
     /\ UNCHANGED host

\* Faulty: an expired session is left alone until it is also idle.
ReclaimableWhenIdle(idleTimeout) ==
  {s \in Sessions : session[s].state \in Live /\ session[s].exp = "past" /\ session[s].activity = "idle"}

\* reclaim_instant_sessions: expired rows, and idle ones when the reaper has
\* an idle timeout.
Reclaimable(idleTimeout) ==
  {s \in Sessions : /\ session[s].state \in Live
                    /\ session[s].exp = "past" \/ (idleTimeout /\ session[s].activity = "idle")}

\* Faulty: the outbox row is written without the fence.
ReclaimWithoutFence(idleTimeout) ==
  /\ outbox' = outbox \cup Reclaimable(idleTimeout)
  /\ UNCHANGED <<host, slot, claim, session, leases>>

ReclaimInstantSessions(idleTimeout) ==
  /\ FinishSessions(Reclaimable(idleTimeout))
  /\ outbox' = outbox \cup Reclaimable(idleTimeout)

\* complete_reclaim: keyed by session; it reads the session's current row.
CompleteReclaim(s) ==
  /\ slot' = [t \in Slots |->
       IF /\ session[s].claim # None /\ SlotOf(session[s].claim) = t
          /\ slot[t].claim = session[s].claim /\ slot[t].state = "RELEASING"
       THEN [state |-> "READY", claim |-> None] ELSE slot[t]]
  /\ outbox' = outbox \ {s}
  /\ UNCHANGED <<host, claim, session, leases>>

-----------------------------------------------------------------------------
(* The passage of time. *)

\* The first lease of a claim has the claim's own expiry.
ExpireClaim(c) ==
  /\ claim[c].state # "NONE" /\ ~claim[c].expired
  /\ claim' = [claim EXCEPT ![c].expired = TRUE]
  /\ session' = [s \in Sessions |->
       IF session[s].lease = c /\ session[s].seq = 1 THEN [session[s] EXCEPT !.exp = "past"] ELSE session[s]]
  /\ UNCHANGED <<host, slot, leases, outbox>>

\* A renewed lease outlives the claim it names, by less than a lifetime.
ExpireLease(s) ==
  /\ session[s].exp = "valid" /\ session[s].seq > 1 /\ claim[session[s].lease].expired
  /\ session' = [session EXCEPT ![s].exp = "past"]
  /\ UNCHANGED <<host, slot, claim, leases, outbox>>

BecomeIdle(s) ==
  /\ session[s].activity = "recent"
  /\ session' = [session EXCEPT ![s].activity = "idle"]
  /\ UNCHANGED <<host, slot, claim, leases, outbox>>

HeartbeatLapses(h) ==
  /\ host[h].fresh
  /\ host' = [host EXCEPT ![h].fresh = FALSE]
  /\ UNCHANGED <<slot, claim, session, leases, outbox>>
=============================================================================

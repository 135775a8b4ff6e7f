------------------------------ MODULE FairGate ------------------------------
(***************************************************************************)
(* The ceiling gate of da/queue.py: fair_admit, which every live WorkItem  *)
(* submission passes (da/client.py, submit_workitem), and admit, the older *)
(* tenant-blind entry to the same semaphore.                               *)
(*                                                                         *)
(* Each request is a thread.  The tickets and the ring are only touched    *)
(* under _fair_lock, so taking the lock and changing them is one step; the *)
(* semaphore is shared with admit, which does not take the lock to acquire *)
(* or to release, so each step of the dispatcher's loop is a step of its   *)
(* own.  A ticket is the thread that waits on it.                          *)
(***************************************************************************)
EXTENDS Integers, Sequences, FiniteSets, Functions

CONSTANTS
  Threads,   \* request threads
  Legacy,    \* the threads that call admit; the others call fair_admit
  Tenants,   \* tenant ids
  Ceilings,  \* the values APS_MAX_CONCURRENCY takes
  None

ASSUME GateAssumption ==
  /\ IsFiniteSet(Threads) /\ Legacy \subseteq Threads /\ None \notin Threads
  /\ Ceilings \subseteq Nat \ {0} /\ Ceilings # {}

VARIABLES
  fifos,   \* _fair_fifos: the waiting tickets of each registered tenant
  ring,    \* _fair_ring
  gate,    \* _gate: the semaphore's size n and its free permits
  limit,   \* APS_MAX_CONCURRENCY in the environment
  lock,    \* who holds _fair_lock
  pc,      \* where each thread is
  tenant,  \* the tenant of a thread that waits for its ticket
  owner,   \* the threads that own a permit: a granted ticket, or admit's acquire
  passed   \* history: the tenants served since each waiting tenant's last turn

vars == <<fifos, ring, gate, limit, lock, pc, tenant, owner, passed>>

Fair == Threads \ Legacy

Labels == {"idle", "enqueued", "waiting", "expired", "inside", "leaving", "asking", "released"}

\* Type correctness.
TypeOK ==
  /\ DOMAIN fifos \subseteq Tenants /\ fifos \in [DOMAIN fifos -> Seq(Fair)]
  /\ ring \in Seq(Tenants)
  /\ gate \in [n : Ceilings, free : Nat] /\ gate.free <= gate.n /\ limit \in Ceilings
  /\ lock \in Threads \cup {None}
  /\ pc \in [Threads -> Labels]
  /\ tenant \in [Threads -> Tenants \cup {None}]
  /\ owner \subseteq Threads
  /\ passed \in [Tenants -> SUBSET Tenants]

Init ==
  /\ fifos = [t \in {} |-> <<>>] /\ ring = <<>>
  /\ limit \in Ceilings /\ gate = [n |-> limit, free |-> limit]
  /\ lock = None
  /\ pc = [p \in Threads |-> "idle"] /\ tenant = [p \in Threads |-> None]
  /\ owner = {} /\ passed = [t \in Tenants |-> {}]

Goto(p, label) == pc' = [pc EXCEPT ![p] = label]

\* A caller does not use its key after its wait.
Keyless(p) == tenant' = [tenant EXCEPT ![p] = None]

\* The environment variable changes, "only while the gate is idle".
Reconfigure ==
  /\ \A p \in Threads : pc[p] = "idle"
  /\ limit' \in Ceilings \ {limit}
  /\ UNCHANGED <<fifos, ring, gate, lock, pc, tenant, owner, passed>>

\* _ensure_gate: the semaphore, rebuilt when the ceiling changed.
EnsureGate == IF gate.n = limit THEN gate ELSE [n |-> limit, free |-> limit]

\* _release_slot: a release beyond the semaphore's size is swallowed.
ReleaseSlot(g) == [g EXCEPT !.free = IF @ < g.n THEN @ + 1 ELSE @]

Acquire(g) == [g EXCEPT !.free = @ - 1]

\* deque.remove, its ValueError caught: the first occurrence of e leaves s.
Remove(s, e) ==
  IF e \in Range(s)
  THEN LET i == CHOOSE k \in 1 .. Len(s) : s[k] = e /\ \A j \in 1 .. k - 1 : s[j] # e
       IN SubSeq(s, 1, i - 1) \o SubSeq(s, i + 1, Len(s))
  ELSE s

Without(f, t) == [u \in DOMAIN f \ {t} |-> f[u]]

\* The history forgets tenants that do not wait.
Forget(h, f) == [t \in Tenants |-> IF t \in DOMAIN f THEN h[t] ELSE {}]

(***************************************************************************)
(* fair_admit.                                                             *)
(***************************************************************************)

\* A ticket enters its tenant's FIFO; a tenant new to the table, the back of the
\* ring.  The caller keeps the lock for the dispatcher.
Enqueue(p, t) ==
  /\ pc[p] = "idle" /\ lock = None
  /\ lock' = p /\ Goto(p, "enqueued")
  /\ tenant' = [tenant EXCEPT ![p] = t]
  /\ IF t \in DOMAIN fifos
     THEN fifos' = [fifos EXCEPT ![t] = Append(@, p)] /\ ring' = ring
     ELSE /\ fifos' = [u \in DOMAIN fifos \cup {t} |-> IF u = t THEN <<p>> ELSE fifos[u]]
          /\ ring' = Append(ring, t)
  /\ UNCHANGED <<gate, limit, owner, passed>>

\* The positions of the ring whose tenant has a ticket.
Pickable == {i \in DOMAIN ring : ring[i] \in DOMAIN fifos /\ fifos[ring[i]] # <<>>}

\* Faulty: the tenant gives its newest ticket.
PickNewest ==
  LET i == CHOOSE j \in Pickable : \A k \in Pickable : j <= k
      t == ring[i]
      rest == SubSeq(ring, i + 1, Len(ring))
      skipped == {ring[j] : j \in 1 .. i - 1}
      more == SubSeq(fifos[t], 1, Len(fifos[t]) - 1)
      kept == [u \in DOMAIN fifos \ skipped |-> IF u = t THEN more ELSE fifos[u]]
  IN [ticket |-> fifos[t][Len(fifos[t])], tenant |-> t,
      ring |-> IF more = <<>> THEN rest ELSE Append(rest, t),
      fifos |-> IF more = <<>> THEN Without(kept, t) ELSE kept]

\* _fair_pick_locked: the first such tenant gives its oldest ticket and, while
\* it has more, goes to the back of the ring.  Tenants before it had an empty
\* FIFO and are dropped.
Pick ==
  LET i == CHOOSE j \in Pickable : \A k \in Pickable : j <= k
      t == ring[i]
      rest == SubSeq(ring, i + 1, Len(ring))
      skipped == {ring[j] : j \in 1 .. i - 1}
      more == Tail(fifos[t])
      kept == [u \in DOMAIN fifos \ skipped |-> IF u = t THEN more ELSE fifos[u]]
  IN [ticket |-> Head(fifos[t]), tenant |-> t,
      ring |-> IF more = <<>> THEN rest ELSE Append(rest, t),
      fifos |-> IF more = <<>> THEN Without(kept, t) ELSE kept]

\* Faulty: the served tenant keeps its place at the head of the ring.
GrantInPlace(p) ==
  LET pick == Pick IN
  /\ lock = p /\ DOMAIN fifos # {} /\ EnsureGate.free > 0 /\ Pickable # {}
  /\ gate' = Acquire(EnsureGate) /\ owner' = owner \cup {pick.ticket}
  /\ fifos' = pick.fifos
  /\ ring' = IF pick.tenant \in DOMAIN pick.fifos THEN ring ELSE pick.ring
  /\ passed' = Forget([t \in Tenants |-> IF t = pick.tenant THEN {} ELSE passed[t] \cup {pick.tenant}],
                      pick.fifos)
  /\ UNCHANGED <<limit, lock, pc, tenant>>

\* _fair_dispatch_locked, one turn of its loop: a permit is taken without
\* blocking, then the next ticket is granted and owns it.
Grant(p) ==
  LET pick == Pick IN
  /\ lock = p /\ DOMAIN fifos # {} /\ EnsureGate.free > 0 /\ Pickable # {}
  /\ gate' = Acquire(EnsureGate) /\ owner' = owner \cup {pick.ticket}
  /\ fifos' = pick.fifos /\ ring' = pick.ring
  /\ passed' = Forget([t \in Tenants |-> IF t = pick.tenant THEN {} ELSE passed[t] \cup {pick.tenant}],
                      pick.fifos)
  /\ UNCHANGED <<limit, lock, pc, tenant>>

\* The loop ends: nobody waits, no permit is free, or no ticket can be picked
\* (which TicketsMatchWaiters rules out); the lock is freed.  After its enqueue a
\* caller waits, after a release it is done.
Dispatched(p) ==
  /\ lock = p /\ (DOMAIN fifos = {} \/ EnsureGate.free = 0 \/ Pickable = {})
  /\ gate' = IF DOMAIN fifos = {} THEN gate ELSE EnsureGate
  /\ lock' = None
  /\ Goto(p, IF pc[p] = "enqueued" THEN "waiting" ELSE "idle")
  /\ UNCHANGED <<fifos, ring, limit, tenant, owner, passed>>

\* The wait for the ticket's event returns.
Enter(p) ==
  /\ pc[p] = "waiting" /\ p \in owner
  /\ Goto(p, "inside") /\ Keyless(p)
  /\ UNCHANGED <<fifos, ring, gate, limit, lock, owner, passed>>

\* The wait times out.  Until the thread has the lock its ticket can still be granted.
TimeOut(p) ==
  /\ pc[p] = "waiting" /\ p \notin owner
  /\ Goto(p, "expired")
  /\ UNCHANGED <<fifos, ring, gate, limit, lock, tenant, owner, passed>>

\* Faulty: the granted ticket of a timed-out caller is forgotten with its permit.
ForgetRace(p) ==
  /\ pc[p] = "expired" /\ p \in owner /\ lock = None
  /\ owner' = owner \ {p} /\ lock' = p /\ Goto(p, "leaving") /\ Keyless(p)
  /\ UNCHANGED <<fifos, ring, gate, limit, passed>>

\* Granted in the timeout race: the permit goes back and the dispatcher runs.
HandBack(p) ==
  /\ pc[p] = "expired" /\ p \in owner /\ lock = None
  /\ gate' = ReleaseSlot(gate) /\ owner' = owner \ {p}
  /\ lock' = p /\ Goto(p, "leaving") /\ Keyless(p)
  /\ UNCHANGED <<fifos, ring, limit, passed>>

\* Faulty: a timed-out ticket's tenant leaves the table and stays in the ring.
WithdrawKeepingRing(p) ==
  LET t == tenant[p]
      left == Remove(fifos[t], p)
      after == IF left = <<>> THEN Without(fifos, t) ELSE [fifos EXCEPT ![t] = left] IN
  /\ pc[p] = "expired" /\ p \notin owner /\ lock = None
  /\ fifos' = after /\ ring' = ring
  /\ passed' = Forget(passed, after)
  /\ Goto(p, "idle") /\ Keyless(p)
  /\ UNCHANGED <<gate, limit, lock, owner>>

\* Not granted: the ticket is removed, and with the last one its tenant
\* (_fair_drop_tenant_locked); the caller gets QueueFull.  The tenant is in the
\* table (TicketsMatchWaiters), so the test for a missing FIFO never fails.
Withdraw(p) ==
  LET t == tenant[p]
      left == Remove(fifos[t], p)
      after == IF left = <<>> THEN Without(fifos, t) ELSE [fifos EXCEPT ![t] = left] IN
  /\ pc[p] = "expired" /\ p \notin owner /\ lock = None
  /\ fifos' = after
  /\ ring' = IF left = <<>> THEN Remove(ring, t) ELSE ring
  /\ passed' = Forget(passed, after)
  /\ Goto(p, "idle") /\ Keyless(p)
  /\ UNCHANGED <<gate, limit, lock, owner>>

\* The WorkItem ended, or the submission raised: the permit goes back and the
\* dispatcher runs, under one hold of the lock.
Leave(p) ==
  /\ pc[p] = "inside" /\ lock = None
  /\ gate' = ReleaseSlot(gate) /\ owner' = owner \ {p}
  /\ lock' = p /\ Goto(p, "leaving")
  /\ UNCHANGED <<fifos, ring, limit, tenant, passed>>

(***************************************************************************)
(* admit.                                                                  *)
(***************************************************************************)
Ask(p) ==
  /\ pc[p] = "idle"
  /\ gate' = EnsureGate /\ Goto(p, "asking")
  /\ UNCHANGED <<fifos, ring, limit, lock, tenant, owner, passed>>

AdmitLegacy(p) ==
  /\ pc[p] = "asking" /\ gate.free > 0
  /\ gate' = Acquire(gate) /\ owner' = owner \cup {p} /\ Goto(p, "inside")
  /\ UNCHANGED <<fifos, ring, limit, lock, tenant, passed>>

\* No permit within the timeout: QueueFull.
RefuseLegacy(p) ==
  /\ pc[p] = "asking" /\ gate.free = 0
  /\ Goto(p, "idle")
  /\ UNCHANGED <<fifos, ring, gate, limit, lock, tenant, owner, passed>>

\* Faulty: an admit that ends with its release, as before the review.
GiveBackOnly(p) ==
  /\ pc[p] = "inside"
  /\ gate' = ReleaseSlot(gate) /\ owner' = owner \ {p} /\ Goto(p, "idle")
  /\ UNCHANGED <<fifos, ring, limit, lock, tenant, passed>>

\* The permit goes back outside the lock.
GiveBack(p) ==
  /\ pc[p] = "inside"
  /\ gate' = ReleaseSlot(gate) /\ owner' = owner \ {p} /\ Goto(p, "released")
  /\ UNCHANGED <<fifos, ring, limit, lock, tenant, passed>>

\* The lock is taken for the dispatcher.
Redispatch(p) ==
  /\ pc[p] = "released" /\ lock = None
  /\ lock' = p /\ Goto(p, "leaving")
  /\ UNCHANGED <<fifos, ring, gate, limit, tenant, owner, passed>>

Next ==
  \/ Reconfigure
  \/ \E p \in Fair :
       \/ \E t \in Tenants : Enqueue(p, t)
       \/ Enter(p) \/ TimeOut(p) \/ HandBack(p) \/ Withdraw(p) \/ Leave(p)
  \/ \E p \in Legacy : Ask(p) \/ AdmitLegacy(p) \/ RefuseLegacy(p) \/ GiveBack(p) \/ Redispatch(p)
  \/ \E p \in Threads : Grant(p) \/ Dispatched(p)

Spec == Init /\ [][Next]_vars

\* A thread that runs, or holds the lock, goes on; the WorkItem inside the gate
\* ends (its polling has a deadline); a thread that asks for the lock again and
\* again gets it.  No caller has to come and no wait has to time out.
Fairness ==
  /\ \A p \in Threads : WF_vars(Grant(p) \/ Dispatched(p))
  /\ \A p \in Fair : WF_vars(Enter(p)) /\ SF_vars(HandBack(p) \/ Withdraw(p) \/ Leave(p))
  /\ \A p \in Legacy : WF_vars(GiveBack(p)) /\ SF_vars(Redispatch(p))

FairSpec == Spec /\ Fairness

(***************************************************************************)
(* Properties.                                                             *)
(***************************************************************************)

\* Every permit is free or owned by one caller, and only owners are inside the
\* gate, so at most the ceiling's number of submissions are under way.  Grants,
\* hand-backs after a timeout, and the two kinds of release must balance.
PermitsBalance ==
  /\ gate.free + Cardinality(owner) = gate.n
  /\ {p \in Threads : pc[p] = "inside"} \subseteq owner

\* Between two holds of the lock the ring lists each tenant of the table once,
\* and the FIFOs hold exactly the tickets that wait ungranted: a caller that got
\* QueueFull leaves no ticket behind and takes no other's away.
TicketsMatchWaiters ==
  lock = None =>
    /\ IsInjective(ring) /\ Range(ring) = DOMAIN fifos
    /\ \A t \in DOMAIN fifos : fifos[t] # <<>> /\ IsInjective(fifos[t])
    /\ \A p \in Fair :
         (pc[p] \in {"waiting", "expired"} /\ p \notin owner) <=>
         (\E t \in DOMAIN fifos : p \in Range(fifos[t]))

\* No lost wakeup: a ticket waits beside a free permit only while some thread
\* holds the lock for the dispatcher or is on its way to it.
NoIdlePermit ==
  DOMAIN fifos # {} /\ gate.free > 0 => lock # None \/ \E p \in Legacy : pc[p] = "released"

\* Round robin: no tenant is served a second time while another one has waited
\* since before its first turn.
TurnsRotate ==
  [][\A p \in (owner' \ owner) \cap Fair :
       \A t \in DOMAIN fifos \ {tenant[p]} : tenant[p] \notin passed[t]]_vars

\* A caller that waits without a timeout is admitted: each ticket is granted, or
\* its wait ends.
TicketsAnswered == \A p \in Fair : (pc[p] = "waiting") ~> (pc[p] # "waiting")

=============================================================================

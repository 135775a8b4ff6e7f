--------------------------- MODULE FairGateProofs ---------------------------
(***************************************************************************)
(* The ceiling gate of FairGate is correct for any number of threads and   *)
(* tenants and any ceilings.                                               *)
(***************************************************************************)
EXTENDS FairGate, FiniteSetTheorems, TLAPS

(***************************************************************************)
(* The inductive invariant.  What the properties say of the moments when   *)
(* the lock is free is said of every moment here: a thread whose ticket is *)
(* not granted is queued from its enqueue on, under the lock too.          *)
(***************************************************************************)

\* The threads whose ticket waits.
Queued == {p \in Threads : pc[p] \in {"enqueued", "waiting", "expired"} /\ p \notin owner}

\* The callers of admit and of fair_admit have their own steps.
Places ==
  \A p \in Threads :
    IF p \in Legacy THEN pc[p] \in {"idle", "asking", "inside", "released", "leaving"}
                    ELSE pc[p] \in {"idle", "enqueued", "waiting", "expired", "inside", "leaving"}

\* The lock is held exactly from an enqueue or a release to the end of the dispatcher.
Holder == \A p \in Threads : lock = p <=> pc[p] \in {"enqueued", "leaving"}

\* Only a thread with a ticket or inside the gate owns a permit, and who is inside does.
Owners ==
  \A p \in Threads : /\ p \in owner => pc[p] \in {"enqueued", "waiting", "expired", "inside"}
                     /\ pc[p] = "inside" => p \in owner

Balance == gate.free + Cardinality(owner) = gate.n

\* The semaphore differs from the ceiling only until the first caller after an
\* idle moment, when nobody owns a permit.
Resized == gate.n # limit => owner = {} /\ \A p \in Threads : pc[p] \in {"idle", "enqueued"}

\* A queued thread has its ticket in its tenant's FIFO.
Placed ==
  \A p \in Queued :
    /\ tenant[p] \in DOMAIN fifos
    /\ \E i \in 1 .. Len(fifos[tenant[p]]) : fifos[tenant[p]][i] = p

\* A FIFO holds tickets of queued threads of its tenant, each once, and is not empty.
Tickets ==
  \A t \in DOMAIN fifos :
    /\ Len(fifos[t]) > 0
    /\ \A i \in 1 .. Len(fifos[t]) : fifos[t][i] \in Queued /\ tenant[fifos[t][i]] = t
    /\ \A i, j \in 1 .. Len(fifos[t]) : fifos[t][i] = fifos[t][j] => i = j

\* The ring lists each tenant of the table once.
RingMatches ==
  /\ \A i, j \in 1 .. Len(ring) : ring[i] = ring[j] => i = j
  /\ \A i \in 1 .. Len(ring) : ring[i] \in DOMAIN fifos
  /\ \A t \in DOMAIN fifos : \E i \in 1 .. Len(ring) : ring[i] = t

\* A tenant served since another's last turn stands behind it in the ring.
Turns ==
  /\ \A t \in Tenants : t \notin DOMAIN fifos => passed[t] = {}
  /\ \A i, j \in 1 .. Len(ring) : ring[j] \in passed[ring[i]] => i < j

Table == Placed /\ Tickets /\ RingMatches /\ Turns

GateInv == TypeOK /\ Places /\ Holder /\ Owners /\ Balance /\ Resized /\ Table /\ NoIdlePermit

-----------------------------------------------------------------------------
(* Sequences. *)

\* What Remove leaves of a sequence that holds the element once.
LEMMA RemoveOne ==
  ASSUME NEW S, NEW s \in Seq(S), NEW k \in 1 .. Len(s), NEW e, s[k] = e,
         \A j \in 1 .. Len(s) : s[j] = e => j = k
  PROVE  /\ Remove(s, e) \in Seq(S) /\ Len(Remove(s, e)) = Len(s) - 1
         /\ \A i \in 1 .. Len(s) - 1 : Remove(s, e)[i] = IF i < k THEN s[i] ELSE s[i + 1]
<1>1. e \in Range(s)
  BY DEF Range
<1>2. Remove(s, e) = SubSeq(s, 1, k - 1) \o SubSeq(s, k + 1, Len(s))
  <2> DEFINE i == CHOOSE m \in 1 .. Len(s) : s[m] = e /\ \A j \in 1 .. m - 1 : s[j] # e
  <2>1. s[k] = e /\ \A j \in 1 .. k - 1 : s[j] # e
    OBVIOUS
  <2>2. i \in 1 .. Len(s) /\ s[i] = e
    BY Zenon, <2>1
  <2>3. Remove(s, e) = SubSeq(s, 1, i - 1) \o SubSeq(s, i + 1, Len(s))
    BY Zenon, <1>1 DEF Remove
  <2>4. i = k
    BY Zenon, <2>2
  <2> QED BY Zenon, <2>3, <2>4
<1> DEFINE a == SubSeq(s, 1, k - 1)
           b == SubSeq(s, k + 1, Len(s))
<1>3. a \in Seq(S) /\ Len(a) = k - 1 /\ \A i \in 1 .. k - 1 : a[i] = s[i]
  OBVIOUS
<1>4. b \in Seq(S) /\ Len(b) = Len(s) - k /\ \A i \in 1 .. Len(s) - k : b[i] = s[k + i]
  OBVIOUS
<1> HIDE DEF a, b
<1>5. a \o b \in Seq(S) /\ Len(a \o b) = Len(s) - 1
  BY <1>3, <1>4
<1>6. ASSUME NEW i \in 1 .. Len(s) - 1
      PROVE  (a \o b)[i] = IF i < k THEN s[i] ELSE s[i + 1]
  <2>1. CASE i < k
    BY <2>1, <1>3, <1>4
  <2>2. CASE ~(i < k)
    <3>1. (a \o b)[i] = b[i - (k - 1)] /\ i - (k - 1) \in 1 .. Len(s) - k
      BY <2>2, <1>3, <1>4
    <3>2. b[i - (k - 1)] = s[k + (i - (k - 1))]
      BY Zenon, <3>1, <1>4
    <3>3. k + (i - (k - 1)) = i + 1 /\ ~(i < k)
      BY <2>2
    <3> QED BY Zenon, <3>1, <3>2, <3>3
  <2> QED BY Zenon, <2>1, <2>2
<1>7. Remove(s, e) = a \o b
  BY Zenon, <1>2 DEF a, b
<1> QED BY Zenon, <1>5, <1>6, <1>7

LEMMA EmptyIsLengthZero == ASSUME NEW S, NEW s \in Seq(S)  PROVE s = <<>> <=> Len(s) = 0
  OBVIOUS

\* What Tail leaves of a sequence.
LEMMA TailLeaves ==
  ASSUME NEW S, NEW s \in Seq(S), Len(s) > 0
  PROVE  /\ Tail(s) \in Seq(S) /\ Len(Tail(s)) = Len(s) - 1
         /\ Tail(s) = <<>> <=> Len(s) = 1
         /\ \A i \in 1 .. Len(s) - 1 : Tail(s)[i] = s[i + 1]
<1>1. s # <<>>
  OBVIOUS
<1>2. Tail(s) \in Seq(S) /\ Len(Tail(s)) = Len(s) - 1
  BY <1>1
<1>3. \A i \in 1 .. Len(s) - 1 : Tail(s)[i] = s[i + 1]
  BY <1>1
<1>4. Len(s) \in Nat
  OBVIOUS
<1>5. Len(Tail(s)) = 0 <=> Len(s) = 1
  BY <1>2, <1>4
<1>6. Tail(s) = <<>> <=> Len(Tail(s)) = 0
  BY <1>2, EmptyIsLengthZero, Zenon
<1> QED BY Zenon, <1>2, <1>3, <1>5, <1>6

\* The table f after the k-th ticket of tenant t has left it.
Removed(t, k, f) ==
  /\ DOMAIN f = IF Len(fifos[t]) = 1 THEN DOMAIN fifos \ {t} ELSE DOMAIN fifos
  /\ f \in [DOMAIN f -> Seq(Fair)]
  /\ \A u \in DOMAIN f \ {t} : f[u] = fifos[u]
  /\ t \in DOMAIN f =>
       /\ Len(f[t]) = Len(fifos[t]) - 1
       /\ \A i \in 1 .. Len(fifos[t]) - 1 : f[t][i] = IF i < k THEN fifos[t][i] ELSE fifos[t][i + 1]

\* The first tenant of the ring is the one _fair_pick_locked serves: no tenant has
\* an empty FIFO, so none is skipped.
LEMMA PickFirst ==
  ASSUME TypeOK, Tickets, RingMatches, DOMAIN fifos # {}
  PROVE  /\ Len(ring) > 0 /\ ring[1] \in DOMAIN fifos /\ Len(fifos[ring[1]]) > 0
         /\ Pick.tenant = ring[1] /\ Pick.ticket = fifos[ring[1]][1]
         /\ Pick.ring = IF Len(fifos[ring[1]]) = 1 THEN Tail(ring) ELSE Append(Tail(ring), ring[1])
         /\ Removed(ring[1], 1, Pick.fifos)
<1> DEFINE t == ring[1]
           more == Tail(fifos[t])
           kept == [u \in DOMAIN fifos |-> IF u = t THEN more ELSE fifos[u]]
<1>1. Len(ring) > 0 /\ ring \in Seq(Tenants) /\ Len(ring) \in Nat
  BY DEF RingMatches, TypeOK
<1>2. t \in DOMAIN fifos /\ Len(fifos[t]) > 0
  <2>1. 1 \in 1 .. Len(ring)
    BY <1>1
  <2>2. t \in DOMAIN fifos
    BY Zenon, <2>1 DEF RingMatches
  <2> QED BY Zenon, <2>2 DEF Tickets
<1>3. fifos[t] \in Seq(Fair) /\ fifos \in [DOMAIN fifos -> Seq(Fair)]
  BY Zenon, <1>2 DEF TypeOK
<1>4. Pickable = 1 .. Len(ring)
  <2>1. \A u \in DOMAIN fifos : fifos[u] # <<>>
    BY DEF Tickets
  <2>2. DOMAIN ring = 1 .. Len(ring)
    BY <1>1
  <2> QED BY Zenon, <2>1, <2>2 DEF Pickable, RingMatches
<1>5. (CHOOSE j \in Pickable : \A k \in Pickable : j <= k) = 1
  BY <1>1, <1>4
<1>6. DOMAIN fifos \ {ring[j] : j \in 1 .. 1 - 1} = DOMAIN fifos
  OBVIOUS
<1>7. SubSeq(ring, 1 + 1, Len(ring)) = Tail(ring)
  BY <1>1
<1>8. Pick = [ticket |-> Head(fifos[t]), tenant |-> t,
              ring |-> IF more = <<>> THEN Tail(ring) ELSE Append(Tail(ring), t),
              fifos |-> IF more = <<>> THEN Without(kept, t) ELSE kept]
  <2> DEFINE i == CHOOSE j \in Pickable : \A k \in Pickable : j <= k
             left == [u \in DOMAIN fifos \ {ring[j] : j \in 1 .. i - 1} |->
                        IF u = ring[i] THEN Tail(fifos[ring[i]]) ELSE fifos[u]]
  <2>1. Pick = [ticket |-> Head(fifos[ring[i]]), tenant |-> ring[i],
                ring |-> IF Tail(fifos[ring[i]]) = <<>> THEN SubSeq(ring, i + 1, Len(ring))
                         ELSE Append(SubSeq(ring, i + 1, Len(ring)), ring[i]),
                fifos |-> IF Tail(fifos[ring[i]]) = <<>> THEN Without(left, ring[i]) ELSE left]
    BY Zenon DEF Pick
  <2>2. i = 1
    BY Zenon, <1>5
  <2> HIDE DEF i
  <2>3. left = kept
    BY Zenon, <2>2, <1>6
  <2> HIDE DEF left, kept
  <2> QED BY Zenon, <2>1, <2>2, <2>3, <1>7
<1>9. more \in Seq(Fair) /\ Len(more) = Len(fifos[t]) - 1 /\ (more = <<>> <=> Len(fifos[t]) = 1)
      /\ \A i \in 1 .. Len(fifos[t]) - 1 : more[i] = fifos[t][i + 1]
  BY Zenon, <1>2, <1>3, TailLeaves
<1>10. Head(fifos[t]) = fifos[t][1]
  BY <1>3
<1>11. Removed(t, 1, IF more = <<>> THEN Without(kept, t) ELSE kept)
  <2>1. CASE more = <<>>
    BY Zenon, <2>1, <1>2, <1>3, <1>9 DEF Removed, Without
  <2>2. CASE more # <<>>
    <3>1. kept \in [DOMAIN fifos -> Seq(Fair)] /\ DOMAIN kept = DOMAIN fifos /\ kept[t] = more
          /\ \A u \in DOMAIN fifos \ {t} : kept[u] = fifos[u]
      BY Zenon, <1>2, <1>3, <1>9
    <3> HIDE DEF kept, more
    <3> QED BY <3>1, <2>2, <1>9 DEF Removed
  <2> QED BY Zenon, <2>1, <2>2
<1> QED BY Zenon, <1>1, <1>2, <1>8, <1>9, <1>10, <1>11

-----------------------------------------------------------------------------
(* The two steps that take a ticket out of the table. *)

\* A grant: a permit of the gate goes to the oldest ticket of the ring's first tenant.
LEMMA GrantTakes ==
  ASSUME GateInv, NEW p \in Threads, Grant(p)
  PROVE  /\ lock = p /\ EnsureGate.free > 0 /\ gate' = Acquire(EnsureGate)
         /\ Len(ring) > 0 /\ ring[1] \in DOMAIN fifos /\ Len(fifos[ring[1]]) > 0
         /\ owner' = owner \cup {fifos[ring[1]][1]}
         /\ Removed(ring[1], 1, fifos')
         /\ ring' = IF Len(fifos[ring[1]]) = 1 THEN Tail(ring) ELSE Append(Tail(ring), ring[1])
         /\ passed' = [t \in Tenants |-> IF t \notin DOMAIN fifos' \/ t = ring[1] THEN {}
                                        ELSE passed[t] \cup {ring[1]}]
         /\ UNCHANGED <<limit, lock, pc, tenant>>
<1>1. DOMAIN fifos # {} /\ lock = p /\ EnsureGate.free > 0 /\ gate' = Acquire(EnsureGate)
      /\ owner' = owner \cup {Pick.ticket} /\ fifos' = Pick.fifos /\ ring' = Pick.ring
      /\ passed' = Forget([t \in Tenants |-> IF t = Pick.tenant THEN {} ELSE passed[t] \cup {Pick.tenant}],
                          Pick.fifos)
      /\ UNCHANGED <<limit, lock, pc, tenant>>
  BY Zenon DEF Grant
<1>2. TypeOK /\ Tickets /\ RingMatches
  BY Zenon DEF GateInv, Table
<1>3. /\ Len(ring) > 0 /\ ring[1] \in DOMAIN fifos /\ Len(fifos[ring[1]]) > 0
      /\ Pick.tenant = ring[1] /\ Pick.ticket = fifos[ring[1]][1]
      /\ Pick.ring = IF Len(fifos[ring[1]]) = 1 THEN Tail(ring) ELSE Append(Tail(ring), ring[1])
      /\ Removed(ring[1], 1, Pick.fifos)
  BY <1>1, <1>2, PickFirst, Zenon
<1>4. passed' = [t \in Tenants |-> IF t \notin DOMAIN fifos' \/ t = ring[1] THEN {}
                                  ELSE passed[t] \cup {ring[1]}]
  BY Zenon, <1>1, <1>3 DEF Forget
<1>5. Removed(ring[1], 1, fifos')
  BY <1>1, <1>3, Zenon
<1> QED BY <1>1, <1>3, <1>4, <1>5, Zenon

\* A withdrawal: the thread's ticket leaves its FIFO, and its tenant the ring with the last one.
LEMMA WithdrawTakes ==
  ASSUME GateInv, NEW p \in Fair, Withdraw(p)
  PROVE  /\ pc[p] = "expired" /\ p \notin owner /\ lock = None
         /\ tenant[p] \in DOMAIN fifos
         /\ \E k \in 1 .. Len(fifos[tenant[p]]) :
              fifos[tenant[p]][k] = p /\ Removed(tenant[p], k, fifos')
         /\ IF Len(fifos[tenant[p]]) = 1
            THEN \E k \in 1 .. Len(ring) :
                   /\ ring[k] = tenant[p] /\ ring' \in Seq(Tenants) /\ Len(ring') = Len(ring) - 1
                   /\ \A i \in 1 .. Len(ring) - 1 : ring'[i] = IF i < k THEN ring[i] ELSE ring[i + 1]
            ELSE ring' = ring
         /\ passed' = [t \in Tenants |-> IF t \in DOMAIN fifos' THEN passed[t] ELSE {}]
         /\ pc' = [pc EXCEPT ![p] = "idle"] /\ tenant' = [tenant EXCEPT ![p] = None]
         /\ UNCHANGED <<gate, limit, lock, owner>>
<1> DEFINE t == tenant[p]
           left == Remove(fifos[t], p)
           after == IF left = <<>> THEN Without(fifos, t) ELSE [fifos EXCEPT ![t] = left]
<1>1. /\ pc[p] = "expired" /\ p \notin owner /\ lock = None
      /\ fifos' = after
      /\ ring' = IF left = <<>> THEN Remove(ring, t) ELSE ring
      /\ passed' = Forget(passed, after)
      /\ pc' = [pc EXCEPT ![p] = "idle"] /\ tenant' = [tenant EXCEPT ![p] = None]
      /\ UNCHANGED <<gate, limit, lock, owner>>
  BY Zenon DEF Withdraw, Goto, Keyless
<1>2. p \in Threads /\ TypeOK /\ Tickets /\ RingMatches /\ Placed
  BY Zenon DEF GateInv, Table, Fair
<1>3. t \in DOMAIN fifos /\ \E k \in 1 .. Len(fifos[t]) : fifos[t][k] = p
  BY Zenon, <1>1, <1>2 DEF Placed, Queued
<1>4. PICK k \in 1 .. Len(fifos[t]) : fifos[t][k] = p
  BY Zenon, <1>3
<1>5. fifos \in [DOMAIN fifos -> Seq(Fair)] /\ fifos[t] \in Seq(Fair) /\ Len(fifos[t]) \in Nat
  BY <1>2, <1>3 DEF TypeOK
<1>6. \A j \in 1 .. Len(fifos[t]) : fifos[t][j] = p => j = k
  BY <1>2, <1>3, <1>4 DEF Tickets
<1>7. /\ left \in Seq(Fair) /\ Len(left) = Len(fifos[t]) - 1
      /\ \A i \in 1 .. Len(fifos[t]) - 1 : left[i] = IF i < k THEN fifos[t][i] ELSE fifos[t][i + 1]
  <2>1. ASSUME NEW s \in Seq(Fair), NEW j \in 1 .. Len(s), s[j] = p,
               \A i \in 1 .. Len(s) : s[i] = p => i = j
        PROVE  /\ Remove(s, p) \in Seq(Fair) /\ Len(Remove(s, p)) = Len(s) - 1
               /\ \A i \in 1 .. Len(s) - 1 : Remove(s, p)[i] = IF i < j THEN s[i] ELSE s[i + 1]
    BY <2>1, RemoveOne, ZenonT(30)
  <2> QED BY <2>1, <1>4, <1>5, <1>6, Zenon
<1> HIDE DEF left
<1>8. left = <<>> <=> Len(fifos[t]) = 1
  <2>1. left = <<>> <=> Len(left) = 0
    BY <1>7, EmptyIsLengthZero, Zenon
  <2> QED BY <2>1, <1>5, <1>7
<1>9. Removed(t, k, after)
  <2>1. CASE left = <<>>
    BY Zenon, <2>1, <1>3, <1>5, <1>8 DEF Removed, Without
  <2>2. CASE left # <<>>
    <3>1. after \in [DOMAIN fifos -> Seq(Fair)] /\ DOMAIN after = DOMAIN fifos /\ after[t] = left
          /\ \A u \in DOMAIN fifos \ {t} : after[u] = fifos[u]
      BY Zenon, <2>2, <1>3, <1>5, <1>7
    <3> HIDE DEF after
    <3> QED BY Zenon, <3>1, <2>2, <1>7, <1>8 DEF Removed
  <2> QED BY Zenon, <2>1, <2>2
<1> HIDE DEF after
<1>10. ASSUME Len(fifos[t]) = 1
       PROVE  \E j \in 1 .. Len(ring) :
                /\ ring[j] = t /\ ring' \in Seq(Tenants) /\ Len(ring') = Len(ring) - 1
                /\ \A i \in 1 .. Len(ring) - 1 : ring'[i] = IF i < j THEN ring[i] ELSE ring[i + 1]
  <2>1. PICK j \in 1 .. Len(ring) : ring[j] = t
    BY Zenon, <1>2, <1>3 DEF RingMatches
  <2>2. ring \in Seq(Tenants) /\ \A i \in 1 .. Len(ring) : ring[i] = t => i = j
    BY Zenon, <1>2, <2>1 DEF RingMatches, TypeOK
  <2>3. ring' = Remove(ring, t)
    BY Zenon, <1>1, <1>8, <1>10
  <2>4. /\ Remove(ring, t) \in Seq(Tenants) /\ Len(Remove(ring, t)) = Len(ring) - 1
        /\ \A i \in 1 .. Len(ring) - 1 :
             Remove(ring, t)[i] = IF i < j THEN ring[i] ELSE ring[i + 1]
    BY Zenon, <2>1, <2>2, RemoveOne
  <2> QED BY Zenon, <2>1, <2>3, <2>4
<1>11. Len(fifos[t]) # 1 => ring' = ring
  BY Zenon, <1>1, <1>8
<1>12. passed' = [u \in Tenants |-> IF u \in DOMAIN fifos' THEN passed[u] ELSE {}]
  BY Zenon, <1>1 DEF Forget
<1>13. Removed(t, k, fifos')
  BY <1>1, <1>9, Zenon
<1> QED BY Zenon, <1>1, <1>3, <1>4, <1>10, <1>11, <1>12, <1>13

-----------------------------------------------------------------------------
(* The table. *)

\* A step that leaves the table alone, and neither queues nor grants anybody.
LEMMA TableUntouched ==
  ASSUME TypeOK, Table, UNCHANGED <<fifos, ring, passed>>,
         Queued' = Queued, \A q \in Queued : tenant'[q] = tenant[q]
  PROVE  Table'
<1>1. \A u \in DOMAIN fifos : \A i \in 1 .. Len(fifos[u]) : fifos[u][i] \in Threads
  BY DEF TypeOK, Fair
<1>2. Placed'
  BY Zenon DEF Table, Placed
<1>3. Tickets'
  BY <1>1 DEF Table, Tickets
<1>4. RingMatches' /\ Turns'
  BY Zenon DEF Table, RingMatches, Turns
<1> QED BY Zenon, <1>2, <1>3, <1>4 DEF Table

\* A ticket leaves the table when its thread stops being queued.
LEMMA TicketLeaves ==
  ASSUME TypeOK, Placed, Tickets, NEW t \in DOMAIN fifos, NEW k \in 1 .. Len(fifos[t]),
         Removed(t, k, fifos'),
         Queued' = Queued \ {fifos[t][k]}, \A q \in Queued' : tenant'[q] = tenant[q]
  PROVE  Placed' /\ Tickets'
<1>1. \A u \in DOMAIN fifos : /\ fifos[u] \in Seq(Fair) /\ Len(fifos[u]) \in Nat
                              /\ \A i \in 1 .. Len(fifos[u]) : fifos[u][i] \in Threads
  BY DEF TypeOK, Fair
<1>2. /\ Len(fifos[t]) > 0
      /\ \A i \in 1 .. Len(fifos[t]) : fifos[t][i] \in Queued /\ tenant[fifos[t][i]] = t
      /\ \A i, j \in 1 .. Len(fifos[t]) : fifos[t][i] = fifos[t][j] => i = j
  BY Zenon DEF Tickets
<1>3. /\ DOMAIN fifos' \subseteq DOMAIN fifos
      /\ \A u \in DOMAIN fifos \ {t} : u \in DOMAIN fifos' /\ fifos'[u] = fifos[u]
  BY Zenon DEF Removed
<1>4. t \in DOMAIN fifos' =>
        /\ Len(fifos'[t]) = Len(fifos[t]) - 1
        /\ \A i \in 1 .. Len(fifos[t]) - 1 : fifos'[t][i] = IF i < k THEN fifos[t][i] ELSE fifos[t][i + 1]
  BY Zenon DEF Removed
<1>5. t \notin DOMAIN fifos' => Len(fifos[t]) = 1
  BY Zenon DEF Removed
<1>6. ASSUME t \in DOMAIN fifos'  PROVE Len(fifos[t]) > 1
  <2>1. Len(fifos[t]) # 1
    BY Zenon, <1>6 DEF Removed
  <2>2. Len(fifos[t]) \in Nat /\ Len(fifos[t]) > 0
    BY Zenon, <1>1, <1>2
  <2> QED BY <2>1, <2>2
<1>7. ASSUME NEW q \in Queued'
      PROVE  /\ tenant'[q] \in DOMAIN fifos'
             /\ \E i \in 1 .. Len(fifos'[tenant'[q]]) : fifos'[tenant'[q]][i] = q
  <2>1. q \in Queued /\ q # fifos[t][k] /\ tenant'[q] = tenant[q]
    BY Zenon, <1>7
  <2>2. tenant[q] \in DOMAIN fifos /\ \E i \in 1 .. Len(fifos[tenant[q]]) : fifos[tenant[q]][i] = q
    BY Zenon, <2>1 DEF Placed
  <2>3. CASE tenant[q] # t
    BY <2>1, <2>2, <2>3, <1>3
  <2>4. CASE tenant[q] = t
    <3>1. PICK i \in 1 .. Len(fifos[t]) : fifos[t][i] = q
      BY Zenon, <2>2, <2>4
    <3>2. i # k /\ t \in DOMAIN fifos'
      BY <2>1, <3>1, <1>1, <1>5
    <3>3. CASE i < k
      <4>1. i \in 1 .. Len(fifos[t]) - 1
        BY <3>3, <1>1
      <4> QED BY Zenon, <4>1, <3>1, <3>2, <3>3, <1>4, <2>1, <2>4
    <3>4. CASE i > k
      <4>1. i - 1 \in 1 .. Len(fifos[t]) - 1 /\ ~(i - 1 < k) /\ (i - 1) + 1 = i
        BY <3>4, <1>1
      <4>2. fifos'[t][i - 1] = q
        BY Zenon, <4>1, <3>1, <3>2, <1>4
      <4> QED BY Zenon, <4>1, <4>2, <3>2, <1>4, <2>1, <2>4
    <3> QED BY <3>2, <3>3, <3>4, <1>1
  <2> QED BY Zenon, <2>3, <2>4
<1>8. ASSUME NEW u \in DOMAIN fifos', u # t
      PROVE  /\ Len(fifos'[u]) > 0
             /\ \A i \in 1 .. Len(fifos'[u]) : fifos'[u][i] \in Queued' /\ tenant'[fifos'[u][i]] = u
             /\ \A i, j \in 1 .. Len(fifos'[u]) : fifos'[u][i] = fifos'[u][j] => i = j
  <2>1. u \in DOMAIN fifos /\ fifos'[u] = fifos[u]
    BY Zenon, <1>3, <1>8
  <2>2. /\ Len(fifos[u]) > 0
        /\ \A i \in 1 .. Len(fifos[u]) : fifos[u][i] \in Queued /\ tenant[fifos[u][i]] = u
        /\ \A i, j \in 1 .. Len(fifos[u]) : fifos[u][i] = fifos[u][j] => i = j
    BY Zenon, <2>1 DEF Tickets
  <2>3. \A i \in 1 .. Len(fifos[u]) : fifos[u][i] # fifos[t][k] /\ fifos[u][i] \in Threads
    BY <2>1, <2>2, <1>1, <1>2, <1>8
  <2> QED BY Zenon, <2>1, <2>2, <2>3
<1>9. ASSUME t \in DOMAIN fifos'
      PROVE  /\ Len(fifos'[t]) > 0
             /\ \A i \in 1 .. Len(fifos'[t]) : fifos'[t][i] \in Queued' /\ tenant'[fifos'[t][i]] = t
             /\ \A i, j \in 1 .. Len(fifos'[t]) : fifos'[t][i] = fifos'[t][j] => i = j
  <2> DEFINE old(i) == IF i < k THEN i ELSE i + 1
  <2>1. \A i \in 1 .. Len(fifos[t]) - 1 : /\ old(i) \in 1 .. Len(fifos[t]) /\ old(i) # k
                                          /\ fifos'[t][i] = fifos[t][old(i)]
    BY <1>1, <1>4, <1>9
  <2>2. \A i, j \in 1 .. Len(fifos[t]) - 1 : old(i) = old(j) => i = j
    BY <1>1
  <2> HIDE DEF old
  <2>3. Len(fifos'[t]) = Len(fifos[t]) - 1 /\ Len(fifos'[t]) > 0
    BY <1>1, <1>4, <1>6, <1>9
  <2>4. \A i \in 1 .. Len(fifos[t]) - 1 : /\ fifos'[t][i] # fifos[t][k] /\ fifos'[t][i] \in Threads
                                          /\ fifos'[t][i] \in Queued /\ tenant[fifos'[t][i]] = t
    BY <2>1, <1>1, <1>2
  <2>5. \A i \in 1 .. Len(fifos[t]) - 1 : fifos'[t][i] \in Queued' /\ tenant'[fifos'[t][i]] = t
    BY Zenon, <2>4
  <2>6. ASSUME NEW i \in 1 .. Len(fifos[t]) - 1, NEW j \in 1 .. Len(fifos[t]) - 1,
               fifos'[t][i] = fifos'[t][j]
        PROVE  i = j
    <3>1. fifos[t][old(i)] = fifos[t][old(j)] /\ old(i) \in 1 .. Len(fifos[t]) /\ old(j) \in 1 .. Len(fifos[t])
      BY Zenon, <2>1, <2>6
    <3>2. old(i) = old(j)
      BY Zenon, <3>1, <1>2
    <3> QED BY Zenon, <3>2, <2>2
  <2> QED BY Zenon, <2>3, <2>5, <2>6
<1>10. Placed'
  BY Zenon, <1>7 DEF Placed
<1>11. Tickets'
  BY <1>8, <1>9 DEF Tickets
<1> QED BY Zenon, <1>10, <1>11

\* A grant rotates the ring, or drops a drained tenant from its head.
LEMMA GrantTable ==
  ASSUME GateInv, NEW p \in Threads, Grant(p)
  PROVE  Table'
<1> DEFINE t == ring[1]
<1>1. /\ Len(ring) > 0 /\ t \in DOMAIN fifos /\ Len(fifos[t]) > 0
      /\ owner' = owner \cup {fifos[t][1]}
      /\ Removed(t, 1, fifos')
      /\ ring' = IF Len(fifos[t]) = 1 THEN Tail(ring) ELSE Append(Tail(ring), t)
      /\ passed' = [u \in Tenants |-> IF u \notin DOMAIN fifos' \/ u = t THEN {}
                                     ELSE passed[u] \cup {t}]
      /\ UNCHANGED <<pc, tenant>>
  BY GrantTakes, Zenon
<1>2. TypeOK /\ Placed /\ Tickets /\ RingMatches /\ Turns
  BY Zenon DEF GateInv, Table
<1>3. ring \in Seq(Tenants) /\ Len(ring) \in Nat /\ t \in Tenants /\ Len(fifos[t]) \in Nat
      /\ DOMAIN fifos \subseteq Tenants
  BY <1>1, <1>2 DEF TypeOK
<1>4. Placed' /\ Tickets'
  <2>1. Queued' = Queued \ {fifos[t][1]}
    BY Zenon, <1>1 DEF Queued
  <2>2. 1 \in 1 .. Len(fifos[t])
    BY <1>1, <1>3
  <2>3. \A q \in Queued' : tenant'[q] = tenant[q]
    BY Zenon, <1>1
  <2> QED BY Zenon, <2>1, <2>2, <2>3, <1>1, <1>2, TicketLeaves
<1>5. /\ DOMAIN fifos' = IF Len(fifos[t]) = 1 THEN DOMAIN fifos \ {t} ELSE DOMAIN fifos
  BY Zenon, <1>1 DEF Removed
<1>6. Tail(ring) \in Seq(Tenants) /\ Len(Tail(ring)) = Len(ring) - 1
      /\ \A i \in 1 .. Len(ring) - 1 : Tail(ring)[i] = ring[i + 1]
  BY <1>1, <1>3, TailLeaves, Zenon
<1>7. /\ \A i, j \in 1 .. Len(ring) : ring[i] = ring[j] => i = j
      /\ \A i \in 1 .. Len(ring) : ring[i] \in DOMAIN fifos
      /\ \A u \in DOMAIN fifos : \E i \in 1 .. Len(ring) : ring[i] = u
      /\ \A i, j \in 1 .. Len(ring) : ring[j] \in passed[ring[i]] => i < j
  BY Zenon, <1>2 DEF RingMatches, Turns
<1>8. \A u \in DOMAIN fifos' \ {t} : passed'[u] = passed[u] \cup {t}
  BY Zenon, <1>1, <1>3, <1>5
<1>9. \A u \in Tenants : u \notin DOMAIN fifos' \/ u = t => passed'[u] = {}
  BY Zenon, <1>1
<1>10. \A i \in 1 .. Len(ring) - 1 : ring[i + 1] # t /\ i + 1 \in 1 .. Len(ring)
  BY <1>1, <1>3, <1>7
<1>11. \A u \in DOMAIN fifos \ {t} : \E i \in 1 .. Len(ring) - 1 : ring[i + 1] = u
  <2> SUFFICES ASSUME NEW u \in DOMAIN fifos \ {t}
               PROVE  \E i \in 1 .. Len(ring) - 1 : ring[i + 1] = u
    BY Zenon
  <2>1. PICK i \in 1 .. Len(ring) : ring[i] = u
    BY Zenon, <1>7
  <2>2. i # 1 /\ i - 1 \in 1 .. Len(ring) - 1 /\ (i - 1) + 1 = i
    BY SMTT(20), <2>1, <1>3
  <2> QED BY Zenon, <2>1, <2>2
<1>12. CASE Len(fifos[t]) = 1
  <2>1. Len(ring') = Len(ring) - 1 /\ \A i \in 1 .. Len(ring) - 1 : ring'[i] = ring[i + 1]
    BY Zenon, <1>1, <1>6, <1>12
  <2>2. DOMAIN fifos' = DOMAIN fifos \ {t}
    BY Zenon, <1>5, <1>12
  <2>3. \A i, j \in 1 .. Len(ring') : ring'[i] = ring'[j] => i = j
    <3> SUFFICES ASSUME NEW i \in 1 .. Len(ring) - 1, NEW j \in 1 .. Len(ring) - 1, ring'[i] = ring'[j]
                 PROVE  i = j
      BY Zenon, <2>1
    <3>1. ring[i + 1] = ring[j + 1] /\ i + 1 \in 1 .. Len(ring) /\ j + 1 \in 1 .. Len(ring)
      BY Zenon, <2>1, <1>10
    <3>2. i + 1 = j + 1
      BY Zenon, <3>1, <1>7
    <3> QED BY <3>2, <1>3
  <2>4. /\ \A i \in 1 .. Len(ring') : ring'[i] \in DOMAIN fifos' \ {t}
        /\ \A u \in DOMAIN fifos' : \E i \in 1 .. Len(ring') : ring'[i] = u
    <3>1. \A i \in 1 .. Len(ring) - 1 : ring'[i] \in DOMAIN fifos \ {t}
      BY Zenon, <2>1, <1>7, <1>10
    <3>2. \A u \in DOMAIN fifos \ {t} : \E i \in 1 .. Len(ring) - 1 : ring'[i] = u
      BY <2>1, <1>11
    <3>3. \A u \in DOMAIN fifos' : u \in DOMAIN fifos \ {t}
      BY Zenon, <2>2
    <3> QED BY Zenon, <3>1, <3>2, <3>3, <2>1, <2>2
  <2>5. ASSUME NEW i \in 1 .. Len(ring'), NEW j \in 1 .. Len(ring'), ring'[j] \in passed'[ring'[i]]
        PROVE  i < j
    <3>1. ring'[i] = ring[i + 1] /\ ring'[j] = ring[j + 1] /\ i + 1 \in 1 .. Len(ring) /\ j + 1 \in 1 .. Len(ring)
      BY Zenon, <2>1, <1>10
    <3>2. ring'[j] # t /\ passed'[ring'[i]] = passed[ring'[i]] \cup {t}
      BY Zenon, <2>4, <1>8
    <3>3. i + 1 < j + 1
      <4>1. ring[j + 1] \in passed[ring[i + 1]]
        BY Zenon, <3>1, <3>2, <2>5
      <4> QED BY Zenon, <4>1, <3>1, <1>7
    <3> QED BY <3>3, <2>1, <1>3
  <2>6. RingMatches'
    BY Zenon, <2>3, <2>4 DEF RingMatches
  <2>7. Turns'
    BY Zenon, <2>5, <1>9 DEF Turns
  <2> QED BY Zenon, <2>6, <2>7, <1>4 DEF Table
<1>13. CASE Len(fifos[t]) # 1
  <2>1. /\ Len(ring') = Len(ring) /\ ring'[Len(ring)] = t
        /\ \A i \in 1 .. Len(ring) - 1 : ring'[i] = ring[i + 1]
    BY <1>1, <1>3, <1>6, <1>13
  <2>2. DOMAIN fifos' = DOMAIN fifos
    BY Zenon, <1>5, <1>13
  <2>3. \A i \in 1 .. Len(ring) : i # Len(ring) => i \in 1 .. Len(ring) - 1
    BY <1>3
  <2>4. \A i \in 1 .. Len(ring) : i # Len(ring) => ring'[i] # t
    BY Zenon, <2>1, <2>3, <1>10
  <2>5. ASSUME NEW i \in 1 .. Len(ring), NEW j \in 1 .. Len(ring), ring'[i] = ring'[j]
        PROVE  i = j
    <3>1. CASE i # Len(ring) /\ j # Len(ring)
      <4>1. ring[i + 1] = ring[j + 1] /\ i + 1 \in 1 .. Len(ring) /\ j + 1 \in 1 .. Len(ring)
        BY Zenon, <3>1, <2>1, <2>3, <2>5, <1>10
      <4>2. i + 1 = j + 1
        BY Zenon, <4>1, <1>7
      <4> QED BY <4>2, <1>3
    <3> QED BY Zenon, <3>1, <2>1, <2>4, <2>5
  <2>6. ASSUME NEW i \in 1 .. Len(ring)  PROVE ring'[i] \in DOMAIN fifos'
    <3>1. CASE i # Len(ring)
      BY Zenon, <3>1, <2>1, <2>2, <2>3, <1>7, <1>10
    <3> QED BY Zenon, <3>1, <2>1, <2>2, <1>1
  <2>7. ASSUME NEW u \in DOMAIN fifos'  PROVE \E i \in 1 .. Len(ring) : ring'[i] = u
    <3>1. CASE u = t
      BY <3>1, <2>1, <1>1, <1>3
    <3>2. CASE u # t
      <4>1. PICK i \in 1 .. Len(ring) - 1 : ring[i + 1] = u
        BY Zenon, <3>2, <2>2, <1>11
      <4>2. i \in 1 .. Len(ring) /\ ring'[i] = u
        BY <4>1, <2>1, <1>3
      <4> QED BY Zenon, <4>2
    <3> QED BY Zenon, <3>1, <3>2
  <2>8. ASSUME NEW i \in 1 .. Len(ring), NEW j \in 1 .. Len(ring), ring'[j] \in passed'[ring'[i]]
        PROVE  i < j
    <3>1. ring'[i] # t
      BY Zenon, <2>8, <1>3, <1>9
    <3>2. passed'[ring'[i]] = passed[ring'[i]] \cup {t} /\ i # Len(ring)
      BY Zenon, <3>1, <2>1, <2>6, <1>8
    <3>3. CASE j = Len(ring)
      BY <3>2, <3>3, <1>3
    <3>4. CASE j # Len(ring)
      <4>1. /\ ring'[i] = ring[i + 1] /\ ring'[j] = ring[j + 1]
            /\ i + 1 \in 1 .. Len(ring) /\ j + 1 \in 1 .. Len(ring) /\ ring'[j] # t
        BY Zenon, <3>2, <3>4, <2>1, <2>3, <2>4, <1>10
      <4>2. ring[j + 1] \in passed[ring[i + 1]]
        BY Zenon, <4>1, <3>2, <2>8
      <4>3. i + 1 < j + 1
        BY ZenonT(30), <4>1, <4>2, <1>7
      <4> QED BY <4>3, <1>3
    <3> QED BY Zenon, <3>3, <3>4
  <2>9. RingMatches'
    BY Zenon, <2>1, <2>5, <2>6, <2>7 DEF RingMatches
  <2>10. Turns'
    BY Zenon, <2>1, <2>8, <1>9 DEF Turns
  <2> QED BY Zenon, <2>9, <2>10, <1>4 DEF Table
<1> QED BY Zenon, <1>12, <1>13

\* A withdrawal takes a drained tenant out of the ring and keeps the order of the others.
LEMMA WithdrawTable ==
  ASSUME GateInv, NEW p \in Fair, Withdraw(p)
  PROVE  Table'
<1> DEFINE t == tenant[p]
<1>1. /\ pc[p] = "expired" /\ p \notin owner
      /\ t \in DOMAIN fifos
      /\ \E k \in 1 .. Len(fifos[t]) : fifos[t][k] = p /\ Removed(t, k, fifos')
      /\ IF Len(fifos[t]) = 1
         THEN \E k \in 1 .. Len(ring) :
                /\ ring[k] = t /\ ring' \in Seq(Tenants) /\ Len(ring') = Len(ring) - 1
                /\ \A i \in 1 .. Len(ring) - 1 : ring'[i] = IF i < k THEN ring[i] ELSE ring[i + 1]
         ELSE ring' = ring
      /\ passed' = [u \in Tenants |-> IF u \in DOMAIN fifos' THEN passed[u] ELSE {}]
      /\ pc' = [pc EXCEPT ![p] = "idle"] /\ tenant' = [tenant EXCEPT ![p] = None]
      /\ UNCHANGED owner
  BY WithdrawTakes, Zenon
<1>2. TypeOK /\ Placed /\ Tickets /\ RingMatches /\ Turns /\ p \in Threads
  BY Zenon DEF GateInv, Table, Fair
<1>3. ring \in Seq(Tenants) /\ Len(ring) \in Nat /\ t \in Tenants /\ DOMAIN fifos \subseteq Tenants
      /\ pc \in [Threads -> Labels] /\ tenant \in [Threads -> Tenants \cup {None}]
  BY <1>1, <1>2 DEF TypeOK
<1>4. PICK k \in 1 .. Len(fifos[t]) : fifos[t][k] = p /\ Removed(t, k, fifos')
  BY Zenon, <1>1
<1>5. Placed' /\ Tickets'
  <2>1. Queued' = Queued \ {fifos[t][k]}
    BY Zenon, <1>1, <1>2, <1>3, <1>4 DEF Queued
  <2>2. \A q \in Queued' : tenant'[q] = tenant[q]
    <3>1. \A q \in Queued' : q \in Threads /\ q # p
      BY Zenon, <2>1, <1>4 DEF Queued
    <3> QED BY Zenon, <3>1, <1>1, <1>3
  <2> QED BY Zenon, <2>1, <2>2, <1>1, <1>2, <1>4, TicketLeaves
<1>6. DOMAIN fifos' = IF Len(fifos[t]) = 1 THEN DOMAIN fifos \ {t} ELSE DOMAIN fifos
  BY Zenon, <1>4 DEF Removed
<1>7. /\ \A i, j \in 1 .. Len(ring) : ring[i] = ring[j] => i = j
      /\ \A i \in 1 .. Len(ring) : ring[i] \in DOMAIN fifos
      /\ \A u \in DOMAIN fifos : \E i \in 1 .. Len(ring) : ring[i] = u
      /\ \A i, j \in 1 .. Len(ring) : ring[j] \in passed[ring[i]] => i < j
      /\ \A u \in Tenants : u \notin DOMAIN fifos => passed[u] = {}
  BY Zenon, <1>2 DEF RingMatches, Turns
<1>8. /\ \A u \in Tenants : u \notin DOMAIN fifos' => passed'[u] = {}
      /\ \A u \in DOMAIN fifos' : passed'[u] = passed[u]
  BY Zenon, <1>1, <1>3, <1>6
<1>9. CASE Len(fifos[t]) # 1
  <2>1. ring' = ring /\ DOMAIN fifos' = DOMAIN fifos
    BY Zenon, <1>1, <1>6, <1>9
  <2>2. RingMatches'
    BY Zenon, <2>1, <1>7 DEF RingMatches
  <2>3. Turns'
    BY Zenon, <2>1, <1>7, <1>8 DEF Turns
  <2> QED BY Zenon, <2>2, <2>3, <1>5 DEF Table
<1>10. CASE Len(fifos[t]) = 1
  <2>1. PICK m \in 1 .. Len(ring) :
          /\ ring[m] = t /\ Len(ring') = Len(ring) - 1
          /\ \A i \in 1 .. Len(ring) - 1 : ring'[i] = IF i < m THEN ring[i] ELSE ring[i + 1]
    BY Zenon, <1>1, <1>10
  <2>2. DOMAIN fifos' = DOMAIN fifos \ {t}
    BY Zenon, <1>6, <1>10
  <2> DEFINE old(i) == IF i < m THEN i ELSE i + 1
  <2>3. \A i \in 1 .. Len(ring) - 1 : old(i) \in 1 .. Len(ring) /\ old(i) # m /\ ring'[i] = ring[old(i)]
    BY <2>1, <1>3
  <2>4. \A i, j \in 1 .. Len(ring) - 1 : /\ old(i) = old(j) => i = j
                                         /\ old(i) < old(j) => i < j
    BY <1>3
  <2>5. \A i \in 1 .. Len(ring) : i # m => \E j \in 1 .. Len(ring) - 1 : old(j) = i
    <3> SUFFICES ASSUME NEW i \in 1 .. Len(ring), i # m
                 PROVE  \E j \in 1 .. Len(ring) - 1 : old(j) = i
      BY Zenon
    <3>1. CASE i < m
      <4>1. i \in 1 .. Len(ring) - 1 /\ old(i) = i
        BY <3>1, <1>3
      <4> QED BY Zenon, <4>1
    <3>2. CASE i > m
      <4>1. i - 1 \in 1 .. Len(ring) - 1 /\ old(i - 1) = i
        BY <3>2, <1>3
      <4> QED BY Zenon, <4>1
    <3> QED BY <3>1, <3>2, <1>3
  <2> HIDE DEF old
  <2>6. ASSUME NEW i \in 1 .. Len(ring) - 1, NEW j \in 1 .. Len(ring) - 1, ring'[i] = ring'[j]
        PROVE  i = j
    <3>1. ring[old(i)] = ring[old(j)] /\ old(i) \in 1 .. Len(ring) /\ old(j) \in 1 .. Len(ring)
      BY Zenon, <2>3, <2>6
    <3>2. old(i) = old(j)
      BY Zenon, <3>1, <1>7
    <3> QED BY Zenon, <3>2, <2>4
  <2>7. ASSUME NEW i \in 1 .. Len(ring) - 1  PROVE ring'[i] \in DOMAIN fifos'
    <3>1. old(i) \in 1 .. Len(ring) /\ old(i) # m /\ ring'[i] = ring[old(i)]
      BY Zenon, <2>3
    <3>2. ring[old(i)] \in DOMAIN fifos /\ ring[old(i)] # t
      BY SMTT(20), <3>1, <2>1, <1>7
    <3> QED BY Zenon, <3>1, <3>2, <2>2
  <2>8. ASSUME NEW u \in DOMAIN fifos'  PROVE \E j \in 1 .. Len(ring) - 1 : ring'[j] = u
    <3>1. u \in DOMAIN fifos /\ u # t
      BY Zenon, <2>2
    <3>2. PICK i \in 1 .. Len(ring) : ring[i] = u
      BY Zenon, <3>1, <1>7
    <3>3. PICK j \in 1 .. Len(ring) - 1 : old(j) = i
      BY Zenon, <3>1, <3>2, <2>1, <2>5
    <3> QED BY Zenon, <3>2, <3>3, <2>3
  <2>9. ASSUME NEW i \in 1 .. Len(ring) - 1, NEW j \in 1 .. Len(ring) - 1, ring'[j] \in passed'[ring'[i]]
        PROVE  i < j
    <3>1. ring'[i] = ring[old(i)] /\ ring'[j] = ring[old(j)] /\ old(i) \in 1 .. Len(ring) /\ old(j) \in 1 .. Len(ring)
      BY Zenon, <2>3
    <3>2. passed'[ring'[i]] = passed[ring'[i]]
      BY Zenon, <2>7, <1>8
    <3>3. ring[old(j)] \in passed[ring[old(i)]]
      BY Zenon, <3>1, <3>2, <2>9
    <3>4. old(i) < old(j)
      BY Zenon, <3>1, <3>3, <1>7
    <3> QED BY Zenon, <3>4, <2>4
  <2>10. RingMatches'
    BY Zenon, <2>1, <2>6, <2>7, <2>8 DEF RingMatches
  <2>11. Turns'
    BY Zenon, <2>1, <2>9, <1>8 DEF Turns
  <2> QED BY Zenon, <2>10, <2>11, <1>5 DEF Table
<1> QED BY Zenon, <1>9, <1>10

\* An enqueue puts the ticket behind those of its tenant, and a new tenant behind the others.
LEMMA EnqueueTable ==
  ASSUME GateInv, NEW p \in Fair, NEW t \in Tenants, Enqueue(p, t)
  PROVE  Table'
<1>1. /\ pc[p] = "idle" /\ pc' = [pc EXCEPT ![p] = "enqueued"]
      /\ tenant' = [tenant EXCEPT ![p] = t] /\ UNCHANGED <<owner, passed>>
      /\ t \in DOMAIN fifos => fifos' = [fifos EXCEPT ![t] = Append(fifos[t], p)] /\ ring' = ring
      /\ t \notin DOMAIN fifos =>
           /\ fifos' = [u \in DOMAIN fifos \cup {t} |-> IF u = t THEN <<p>> ELSE fifos[u]]
           /\ ring' = Append(ring, t)
  BY Zenon DEF Enqueue, Goto
<1>2. TypeOK /\ Placed /\ Tickets /\ RingMatches /\ Turns /\ p \in Threads
  BY Zenon DEF GateInv, Table, Fair
<1>3. ring \in Seq(Tenants) /\ Len(ring) \in Nat /\ DOMAIN fifos \subseteq Tenants
      /\ pc \in [Threads -> Labels] /\ tenant \in [Threads -> Tenants \cup {None}]
      /\ fifos \in [DOMAIN fifos -> Seq(Fair)]
  BY <1>2 DEF TypeOK
<1>4. p \notin Queued /\ p \notin owner
  BY Zenon, <1>1, <1>2 DEF Queued, GateInv, Owners
<1>5. Queued' = Queued \cup {p}
  BY <1>1, <1>2, <1>3, <1>4 DEF Queued
<1>6. tenant'[p] = t /\ \A q \in Queued : tenant'[q] = tenant[q]
  <2>1. \A q \in Queued : q \in Threads /\ q # p
    BY Zenon, <1>4 DEF Queued
  <2> QED BY Zenon, <2>1, <1>1, <1>2, <1>3
<1>7. /\ \A i, j \in 1 .. Len(ring) : ring[i] = ring[j] => i = j
      /\ \A i \in 1 .. Len(ring) : ring[i] \in DOMAIN fifos
      /\ \A u \in DOMAIN fifos : \E i \in 1 .. Len(ring) : ring[i] = u
      /\ \A i, j \in 1 .. Len(ring) : ring[j] \in passed[ring[i]] => i < j
      /\ \A u \in Tenants : u \notin DOMAIN fifos => passed[u] = {}
  BY Zenon, <1>2 DEF RingMatches, Turns
<1>8. ASSUME NEW u \in DOMAIN fifos
      PROVE  /\ fifos[u] \in Seq(Fair) /\ Len(fifos[u]) \in Nat /\ Len(fifos[u]) > 0
             /\ \A i \in 1 .. Len(fifos[u]) :
                  fifos[u][i] \in Queued /\ tenant[fifos[u][i]] = u /\ fifos[u][i] # p
             /\ \A i, j \in 1 .. Len(fifos[u]) : fifos[u][i] = fifos[u][j] => i = j
  BY <1>2, <1>3, <1>4 DEF Tickets
<1>9. ASSUME NEW q \in Queued
      PROVE  tenant[q] \in DOMAIN fifos /\ \E i \in 1 .. Len(fifos[tenant[q]]) : fifos[tenant[q]][i] = q
  BY Zenon, <1>2 DEF Placed
<1>10. /\ t \in DOMAIN fifos' /\ DOMAIN fifos' = DOMAIN fifos \cup {t}
       /\ \A u \in DOMAIN fifos \ {t} : fifos'[u] = fifos[u]
  BY Zenon, <1>1, <1>3
<1>11. \E n \in Nat : /\ Len(fifos'[t]) = n + 1 /\ fifos'[t][n + 1] = p
                      /\ t \in DOMAIN fifos => n = Len(fifos[t]) /\ \A i \in 1 .. n : fifos'[t][i] = fifos[t][i]
                      /\ t \notin DOMAIN fifos => n = 0
  <2>1. CASE t \in DOMAIN fifos
    <3>1. fifos'[t] = Append(fifos[t], p) /\ fifos[t] \in Seq(Fair) /\ Len(fifos[t]) \in Nat
      BY <2>1, <1>1, <1>3
    <3>2. /\ Len(Append(fifos[t], p)) = Len(fifos[t]) + 1
          /\ Append(fifos[t], p)[Len(fifos[t]) + 1] = p
          /\ \A i \in 1 .. Len(fifos[t]) : Append(fifos[t], p)[i] = fifos[t][i]
      BY <3>1
    <3> QED BY Zenon, <3>1, <3>2, <2>1
  <2>2. CASE t \notin DOMAIN fifos
    <3>1. fifos'[t] = <<p>>
      BY Zenon, <2>2, <1>1
    <3>2. Len(<<p>>) = 0 + 1 /\ <<p>>[0 + 1] = p
      OBVIOUS
    <3> QED BY Zenon, <3>1, <3>2, <2>2
  <2> QED BY Zenon, <2>1, <2>2
<1>12. PICK n \in Nat : /\ Len(fifos'[t]) = n + 1 /\ fifos'[t][n + 1] = p
                        /\ t \in DOMAIN fifos => n = Len(fifos[t]) /\ \A i \in 1 .. n : fifos'[t][i] = fifos[t][i]
                        /\ t \notin DOMAIN fifos => n = 0
  BY Zenon, <1>11
<1>13. \A i \in 1 .. n + 1 : i = n + 1 \/ (i \in 1 .. n /\ t \in DOMAIN fifos)
  BY <1>12
<1>14. Placed'
  <2> SUFFICES ASSUME NEW q \in Queued'
               PROVE  /\ tenant'[q] \in DOMAIN fifos'
                      /\ \E i \in 1 .. Len(fifos'[tenant'[q]]) : fifos'[tenant'[q]][i] = q
    BY Zenon DEF Placed
  <2>1. CASE q = p
    BY <2>1, <1>6, <1>10, <1>12
  <2>2. CASE q # p
    <3>1. q \in Queued /\ tenant'[q] = tenant[q]
      BY Zenon, <2>2, <1>5, <1>6
    <3>2. PICK i \in 1 .. Len(fifos[tenant[q]]) : fifos[tenant[q]][i] = q
      BY Zenon, <3>1, <1>9
    <3>3. tenant[q] \in DOMAIN fifos
      BY Zenon, <3>1, <1>9
    <3>4. CASE tenant[q] = t
      <4>1. i \in 1 .. n /\ i \in 1 .. n + 1 /\ fifos'[t][i] = q
        BY <3>2, <3>3, <3>4, <1>12
      <4> QED BY Zenon, <4>1, <3>1, <3>4, <1>10, <1>12
    <3>5. CASE tenant[q] # t
      BY Zenon, <3>1, <3>2, <3>3, <3>5, <1>10
    <3> QED BY Zenon, <3>4, <3>5
  <2> QED BY Zenon, <2>1, <2>2
<1>15. ASSUME NEW u \in DOMAIN fifos', u # t
       PROVE  /\ Len(fifos'[u]) > 0
              /\ \A i \in 1 .. Len(fifos'[u]) : fifos'[u][i] \in Queued' /\ tenant'[fifos'[u][i]] = u
              /\ \A i, j \in 1 .. Len(fifos'[u]) : fifos'[u][i] = fifos'[u][j] => i = j
  <2>1. u \in DOMAIN fifos /\ fifos'[u] = fifos[u]
    BY Zenon, <1>10, <1>15
  <2>2. /\ Len(fifos[u]) > 0
        /\ \A i \in 1 .. Len(fifos[u]) : fifos[u][i] \in Queued /\ tenant[fifos[u][i]] = u
        /\ \A i, j \in 1 .. Len(fifos[u]) : fifos[u][i] = fifos[u][j] => i = j
    BY Zenon, <2>1, <1>8
  <2>3. \A i \in 1 .. Len(fifos[u]) : fifos[u][i] \in Queued' /\ tenant'[fifos[u][i]] = u
    BY Zenon, <2>2, <1>5, <1>6
  <2> QED BY Zenon, <2>1, <2>2, <2>3
<1>16. /\ Len(fifos'[t]) > 0
       /\ \A i \in 1 .. Len(fifos'[t]) : fifos'[t][i] \in Queued' /\ tenant'[fifos'[t][i]] = t
       /\ \A i, j \in 1 .. Len(fifos'[t]) : fifos'[t][i] = fifos'[t][j] => i = j
  <2>1. ASSUME t \in DOMAIN fifos, NEW i \in 1 .. n
        PROVE  /\ fifos'[t][i] = fifos[t][i] /\ i \in 1 .. Len(fifos[t])
               /\ fifos'[t][i] \in Queued /\ tenant[fifos'[t][i]] = t /\ fifos'[t][i] # p
    BY <2>1, <1>8, <1>12
  <2>2. \A i \in 1 .. n + 1 : fifos'[t][i] \in Queued' /\ tenant'[fifos'[t][i]] = t
    BY <2>1, <1>5, <1>6, <1>12, <1>13
  <2>3. ASSUME NEW i \in 1 .. n + 1, NEW j \in 1 .. n + 1, fifos'[t][i] = fifos'[t][j]
        PROVE  i = j
    <3>1. CASE i = n + 1 \/ j = n + 1
      BY Zenon, <3>1, <2>1, <2>3, <1>12, <1>13
    <3>2. CASE i # n + 1 /\ j # n + 1
      <4>1. t \in DOMAIN fifos /\ i \in 1 .. n /\ j \in 1 .. n
        BY Zenon, <3>2, <1>13
      <4>2. fifos[t][i] = fifos[t][j] /\ i \in 1 .. Len(fifos[t]) /\ j \in 1 .. Len(fifos[t])
        BY Zenon, <4>1, <2>1, <2>3
      <4> QED BY Zenon, <4>1, <4>2, <1>8
    <3> QED BY Zenon, <3>1, <3>2
  <2> QED BY <2>2, <2>3, <1>12
<1>17. Tickets'
  BY Zenon, <1>15, <1>16 DEF Tickets
<1>18. RingMatches' /\ Turns'
  <2>1. CASE t \in DOMAIN fifos
    <3>1. ring' = ring /\ DOMAIN fifos' = DOMAIN fifos
      BY Zenon, <2>1, <1>1, <1>10
    <3> QED BY Zenon, <3>1, <1>1, <1>7 DEF RingMatches, Turns
  <2>2. CASE t \notin DOMAIN fifos
    <3>1. Len(ring') = Len(ring) + 1 /\ ring'[Len(ring) + 1] = t /\ \A i \in 1 .. Len(ring) : ring'[i] = ring[i]
      BY <2>2, <1>1, <1>3
    <3>2. \A i \in 1 .. Len(ring) + 1 : i = Len(ring) + 1 \/ i \in 1 .. Len(ring)
      BY <1>3
    <3>3. passed[t] = {} /\ passed' = passed
      BY Zenon, <2>2, <1>1, <1>7
    <3>4. \A i \in 1 .. Len(ring) : ring'[i] # t
      BY Zenon, <3>1, <2>2, <1>7
    <3>5. \A i, j \in 1 .. Len(ring) + 1 : ring'[i] = ring'[j] => i = j
      BY Zenon, <3>1, <3>2, <3>4, <1>7
    <3>6. \A i \in 1 .. Len(ring) + 1 : ring'[i] \in DOMAIN fifos'
      BY Zenon, <3>1, <3>2, <1>7, <1>10
    <3>7. ASSUME NEW u \in DOMAIN fifos'  PROVE \E i \in 1 .. Len(ring) + 1 : ring'[i] = u
      <4>1. CASE u = t
        BY <4>1, <3>1, <1>3
      <4>2. CASE u # t
        <5>1. PICK i \in 1 .. Len(ring) : ring[i] = u
          BY Zenon, <4>2, <1>7, <1>10
        <5>2. i \in 1 .. Len(ring) + 1 /\ ring'[i] = u
          BY <5>1, <3>1, <1>3
        <5> QED BY Zenon, <5>2
      <4> QED BY Zenon, <4>1, <4>2
    <3>8. ASSUME NEW i \in 1 .. Len(ring) + 1, NEW j \in 1 .. Len(ring) + 1, ring'[j] \in passed'[ring'[i]]
          PROVE  i < j
      <4>1. i \in 1 .. Len(ring) /\ ring'[i] = ring[i]
        BY Zenon, <3>1, <3>2, <3>3, <3>8
      <4>2. CASE j = Len(ring) + 1
        BY <4>1, <4>2, <1>3
      <4>3. CASE j \in 1 .. Len(ring)
        BY Zenon, <4>1, <4>3, <3>1, <3>3, <3>8, <1>7
      <4> QED BY Zenon, <4>2, <4>3, <3>2
    <3>9. RingMatches'
      BY Zenon, <3>1, <3>5, <3>6, <3>7 DEF RingMatches
    <3>10. \A u \in Tenants : u \notin DOMAIN fifos' => passed'[u] = {}
      BY Zenon, <3>3, <1>7, <1>10
    <3> QED BY Zenon, <3>1, <3>8, <3>9, <3>10 DEF Turns
  <2> QED BY Zenon, <2>1, <2>2
<1> QED BY Zenon, <1>14, <1>17, <1>18 DEF Table

-----------------------------------------------------------------------------
(* Threads and permits. *)

\* Every action keeps the threads' places, the holder of the lock and the owners in step.
LEMMA NextThreads ==
  ASSUME GateInv, Next
  PROVE  Places' /\ Holder' /\ Owners'
<1> USE DEF Goto
<1>1. TypeOK /\ Places /\ Holder /\ Owners /\ Tickets
  BY Zenon DEF GateInv, Table
<1>2. pc \in [Threads -> Labels] /\ lock \in Threads \cup {None} /\ owner \subseteq Threads
      /\ Legacy \subseteq Threads /\ None \notin Threads
  BY Zenon, <1>1, GateAssumption DEF TypeOK
<1>3. CASE Reconfigure
  BY Zenon, <1>1, <1>3 DEF Reconfigure, Places, Holder, Owners
<1>4. ASSUME NEW p \in Fair, NEW t \in Tenants, Enqueue(p, t)
      PROVE  Places' /\ Holder' /\ Owners'
  BY Zenon, <1>1, <1>2, <1>4 DEF Enqueue, Places, Holder, Owners, Fair
<1>5. ASSUME NEW p \in Fair, Enter(p)  PROVE Places' /\ Holder' /\ Owners'
  BY Zenon, <1>1, <1>2, <1>5 DEF Enter, Places, Holder, Owners, Fair
<1>6. ASSUME NEW p \in Fair, TimeOut(p)  PROVE Places' /\ Holder' /\ Owners'
  BY Zenon, <1>1, <1>2, <1>6 DEF TimeOut, Places, Holder, Owners, Fair
<1>7. ASSUME NEW p \in Fair, HandBack(p)  PROVE Places' /\ Holder' /\ Owners'
  BY Zenon, <1>1, <1>2, <1>7 DEF HandBack, Places, Holder, Owners, Fair
<1>8. ASSUME NEW p \in Fair, Withdraw(p)  PROVE Places' /\ Holder' /\ Owners'
  BY Zenon, <1>1, <1>2, <1>8 DEF Withdraw, Places, Holder, Owners, Fair
<1>9. ASSUME NEW p \in Fair, Leave(p)  PROVE Places' /\ Holder' /\ Owners'
  BY Zenon, <1>1, <1>2, <1>9 DEF Leave, Places, Holder, Owners, Fair
<1>10. ASSUME NEW p \in Legacy, Ask(p)  PROVE Places' /\ Holder' /\ Owners'
  BY Zenon, <1>1, <1>2, <1>10 DEF Ask, Places, Holder, Owners
<1>11. ASSUME NEW p \in Legacy, AdmitLegacy(p)  PROVE Places' /\ Holder' /\ Owners'
  BY Zenon, <1>1, <1>2, <1>11 DEF AdmitLegacy, Places, Holder, Owners
<1>12. ASSUME NEW p \in Legacy, RefuseLegacy(p)  PROVE Places' /\ Holder' /\ Owners'
  BY Zenon, <1>1, <1>2, <1>12 DEF RefuseLegacy, Places, Holder, Owners
<1>13. ASSUME NEW p \in Legacy, GiveBack(p)  PROVE Places' /\ Holder' /\ Owners'
  BY Zenon, <1>1, <1>2, <1>13 DEF GiveBack, Places, Holder, Owners
<1>14. ASSUME NEW p \in Legacy, Redispatch(p)  PROVE Places' /\ Holder' /\ Owners'
  BY Zenon, <1>1, <1>2, <1>14 DEF Redispatch, Places, Holder, Owners
<1>15. ASSUME NEW p \in Threads, Grant(p)  PROVE Places' /\ Holder' /\ Owners'
  <2>1. /\ ring[1] \in DOMAIN fifos /\ Len(fifos[ring[1]]) > 0
        /\ owner' = owner \cup {fifos[ring[1]][1]} /\ UNCHANGED <<lock, pc>>
    BY <1>15, GrantTakes, Zenon
  <2>2. fifos[ring[1]] \in Seq(Fair)
    BY Zenon, <1>1, <2>1 DEF TypeOK
  <2>3. fifos[ring[1]][1] \in Queued
    BY <1>1, <2>1, <2>2 DEF Tickets
  <2> QED BY Zenon, <1>1, <2>1, <2>3 DEF Places, Holder, Owners, Queued
<1>16. ASSUME NEW p \in Threads, Dispatched(p)  PROVE Places' /\ Holder' /\ Owners'
  BY Zenon, <1>1, <1>2, <1>16 DEF Dispatched, Places, Holder, Owners
<1> QED BY SMTT(20), <1>3, <1>4, <1>5, <1>6, <1>7, <1>8, <1>9, <1>10, <1>11, <1>12, <1>13, <1>14, <1>15, <1>16 DEF Next

\* _ensure_gate keeps the balance: it only rebuilds the semaphore while nobody owns a permit.
LEMMA EnsuredBalance ==
  ASSUME GateInv
  PROVE  /\ EnsureGate \in [n : Ceilings, free : Nat] /\ EnsureGate.n = limit
         /\ EnsureGate.free <= EnsureGate.n
         /\ EnsureGate.free + Cardinality(owner) = EnsureGate.n
         /\ IsFiniteSet(owner) /\ Cardinality(owner) \in Nat
<1>1. gate \in [n : Ceilings, free : Nat] /\ gate.free <= gate.n /\ limit \in Ceilings
      /\ limit \in Nat /\ gate.n \in Nat /\ owner \subseteq Threads
      /\ gate.free + Cardinality(owner) = gate.n
      /\ (gate.n # limit => owner = {})
  BY Zenon, GateAssumption DEF GateInv, TypeOK, Balance, Resized
<1>2. IsFiniteSet(owner) /\ Cardinality(owner) \in Nat
  BY Zenon, <1>1, GateAssumption, FS_Subset, FS_CardinalityType
<1>3. Cardinality({}) = 0
  BY Zenon, FS_EmptySet
<1> QED BY <1>1, <1>2, <1>3 DEF EnsureGate

\* A permit that is free goes to a thread that owns none.
LEMMA AcquireBalance ==
  ASSUME NEW g \in [n : Ceilings, free : Nat], g.free > 0, g.free <= g.n,
         g.free + Cardinality(owner) = g.n, IsFiniteSet(owner), NEW p, p \notin owner
  PROVE  /\ Acquire(g) \in [n : Ceilings, free : Nat] /\ Acquire(g).n = g.n
         /\ Acquire(g).free <= g.n
         /\ Acquire(g).free + Cardinality(owner \cup {p}) = g.n
<1>1. Cardinality(owner) \in Nat /\ g.n \in Nat
  BY Zenon, FS_CardinalityType, GateAssumption
<1>2. Cardinality(owner \cup {p}) = Cardinality(owner) + 1
  BY Zenon, FS_AddElement
<1> QED BY <1>1, <1>2 DEF Acquire

\* The permit of an owner goes back: the semaphore was not full.
LEMMA ReleaseBalance ==
  ASSUME GateInv, NEW p \in owner
  PROVE  /\ ReleaseSlot(gate) \in [n : Ceilings, free : Nat] /\ ReleaseSlot(gate).n = gate.n
         /\ ReleaseSlot(gate).free <= gate.n
         /\ ReleaseSlot(gate).free + Cardinality(owner \ {p}) = gate.n
<1>1. gate \in [n : Ceilings, free : Nat] /\ gate.free <= gate.n /\ gate.n \in Nat
      /\ gate.free + Cardinality(owner) = gate.n
  BY Zenon, GateAssumption DEF GateInv, TypeOK, Balance
<1>2. IsFiniteSet(owner) /\ Cardinality(owner) \in Nat
  BY Zenon, EnsuredBalance
<1>3. Cardinality(owner \ {p}) = Cardinality(owner) - 1
  BY Zenon, <1>2, FS_RemoveElement
<1>4. Cardinality(owner) # 0
  BY Zenon, <1>2, FS_EmptySet
<1>5. gate.free < gate.n
  BY <1>1, <1>2, <1>4
<1> QED BY <1>1, <1>2, <1>3, <1>5 DEF ReleaseSlot

GateOK == gate \in [n : Ceilings, free : Nat] /\ gate.free <= gate.n /\ limit \in Ceilings

\* Every action keeps the permits balanced, and the semaphore at the ceiling once
\* somebody has passed it.
LEMMA NextPermits ==
  ASSUME GateInv, Next
  PROVE  GateOK' /\ Balance' /\ Resized'
<1> USE DEF Goto
<1>1. TypeOK /\ Holder /\ Owners /\ Balance /\ Resized /\ Placed /\ Tickets /\ GateOK
  BY Zenon DEF GateInv, Table, TypeOK, GateOK
<1>2. pc \in [Threads -> Labels] /\ owner \subseteq Threads /\ Legacy \subseteq Threads /\ Fair \subseteq Threads
  BY Zenon, <1>1, GateAssumption DEF TypeOK, Fair
<1>3. CASE Reconfigure
  <2>1. owner = {}
    BY Zenon, <1>1, <1>2, <1>3 DEF Reconfigure, Owners
  <2> QED BY Zenon, <1>1, <1>3, <2>1 DEF Reconfigure, GateOK, Balance, Resized
<1>4. ASSUME NEW p \in Fair, NEW t \in Tenants, Enqueue(p, t)
      PROVE  GateOK' /\ Balance' /\ Resized'
  BY Zenon, <1>1, <1>2, <1>4 DEF Enqueue, GateOK, Balance, Resized
<1>5. ASSUME NEW p \in Fair, Enter(p)  PROVE GateOK' /\ Balance' /\ Resized'
  BY Zenon, <1>1, <1>2, <1>5 DEF Enter, GateOK, Balance, Resized
<1>6. ASSUME NEW p \in Fair, TimeOut(p)  PROVE GateOK' /\ Balance' /\ Resized'
  BY Zenon, <1>1, <1>2, <1>6 DEF TimeOut, GateOK, Balance, Resized
<1>7. ASSUME NEW p \in owner, gate' = ReleaseSlot(gate), owner' = owner \ {p}, limit' = limit
      PROVE  GateOK' /\ Balance' /\ Resized'
  <2>1. gate.n = limit
    BY Zenon, <1>1 DEF Resized
  <2>2. /\ gate' \in [n : Ceilings, free : Nat] /\ gate'.n = gate.n /\ gate'.free <= gate.n
        /\ gate'.free + Cardinality(owner') = gate.n
    BY Zenon, <1>7, ReleaseBalance
  <2> QED BY Zenon, <2>1, <2>2, <1>1, <1>7 DEF GateOK, Balance, Resized
<1>8. ASSUME NEW p \in Fair, HandBack(p)  PROVE GateOK' /\ Balance' /\ Resized'
  BY Zenon, <1>7, <1>8 DEF HandBack
<1>9. ASSUME NEW p \in Fair, Withdraw(p)  PROVE GateOK' /\ Balance' /\ Resized'
  BY Zenon, <1>1, <1>2, <1>9 DEF Withdraw, GateOK, Balance, Resized
<1>10. ASSUME NEW p \in Fair, Leave(p)  PROVE GateOK' /\ Balance' /\ Resized'
  BY Zenon, <1>1, <1>2, <1>7, <1>10 DEF Leave, Owners
<1>11. ASSUME NEW p \in Legacy, Ask(p)  PROVE GateOK' /\ Balance' /\ Resized'
  <2>1. gate' = EnsureGate /\ UNCHANGED <<limit, owner>>
    BY Zenon, <1>11 DEF Ask
  <2> QED BY Zenon, <2>1, <1>1, EnsuredBalance DEF GateOK, Balance, Resized
<1>12. ASSUME NEW p \in Legacy, AdmitLegacy(p)  PROVE GateOK' /\ Balance' /\ Resized'
  <2>1. gate' = Acquire(gate) /\ owner' = owner \cup {p} /\ limit' = limit /\ gate.free > 0 /\ pc[p] = "asking"
    BY Zenon, <1>12 DEF AdmitLegacy
  <2>2. gate.n = limit /\ p \notin owner
    BY Zenon, <2>1, <1>1, <1>2 DEF Resized, Owners
  <2>3. IsFiniteSet(owner)
    BY Zenon, EnsuredBalance
  <2>4. /\ gate' \in [n : Ceilings, free : Nat] /\ gate'.n = gate.n /\ gate'.free <= gate.n
        /\ gate'.free + Cardinality(owner') = gate.n
    BY Zenon, <2>1, <2>2, <2>3, <1>1, AcquireBalance DEF GateOK, Balance
  <2> QED BY Zenon, <2>1, <2>2, <2>4, <1>1 DEF GateOK, Balance, Resized
<1>13. ASSUME NEW p \in Legacy, RefuseLegacy(p)  PROVE GateOK' /\ Balance' /\ Resized'
  BY Zenon, <1>1, <1>2, <1>13 DEF RefuseLegacy, GateOK, Balance, Resized
<1>14. ASSUME NEW p \in Legacy, GiveBack(p)  PROVE GateOK' /\ Balance' /\ Resized'
  BY Zenon, <1>1, <1>2, <1>7, <1>14 DEF GiveBack, Owners
<1>15. ASSUME NEW p \in Legacy, Redispatch(p)  PROVE GateOK' /\ Balance' /\ Resized'
  BY Zenon, <1>1, <1>2, <1>15 DEF Redispatch, GateOK, Balance, Resized
<1>16. ASSUME NEW p \in Threads, Grant(p)  PROVE GateOK' /\ Balance' /\ Resized'
  <2>1. /\ EnsureGate.free > 0 /\ gate' = Acquire(EnsureGate) /\ limit' = limit
        /\ ring[1] \in DOMAIN fifos /\ Len(fifos[ring[1]]) > 0
        /\ owner' = owner \cup {fifos[ring[1]][1]}
    BY <1>16, GrantTakes, Zenon
  <2>2. fifos[ring[1]] \in Seq(Fair)
    BY Zenon, <1>1, <2>1 DEF TypeOK
  <2>3. fifos[ring[1]][1] \notin owner
    BY <1>1, <2>1, <2>2 DEF Tickets, Queued
  <2>4. /\ EnsureGate \in [n : Ceilings, free : Nat] /\ EnsureGate.n = limit
        /\ EnsureGate.free <= EnsureGate.n /\ IsFiniteSet(owner)
        /\ EnsureGate.free + Cardinality(owner) = EnsureGate.n
    BY Zenon, EnsuredBalance
  <2> DEFINE g == EnsureGate
  <2> HIDE DEF g
  <2>5. /\ Acquire(g) \in [n : Ceilings, free : Nat] /\ Acquire(g).n = g.n
        /\ Acquire(g).free <= g.n
        /\ Acquire(g).free + Cardinality(owner \cup {fifos[ring[1]][1]}) = g.n
    BY Zenon, <2>1, <2>3, <2>4, AcquireBalance DEF g
  <2> QED BY Zenon, <2>1, <2>4, <2>5, <1>1 DEF GateOK, Balance, Resized, g
<1>17. ASSUME NEW p \in Threads, Dispatched(p)  PROVE GateOK' /\ Balance' /\ Resized'
  <2>1. /\ lock = p /\ gate' = (IF DOMAIN fifos = {} THEN gate ELSE EnsureGate)
        /\ UNCHANGED <<limit, owner>>
    BY Zenon, <1>17 DEF Dispatched
  <2>2. CASE DOMAIN fifos # {}
    BY Zenon, <2>1, <2>2, <1>1, EnsuredBalance DEF GateOK, Balance, Resized
  <2>3. CASE DOMAIN fifos = {}
    <3>1. pc[p] \in {"enqueued", "leaving"}
      BY Zenon, <2>1, <1>1 DEF Holder
    <3>2. pc[p] = "enqueued" => p \in owner
      BY Zenon, <2>3, <1>1 DEF Placed, Queued
    <3>3. gate.n = limit
      BY Zenon, <3>1, <3>2, <1>1 DEF Resized
    <3> QED BY Zenon, <3>3, <2>1, <2>3, <1>1 DEF GateOK, Balance, Resized
  <2> QED BY Zenon, <2>2, <2>3
<1> QED BY Zenon, <1>3, <1>4, <1>5, <1>6, <1>8, <1>9, <1>10, <1>11, <1>12, <1>13, <1>14, <1>15, <1>16, <1>17 DEF Next

-----------------------------------------------------------------------------
(* The inductive step. *)

\* Every action keeps the table well formed.
LEMMA NextTable ==
  ASSUME GateInv, Next
  PROVE  Table'
<1> USE DEF Goto
<1>1. TypeOK /\ Table /\ Holder /\ Owners
  BY Zenon DEF GateInv
<1>2. pc \in [Threads -> Labels] /\ tenant \in [Threads -> Tenants \cup {None}]
      /\ Legacy \subseteq Threads /\ Fair \subseteq Threads
  BY Zenon, <1>1, GateAssumption DEF TypeOK, Fair
<1>3. ASSUME UNCHANGED <<fifos, ring, passed, tenant>>, Queued' = Queued  PROVE Table'
  BY Zenon, <1>1, <1>3, TableUntouched
<1>4. CASE Reconfigure
  BY Zenon, <1>3, <1>4 DEF Reconfigure, Queued
<1>5. ASSUME NEW p \in Fair, UNCHANGED <<fifos, ring, passed>>, p \notin Queued,
             tenant' = [tenant EXCEPT ![p] = None], Queued' = Queued
      PROVE  Table'
  <2>1. \A q \in Queued : tenant'[q] = tenant[q]
    BY Zenon, <1>2, <1>5 DEF Queued
  <2> QED BY Zenon, <2>1, <1>1, <1>5, TableUntouched
<1>6. ASSUME NEW p \in Fair, Enter(p)  PROVE Table'
  <2>1. p \notin Queued /\ Queued' = Queued
    BY Zenon, <1>2, <1>6 DEF Enter, Queued
  <2> QED BY Zenon, <2>1, <1>5, <1>6 DEF Enter, Keyless
<1>7. ASSUME NEW p \in Fair, TimeOut(p)  PROVE Table'
  <2>1. Queued' = Queued
    BY Zenon, <1>2, <1>7 DEF TimeOut, Queued
  <2> QED BY Zenon, <2>1, <1>3, <1>7 DEF TimeOut
<1>8. ASSUME NEW p \in Fair, HandBack(p)  PROVE Table'
  <2>1. p \notin Queued /\ Queued' = Queued
    BY Zenon, <1>2, <1>8 DEF HandBack, Queued
  <2> QED BY Zenon, <2>1, <1>5, <1>8 DEF HandBack, Keyless
<1>9. ASSUME NEW p \in Threads, pc[p] \notin {"enqueued", "waiting", "expired"},
             pc'[p] \notin {"enqueued", "waiting", "expired"},
             \A q \in Threads \ {p} : pc'[q] = pc[q] /\ (q \in owner' <=> q \in owner)
      PROVE  Queued' = Queued
  BY Zenon, <1>9 DEF Queued
<1>10. ASSUME NEW p \in Fair, Leave(p)  PROVE Table'
  <2>1. Queued' = Queued
    BY Zenon, <1>2, <1>9, <1>10 DEF Leave
  <2> QED BY Zenon, <2>1, <1>3, <1>10 DEF Leave
<1>11. ASSUME NEW p \in Legacy, Ask(p)  PROVE Table'
  <2>1. Queued' = Queued
    BY Zenon, <1>2, <1>9, <1>11 DEF Ask
  <2> QED BY Zenon, <2>1, <1>3, <1>11 DEF Ask
<1>12. ASSUME NEW p \in Legacy, AdmitLegacy(p)  PROVE Table'
  <2>1. Queued' = Queued
    BY Zenon, <1>2, <1>9, <1>12 DEF AdmitLegacy
  <2> QED BY Zenon, <2>1, <1>3, <1>12 DEF AdmitLegacy
<1>13. ASSUME NEW p \in Legacy, RefuseLegacy(p)  PROVE Table'
  <2>1. Queued' = Queued
    BY Zenon, <1>2, <1>9, <1>13 DEF RefuseLegacy
  <2> QED BY Zenon, <2>1, <1>3, <1>13 DEF RefuseLegacy
<1>14. ASSUME NEW p \in Legacy, GiveBack(p)  PROVE Table'
  <2>1. Queued' = Queued
    BY Zenon, <1>2, <1>9, <1>14 DEF GiveBack
  <2> QED BY Zenon, <2>1, <1>3, <1>14 DEF GiveBack
<1>15. ASSUME NEW p \in Legacy, Redispatch(p)  PROVE Table'
  <2>1. Queued' = Queued
    BY Zenon, <1>2, <1>9, <1>15 DEF Redispatch
  <2> QED BY Zenon, <2>1, <1>3, <1>15 DEF Redispatch
<1>16. ASSUME NEW p \in Threads, Dispatched(p)  PROVE Table'
  <2>1. pc[p] \in {"enqueued", "leaving"}
    BY Zenon, <1>1, <1>16 DEF Dispatched, Holder
  <2>2. Queued' = Queued
    BY Zenon, <2>1, <1>2, <1>16 DEF Dispatched, Queued
  <2> QED BY Zenon, <2>2, <1>3, <1>16 DEF Dispatched
<1> QED
  BY Zenon, <1>4, <1>6, <1>7, <1>8, <1>10, <1>11, <1>12, <1>13, <1>14, <1>15, <1>16,
     EnqueueTable, WithdrawTable, GrantTable DEF Next

\* No lost wakeup: whoever ends the dispatcher has found no free permit or no ticket,
\* and who frees a permit holds the lock or is on its way to it.
LEMMA NextWakes ==
  ASSUME GateInv, Next
  PROVE  NoIdlePermit'
<1> USE DEF Goto
<1>1. TypeOK /\ Places /\ Holder /\ Resized /\ Tickets /\ RingMatches /\ NoIdlePermit
  BY Zenon DEF GateInv, Table
<1>2. pc \in [Threads -> Labels] /\ lock \in Threads \cup {None} /\ Legacy \subseteq Threads
      /\ Fair \subseteq Threads /\ None \notin Threads
  BY Zenon, <1>1, GateAssumption DEF TypeOK, Fair
<1>3. CASE Reconfigure
  BY Zenon, <1>1, <1>3 DEF Reconfigure, NoIdlePermit
<1>4. ASSUME NEW p \in Threads, lock' = p  PROVE NoIdlePermit'
  BY Zenon, <1>2, <1>4 DEF NoIdlePermit
<1>5. ASSUME NEW p \in Fair, Enter(p)  PROVE NoIdlePermit'
  BY Zenon, <1>1, <1>2, <1>5 DEF Enter, NoIdlePermit, Places, Fair
<1>6. ASSUME NEW p \in Fair, TimeOut(p)  PROVE NoIdlePermit'
  BY Zenon, <1>1, <1>2, <1>6 DEF TimeOut, NoIdlePermit, Places, Fair
<1>7. ASSUME NEW p \in Fair, Withdraw(p)  PROVE NoIdlePermit'
  <2>1. /\ DOMAIN fifos # {} /\ UNCHANGED <<gate, lock>> /\ pc' = [pc EXCEPT ![p] = "idle"]
    BY Zenon, <1>7, WithdrawTakes
  <2>2. \A q \in Legacy : pc'[q] = pc[q]
    BY Zenon, <2>1, <1>2 DEF Fair
  <2> QED BY Zenon, <2>1, <2>2, <1>1 DEF NoIdlePermit
<1>8. ASSUME NEW p \in Legacy, Ask(p)  PROVE NoIdlePermit'
  <2>1. /\ pc[p] = "idle" /\ gate' = EnsureGate /\ pc' = [pc EXCEPT ![p] = "asking"]
        /\ UNCHANGED <<fifos, lock>>
    BY Zenon, <1>8 DEF Ask
  <2>2. \A q \in Legacy : pc[q] = "released" => pc'[q] = "released"
    BY Zenon, <2>1, <1>2
  <2>3. CASE gate.n = limit
    BY Zenon, <2>1, <2>2, <2>3, <1>1 DEF EnsureGate, NoIdlePermit
  <2>4. CASE gate.n # limit
    <3>1. ASSUME NEW t \in DOMAIN fifos  PROVE lock # None
      <4>1. fifos[t] \in Seq(Fair) /\ Len(fifos[t]) > 0
        BY Zenon, <1>1 DEF TypeOK, Tickets
      <4>2. fifos[t][1] \in Queued
        BY <4>1, <1>1 DEF Tickets
      <4>3. lock = fifos[t][1] /\ fifos[t][1] \in Threads
        BY Zenon, <4>2, <2>4, <1>1 DEF Resized, Holder, Queued
      <4> QED BY Zenon, <4>3, <1>2
    <3> QED BY Zenon, <3>1, <2>1 DEF NoIdlePermit
  <2> QED BY Zenon, <2>3, <2>4
<1>9. ASSUME NEW p \in Legacy, AdmitLegacy(p)  PROVE NoIdlePermit'
  <2>1. /\ pc[p] = "asking" /\ gate.free > 0 /\ pc' = [pc EXCEPT ![p] = "inside"]
        /\ UNCHANGED <<fifos, lock>>
    BY Zenon, <1>9 DEF AdmitLegacy
  <2>2. \A q \in Legacy : pc[q] = "released" => pc'[q] = "released"
    BY Zenon, <2>1, <1>2
  <2> QED BY Zenon, <2>1, <2>2, <1>1 DEF NoIdlePermit
<1>10. ASSUME NEW p \in Legacy, RefuseLegacy(p)  PROVE NoIdlePermit'
  BY Zenon, <1>1, <1>2, <1>10 DEF RefuseLegacy, NoIdlePermit
<1>11. ASSUME NEW p \in Legacy, GiveBack(p)  PROVE NoIdlePermit'
  BY Zenon, <1>2, <1>11 DEF GiveBack, NoIdlePermit
<1>12. ASSUME NEW p \in Threads, Grant(p)  PROVE NoIdlePermit'
  <2>1. lock' = p
    BY Zenon, <1>12 DEF Grant
  <2> QED BY Zenon, <2>1, <1>4
<1>13. ASSUME NEW p \in Threads, Dispatched(p)  PROVE NoIdlePermit'
  <2>1. /\ DOMAIN fifos = {} \/ EnsureGate.free = 0 \/ Pickable = {}
        /\ gate' = (IF DOMAIN fifos = {} THEN gate ELSE EnsureGate) /\ UNCHANGED fifos
    BY Zenon, <1>13 DEF Dispatched
  <2>2. CASE DOMAIN fifos = {}
    BY Zenon, <2>1, <2>2 DEF NoIdlePermit
  <2>3. CASE DOMAIN fifos # {} /\ EnsureGate.free = 0
    BY <2>1, <2>3 DEF NoIdlePermit
  <2>4. CASE DOMAIN fifos # {} /\ Pickable = {}
    <3>1. Len(ring) > 0 /\ ring[1] \in DOMAIN fifos /\ ring \in Seq(Tenants)
      BY Zenon, <2>4, <1>1, PickFirst DEF TypeOK
    <3>2. fifos[ring[1]] # <<>>
      BY <3>1, <1>1 DEF Tickets
    <3>3. 1 \in Pickable
      BY <3>1, <3>2 DEF Pickable
    <3> QED BY Zenon, <3>3, <2>4
  <2> QED BY Zenon, <2>1, <2>2, <2>3, <2>4
<1>14. ASSUME NEW p \in Fair, HandBack(p)  PROVE NoIdlePermit'
  BY Zenon, <1>2, <1>4, <1>14 DEF HandBack
<1>15. ASSUME NEW p \in Fair, Leave(p)  PROVE NoIdlePermit'
  BY Zenon, <1>2, <1>4, <1>15 DEF Leave
<1>16. ASSUME NEW p \in Legacy, Redispatch(p)  PROVE NoIdlePermit'
  BY Zenon, <1>2, <1>4, <1>16 DEF Redispatch
<1>17. ASSUME NEW p \in Fair, NEW t \in Tenants, Enqueue(p, t)  PROVE NoIdlePermit'
  BY Zenon, <1>2, <1>4, <1>17 DEF Enqueue
<1> QED BY Zenon, <1>3, <1>5, <1>6, <1>7, <1>8, <1>9, <1>10, <1>11, <1>12, <1>13, <1>14, <1>15, <1>16, <1>17 DEF Next

\* Every action keeps the types.
LEMMA NextTyped ==
  ASSUME GateInv, Next
  PROVE  TypeOK'
<1> USE DEF Goto, Keyless
<1>1. TypeOK /\ Tickets
  BY Zenon DEF GateInv, Table
<1>2. GateOK'
  BY Zenon, NextPermits
<1>3. /\ pc \in [Threads -> Labels] /\ tenant \in [Threads -> Tenants \cup {None}]
      /\ lock \in Threads \cup {None} /\ owner \subseteq Threads /\ ring \in Seq(Tenants)
      /\ DOMAIN fifos \subseteq Tenants /\ fifos \in [DOMAIN fifos -> Seq(Fair)]
      /\ passed \in [Tenants -> SUBSET Tenants]
      /\ Legacy \subseteq Threads /\ Fair \subseteq Threads
  BY Zenon, <1>1, GateAssumption DEF TypeOK, Fair
<1>4. (lock \in Threads \cup {None})' /\ (owner \subseteq Threads)'
  <2>1. ASSUME NEW p \in Threads, Grant(p)  PROVE lock' = lock /\ owner' \subseteq Threads
    <3>1. /\ ring[1] \in DOMAIN fifos /\ Len(fifos[ring[1]]) > 0 /\ lock' = lock
          /\ owner' = owner \cup {fifos[ring[1]][1]}
      BY <2>1, GrantTakes, Zenon
    <3>2. fifos[ring[1]] \in Seq(Fair) /\ fifos[ring[1]][1] \in Fair
      BY <3>1, <1>3
    <3> QED BY Zenon, <3>1, <3>2, <1>3
  <2> QED
    BY Zenon, <2>1, <1>3 DEF Next, Reconfigure, Enqueue, Enter, TimeOut, HandBack, Withdraw, Leave, Ask,
                      AdmitLegacy, RefuseLegacy, GiveBack, Redispatch, Dispatched
<1>5. (pc \in [Threads -> Labels])'
  BY Zenon, <1>3 DEF Next, Reconfigure, Enqueue, Enter, TimeOut, HandBack, Withdraw, Leave, Ask,
              AdmitLegacy, RefuseLegacy, GiveBack, Redispatch, Dispatched, Grant, Labels
<1>6. (tenant \in [Threads -> Tenants \cup {None}])'
  BY ZenonT(30), <1>3 DEF Next, Reconfigure, Enqueue, Enter, TimeOut, HandBack, Withdraw, Leave, Ask,
              AdmitLegacy, RefuseLegacy, GiveBack, Redispatch, Dispatched, Grant
<1> DEFINE TableTypes == /\ DOMAIN fifos \subseteq Tenants /\ fifos \in [DOMAIN fifos -> Seq(Fair)]
                         /\ ring \in Seq(Tenants) /\ passed \in [Tenants -> SUBSET Tenants]
<1>7. TableTypes'
  <2>1. CASE UNCHANGED <<fifos, ring, passed>>
    BY Zenon, <2>1, <1>3
  <2>2. ASSUME NEW p \in Fair, NEW t \in Tenants, Enqueue(p, t)  PROVE TableTypes'
    <3>1. CASE t \in DOMAIN fifos
      <4>1. fifos' = [fifos EXCEPT ![t] = Append(fifos[t], p)] /\ ring' = ring /\ passed' = passed
        BY Zenon, <2>2, <3>1 DEF Enqueue
      <4>2. Append(fifos[t], p) \in Seq(Fair)
        BY <3>1, <1>3
      <4> QED BY Zenon, <4>1, <4>2, <1>3
    <3>2. CASE t \notin DOMAIN fifos
      <4>1. /\ fifos' = [u \in DOMAIN fifos \cup {t} |-> IF u = t THEN <<p>> ELSE fifos[u]]
            /\ ring' = Append(ring, t) /\ passed' = passed
        BY Zenon, <2>2, <3>2 DEF Enqueue
      <4>2. <<p>> \in Seq(Fair) /\ Append(ring, t) \in Seq(Tenants)
        BY <1>3
      <4> QED BY Zenon, <4>1, <4>2, <1>3
    <3> QED BY Zenon, <3>1, <3>2
  <2>3. ASSUME NEW p \in Fair, Withdraw(p)  PROVE TableTypes'
    <3> DEFINE t == tenant[p]
    <3>1. /\ t \in DOMAIN fifos
          /\ \E k \in 1 .. Len(fifos[t]) : fifos[t][k] = p /\ Removed(t, k, fifos')
          /\ IF Len(fifos[t]) = 1
             THEN \E k \in 1 .. Len(ring) :
                    /\ ring[k] = t /\ ring' \in Seq(Tenants) /\ Len(ring') = Len(ring) - 1
                    /\ \A i \in 1 .. Len(ring) - 1 : ring'[i] = IF i < k THEN ring[i] ELSE ring[i + 1]
             ELSE ring' = ring
          /\ passed' = [u \in Tenants |-> IF u \in DOMAIN fifos' THEN passed[u] ELSE {}]
      BY <2>3, WithdrawTakes, Zenon
    <3>2. DOMAIN fifos' \subseteq DOMAIN fifos /\ fifos' \in [DOMAIN fifos' -> Seq(Fair)]
      BY Zenon, <3>1 DEF Removed
    <3>3. ring' \in Seq(Tenants)
      BY Zenon, <3>1, <1>3
    <3>4. passed' \in [Tenants -> SUBSET Tenants]
      BY Zenon, <3>1, <1>3
    <3> QED BY Zenon, <3>2, <3>3, <3>4, <1>3
  <2>4. ASSUME NEW p \in Threads, Grant(p)  PROVE TableTypes'
    <3> DEFINE t == ring[1]
    <3>1. /\ Len(ring) > 0 /\ t \in DOMAIN fifos
          /\ Removed(t, 1, fifos')
          /\ ring' = IF Len(fifos[t]) = 1 THEN Tail(ring) ELSE Append(Tail(ring), t)
          /\ passed' = [u \in Tenants |-> IF u \notin DOMAIN fifos' \/ u = t THEN {}
                                         ELSE passed[u] \cup {t}]
      BY <2>4, GrantTakes, Zenon
    <3>2. DOMAIN fifos' \subseteq DOMAIN fifos /\ fifos' \in [DOMAIN fifos' -> Seq(Fair)]
      BY Zenon, <3>1 DEF Removed
    <3>3. t \in Tenants
      BY Zenon, <3>1, <1>3
    <3>4. Tail(ring) \in Seq(Tenants) /\ Append(Tail(ring), t) \in Seq(Tenants)
      BY <3>1, <3>3, <1>3
    <3>5. passed' \in [Tenants -> SUBSET Tenants]
      BY Zenon, <3>1, <3>3, <1>3
    <3> QED BY Zenon, <3>1, <3>2, <3>4, <3>5, <1>3
  <2> HIDE DEF TableTypes
  <2> QED
    BY Zenon, <2>1, <2>2, <2>3, <2>4 DEF Next, Reconfigure, Enter, TimeOut, HandBack, Leave, Ask,
                      AdmitLegacy, RefuseLegacy, GiveBack, Redispatch, Dispatched
<1> QED BY Zenon, <1>2, <1>4, <1>5, <1>6, <1>7 DEF TypeOK, GateOK

\* The invariant holds of an idle gate.
LEMMA InitGate == Init => GateInv
<1> SUFFICES ASSUME Init  PROVE GateInv
  BY Zenon
<1>1. /\ fifos = [t \in {} |-> <<>>] /\ ring = <<>>
      /\ limit \in Ceilings /\ gate = [n |-> limit, free |-> limit]
      /\ lock = None /\ pc = [p \in Threads |-> "idle"] /\ tenant = [p \in Threads |-> None]
      /\ owner = {} /\ passed = [t \in Tenants |-> {}] /\ limit \in Nat /\ None \notin Threads
  BY Zenon, GateAssumption DEF Init
<1>2. DOMAIN fifos = {} /\ Len(ring) = 0
  BY Zenon, <1>1
<1>3. TypeOK
  BY <1>1, <1>2 DEF TypeOK, Labels
<1>4. Places /\ Holder /\ Owners /\ Resized
  BY Zenon, <1>1 DEF Places, Holder, Owners, Resized
<1>5. Balance
  BY <1>1, FS_EmptySet DEF Balance
<1>6. Queued = {}
  BY Zenon, <1>1 DEF Queued
<1>7. Table
  BY <1>1, <1>2, <1>6 DEF Table, Placed, Tickets, RingMatches, Turns
<1>8. NoIdlePermit
  BY Zenon, <1>2 DEF NoIdlePermit
<1> QED BY Zenon, <1>3, <1>4, <1>5, <1>7, <1>8 DEF GateInv

\* GateInv is an invariant of the gate.
THEOREM GateInvariant == Spec => []GateInv
<1>1. Init => GateInv
  BY Zenon, InitGate
<1>2. GateInv /\ [Next]_vars => GateInv'
  <2> SUFFICES ASSUME GateInv, [Next]_vars  PROVE GateInv'
    BY Zenon
  <2>1. CASE Next
    <3>1. TypeOK'
      BY Zenon, <2>1, NextTyped
    <3>2. (Places /\ Holder /\ Owners)'
      BY Zenon, <2>1, NextThreads
    <3>3. (Balance /\ Resized)'
      BY Zenon, <2>1, NextPermits
    <3>4. Table' /\ NoIdlePermit'
      BY Zenon, <2>1, NextTable, NextWakes
    <3> QED BY Zenon, <3>1, <3>2, <3>3, <3>4 DEF GateInv
  <2>2. CASE UNCHANGED vars
    <3>1. Queued' = Queued
      BY Zenon, <2>2 DEF vars, Queued
    <3>2. Table'
      BY Zenon, <2>2, <3>1, TableUntouched DEF vars, GateInv
    <3> QED BY Zenon, <2>2, <3>2 DEF vars, GateInv, TypeOK, Places, Holder, Owners, Balance, Resized, NoIdlePermit
  <2> QED BY Zenon, <2>1, <2>2
<1> QED BY <1>1, <1>2, PTL DEF Spec

\* The types, for any threads, tenants and ceilings.
THEOREM TypeCorrect == Spec => []TypeOK
<1>1. GateInv => TypeOK
  BY Zenon DEF GateInv
<1> QED BY <1>1, GateInvariant, PTL

\* Permits balance whatever grants, timeouts and the two kinds of release
\* (fair_admit's under the lock, admit's outside it) interleave.
THEOREM PermitsBalanced == Spec => []PermitsBalance
<1>1. GateInv => PermitsBalance
  BY Zenon DEF GateInv, Balance, Owners, PermitsBalance
<1> QED BY <1>1, GateInvariant, PTL

\* When the lock is free the FIFOs hold exactly the tickets that wait: a caller
\* that got QueueFull left none behind, a granted one is in none.
THEOREM TicketsMatch == Spec => []TicketsMatchWaiters
<1>1. GateInv => TicketsMatchWaiters
  <2> SUFFICES ASSUME GateInv, lock = None  PROVE
        /\ IsInjective(ring) /\ Range(ring) = DOMAIN fifos
        /\ \A t \in DOMAIN fifos : fifos[t] # <<>> /\ IsInjective(fifos[t])
        /\ \A p \in Fair : (pc[p] \in {"waiting", "expired"} /\ p \notin owner) <=>
                           (\E t \in DOMAIN fifos : p \in Range(fifos[t]))
    BY Zenon DEF TicketsMatchWaiters
  <2>1. TypeOK /\ Holder /\ Placed /\ Tickets /\ RingMatches
    BY Zenon DEF GateInv, Table
  <2>2. /\ ring \in Seq(Tenants) /\ fifos \in [DOMAIN fifos -> Seq(Fair)]
        /\ Fair \subseteq Threads /\ None \notin Threads
    BY Zenon, <2>1, GateAssumption DEF TypeOK, Fair
  <2>3. DOMAIN ring = 1 .. Len(ring) /\ \A t \in DOMAIN fifos : DOMAIN fifos[t] = 1 .. Len(fifos[t])
    BY <2>2
  <2>4. IsInjective(ring)
    BY Zenon, <2>1, <2>3 DEF IsInjective, RingMatches
  <2>5. Range(ring) = DOMAIN fifos
    <3> DEFINE R == {ring[i] : i \in 1 .. Len(ring)}
    <3>1. Range(ring) = R
      BY Zenon, <2>3 DEF Range
    <3>2. R \subseteq DOMAIN fifos
      BY <2>1 DEF RingMatches
    <3>3. DOMAIN fifos \subseteq R
      BY Zenon, <2>1 DEF RingMatches
    <3> HIDE DEF R
    <3> QED BY Zenon, <3>1, <3>2, <3>3
  <2>6. ASSUME NEW t \in DOMAIN fifos  PROVE fifos[t] # <<>> /\ IsInjective(fifos[t])
    BY <2>1, <2>3 DEF Tickets, IsInjective
  <2>7. ASSUME NEW p \in Fair
        PROVE  (pc[p] \in {"waiting", "expired"} /\ p \notin owner) <=> p \in Queued
    BY Zenon, <2>1, <2>2 DEF Holder, Queued
  <2>8. ASSUME NEW p \in Fair, p \in Queued  PROVE \E t \in DOMAIN fifos : p \in Range(fifos[t])
    BY Zenon, <2>1, <2>3, <2>8 DEF Placed, Range
  <2>9. ASSUME NEW p \in Fair, NEW t \in DOMAIN fifos, p \in Range(fifos[t])  PROVE p \in Queued
    BY <2>1, <2>3, <2>9 DEF Tickets, Range
  <2> QED BY Zenon, <2>4, <2>5, <2>6, <2>7, <2>8, <2>9
<1> QED BY <1>1, GateInvariant, PTL

\* No ticket waits beside a free permit unless a dispatcher is under way.
THEOREM NoLostWakeup == Spec => []NoIdlePermit
<1>1. GateInv => NoIdlePermit
  BY Zenon DEF GateInv
<1> QED BY <1>1, GateInvariant, PTL

\* Round robin: _fair_pick_locked serves no tenant twice while another one waits
\* that was there at its first turn.
THEOREM RoundRobin == Spec => TurnsRotate
<1> DEFINE Rotates == \A p \in (owner' \ owner) \cap Fair :
                        \A t \in DOMAIN fifos \ {tenant[p]} : tenant[p] \notin passed[t]
<1>1. GateInv /\ [Next]_vars => [Rotates]_vars
  <2> SUFFICES ASSUME GateInv, Next  PROVE Rotates
    BY Zenon
  <2>1. ASSUME NEW p \in Threads, Grant(p)  PROVE Rotates
    <3> DEFINE s == ring[1]
    <3>1. /\ Len(ring) > 0 /\ s \in DOMAIN fifos /\ Len(fifos[s]) > 0
          /\ owner' = owner \cup {fifos[s][1]}
      BY <2>1, GrantTakes, Zenon
    <3>2. TypeOK /\ Tickets /\ RingMatches /\ Turns
      BY Zenon DEF GateInv, Table
    <3>3. ring \in Seq(Tenants) /\ fifos[s] \in Seq(Fair)
      BY Zenon, <3>1, <3>2 DEF TypeOK
    <3>4. tenant[fifos[s][1]] = s
      <4>1. 1 \in 1 .. Len(fifos[s])
        BY <3>1, <3>3
      <4> QED BY Zenon, <4>1, <3>1, <3>2 DEF Tickets
    <3>5. ASSUME NEW t \in DOMAIN fifos, t # s  PROVE s \notin passed[t]
      <4>1. PICK i \in 1 .. Len(ring) : ring[i] = t
        BY Zenon, <3>2 DEF RingMatches
      <4>2. 1 \in 1 .. Len(ring) /\ ~(i < 1)
        BY <3>1, <3>3
      <4> QED BY Zenon, <4>1, <4>2, <3>2 DEF Turns
    <3> QED BY Zenon, <3>1, <3>4, <3>5
  <2>2. ASSUME NEW p \in Legacy, owner' = owner \cup {p}  PROVE Rotates
    BY Zenon, <2>2 DEF Fair
  <2>3. CASE owner' \subseteq owner
    BY Zenon, <2>3
  <2> HIDE DEF Rotates
  <2> QED
    BY Zenon, <2>1, <2>2, <2>3 DEF Next, Reconfigure, Enqueue, Enter, TimeOut, HandBack, Withdraw, Leave, Ask,
                      AdmitLegacy, RefuseLegacy, GiveBack, Redispatch, Dispatched
<1>2. TurnsRotate <=> [][Rotates]_vars
  BY Zenon DEF TurnsRotate
<1> QED BY <1>1, <1>2, GateInvariant, PTL DEF Spec
=============================================================================

------------------------ MODULE InstantSupervisorProofs ------------------------
(***************************************************************************)
(* The supervisor of InstantSupervisor is correct for any number of        *)
(* threads, slots, assignments and requests: its locks and types whatever  *)
(* its children do, and its bindings and answers as long as no child       *)
(* misses a deadline or exits and releases follow answered assigns.        *)
(***************************************************************************)
EXTENDS InstantSupervisor, TLAPS

\* A thread that serves a request has what the request needs.
Shapes ==
  \A t \in Threads :
    /\ thread[t].pc # "idle" => thread[t].k \in SlotIds /\ thread[t].asn \in Assignments
    /\ thread[t].pc \in Invoking => thread[t].inv \in Invocations
    /\ thread[t].pc = "restore" => thread[t].saved \in Assignments
    /\ thread[t].pc = "store" => thread[t].res \in Replies

\* No child fails and releases wait for the assign they undo.
Calm == "slow" \notin Faults /\ "die" \notin Faults /\ ReleaseWaits

\* Then no thread ever finds its connection closed or its child lost.
Unharmed ==
  /\ broken = {}
  /\ \A k \in SlotIds : child[k].alive
  /\ \A t \in Threads : thread[t].pc \notin {"loadFailed", "lost", "restore"}

\* A pipe holds the answer to the command of the thread that has slot.lock, and
\* nothing else; a refused source is not among those the child holds.
Pipes ==
  /\ \A k \in SlotIds : slotLock[k] = None => child[k].pipe = <<>>
  /\ \A t \in Threads : thread[t].pc = "loadWait" =>
       \E ok \in BOOLEAN : /\ child[thread[t].k].pipe = <<LoadReply(thread[t].asn, ok)>>
                           /\ ok \/ thread[t].asn \notin child[thread[t].k].loaded
  /\ \A t \in Threads : thread[t].pc = "wait" =>
       \E ok \in BOOLEAN : child[thread[t].k].pipe = <<InvokeReply(thread[t].inv, ok)>>
  /\ \A t \in Threads : thread[t].pc = "rejected" => thread[t].asn \notin child[thread[t].k].loaded

\* A loading thread loads what its slot is bound to, alone; a releasing thread
\* releases what its slot is bound to, and nobody loads it.
Owners ==
  /\ \A t \in Threads : thread[t].pc \in Loading \cup {"release"} =>
       slot[thread[t].k].asn = thread[t].asn
  /\ \A t, u \in Threads : thread[t].pc \in Loading /\ thread[u].pc \in Loading \cup {"release"}
                           /\ thread[t].k = thread[u].k => t = u

\* A child holds no source but the one its slot is bound to.
Sources == \A k \in SlotIds : \A a \in child[k].loaded : a = slot[k].asn

\* No assignment is bound in two slots, and a slot that refuses calls because it
\* is loading has a thread that is loading it.
BoundOnce ==
  \A j, k \in SlotIds : slot[j].asn = slot[k].asn /\ slot[j].asn # None => j = k

LoadingHasLoader ==
  \A k \in SlotIds : slot[k].asn # None /\ slot[k].loading =>
    \E t \in Threads : thread[t].k = k /\ thread[t].pc \in Loading

\* What is kept and answered for an invocation is no other invocation's answer.
Own(i, r) == r.kind = "invoke" => r.id = i

Answers ==
  /\ \A t \in Threads : thread[t].pc = "store" => Own(thread[t].inv, thread[t].res)
  /\ \A i \in Invocations : idem[i] # None => Own(i, idem[i])
  /\ \A i \in Invocations : answer[i] # None => Own(i, answer[i])

LockInv == TypeOK /\ Shapes
CalmInv == Unharmed /\ Pipes /\ Owners /\ Sources /\ BoundOnce /\ LoadingHasLoader /\ Answers

-----------------------------------------------------------------------------
(* Types and locks. *)

ThreadRec == [pc : {"idle", "release"} \cup Loading \cup Invoking,
              asn : Assignments \cup {None}, inv : Invocations \cup {None},
              seq : 0 .. MaxSeq, k : 0 .. Pool, saved : Assignments \cup {None},
              res : Replies \cup {None}]

Shape(r) ==
  /\ r.pc # "idle" => r.k \in SlotIds /\ r.asn \in Assignments
  /\ r.pc \in Invoking => r.inv \in Invocations
  /\ r.pc = "restore" => r.saved \in Assignments
  /\ r.pc = "store" => r.res \in Replies

\* r is a thread between the acquire and the release of slot k's lock.
Holds(r, k) == r.k = k /\ r.pc \in {"loadWait", "wait", "lost", "restore"}

SlotTypes ==
  /\ slot \in [SlotIds -> [asn : Assignments \cup {None}, loading : BOOLEAN, high : 0 .. MaxSeq]]
  /\ child \in [SlotIds -> [alive : BOOLEAN, loaded : SUBSET Assignments, pipe : Seq(Replies)]]
  /\ broken \subseteq Threads

LogTypes ==
  /\ arrived \in 0 .. MaxRequests
  /\ idem \in [Invocations -> Replies \cup {None}]
  /\ runs \in [Invocations -> 0 .. MaxRuns]
  /\ top \in [Assignments -> 0 .. MaxSeq]
  /\ answer \in [Invocations -> Replies \cup {None}]

ThreadTypes == thread \in [Threads -> ThreadRec] /\ \A t \in Threads : Shape(thread[t])

StateLock == stateLock \in Threads \cup {None} /\ \A t \in Threads : stateLock = t <=> thread[t].pc = "release"

SlotLocks ==
  /\ slotLock \in [SlotIds -> Threads \cup {None}]
  /\ \A k \in SlotIds, t \in Threads : slotLock[k] = t <=> Holds(thread[t], k)

\* The invariant, in the parts the actions disturb.
LEMMA InvParts == LockInv <=> SlotTypes /\ LogTypes /\ ThreadTypes /\ StateLock /\ SlotLocks
  BY Zenon DEF LockInv, TypeOK, Shapes, SlotTypes, LogTypes, ThreadTypes, StateLock, SlotLocks, ThreadRec, Shape, Holds

LEMMA InvPartsNext == LockInv' <=> SlotTypes' /\ LogTypes' /\ ThreadTypes' /\ StateLock' /\ SlotLocks'
  BY Zenon DEF LockInv, TypeOK, Shapes, SlotTypes, LogTypes, ThreadTypes, StateLock, SlotLocks, ThreadRec, Shape, Holds

\* One thread moves.
LEMMA Moves ==
  ASSUME ThreadTypes, NEW t \in Threads, NEW r \in ThreadRec, Shape(r),
         thread' = [thread EXCEPT ![t] = r]
  PROVE  /\ ThreadTypes' /\ thread'[t] = r
         /\ \A u \in Threads : u # t => thread'[u] = thread[u]
<1>1. thread \in [Threads -> ThreadRec]
  BY Zenon DEF ThreadTypes
<1>2. thread' \in [Threads -> ThreadRec] /\ thread'[t] = r /\ \A u \in Threads : u # t => thread'[u] = thread[u]
  BY <1>1, Zenon
<1> QED BY Zenon, <1>2 DEF ThreadTypes

\* It moves to a place with a program counter of its request.
LEMMA Steps ==
  ASSUME ThreadTypes, NEW t \in Threads,
         NEW p \in {"idle", "release"} \cup Loading \cup Invoking, Step(t, p),
         p = "idle" \/ Shape([thread[t] EXCEPT !.pc = p])
  PROVE  /\ ThreadTypes' /\ thread'[t] = [thread[t] EXCEPT !.pc = p]
         /\ \A u \in Threads : u # t => thread'[u] = thread[u]
<1>1. thread \in [Threads -> ThreadRec]
  BY Zenon DEF ThreadTypes
<1>2. [thread[t] EXCEPT !.pc = p] \in ThreadRec
  BY Zenon, <1>1 DEF ThreadRec
<1>3. thread' = [thread EXCEPT ![t] = [thread[t] EXCEPT !.pc = p]]
  BY Zenon, <1>1 DEF Step
<1>4. Shape([thread[t] EXCEPT !.pc = p])
  BY Zenon, <1>1 DEF Shape, ThreadRec, Invoking
<1> QED BY Zenon, <1>2, <1>3, <1>4, Moves

LEMMA Ends ==
  ASSUME ThreadTypes, NEW t \in Threads, Done(t)
  PROVE  /\ ThreadTypes' /\ thread'[t] = Idle
         /\ \A u \in Threads : u # t => thread'[u] = thread[u]
<1>1. Idle \in ThreadRec /\ Shape(Idle)
  BY SupervisorAssumption DEF Idle, ThreadRec, Shape, Invoking
<1> QED BY Zenon, <1>1, Moves DEF Done

\* What the move of one thread does to the two locks.
LEMMA LockKept ==
  ASSUME SlotLocks, NEW t \in Threads, slotLock' = slotLock,
         \A u \in Threads : u # t => thread'[u] = thread[u],
         \A k \in SlotIds : Holds(thread'[t], k) <=> Holds(thread[t], k)
  PROVE  SlotLocks'
<1>1. ASSUME NEW k \in SlotIds, NEW u \in Threads  PROVE slotLock'[k] = u <=> Holds(thread'[u], k)
  <2>1. slotLock[k] = u <=> Holds(thread[u], k)
    BY Zenon DEF SlotLocks
  <2> QED BY Zenon, <2>1
<1> QED BY Zenon, <1>1 DEF SlotLocks

LEMMA LockTaken ==
  ASSUME SlotLocks, NEW t \in Threads, NEW j \in SlotIds, slotLock[j] = None,
         slotLock' = [slotLock EXCEPT ![j] = t],
         \A u \in Threads : u # t => thread'[u] = thread[u],
         \A k \in SlotIds : ~Holds(thread[t], k),
         \A k \in SlotIds : Holds(thread'[t], k) <=> k = j
  PROVE  SlotLocks'
<1>1. slotLock \in [SlotIds -> Threads \cup {None}] /\ None \notin Threads
  BY Zenon, SupervisorAssumption DEF SlotLocks
<1>2. slotLock' \in [SlotIds -> Threads \cup {None}]
  BY Zenon, <1>1
<1>3. ASSUME NEW k \in SlotIds, NEW u \in Threads  PROVE slotLock'[k] = u <=> Holds(thread'[u], k)
  <2>1. slotLock[k] = u <=> Holds(thread[u], k)
    BY Zenon DEF SlotLocks
  <2>2. slotLock'[k] = IF k = j THEN t ELSE slotLock[k]
    BY Zenon, <1>1
  <2> QED BY Zenon, <2>1, <2>2, <1>1
<1> QED BY Zenon, <1>2, <1>3 DEF SlotLocks

LEMMA LockFreed ==
  ASSUME SlotLocks, NEW t \in Threads, NEW j \in SlotIds, Holds(thread[t], j), Unlock(j),
         \A u \in Threads : u # t => thread'[u] = thread[u],
         \A k \in SlotIds : ~Holds(thread'[t], k)
  PROVE  SlotLocks'
<1>1. slotLock \in [SlotIds -> Threads \cup {None}] /\ None \notin Threads
  BY Zenon, SupervisorAssumption DEF SlotLocks
<1>2. slotLock' \in [SlotIds -> Threads \cup {None}]
  BY Zenon, <1>1 DEF Unlock
<1>3. ASSUME NEW k \in SlotIds, NEW u \in Threads  PROVE slotLock'[k] = u <=> Holds(thread'[u], k)
  <2>1. (slotLock[k] = u <=> Holds(thread[u], k)) /\ (slotLock[k] = t <=> Holds(thread[t], k)) /\ slotLock[j] = t
    BY Zenon DEF SlotLocks
  <2>2. slotLock'[k] = IF k = j THEN None ELSE slotLock[k]
    BY Zenon, <1>1 DEF Unlock
  <2>3. k # j => ~Holds(thread[t], k)
    BY Zenon DEF Holds
  <2> QED BY Zenon, <2>1, <2>2, <2>3, <1>1
<1> QED BY Zenon, <1>2, <1>3 DEF SlotLocks

LEMMA StateKept ==
  ASSUME StateLock, NEW t \in Threads, stateLock' = stateLock,
         \A u \in Threads : u # t => thread'[u] = thread[u],
         thread[t].pc # "release", thread'[t].pc # "release"
  PROVE  StateLock'
  BY Zenon DEF StateLock

\* A fresh process in slot k.
LEMMA ReplaceTyped ==
  ASSUME SlotTypes, NEW k \in SlotIds, NEW t \in Threads, Replace(k, t)
  PROVE  /\ SlotTypes'
         /\ slot'[k] = [slot[k] EXCEPT !.asn = None, !.high = 0] /\ child'[k] = Fresh
         /\ \A j \in SlotIds : j # k => slot'[j] = slot[j] /\ child'[j] = child[j]
<1> DEFINE S == [asn : Assignments \cup {None}, loading : BOOLEAN, high : 0 .. MaxSeq]
<1>1. slot' \in [SlotIds -> S]
  <2>1. 0 \in 0 .. MaxSeq /\ slot[k] \in S
    BY SupervisorAssumption DEF SlotTypes
  <2>2. [slot[k] EXCEPT !.asn = None, !.high = 0] \in S
    BY Zenon, <2>1
  <2>3. slot' = [slot EXCEPT ![k] = [slot[k] EXCEPT !.asn = None, !.high = 0]]
    BY Zenon DEF Replace, SlotTypes
  <2> QED BY Zenon, <2>2, <2>3 DEF SlotTypes
<1>2. Fresh \in [alive : BOOLEAN, loaded : SUBSET Assignments, pipe : Seq(Replies)]
  BY DEF Fresh
<1>3. child' \in [SlotIds -> [alive : BOOLEAN, loaded : SUBSET Assignments, pipe : Seq(Replies)]]
  BY Zenon, <1>2 DEF Replace, SlotTypes
<1>4. broken' \subseteq Threads
  BY Zenon DEF Replace, SlotTypes, Readers
<1>5. slot'[k] = [slot[k] EXCEPT !.asn = None, !.high = 0] /\ \A j \in SlotIds : j # k => slot'[j] = slot[j]
  BY Zenon DEF Replace, SlotTypes
<1>6. child'[k] = Fresh /\ \A j \in SlotIds : j # k => child'[j] = child[j]
  BY Zenon DEF Replace, SlotTypes
<1> QED BY Zenon, <1>1, <1>3, <1>4, <1>5, <1>6 DEF SlotTypes

\* An arriving request gets the record r.
LEMMA Arrived ==
  ASSUME LockInv, NEW t \in Threads, NEW op, Arrives(t, op), NEW r \in ThreadRec, Shape(r),
         thread' = [thread EXCEPT ![t] = r], r.pc \in {"load", "verify", "release"},
         slotLock' = slotLock
  PROVE  ThreadTypes' /\ SlotLocks' /\ (r.pc # "release" /\ stateLock' = stateLock => StateLock')
         /\ arrived' \in 0 .. MaxRequests
         /\ thread'[t] = r /\ \A u \in Threads : u # t => thread'[u] = thread[u]
<1>1. SlotTypes /\ LogTypes /\ ThreadTypes /\ StateLock /\ SlotLocks
  BY Zenon, InvParts
<1>2. /\ ThreadTypes' /\ thread'[t] = r /\ thread[t].pc = "idle"
      /\ \A u \in Threads : u # t => thread'[u] = thread[u]
  BY Zenon, <1>1, Moves DEF Arrives
<1>3. \A k \in SlotIds : ~Holds(thread'[t], k) /\ ~Holds(thread[t], k)
  BY Zenon, <1>2 DEF Holds
<1>4. SlotLocks'
  BY Zenon, <1>1, <1>2, <1>3, LockKept
<1>5. r.pc # "release" /\ stateLock' = stateLock => StateLock'
  BY Zenon, <1>1, <1>2, StateKept
<1>6. arrived' \in 0 .. MaxRequests
  BY <1>1, SupervisorAssumption DEF Arrives, LogTypes
<1> QED BY Zenon, <1>2, <1>4, <1>5, <1>6

LEMMA IdleTyped == Idle \in ThreadRec
<1>1. 0 \in 0 .. Pool /\ 0 \in 0 .. MaxSeq
  BY SupervisorAssumption
<1> QED BY Zenon, <1>1 DEF Idle, ThreadRec

LEMMA AssignTakeLocks ==
  ASSUME LockInv, NEW t \in Threads, NEW a \in Assignments, AssignTake(t, a)
  PROVE  LockInv'
<1>1. SlotTypes /\ LogTypes /\ ThreadTypes /\ StateLock /\ SlotLocks
  BY Zenon, InvParts
<1>2. PICK k \in SlotIds : /\ slot' = [slot EXCEPT ![k].asn = a, ![k].loading = TRUE]
                           /\ thread' = [thread EXCEPT ![t] = [Idle EXCEPT !.pc = "load", !.asn = a, !.k = k]]
  BY Zenon DEF AssignTake
<1> DEFINE r == [Idle EXCEPT !.pc = "load", !.asn = a, !.k = k]
<1>3. r \in ThreadRec /\ Shape(r) /\ r.pc = "load"
  <2>1. k \in 0 .. Pool
    BY SupervisorAssumption DEF SlotIds
  <2>2. r \in ThreadRec
    BY Zenon, <2>1, IdleTyped DEF ThreadRec, Loading, Invoking
  <2>3. r.pc = "load" /\ r.asn = a /\ r.k = k
    BY Zenon DEF Idle
  <2> QED BY Zenon, <2>2, <2>3 DEF Shape, Invoking
<1>4. Arrives(t, "assign") /\ UNCHANGED <<child, slotLock, stateLock, broken, idem, runs, top, answer>>
  BY Zenon DEF AssignTake
<1> HIDE DEF r
<1>5. ThreadTypes' /\ SlotLocks' /\ StateLock' /\ arrived' \in 0 .. MaxRequests
  BY Zenon, <1>2, <1>3, <1>4, Arrived DEF r
<1>6. SlotTypes'
  BY ZenonT(30), <1>1, <1>2, <1>4 DEF SlotTypes
<1>7. LogTypes'
  BY Zenon, <1>1, <1>4, <1>5 DEF LogTypes
<1> QED BY Zenon, <1>5, <1>6, <1>7, InvPartsNext

LEMMA ReleaseFindLocks ==
  ASSUME LockInv, NEW t \in Threads, NEW a \in Assignments, ReleaseFind(t, a)
  PROVE  LockInv'
<1>1. SlotTypes /\ LogTypes /\ ThreadTypes /\ StateLock /\ SlotLocks
  BY Zenon, InvParts
<1>2. PICK k \in SlotIds : thread' = [thread EXCEPT ![t] = [Idle EXCEPT !.pc = "release", !.asn = a, !.k = k]]
  BY Zenon DEF ReleaseFind, Bound
<1> DEFINE r == [Idle EXCEPT !.pc = "release", !.asn = a, !.k = k]
<1>3. r \in ThreadRec /\ Shape(r) /\ r.pc = "release"
  <2>1. k \in 0 .. Pool
    BY SupervisorAssumption DEF SlotIds
  <2>2. r \in ThreadRec
    BY Zenon, <2>1, IdleTyped DEF ThreadRec, Loading, Invoking
  <2>3. r.pc = "release" /\ r.asn = a /\ r.k = k
    BY Zenon DEF Idle
  <2> QED BY Zenon, <2>2, <2>3 DEF Shape, Invoking
<1>4. /\ Arrives(t, "release") /\ stateLock = None /\ stateLock' = t
      /\ UNCHANGED <<slot, child, slotLock, broken, idem, runs, top, answer>>
  BY Zenon DEF ReleaseFind
<1> HIDE DEF r
<1>5. /\ ThreadTypes' /\ SlotLocks' /\ arrived' \in 0 .. MaxRequests
      /\ thread'[t] = r /\ \A u \in Threads : u # t => thread'[u] = thread[u]
  BY Zenon, <1>2, <1>3, <1>4, Arrived DEF r
<1>6. StateLock'
  BY Zenon, <1>1, <1>3, <1>4, <1>5, SupervisorAssumption DEF StateLock
<1>7. SlotTypes'
  BY Zenon, <1>1, <1>4 DEF SlotTypes
<1>8. LogTypes'
  BY Zenon, <1>1, <1>4, <1>5 DEF LogTypes
<1> QED BY Zenon, <1>5, <1>6, <1>7, <1>8, InvPartsNext

LEMMA InvokeVerifyLocks ==
  ASSUME LockInv, NEW t \in Threads, NEW a \in Assignments, NEW i \in Invocations, NEW q \in 1 .. MaxSeq,
         InvokeVerify(t, a, i, q)
  PROVE  LockInv'
<1>1. SlotTypes /\ LogTypes /\ ThreadTypes /\ StateLock /\ SlotLocks
  BY Zenon, InvParts
<1>2. PICK k \in SlotIds : thread' = [thread EXCEPT ![t] =
                             [Idle EXCEPT !.pc = "verify", !.asn = a, !.inv = i, !.seq = q, !.k = k]]
  BY Zenon DEF InvokeVerify, Bound
<1> DEFINE r == [Idle EXCEPT !.pc = "verify", !.asn = a, !.inv = i, !.seq = q, !.k = k]
<1>3. r \in ThreadRec /\ Shape(r) /\ r.pc = "verify"
  <2>1. k \in 0 .. Pool /\ q \in 0 .. MaxSeq
    BY SupervisorAssumption DEF SlotIds
  <2>2. r \in ThreadRec
    BY Zenon, <2>1, IdleTyped DEF ThreadRec, Loading, Invoking
  <2>3. r.pc = "verify" /\ r.asn = a /\ r.k = k /\ r.inv = i
    BY Zenon DEF Idle
  <2> QED BY Zenon, <2>2, <2>3 DEF Shape, Invoking
<1>4. Arrives(t, "invoke") /\ UNCHANGED <<slot, child, slotLock, stateLock, broken, idem, runs, top, answer>>
  BY Zenon DEF InvokeVerify
<1> HIDE DEF r
<1>5. ThreadTypes' /\ SlotLocks' /\ StateLock' /\ arrived' \in 0 .. MaxRequests
  BY Zenon, <1>2, <1>3, <1>4, Arrived DEF r
<1>6. SlotTypes'
  BY Zenon, <1>1, <1>4 DEF SlotTypes
<1>7. LogTypes'
  BY Zenon, <1>1, <1>4, <1>5 DEF LogTypes
<1> QED BY Zenon, <1>5, <1>6, <1>7, InvPartsNext

Held == {"loadWait", "wait", "lost", "restore"}

Busy == ThreadTypes /\ SlotLocks /\ StateLock

\* What is known of a thread that serves an assign or an invoke.
LEMMA Serves ==
  ASSUME LockInv, NEW t \in Threads, thread[t].pc \in Loading \cup Invoking
  PROVE  /\ thread[t] \in ThreadRec /\ thread[t].k \in SlotIds /\ thread[t].asn \in Assignments
         /\ thread[t].pc \in Invoking => thread[t].inv \in Invocations
         /\ thread[t].pc = "restore" => thread[t].saved \in Assignments
         /\ thread[t].pc = "store" => thread[t].res \in Replies
         /\ SlotTypes /\ LogTypes /\ Busy
<1>1. SlotTypes /\ LogTypes /\ ThreadTypes /\ StateLock /\ SlotLocks
  BY Zenon, InvParts
<1>2. thread[t].pc # "idle"
  BY Zenon DEF Loading, Invoking
<1> QED BY Zenon, <1>1, <1>2 DEF Busy, ThreadTypes, Shape

\* A step within a request that leaves the locks alone.
LEMMA Walks ==
  ASSUME LockInv, NEW t \in Threads, thread[t].pc \in Loading \cup Invoking,
         NEW p \in (Loading \cup Invoking) \ {"restore", "store"}, Step(t, p),
         p \in Invoking => thread[t].pc \in Invoking,
         p \in Held <=> thread[t].pc \in Held, slotLock' = slotLock, stateLock' = stateLock
  PROVE  /\ Busy' /\ thread'[t] = [thread[t] EXCEPT !.pc = p]
         /\ \A u \in Threads : u # t => thread'[u] = thread[u]
<1>1. /\ thread[t] \in ThreadRec /\ thread[t].k \in SlotIds /\ thread[t].asn \in Assignments
      /\ thread[t].pc \in Invoking => thread[t].inv \in Invocations
      /\ ThreadTypes /\ SlotLocks /\ StateLock
  BY Zenon, Serves DEF Busy
<1> DEFINE r == [thread[t] EXCEPT !.pc = p]
<1>2. r.pc = p /\ r.k = thread[t].k /\ r.asn = thread[t].asn /\ r.inv = thread[t].inv
  BY Zenon, <1>1 DEF ThreadRec
<1>3. Shape(r)
  BY Zenon, <1>1, <1>2 DEF Shape
<1>4. /\ ThreadTypes' /\ thread'[t] = r
      /\ \A u \in Threads : u # t => thread'[u] = thread[u]
  BY Zenon, <1>1, <1>3, Steps
<1> HIDE DEF r
<1>5. \A k \in SlotIds : Holds(thread'[t], k) <=> Holds(thread[t], k)
  BY Zenon, <1>2, <1>4 DEF Holds, Held
<1>6. SlotLocks'
  BY Zenon, <1>1, <1>4, <1>5, LockKept
<1>7. StateLock'
  BY <1>1, <1>2, <1>4, StateKept DEF Loading, Invoking
<1> QED BY Zenon, <1>4, <1>6, <1>7 DEF Busy, r

\* A step that takes the slot's lock.
LEMMA Takes ==
  ASSUME LockInv, NEW t \in Threads, thread[t].pc \in (Loading \cup Invoking) \ Held,
         NEW p \in {"loadWait", "wait", "lost"}, Step(t, p),
         p \in Invoking => thread[t].pc \in Invoking,
         slotLock[thread[t].k] = None, slotLock' = [slotLock EXCEPT ![thread[t].k] = t], stateLock' = stateLock
  PROVE  /\ Busy' /\ thread'[t] = [thread[t] EXCEPT !.pc = p]
         /\ \A u \in Threads : u # t => thread'[u] = thread[u]
<1>1. /\ thread[t] \in ThreadRec /\ thread[t].k \in SlotIds /\ thread[t].asn \in Assignments
      /\ thread[t].pc \in Invoking => thread[t].inv \in Invocations
      /\ ThreadTypes /\ SlotLocks /\ StateLock
  BY Zenon, Serves DEF Busy
<1> DEFINE r == [thread[t] EXCEPT !.pc = p]
<1>2. r.pc = p /\ r.k = thread[t].k /\ r.asn = thread[t].asn /\ r.inv = thread[t].inv
  BY Zenon, <1>1 DEF ThreadRec
<1>3. Shape(r)
  BY Zenon, <1>1, <1>2 DEF Shape
<1>4. /\ ThreadTypes' /\ thread'[t] = r
      /\ \A u \in Threads : u # t => thread'[u] = thread[u]
  BY Zenon, <1>1, <1>3, Steps DEF Loading, Invoking
<1> HIDE DEF r
<1>5. \A k \in SlotIds : ~Holds(thread[t], k) /\ (Holds(thread'[t], k) <=> k = thread[t].k)
  BY Zenon, <1>2, <1>4 DEF Holds, Held
<1>6. SlotLocks'
  BY Zenon, <1>1, <1>4, <1>5, LockTaken
<1>7. StateLock'
  BY Zenon, <1>1, <1>2, <1>4, StateKept DEF Loading, Invoking
<1> QED BY Zenon, <1>4, <1>6, <1>7 DEF Busy, r

\* A step that frees it.
LEMMA Frees ==
  ASSUME LockInv, NEW t \in Threads, thread[t].pc \in Held, NEW r \in ThreadRec, Shape(r),
         thread' = [thread EXCEPT ![t] = r], r.pc \notin Held \cup {"release"},
         Unlock(thread[t].k), stateLock' = stateLock
  PROVE  /\ Busy' /\ thread'[t] = r
         /\ \A u \in Threads : u # t => thread'[u] = thread[u]
<1>1. thread[t].k \in SlotIds /\ ThreadTypes /\ SlotLocks /\ StateLock
  BY Zenon, Serves DEF Busy, Held, Loading, Invoking
<1>2. /\ ThreadTypes' /\ thread'[t] = r
      /\ \A u \in Threads : u # t => thread'[u] = thread[u]
  BY Zenon, <1>1, Moves
<1>3. Holds(thread[t], thread[t].k) /\ \A k \in SlotIds : ~Holds(thread'[t], k)
  BY Zenon, <1>2 DEF Holds, Held
<1>4. SlotLocks'
  BY Zenon, <1>1, <1>2, <1>3, LockFreed
<1>5. StateLock'
  BY Zenon, <1>1, <1>2, StateKept DEF Held
<1> QED BY Zenon, <1>2, <1>4, <1>5 DEF Busy

\* A step that replaces the thread's record and leaves the locks alone.
LEMMA Turns ==
  ASSUME LockInv, NEW t \in Threads, thread[t].pc \in (Loading \cup Invoking) \ Held, NEW r \in ThreadRec, Shape(r),
         thread' = [thread EXCEPT ![t] = r], r.pc \notin Held \cup {"release"},
         slotLock' = slotLock, stateLock' = stateLock
  PROVE  /\ Busy' /\ thread'[t] = r
         /\ \A u \in Threads : u # t => thread'[u] = thread[u]
<1>1. ThreadTypes /\ SlotLocks /\ StateLock
  BY Zenon, Serves DEF Busy
<1>2. /\ ThreadTypes' /\ thread'[t] = r
      /\ \A u \in Threads : u # t => thread'[u] = thread[u]
  BY Zenon, <1>1, Moves
<1>3. \A k \in SlotIds : Holds(thread'[t], k) <=> Holds(thread[t], k)
  BY Zenon, <1>2 DEF Holds, Held
<1>4. SlotLocks'
  BY Zenon, <1>1, <1>2, <1>3, LockKept
<1>5. StateLock'
  BY Zenon, <1>1, <1>2, StateKept DEF Loading, Invoking
<1> QED BY Zenon, <1>2, <1>4, <1>5 DEF Busy

LEMMA IdleShape == Shape(Idle) /\ Idle.pc = "idle"
  BY Zenon DEF Idle, Shape, Invoking

Child == [alive : BOOLEAN, loaded : SUBSET Assignments, pipe : Seq(Replies)]

\* One child changes.
LEMMA ChildMoves ==
  ASSUME SlotTypes, NEW k \in SlotIds, NEW c \in Child, child' = [child EXCEPT ![k] = c]
  PROVE  /\ child' \in [SlotIds -> Child] /\ child'[k] = c
         /\ \A j \in SlotIds : j # k => child'[j] = child[j]
  BY Zenon DEF SlotTypes, Child

LEMMA Loads ==
  ASSUME SlotTypes, NEW k \in SlotIds, NEW a \in Assignments, NEW ok \in BOOLEAN, LoadEffect(k, a, ok)
  PROVE  /\ child' \in [SlotIds -> Child]
         /\ child'[k].alive = child[k].alive
         /\ child'[k].loaded = (IF ok THEN child[k].loaded \cup {a} ELSE child[k].loaded)
         /\ child'[k].pipe = Append(child[k].pipe, LoadReply(a, ok))
         /\ \A j \in SlotIds : j # k => child'[j] = child[j]
<1>1. child[k] \in Child /\ LoadReply(a, ok) \in Replies
  BY Zenon DEF SlotTypes, Child, LoadReply, Replies
<1> DEFINE c == [child[k] EXCEPT !.loaded = IF ok THEN @ \cup {a} ELSE @,
                                 !.pipe = Append(@, LoadReply(a, ok))]
<1>2. /\ c.alive = child[k].alive
      /\ c.loaded = (IF ok THEN child[k].loaded \cup {a} ELSE child[k].loaded)
      /\ c.pipe = Append(child[k].pipe, LoadReply(a, ok))
  BY Zenon, <1>1 DEF Child
<1>3. Append(child[k].pipe, LoadReply(a, ok)) \in Seq(Replies)
  BY <1>1 DEF Child
<1>4. c \in Child
  BY Zenon, <1>1, <1>3 DEF Child
<1>5. child' = [child EXCEPT ![k] = c]
  BY Zenon DEF LoadEffect, SlotTypes
<1> HIDE DEF c
<1> QED BY Zenon, <1>2, <1>4, <1>5, ChildMoves

\* The child's first answer is taken.
LEMMA Receives ==
  ASSUME SlotTypes, NEW k \in SlotIds, child[k].pipe # <<>>, child' = [child EXCEPT ![k].pipe = Tail(@)]
  PROVE  /\ child' \in [SlotIds -> Child]
         /\ child'[k].alive = child[k].alive /\ child'[k].loaded = child[k].loaded
         /\ child'[k].pipe = Tail(child[k].pipe) /\ Head(child[k].pipe) \in Replies
         /\ \A j \in SlotIds : j # k => child'[j] = child[j]
<1>1. child[k] \in Child /\ child[k].pipe \in Seq(Replies)
  BY Zenon DEF SlotTypes, Child
<1> DEFINE c == [child[k] EXCEPT !.pipe = Tail(@)]
<1>2. c.alive = child[k].alive /\ c.loaded = child[k].loaded /\ c.pipe = Tail(child[k].pipe)
  BY Zenon, <1>1 DEF Child
<1>3. Tail(child[k].pipe) \in Seq(Replies) /\ Head(child[k].pipe) \in Replies
  BY <1>1
<1>4. c \in Child
  BY Zenon, <1>1, <1>3 DEF Child
<1>5. child' = [child EXCEPT ![k] = c]
  BY Zenon DEF SlotTypes
<1> HIDE DEF c
<1> QED BY Zenon, <1>2, <1>3, <1>4, <1>5, ChildMoves

LEMMA AssignStepLocks ==
  ASSUME LockInv, NEW t \in Threads, AssignStep(t)
  PROVE  LockInv'
<1> DEFINE k == thread[t].k
           a == thread[t].asn
<1>1. ASSUME NEW p \in Loading, thread[t].pc = p
      PROVE  /\ k \in SlotIds /\ a \in Assignments /\ thread[t] \in ThreadRec
             /\ SlotTypes /\ LogTypes /\ Busy
  BY Zenon, <1>1, Serves
<1>2. Busy' /\ SlotTypes' /\ LogTypes' => LockInv'
  BY Zenon, InvPartsNext DEF Busy
<1>3. ASSUME NEW ok \in BOOLEAN, AssignSend(t, ok)  PROVE LockInv'
  <2>1. /\ thread[t].pc = "load" /\ slotLock[k] = None /\ LoadEffect(k, a, ok)
        /\ slotLock' = [slotLock EXCEPT ![k] = t] /\ Step(t, "loadWait")
        /\ UNCHANGED <<arrived, slot, stateLock, broken, idem, runs, top, answer>>
    BY Zenon, <1>3 DEF AssignSend
  <2>2. k \in SlotIds /\ a \in Assignments /\ SlotTypes /\ LogTypes
    BY Zenon, <2>1, <1>1 DEF Loading
  <2>3. Busy'
    BY Zenon, <2>1, Takes DEF Loading, Invoking, Held
  <2>4. SlotTypes'
    <3>1. child' \in [SlotIds -> Child]
      BY Zenon, <2>1, <2>2, Loads
    <3> QED BY Zenon, <3>1, <2>1, <2>2 DEF SlotTypes, Child
  <2>5. LogTypes'
    BY Zenon, <2>1, <2>2 DEF LogTypes
  <2> QED BY Zenon, <2>3, <2>4, <2>5, <1>2
<1>4. ASSUME AssignSendFails(t)  PROVE LockInv'
  <2>1. /\ thread[t].pc = "load" /\ Step(t, "loadFailed")
        /\ UNCHANGED <<arrived, slot, child, slotLock, stateLock, broken, idem, runs, top, answer>>
    BY Zenon, <1>4 DEF AssignSendFails
  <2>2. SlotTypes /\ LogTypes
    BY Zenon, <2>1, <1>1 DEF Loading
  <2>3. Busy'
    BY Zenon, <2>1, Walks DEF Loading, Invoking, Held
  <2>4. SlotTypes' /\ LogTypes'
    BY Zenon, <2>1, <2>2 DEF SlotTypes, LogTypes
  <2> QED BY Zenon, <2>3, <2>4, <1>2
<1>5. ASSUME AssignReceive(t)  PROVE LockInv'
  <2> DEFINE p == IF Head(child[k].pipe).ok THEN "loaded" ELSE "rejected"
             r == [thread[t] EXCEPT !.pc = p]
  <2>1. /\ thread[t].pc = "loadWait" /\ child[k].pipe # <<>> /\ child' = [child EXCEPT ![k].pipe = Tail(@)]
        /\ Step(t, p) /\ Unlock(k)
        /\ UNCHANGED <<arrived, slot, stateLock, broken, idem, runs, top, answer>>
    BY Zenon, <1>5 DEF AssignReceive
  <2>2. k \in SlotIds /\ a \in Assignments /\ thread[t] \in ThreadRec /\ SlotTypes /\ LogTypes /\ Busy
    BY Zenon, <2>1, <1>1 DEF Loading
  <2>3. p \in {"loaded", "rejected"}
    BY Zenon
  <2> HIDE DEF p
  <2>4. r.pc = p /\ r.k = k /\ r.asn = a /\ r \in ThreadRec
    BY Zenon, <2>2, <2>3 DEF ThreadRec, Loading
  <2>5. Shape(r)
    BY Zenon, <2>2, <2>3, <2>4 DEF Shape, Invoking
  <2>6. thread' = [thread EXCEPT ![t] = r]
    BY Zenon, <2>1, <2>2 DEF Step, Busy, ThreadTypes
  <2> HIDE DEF r
  <2>7. Busy'
    BY Zenon, <2>1, <2>3, <2>4, <2>5, <2>6, Frees DEF Held
  <2>8. SlotTypes'
    BY Zenon, <2>1, <2>2, Receives DEF SlotTypes, Child
  <2>9. LogTypes'
    BY Zenon, <2>1, <2>2 DEF LogTypes
  <2> QED BY Zenon, <2>7, <2>8, <2>9, <1>2
<1>6. ASSUME AssignInterrupted(t)  PROVE LockInv'
  <2> DEFINE r == [thread[t] EXCEPT !.pc = "loadFailed"]
  <2>1. /\ thread[t].pc = "loadWait" /\ Step(t, "loadFailed") /\ Unlock(k) /\ broken' = broken \ {t}
        /\ UNCHANGED <<arrived, slot, child, stateLock, idem, runs, top, answer>>
    BY Zenon, <1>6 DEF AssignInterrupted
  <2>2. k \in SlotIds /\ a \in Assignments /\ thread[t] \in ThreadRec /\ SlotTypes /\ LogTypes /\ Busy
    BY Zenon, <2>1, <1>1 DEF Loading
  <2>3. r.pc = "loadFailed" /\ r.k = k /\ r.asn = a /\ r \in ThreadRec
    BY Zenon, <2>2 DEF ThreadRec, Loading
  <2>4. Shape(r)
    BY Zenon, <2>2, <2>3 DEF Shape, Invoking
  <2>5. thread' = [thread EXCEPT ![t] = r]
    BY Zenon, <2>1, <2>2 DEF Step, Busy, ThreadTypes
  <2> HIDE DEF r
  <2>6. Busy'
    BY Zenon, <2>1, <2>3, <2>4, <2>5, Frees DEF Held
  <2>7. SlotTypes' /\ LogTypes'
    BY Zenon, <2>1, <2>2 DEF SlotTypes, LogTypes
  <2> QED BY Zenon, <2>6, <2>7, <1>2
<1>7. ASSUME AssignFail(t)  PROVE LockInv'
  <2>1. /\ thread[t].pc = "loadFailed" /\ Replace(k, t) /\ Done(t)
        /\ UNCHANGED <<arrived, slotLock, stateLock, idem, runs, top, answer>>
    BY Zenon, <1>7 DEF AssignFail
  <2>2. k \in SlotIds /\ SlotTypes /\ LogTypes
    BY Zenon, <2>1, <1>1 DEF Loading
  <2>3. Busy'
    BY Zenon, <2>1, IdleTyped, IdleShape, Turns DEF Done, Loading, Held
  <2>4. SlotTypes'
    BY Zenon, <2>1, <2>2, ReplaceTyped
  <2>5. LogTypes'
    BY Zenon, <2>1, <2>2 DEF LogTypes
  <2> QED BY Zenon, <2>3, <2>4, <2>5, <1>2
<1>8. ASSUME AssignRejected(t)  PROVE LockInv'
  <2>1. /\ thread[t].pc = "rejected" /\ Done(t) /\ slot' = [slot EXCEPT ![k].asn = None, ![k].loading = FALSE]
        /\ UNCHANGED <<arrived, child, slotLock, stateLock, broken, idem, runs, top, answer>>
    BY Zenon, <1>8 DEF AssignRejected
  <2>2. k \in SlotIds /\ SlotTypes /\ LogTypes
    BY Zenon, <2>1, <1>1 DEF Loading
  <2>3. Busy'
    BY Zenon, <2>1, IdleTyped, IdleShape, Turns DEF Done, Loading, Held
  <2>4. SlotTypes'
    BY ZenonT(30), <2>1, <2>2 DEF SlotTypes
  <2>5. LogTypes'
    BY Zenon, <2>1, <2>2 DEF LogTypes
  <2> QED BY Zenon, <2>3, <2>4, <2>5, <1>2
<1>9. ASSUME AssignLoaded(t)  PROVE LockInv'
  <2>1. /\ thread[t].pc = "loaded" /\ Done(t) /\ slot' = [slot EXCEPT ![k].loading = FALSE]
        /\ UNCHANGED <<arrived, child, slotLock, stateLock, broken, idem, runs, top, answer>>
    BY Zenon, <1>9 DEF AssignLoaded
  <2>2. k \in SlotIds /\ SlotTypes /\ LogTypes
    BY Zenon, <2>1, <1>1 DEF Loading
  <2>3. Busy'
    BY Zenon, <2>1, IdleTyped, IdleShape, Turns DEF Done, Loading, Held
  <2>4. SlotTypes'
    BY Zenon, <2>1, <2>2 DEF SlotTypes
  <2>5. LogTypes'
    BY Zenon, <2>1, <2>2 DEF LogTypes
  <2> QED BY Zenon, <2>3, <2>4, <2>5, <1>2
<1> QED BY Zenon, <1>3, <1>4, <1>5, <1>6, <1>7, <1>8, <1>9 DEF AssignStep

LEMMA ReleaseReplaceLocks ==
  ASSUME LockInv, NEW t \in Threads, ReleaseReplace(t)
  PROVE  LockInv'
<1> DEFINE k == thread[t].k
<1>1. SlotTypes /\ LogTypes /\ ThreadTypes /\ StateLock /\ SlotLocks
  BY Zenon, InvParts
<1>2. thread[t].pc = "release" /\ stateLock' = None /\ Done(t) /\ UNCHANGED <<arrived, slotLock, runs, top, answer>>
  BY Zenon DEF ReleaseReplace
<1>3. k \in SlotIds
  BY Zenon, <1>1, <1>2 DEF ThreadTypes, Shape
<1>4. ThreadTypes' /\ thread'[t] = Idle /\ \A u \in Threads : u # t => thread'[u] = thread[u]
  BY Zenon, <1>1, <1>2, Ends
<1>5. \A j \in SlotIds : Holds(thread'[t], j) <=> Holds(thread[t], j)
  BY Zenon, <1>2, <1>4, IdleShape DEF Holds
<1>6. SlotLocks'
  BY Zenon, <1>1, <1>2, <1>4, <1>5, LockKept
<1>7. StateLock'
  BY Zenon, <1>1, <1>2, <1>4, IdleShape, SupervisorAssumption DEF StateLock
<1>8. SlotTypes'
  <2>1. CASE slot[k].asn = None
    BY Zenon, <2>1, <1>1 DEF ReleaseReplace, SlotTypes
  <2>2. CASE slot[k].asn # None
    BY Zenon, <2>2, <1>1, <1>3, ReplaceTyped DEF ReleaseReplace
  <2> QED BY Zenon, <2>1, <2>2
<1>9. idem' \in [Invocations -> Replies \cup {None}]
  BY Zenon, <1>1 DEF ReleaseReplace, LogTypes
<1>10. LogTypes'
  BY Zenon, <1>1, <1>2, <1>9 DEF LogTypes
<1> QED BY Zenon, <1>4, <1>6, <1>7, <1>8, <1>10, InvPartsNext

\* An invocation has its answer, and the slot's lock is free.
LEMMA Stored ==
  ASSUME LockInv, NEW t \in Threads, thread[t].pc \in Invoking, NEW x \in Replies,
         thread' = [thread EXCEPT ![t].pc = "store", ![t].res = x]
  PROVE  LET r == [thread[t] EXCEPT !.pc = "store", !.res = x]
         IN /\ r \in ThreadRec /\ Shape(r) /\ thread' = [thread EXCEPT ![t] = r]
            /\ r.pc = "store" /\ r.res = x /\ r.inv = thread[t].inv
<1> DEFINE r == [thread[t] EXCEPT !.pc = "store", !.res = x]
<1>1. /\ thread[t] \in ThreadRec /\ thread[t].k \in SlotIds /\ thread[t].asn \in Assignments
      /\ thread[t].inv \in Invocations /\ ThreadTypes
  BY Zenon, Serves DEF Busy
<1>2. /\ r.pc = "store" /\ r.res = x /\ r.inv = thread[t].inv
      /\ r.k = thread[t].k /\ r.asn = thread[t].asn /\ r \in ThreadRec
  BY Zenon, <1>1 DEF ThreadRec, Invoking
<1>3. Shape(r)
  BY Zenon, <1>1, <1>2 DEF Shape
<1>4. thread' = [thread EXCEPT ![t] = r]
  BY Zenon, <1>1 DEF ThreadTypes
<1> QED BY Zenon, <1>2, <1>3, <1>4

LEMMA InvokeStepLocks ==
  ASSUME LockInv, NEW t \in Threads, InvokeStep(t)
  PROVE  LockInv'
<1> DEFINE k == thread[t].k
           a == thread[t].asn
           i == thread[t].inv
<1>1. ASSUME NEW p \in Invoking, thread[t].pc = p
      PROVE  /\ k \in SlotIds /\ a \in Assignments /\ i \in Invocations /\ thread[t] \in ThreadRec
             /\ SlotTypes /\ LogTypes /\ Busy
  BY Zenon, <1>1, Serves
<1>2. Busy' /\ SlotTypes' /\ LogTypes' => LockInv'
  BY Zenon, InvPartsNext DEF Busy
<1>3. Unknown \in Replies /\ Unrecorded \in Replies
  BY Zenon DEF Replies
<1>4. ASSUME InvokeFence(t)  PROVE LockInv'
  <2>1. /\ thread[t].pc = "verify" /\ slot' = [slot EXCEPT ![k].high = thread[t].seq]
        /\ top' = [top EXCEPT ![a] = IF thread[t].seq > @ THEN thread[t].seq ELSE @] /\ Step(t, "lookup")
        /\ UNCHANGED <<arrived, child, slotLock, stateLock, broken, idem, runs, answer>>
    BY Zenon, <1>4 DEF InvokeFence
  <2>2. k \in SlotIds /\ a \in Assignments /\ thread[t].seq \in 0 .. MaxSeq /\ SlotTypes /\ LogTypes
    BY Zenon, <2>1, <1>1 DEF Invoking, ThreadRec
  <2>3. Busy'
    BY Zenon, <2>1, Walks DEF Invoking, Held
  <2>4. SlotTypes'
    BY Zenon, <2>1, <2>2 DEF SlotTypes
  <2>5. LogTypes'
    BY Zenon, <2>1, <2>2 DEF LogTypes
  <2> QED BY Zenon, <2>3, <2>4, <2>5, <1>2
<1>5. ASSUME InvokeReplay(t)  PROVE LockInv'
  <2>1. /\ thread[t].pc = "lookup" /\ Done(t) /\ answer' = [answer EXCEPT ![i] = idem[i]]
        /\ UNCHANGED <<arrived, slot, child, slotLock, stateLock, broken, idem, runs, top>>
    BY Zenon, <1>5 DEF InvokeReplay
  <2>2. i \in Invocations /\ SlotTypes /\ LogTypes
    BY Zenon, <2>1, <1>1 DEF Invoking
  <2>3. Busy'
    BY Zenon, <2>1, IdleTyped, IdleShape, Turns DEF Done, Invoking, Held
  <2>4. SlotTypes'
    BY Zenon, <2>1, <2>2 DEF SlotTypes
  <2>5. LogTypes'
    BY Zenon, <2>1, <2>2 DEF LogTypes
  <2> QED BY Zenon, <2>3, <2>4, <2>5, <1>2
<1>6. ASSUME InvokeAdmit(t)  PROVE LockInv'
  <2>1. /\ thread[t].pc = "lookup" /\ (Step(t, "invoke") \/ Done(t))
        /\ UNCHANGED <<arrived, slot, child, slotLock, stateLock, broken, idem, runs, top, answer>>
    BY Zenon, <1>6 DEF InvokeAdmit
  <2>2. SlotTypes /\ LogTypes
    BY Zenon, <2>1, <1>1 DEF Invoking
  <2>3. CASE Step(t, "invoke")
    <3>1. Busy'
      BY Zenon, <2>1, <2>3, Walks DEF Invoking, Held
    <3>2. SlotTypes' /\ LogTypes'
      BY Zenon, <2>1, <2>2 DEF SlotTypes, LogTypes
    <3> QED BY Zenon, <3>1, <3>2, <1>2
  <2>4. CASE Done(t)
    <3>1. Busy'
      BY Zenon, <2>1, <2>4, IdleTyped, IdleShape, Turns DEF Done, Invoking, Held
    <3>2. SlotTypes' /\ LogTypes'
      BY Zenon, <2>1, <2>2 DEF SlotTypes, LogTypes
    <3> QED BY Zenon, <3>1, <3>2, <1>2
  <2> QED BY Zenon, <2>1, <2>3, <2>4
<1>7. ASSUME InvokeSend(t)  PROVE LockInv'
  <2> DEFINE found == a \in child[k].loaded
             c == [child[k] EXCEPT !.pipe = Append(@, InvokeReply(i, found))]
  <2>1. /\ thread[t].pc = "invoke" /\ slotLock[k] = None /\ slotLock' = [slotLock EXCEPT ![k] = t]
        /\ UNCHANGED <<arrived, slot, stateLock, broken, idem, top, answer>>
        /\ \/ /\ child' = [child EXCEPT ![k].pipe = Append(@, InvokeReply(i, found))]
              /\ runs' = [runs EXCEPT ![i] = IF found /\ @ < MaxRuns THEN @ + 1 ELSE @]
              /\ Step(t, "wait")
           \/ Step(t, "lost") /\ UNCHANGED <<child, runs>>
    BY Zenon, <1>7 DEF InvokeSend
  <2>2. k \in SlotIds /\ a \in Assignments /\ i \in Invocations /\ SlotTypes /\ LogTypes
    BY Zenon, <2>1, <1>1 DEF Invoking
  <2>3. Busy'
    <3>1. CASE Step(t, "wait")
      BY Zenon, <2>1, <3>1, Takes DEF Invoking, Held
    <3>2. CASE Step(t, "lost")
      BY Zenon, <2>1, <3>2, Takes DEF Invoking, Held
    <3> QED BY Zenon, <2>1, <3>1, <3>2
  <2>4. child[k] \in Child /\ InvokeReply(i, found) \in Replies
    BY <2>2 DEF SlotTypes, Child, InvokeReply, Replies
  <2>5. Append(child[k].pipe, InvokeReply(i, found)) \in Seq(Replies)
    BY <2>4 DEF Child
  <2>6. c \in Child
    BY Zenon, <2>4, <2>5 DEF Child
  <2>7. child' = [child EXCEPT ![k] = c] \/ child' = child
    BY Zenon, <2>1, <2>2 DEF SlotTypes
  <2> HIDE DEF c
  <2>8. child' \in [SlotIds -> Child]
    BY Zenon, <2>2, <2>6, <2>7, ChildMoves DEF SlotTypes, Child
  <2>9. SlotTypes'
    BY Zenon, <2>1, <2>2, <2>8 DEF SlotTypes, Child
  <2>10. runs' \in [Invocations -> 0 .. MaxRuns]
    BY SMTT(20), <2>1, <2>2, SupervisorAssumption DEF LogTypes
  <2>11. LogTypes'
    BY Zenon, <2>1, <2>2, <2>10 DEF LogTypes
  <2> QED BY Zenon, <2>3, <2>9, <2>11, <1>2
<1>8. ASSUME InvokeReceive(t)  PROVE LockInv'
  <2> DEFINE x == Head(child[k].pipe)
  <2>1. /\ thread[t].pc = "wait" /\ child[k].pipe # <<>> /\ child' = [child EXCEPT ![k].pipe = Tail(@)]
        /\ Done(t) \/ thread' = [thread EXCEPT ![t].pc = "store", ![t].res = x]
        /\ Unlock(k) /\ UNCHANGED <<arrived, slot, stateLock, broken, idem, runs, top, answer>>
    BY Zenon, <1>8 DEF InvokeReceive
  <2>2. k \in SlotIds /\ SlotTypes /\ LogTypes
    BY Zenon, <2>1, <1>1 DEF Invoking
  <2>3. child' \in [SlotIds -> Child] /\ x \in Replies
    BY Zenon, <2>1, <2>2, Receives
  <2> HIDE DEF x
  <2>4. Busy'
    <3>1. CASE Done(t)
      BY Zenon, <2>1, <3>1, IdleTyped, IdleShape, Frees DEF Done, Held
    <3>2. CASE thread' = [thread EXCEPT ![t].pc = "store", ![t].res = x]
      BY Zenon, <2>1, <2>3, <3>2, Stored, Frees DEF Held, Invoking
    <3> QED BY Zenon, <2>1, <3>1, <3>2
  <2>5. SlotTypes'
    BY Zenon, <2>1, <2>2, <2>3 DEF SlotTypes, Child
  <2>6. LogTypes'
    BY Zenon, <2>1, <2>2 DEF LogTypes
  <2> QED BY Zenon, <2>4, <2>5, <2>6, <1>2
<1>9. ASSUME InvokeInterrupted(t)  PROVE LockInv'
  <2>1. /\ thread[t].pc = "wait" /\ Step(t, "lost") /\ broken' = broken \ {t}
        /\ UNCHANGED <<arrived, slot, child, slotLock, stateLock, idem, runs, top, answer>>
    BY Zenon, <1>9 DEF InvokeInterrupted
  <2>2. SlotTypes /\ LogTypes
    BY Zenon, <2>1, <1>1 DEF Invoking
  <2>3. Busy'
    BY Zenon, <2>1, Walks DEF Invoking, Held
  <2>4. SlotTypes' /\ LogTypes'
    BY Zenon, <2>1, <2>2 DEF SlotTypes, LogTypes
  <2> QED BY Zenon, <2>3, <2>4, <1>2
<1>10. ASSUME InvokeReplace(t)  PROVE LockInv'
  <2>1. /\ thread[t].pc = "lost" /\ Replace(k, t) /\ UNCHANGED <<arrived, stateLock, idem, runs, top, answer>>
        /\ \/ /\ slot[k].asn # None /\ UNCHANGED slotLock
              /\ thread' = [thread EXCEPT ![t].pc = "restore", ![t].saved = slot[k].asn]
           \/ thread' = [thread EXCEPT ![t].pc = "store", ![t].res = Unknown] /\ Unlock(k)
    BY Zenon, <1>10 DEF InvokeReplace
  <2>2. /\ k \in SlotIds /\ a \in Assignments /\ i \in Invocations /\ thread[t] \in ThreadRec
        /\ SlotTypes /\ LogTypes /\ ThreadTypes /\ SlotLocks /\ StateLock
    BY Zenon, <2>1, <1>1 DEF Invoking, Busy
  <2>3. ASSUME slot[k].asn # None, UNCHANGED slotLock,
               thread' = [thread EXCEPT ![t].pc = "restore", ![t].saved = slot[k].asn]
        PROVE  Busy'
    <3> DEFINE r == [thread[t] EXCEPT !.pc = "restore", !.saved = slot[k].asn]
    <3>1. slot[k].asn \in Assignments
      BY Zenon, <2>2, <2>3 DEF SlotTypes
    <3>2. r.pc = "restore" /\ r.saved = slot[k].asn /\ r.inv = i /\ r.k = k /\ r.asn = a /\ r \in ThreadRec
      BY Zenon, <3>1, <2>2 DEF ThreadRec, Invoking
    <3>3. Shape(r)
      BY Zenon, <3>1, <3>2, <2>2 DEF Shape
    <3>4. thread' = [thread EXCEPT ![t] = r]
      BY Zenon, <2>2, <2>3 DEF ThreadTypes
    <3> HIDE DEF r
    <3>5. ThreadTypes' /\ thread'[t] = r /\ \A u \in Threads : u # t => thread'[u] = thread[u]
      BY Zenon, <3>2, <3>3, <3>4, <2>2, Moves
    <3>6. \A j \in SlotIds : Holds(thread'[t], j) <=> Holds(thread[t], j)
      BY Zenon, <3>2, <3>5, <2>1 DEF Holds
    <3>7. SlotLocks'
      BY Zenon, <3>5, <3>6, <2>2, <2>3, LockKept
    <3>8. StateLock'
      BY Zenon, <3>2, <3>5, <2>1, <2>2, StateKept
    <3> QED BY Zenon, <3>5, <3>7, <3>8 DEF Busy
  <2>4. ASSUME thread' = [thread EXCEPT ![t].pc = "store", ![t].res = Unknown], Unlock(k)
        PROVE  Busy'
    BY Zenon, <2>1, <2>4, <1>3, Stored, Frees DEF Held, Invoking
  <2>5. Busy'
    BY Zenon, <2>1, <2>3, <2>4
  <2>6. SlotTypes'
    BY Zenon, <2>1, <2>2, ReplaceTyped
  <2>7. LogTypes'
    BY Zenon, <2>1, <2>2 DEF LogTypes
  <2> QED BY Zenon, <2>5, <2>6, <2>7, <1>2
<1>11. ASSUME InvokeRestore(t)  PROVE LockInv'
  <2> DEFINE b == thread[t].saved
             c == [child[k] EXCEPT !.loaded = @ \cup {b}]
  <2>1. /\ thread[t].pc = "restore" /\ Unlock(k)
        /\ thread' = [thread EXCEPT ![t].pc = "store", ![t].res = Unknown]
        /\ UNCHANGED <<arrived, stateLock, broken, idem, runs, top, answer>>
        /\ slot' = [slot EXCEPT ![k].asn = b] \/ slot' = slot
        /\ child' = [child EXCEPT ![k].loaded = @ \cup {b}] \/ LoadEffect(k, b, TRUE) \/ child' = child
    BY Zenon, <1>11 DEF InvokeRestore
  <2>2. k \in SlotIds /\ b \in Assignments /\ SlotTypes /\ LogTypes
    BY Zenon, <2>1, <1>1, Serves DEF Invoking
  <2>3. Busy'
    BY Zenon, <2>1, <1>3, Stored, Frees DEF Held, Invoking
  <2>4. child[k] \in Child
    BY Zenon, <2>2 DEF SlotTypes, Child
  <2>5. c \in Child
    BY Zenon, <2>2, <2>4 DEF Child
  <2>6. child' = [child EXCEPT ![k] = c] \/ LoadEffect(k, b, TRUE) \/ child' = child
    BY Zenon, <2>1, <2>2 DEF SlotTypes
  <2> HIDE DEF c
  <2>7. child' \in [SlotIds -> Child]
    <3>1. CASE child' = [child EXCEPT ![k] = c]
      BY Zenon, <3>1, <2>2, <2>5, ChildMoves
    <3>2. CASE LoadEffect(k, b, TRUE)
      BY Zenon, <3>2, <2>2, Loads
    <3>3. CASE child' = child
      BY Zenon, <3>3, <2>2 DEF SlotTypes, Child
    <3> QED BY Zenon, <2>6, <3>1, <3>2, <3>3
  <2>8. slot' \in [SlotIds -> [asn : Assignments \cup {None}, loading : BOOLEAN, high : 0 .. MaxSeq]]
    <3>1. CASE slot' = [slot EXCEPT ![k].asn = b]
      BY Zenon, <3>1, <2>2 DEF SlotTypes
    <3>2. CASE slot' = slot
      BY Zenon, <3>2, <2>2 DEF SlotTypes
    <3> QED BY Zenon, <2>1, <3>1, <3>2
  <2>9. SlotTypes'
    BY Zenon, <2>1, <2>2, <2>7, <2>8 DEF SlotTypes, Child
  <2>10. LogTypes'
    BY Zenon, <2>1, <2>2 DEF LogTypes
  <2> QED BY Zenon, <2>3, <2>9, <2>10, <1>2
<1>12. ASSUME InvokeStore(t)  PROVE LockInv'
  <2>1. PICK x \in {thread[t].res, Unrecorded} :
             idem' = [idem EXCEPT ![i] = x] /\ answer' = [answer EXCEPT ![i] = x]
    BY Zenon, <1>12 DEF InvokeStore
  <2>2. /\ thread[t].pc = "store" /\ Done(t)
        /\ UNCHANGED <<arrived, slot, child, slotLock, stateLock, broken, runs, top>>
    BY Zenon, <1>12 DEF InvokeStore
  <2>3. i \in Invocations /\ thread[t].res \in Replies /\ SlotTypes /\ LogTypes
    BY Zenon, <2>2, Serves DEF Invoking
  <2>4. Busy'
    BY Zenon, <2>2, IdleTyped, IdleShape, Turns DEF Done, Invoking, Held
  <2>5. SlotTypes'
    BY Zenon, <2>2, <2>3 DEF SlotTypes
  <2>6. LogTypes'
    BY Zenon, <2>1, <2>2, <2>3, <1>3 DEF LogTypes
  <2> QED BY Zenon, <2>4, <2>5, <2>6, <1>2
<1> QED BY Zenon, <1>4, <1>5, <1>6, <1>7, <1>8, <1>9, <1>10, <1>11, <1>12 DEF InvokeStep

LEMMA NextLocks == LockInv /\ [Next]_vars => LockInv'
<1> SUFFICES ASSUME LockInv, [Next]_vars  PROVE LockInv'
  BY Zenon
<1>1. SlotTypes /\ LogTypes /\ ThreadTypes /\ StateLock /\ SlotLocks
  BY Zenon, InvParts
<1>2. ASSUME NEW t \in Threads, Continue(t)  PROVE LockInv'
  BY Zenon, <1>2, AssignStepLocks, ReleaseReplaceLocks, InvokeStepLocks DEF Continue
<1>3. ASSUME NEW t \in Threads, Arrive(t)  PROVE LockInv'
  BY Zenon, <1>3, AssignTakeLocks, ReleaseFindLocks, InvokeVerifyLocks DEF Arrive
<1>4. ASSUME NEW i \in Invocations, ExpireIdempotency(i)  PROVE LockInv'
  <2>1. LogTypes'
    BY Zenon, <1>1, <1>4 DEF ExpireIdempotency, LogTypes
  <2>2. SlotTypes' /\ ThreadTypes' /\ StateLock' /\ SlotLocks'
    BY Zenon, <1>1, <1>4 DEF ExpireIdempotency, SlotTypes, ThreadTypes, StateLock, SlotLocks
  <2> QED BY Zenon, <2>1, <2>2, InvPartsNext
<1>5. ASSUME NEW k \in SlotIds, ChildDies(k)  PROVE LockInv'
  <2>1. SlotTypes'
    <3>1. PICK left \in {child[k].pipe, <<>>} :
                 child' = [child EXCEPT ![k].alive = FALSE, ![k].pipe = left]
      BY Zenon, <1>5 DEF ChildDies
    <3>2. left \in Seq(Replies)
      <4>1. child[k].pipe \in Seq(Replies) /\ <<>> \in Seq(Replies)
        BY <1>1 DEF SlotTypes
      <4> QED BY Zenon, <4>1
    <3>3. child' \in [SlotIds -> [alive : BOOLEAN, loaded : SUBSET Assignments, pipe : Seq(Replies)]]
      BY Zenon, <3>1, <3>2, <1>1 DEF SlotTypes
    <3> QED BY Zenon, <3>3, <1>1, <1>5 DEF ChildDies, SlotTypes
  <2>2. LogTypes' /\ ThreadTypes' /\ StateLock' /\ SlotLocks'
    BY Zenon, <1>1, <1>5 DEF ChildDies, LogTypes, ThreadTypes, StateLock, SlotLocks
  <2> QED BY Zenon, <2>1, <2>2, InvPartsNext
<1>6. CASE UNCHANGED vars
  BY Zenon, <1>1, <1>6, InvPartsNext DEF vars, SlotTypes, LogTypes, ThreadTypes, StateLock, SlotLocks
<1> QED BY Zenon, <1>2, <1>3, <1>4, <1>5, <1>6 DEF Next

LEMMA InitLocks == Init => LockInv
<1> SUFFICES ASSUME Init  PROVE LockInv
  BY Zenon
<1>1. 0 \in 0 .. MaxSeq /\ 0 \in 0 .. MaxRuns /\ 0 \in 0 .. MaxRequests /\ None \notin Threads
  BY SupervisorAssumption
<1>2. SlotTypes
  BY <1>1 DEF Init, SlotTypes, Fresh
<1>3. LogTypes
  BY Zenon, <1>1 DEF Init, LogTypes
<1>4. ThreadTypes
  BY Zenon, IdleTyped, IdleShape DEF Init, ThreadTypes
<1>5. StateLock /\ SlotLocks
  BY Zenon, <1>1, IdleShape DEF Init, StateLock, SlotLocks, Holds
<1> QED BY Zenon, <1>2, <1>3, <1>4, <1>5, InvParts

\* LockInv is an invariant of the supervisor, whatever its children do.
THEOREM LockInvariant == Spec => []LockInv
  BY InitLocks, NextLocks, PTL DEF Spec

\* The types hold, and slot.lock and _state_lock are held exactly by the thread
\* that is between its acquire and its release (with blocks of supervisor.py):
\* no early return, failure handler or replacement keeps a lock or frees another's.
THEOREM TypeCorrect == Spec => []TypeOK
<1>1. LockInv => TypeOK
  BY Zenon DEF LockInv
<1> QED BY <1>1, LockInvariant, PTL

-----------------------------------------------------------------------------
(* Bindings and answers, when no child fails and releases wait. *)

Stores == \A t \in Threads : thread[t].pc = "store" => Own(thread[t].inv, thread[t].res)
Bindings == Unharmed /\ Pipes /\ Owners /\ Sources /\ BoundOnce /\ LoadingHasLoader

\* Threads but t, and the slots and children, are as they were; t neither loads,
\* waits, releases nor stores.
LEMMA QuietMove ==
  ASSUME Bindings, Stores, NEW t \in Threads, slotLock' = slotLock, child' = child, broken' = broken,
         \A k \in SlotIds : slot'[k].asn = slot[k].asn /\ slot'[k].loading = slot[k].loading,
         \A u \in Threads : u # t => thread'[u] = thread[u],
         thread[t].pc \notin Loading, thread'[t].pc \in {"idle", "verify", "lookup", "invoke"},
         ThreadTypes
  PROVE  Bindings' /\ Stores'
<1>0. Unharmed /\ Pipes /\ Owners /\ Sources /\ BoundOnce /\ LoadingHasLoader
  BY Zenon DEF Bindings
<1>1. thread'[t].pc \notin Loading \cup {"release", "wait", "store", "lost", "restore"}
  BY Zenon DEF Loading
<1>2. \A u \in Threads : thread'[u].pc \in Loading \cup {"release", "wait", "store", "lost", "restore"} =>
        thread'[u] = thread[u]
  BY Zenon, <1>1
<1>3. \A u \in Threads : thread[u].pc # "idle" => thread[u].k \in SlotIds
  BY Zenon DEF ThreadTypes, Shape
<1>4. Unharmed'
  BY Zenon, <1>0, <1>2 DEF Unharmed, Loading
<1>5. Pipes'
  BY Zenon, <1>0, <1>2 DEF Pipes, Loading
<1>6. Owners'
  <2>1. \A u \in Threads : thread'[u].pc \in Loading \cup {"release"} =>
          thread'[u] = thread[u] /\ thread[u].k \in SlotIds
    BY Zenon, <1>2, <1>3 DEF Loading
  <2> QED BY <2>1, <1>0 DEF Owners
<1>7. Sources' /\ BoundOnce'
  BY <1>0 DEF Sources, BoundOnce
<1>8. LoadingHasLoader'
  BY <1>0 DEF LoadingHasLoader
<1>9. Stores'
  BY Zenon, <1>2 DEF Stores
<1> QED BY Zenon, <1>4, <1>5, <1>6, <1>7, <1>8, <1>9 DEF Bindings

\* What is known of every thread that serves a request.
LEMMA Everyone ==
  ASSUME LockInv
  PROVE  /\ \A u \in Threads : thread[u].pc # "idle" => thread[u].k \in SlotIds /\ thread[u].asn \in Assignments
         /\ \A u \in Threads, k \in SlotIds : Holds(thread[u], k) => slotLock[k] = u
         /\ \A k \in SlotIds : child[k].loaded \subseteq Assignments /\ child[k].pipe \in Seq(Replies)
         /\ None \notin Assignments /\ None \notin Threads
<1>1. SlotTypes /\ ThreadTypes /\ SlotLocks
  BY Zenon, InvParts
<1> QED BY Zenon, <1>1, SupervisorAssumption DEF SlotTypes, ThreadTypes, Shape, SlotLocks

LEMMA AssignTakeBinds ==
  ASSUME LockInv, Bindings, Stores, NEW t \in Threads, NEW a \in Assignments, AssignTake(t, a)
  PROVE  Bindings' /\ Stores'
<1>1. Unharmed /\ Pipes /\ Owners /\ Sources /\ BoundOnce /\ LoadingHasLoader
  BY Zenon DEF Bindings
<1>2. PICK k \in SlotIds : /\ slot' = [slot EXCEPT ![k].asn = a, ![k].loading = TRUE] /\ Free(k)
                           /\ thread' = [thread EXCEPT ![t] = [Idle EXCEPT !.pc = "load", !.asn = a, !.k = k]]
  BY Zenon DEF AssignTake
<1>3. /\ Bound(a) = {} /\ thread[t].pc = "idle" /\ slot[k].asn = None
      /\ UNCHANGED <<child, slotLock, stateLock, broken, idem, runs, top, answer>>
  BY Zenon, <1>2 DEF AssignTake, Arrives, Free
<1>4. /\ slot'[k].asn = a /\ slot'[k].loading = TRUE
      /\ \A j \in SlotIds : j # k => slot'[j] = slot[j]
  BY Zenon, <1>2, InvParts DEF SlotTypes
<1>5. /\ thread'[t].pc = "load" /\ thread'[t].asn = a /\ thread'[t].k = k
      /\ \A u \in Threads : u # t => thread'[u] = thread[u]
  <2>1. thread'[t] = [Idle EXCEPT !.pc = "load", !.asn = a, !.k = k]
        /\ \A u \in Threads : u # t => thread'[u] = thread[u]
    BY Zenon, <1>2, InvParts DEF ThreadTypes
  <2> QED BY Zenon, <2>1 DEF Idle
<1>6. \A u \in Threads : thread[u].pc \in Loading \cup {"release"} =>
        u # t /\ thread[u].k \in SlotIds /\ thread[u].k # k
  BY Zenon, <1>1, <1>3, Everyone DEF Owners, Loading
<1>7. Unharmed' /\ Stores'
  BY Zenon, <1>1, <1>3, <1>5 DEF Unharmed, Stores
<1>8. Pipes'
  BY Zenon, <1>1, <1>3, <1>5 DEF Pipes
<1>9. Owners'
  <2>1. \A u \in Threads : u # t /\ thread'[u].pc \in Loading \cup {"release"} =>
          thread'[u].k # k /\ slot'[thread'[u].k] = slot[thread[u].k] /\ thread'[u] = thread[u]
    BY <1>4, <1>5, <1>6
  <2> QED BY <2>1, <1>1, <1>4, <1>5 DEF Owners
<1>10. Sources'
  <2>1. child[k].loaded = {}
    BY Zenon, <1>1, <1>3, Everyone DEF Sources
  <2> QED BY Zenon, <2>1, <1>1, <1>3, <1>4 DEF Sources
<1>11. BoundOnce'
  <2>1. \A j \in SlotIds : slot[j].asn # a
    BY Zenon, <1>3 DEF Bound
  <2> QED BY <2>1, <1>1, <1>4 DEF BoundOnce
<1>12. LoadingHasLoader'
  <2>1. ASSUME NEW j \in SlotIds, slot'[j].asn # None, slot'[j].loading
        PROVE  \E u \in Threads : thread'[u].k = j /\ thread'[u].pc \in Loading
    <3>1. CASE j = k
      BY Zenon, <3>1, <1>5 DEF Loading
    <3>2. CASE j # k
      BY <3>2, <2>1, <1>1, <1>4, <1>5, <1>6 DEF LoadingHasLoader
    <3> QED BY Zenon, <3>1, <3>2
  <2> QED BY Zenon, <2>1 DEF LoadingHasLoader
<1> QED BY Zenon, <1>7, <1>8, <1>9, <1>10, <1>11, <1>12 DEF Bindings

LEMMA AssignSendBinds ==
  ASSUME LockInv, Bindings, Stores, NEW t \in Threads, NEW ok \in BOOLEAN, AssignSend(t, ok)
  PROVE  Bindings' /\ Stores'
<1> DEFINE k == thread[t].k
           a == thread[t].asn
<1>1. Unharmed /\ Pipes /\ Owners /\ Sources /\ BoundOnce /\ LoadingHasLoader
  BY Zenon DEF Bindings
<1>2. /\ thread[t].pc = "load" /\ slotLock[k] = None /\ (ok \/ a \notin child[k].loaded) /\ LoadEffect(k, a, ok)
      /\ slotLock' = [slotLock EXCEPT ![k] = t] /\ Step(t, "loadWait")
      /\ UNCHANGED <<arrived, slot, stateLock, broken, idem, runs, top, answer>>
  BY Zenon DEF AssignSend
<1>3. k \in SlotIds /\ a \in Assignments /\ thread[t] \in ThreadRec /\ SlotTypes /\ SlotLocks
  BY Zenon, <1>2, Serves DEF Loading, Busy
<1>4. /\ thread'[t].pc = "loadWait" /\ thread'[t].asn = a /\ thread'[t].k = k
      /\ \A u \in Threads : u # t => thread'[u] = thread[u]
  <2>1. thread'[t] = [thread[t] EXCEPT !.pc = "loadWait"] /\ \A u \in Threads : u # t => thread'[u] = thread[u]
    BY Zenon, <1>2, Takes DEF Loading, Invoking, Held
  <2> QED BY Zenon, <2>1, <1>3 DEF ThreadRec
<1>5. /\ child'[k].alive = child[k].alive
      /\ child'[k].loaded = (IF ok THEN child[k].loaded \cup {a} ELSE child[k].loaded)
      /\ child'[k].pipe = Append(child[k].pipe, LoadReply(a, ok))
      /\ \A j \in SlotIds : j # k => child'[j] = child[j]
  <2> HIDE DEF k, a
  <2> QED BY Zenon, <1>2, <1>3, Loads
<1>6. slotLock'[k] = t /\ t # None /\ \A j \in SlotIds : j # k => slotLock'[j] = slotLock[j]
  BY <1>2, <1>3, Everyone DEF SlotLocks
<1>7. \A u \in Threads : u # t /\ thread[u].pc \in {"loadWait", "wait", "rejected"} =>
        thread[u].k \in SlotIds /\ thread[u].k # k
  <2>1. ASSUME NEW u \in Threads, thread[u].pc \in {"loadWait", "wait"}
        PROVE  thread[u].k \in SlotIds /\ thread[u].k # k
    BY Zenon, <2>1, <1>2, Everyone DEF Holds
  <2>2. ASSUME NEW u \in Threads, u # t, thread[u].pc = "rejected"
        PROVE  thread[u].k \in SlotIds /\ thread[u].k # k
    BY Zenon, <2>2, <1>1, <1>2, Everyone DEF Owners, Loading
  <2> QED BY Zenon, <2>1, <2>2
<1>8. Unharmed' /\ Stores'
  BY ZenonT(30), <1>1, <1>2, <1>4, <1>5 DEF Unharmed, Stores
<1>9. child'[k].pipe = <<LoadReply(a, ok)>>
  <2>1. child[k].pipe = <<>>
    BY Zenon, <1>1, <1>2, <1>3 DEF Pipes
  <2> QED BY <2>1, <1>5
<1>10. Pipes'
  <2>1. \A j \in SlotIds : slotLock'[j] = None => child'[j].pipe = <<>>
    BY Zenon, <1>1, <1>5, <1>6 DEF Pipes
  <2>2. \A u \in Threads : u # t /\ thread'[u].pc \in {"loadWait", "wait", "rejected"} =>
          thread'[u] = thread[u] /\ child'[thread[u].k] = child[thread[u].k]
    BY Zenon, <1>4, <1>5, <1>7
  <2>3. ok \/ a \notin child'[k].loaded
    BY ZenonT(30), <1>2, <1>5
  <2>4. ASSUME NEW u \in Threads, thread'[u].pc = "loadWait"
        PROVE  \E o \in BOOLEAN : /\ child'[thread'[u].k].pipe = <<LoadReply(thread'[u].asn, o)>>
                                  /\ o \/ thread'[u].asn \notin child'[thread'[u].k].loaded
    <3>1. CASE u = t
      BY Zenon, <3>1, <2>3, <1>4, <1>9
    <3>2. CASE u # t
      BY SMTT(20), <3>2, <2>2, <2>4, <1>1 DEF Pipes
    <3> QED BY Zenon, <3>1, <3>2
  <2>5. ASSUME NEW u \in Threads, thread'[u].pc = "wait"
        PROVE  \E o \in BOOLEAN : child'[thread'[u].k].pipe = <<InvokeReply(thread'[u].inv, o)>>
    <3>1. u # t /\ thread'[u] = thread[u] /\ child'[thread[u].k] = child[thread[u].k]
      BY Zenon, <2>2, <2>5, <1>4
    <3>2. \E o \in BOOLEAN : child[thread[u].k].pipe = <<InvokeReply(thread[u].inv, o)>>
      BY Zenon, <3>1, <2>5, <1>1 DEF Pipes
    <3> QED BY Zenon, <3>1, <3>2
  <2>6. ASSUME NEW u \in Threads, thread'[u].pc = "rejected"
        PROVE  thread'[u].asn \notin child'[thread'[u].k].loaded
    BY SMTT(20), <2>2, <2>6, <1>1, <1>4 DEF Pipes
  <2> QED BY Zenon, <2>1, <2>4, <2>5, <2>6 DEF Pipes
<1>11. Owners'
  <2>1. \A u \in Threads : /\ thread'[u].asn = thread[u].asn /\ thread'[u].k = thread[u].k
                           /\ thread'[u].pc \in Loading <=> thread[u].pc \in Loading
                           /\ thread'[u].pc = "release" <=> thread[u].pc = "release"
    BY Zenon, <1>2, <1>4 DEF Loading
  <2> QED BY SMTT(20), <2>1, <1>1, <1>2 DEF Owners
<1>12. Sources'
  <2>1. slot[k].asn = a
    BY Zenon, <1>1, <1>2 DEF Owners, Loading
  <2> QED BY Zenon, <2>1, <1>1, <1>2, <1>5 DEF Sources
<1>13. BoundOnce'
  BY Zenon, <1>1, <1>2 DEF BoundOnce
<1>14. LoadingHasLoader'
  BY <1>1, <1>2, <1>4 DEF LoadingHasLoader, Loading
<1> QED BY Zenon, <1>8, <1>10, <1>11, <1>12, <1>13, <1>14 DEF Bindings

LEMMA AssignReceiveBinds ==
  ASSUME LockInv, Bindings, Stores, NEW t \in Threads, AssignReceive(t)
  PROVE  Bindings' /\ Stores'
<1> DEFINE k == thread[t].k
           a == thread[t].asn
           p == IF Head(child[k].pipe).ok THEN "loaded" ELSE "rejected"
<1>1. Unharmed /\ Pipes /\ Owners /\ Sources /\ BoundOnce /\ LoadingHasLoader
  BY Zenon DEF Bindings
<1>2. /\ thread[t].pc = "loadWait" /\ child[k].pipe # <<>> /\ child' = [child EXCEPT ![k].pipe = Tail(@)]
      /\ Step(t, p) /\ Unlock(k)
      /\ UNCHANGED <<arrived, slot, stateLock, broken, idem, runs, top, answer>>
  BY Zenon DEF AssignReceive
<1>3. k \in SlotIds /\ a \in Assignments /\ thread[t] \in ThreadRec /\ SlotTypes /\ SlotLocks /\ ThreadTypes
  BY Zenon, <1>2, Serves DEF Loading, Busy
<1>4. PICK ok \in BOOLEAN : child[k].pipe = <<LoadReply(a, ok)>> /\ (ok \/ a \notin child[k].loaded)
  BY Zenon, <1>1, <1>2 DEF Pipes
<1>5. p = IF ok THEN "loaded" ELSE "rejected"
  BY <1>4 DEF LoadReply
<1> HIDE DEF p
<1>6. /\ thread'[t].pc = p /\ thread'[t].asn = a /\ thread'[t].k = k
      /\ \A u \in Threads : u # t => thread'[u] = thread[u]
  BY Zenon, <1>2, <1>3 DEF Step, ThreadTypes, ThreadRec
<1>7. /\ child'[k].alive = child[k].alive /\ child'[k].loaded = child[k].loaded
      /\ child'[k].pipe = Tail(child[k].pipe)
      /\ \A j \in SlotIds : j # k => child'[j] = child[j]
  BY Zenon, <1>2, <1>3, Receives
<1>8. \A j \in SlotIds : j # k => slotLock'[j] = slotLock[j]
  BY Zenon, <1>2, <1>3 DEF Unlock, SlotLocks
<1>9. \A u \in Threads : u # t /\ thread[u].pc \in {"loadWait", "wait"} => thread[u].k \in SlotIds /\ thread[u].k # k
  BY Zenon, <1>2, <1>3, Everyone DEF Holds
<1>10. Unharmed' /\ Stores'
  BY Zenon, <1>1, <1>2, <1>5, <1>6, <1>7 DEF Unharmed, Stores
<1>11. child'[k].pipe = <<>>
  BY <1>4, <1>7
<1>12. Pipes'
  <2>1. \A j \in SlotIds : slotLock'[j] = None => child'[j].pipe = <<>>
    BY Zenon, <1>1, <1>7, <1>8, <1>11 DEF Pipes
  <2>2. \A u \in Threads : thread'[u].pc \in {"loadWait", "wait"} =>
          thread'[u] = thread[u] /\ child'[thread[u].k] = child[thread[u].k]
    BY Zenon, <1>5, <1>6, <1>7, <1>9
  <2>3. \A u \in Threads : thread'[u].pc = "rejected" => thread'[u].asn \notin child'[thread'[u].k].loaded
    <3>1. \A j \in SlotIds : child'[j].loaded = child[j].loaded
      BY Zenon, <1>7
    <3>2. thread'[t].pc = "rejected" => a \notin child'[k].loaded
      BY Zenon, <1>4, <1>5, <1>6, <1>7
    <3>3. \A u \in Threads : u # t /\ thread[u].pc = "rejected" =>
            thread[u].k \in SlotIds /\ thread[u].asn \notin child[thread[u].k].loaded
      BY Zenon, <1>1, Everyone DEF Pipes
    <3> QED BY <3>1, <3>2, <3>3, <1>6
  <2> QED BY ZenonT(30), <2>1, <2>2, <2>3, <1>1 DEF Pipes
<1>13. \A u \in Threads : /\ thread'[u].asn = thread[u].asn /\ thread'[u].k = thread[u].k
                          /\ thread'[u].pc \in Loading <=> thread[u].pc \in Loading
                          /\ thread'[u].pc = "release" <=> thread[u].pc = "release"
  BY Zenon, <1>2, <1>5, <1>6 DEF Loading
<1>14. Owners'
  BY <1>1, <1>2, <1>13 DEF Owners
<1>15. Sources'
  BY Zenon, <1>1, <1>2, <1>7 DEF Sources
<1>16. BoundOnce'
  BY Zenon, <1>1, <1>2 DEF BoundOnce
<1>17. LoadingHasLoader'
  BY <1>1, <1>2, <1>13 DEF LoadingHasLoader
<1> QED BY Zenon, <1>10, <1>12, <1>14, <1>15, <1>16, <1>17 DEF Bindings

\* The end of an assign: its slot is free again, or serves.
LEMMA AssignEndBinds ==
  ASSUME LockInv, Bindings, Stores, NEW t \in Threads, AssignRejected(t) \/ AssignLoaded(t)
  PROVE  Bindings' /\ Stores'
<1> DEFINE k == thread[t].k
<1>1. Unharmed /\ Pipes /\ Owners /\ Sources /\ BoundOnce /\ LoadingHasLoader
  BY Zenon DEF Bindings
<1>2. /\ thread[t].pc \in {"rejected", "loaded"} /\ Done(t)
      /\ UNCHANGED <<arrived, child, slotLock, stateLock, broken, idem, runs, top, answer>>
  BY Zenon DEF AssignRejected, AssignLoaded
<1>3. k \in SlotIds /\ thread[t].asn \in Assignments /\ SlotTypes /\ ThreadTypes
  BY Zenon, <1>2, Serves DEF Loading, Busy
<1>4. thread'[t].pc = "idle" /\ \A u \in Threads : u # t => thread'[u] = thread[u]
  BY Zenon, <1>2, <1>3, Ends, IdleShape
<1>5. /\ \A j \in SlotIds : j # k => slot'[j] = slot[j]
      /\ slot'[k].loading = FALSE
      /\ slot'[k].asn = IF thread[t].pc = "rejected" THEN None ELSE slot[k].asn
  <2>1. CASE AssignRejected(t)
    BY Zenon, <2>1, <1>3 DEF AssignRejected, SlotTypes
  <2>2. CASE AssignLoaded(t)
    BY SMTT(20), <2>2, <1>3 DEF AssignLoaded, SlotTypes
  <2> QED BY Zenon, <2>1, <2>2
<1>6. slot[k].asn = thread[t].asn /\ (thread[t].pc = "rejected" => thread[t].asn \notin child[k].loaded)
  BY Zenon, <1>1, <1>2 DEF Owners, Pipes, Loading
<1>7. \A u \in Threads : u # t /\ thread[u].pc \in Loading \cup {"release"} =>
        thread[u].k \in SlotIds /\ thread[u].k # k
  BY Zenon, <1>1, <1>2, Everyone DEF Owners, Loading
<1>8. Unharmed' /\ Stores'
  BY Zenon, <1>1, <1>2, <1>4 DEF Unharmed, Stores
<1>9. Pipes'
  BY ZenonT(30), <1>1, <1>2, <1>4 DEF Pipes
<1>10. Owners'
  <2>1. \A u \in Threads : thread'[u].pc \in Loading \cup {"release"} =>
          u # t /\ thread'[u] = thread[u] /\ slot'[thread[u].k] = slot[thread[u].k]
    BY Zenon, <1>4, <1>5, <1>7 DEF Loading
  <2> QED BY SMTT(20), <2>1, <1>1 DEF Owners
<1>11. Sources'
  <2>1. thread[t].pc = "rejected" => child[k].loaded = {}
    BY Zenon, <1>1, <1>3, <1>6 DEF Sources
  <2> QED BY Zenon, <2>1, <1>1, <1>2, <1>5 DEF Sources
<1>12. BoundOnce'
  BY SMTT(20), <1>1, <1>3, <1>5 DEF BoundOnce
<1>13. LoadingHasLoader'
  <2>1. ASSUME NEW j \in SlotIds, slot'[j].asn # None, slot'[j].loading
        PROVE  \E u \in Threads : thread'[u].k = j /\ thread'[u].pc \in Loading
    <3>1. j # k /\ slot'[j] = slot[j]
      BY Zenon, <2>1, <1>5
    <3>2. PICK u \in Threads : thread[u].k = j /\ thread[u].pc \in Loading
      BY Zenon, <3>1, <2>1, <1>1 DEF LoadingHasLoader
    <3> QED BY Zenon, <3>1, <3>2, <1>4
  <2> QED BY Zenon, <2>1 DEF LoadingHasLoader
<1> QED BY Zenon, <1>8, <1>9, <1>10, <1>11, <1>12, <1>13 DEF Bindings

LEMMA ReleaseFindBinds ==
  ASSUME Calm, LockInv, Bindings, Stores, NEW t \in Threads, NEW a \in Assignments, ReleaseFind(t, a)
  PROVE  Bindings' /\ Stores'
<1>1. Unharmed /\ Pipes /\ Owners /\ Sources /\ BoundOnce /\ LoadingHasLoader
  BY Zenon DEF Bindings
<1>2. PICK k \in Bound(a) : thread' = [thread EXCEPT ![t] = [Idle EXCEPT !.pc = "release", !.asn = a, !.k = k]]
  BY Zenon DEF ReleaseFind
<1>3. /\ k \in SlotIds /\ slot[k].asn = a /\ thread[t].pc = "idle"
      /\ \A u \in Threads : ~(thread[u].asn = a /\ thread[u].pc \in Loading)
      /\ UNCHANGED <<slot, child, slotLock, broken, idem, runs, top, answer>>
  BY Zenon DEF ReleaseFind, Arrives, Bound, Calm
<1>4. /\ thread'[t].pc = "release" /\ thread'[t].asn = a /\ thread'[t].k = k
      /\ \A u \in Threads : u # t => thread'[u] = thread[u]
  <2>1. thread'[t] = [Idle EXCEPT !.pc = "release", !.asn = a, !.k = k]
        /\ \A u \in Threads : u # t => thread'[u] = thread[u]
    BY Zenon, <1>2, InvParts DEF ThreadTypes
  <2> QED BY Zenon, <2>1 DEF Idle
<1>5. \A u \in Threads : thread[u].pc \in Loading => u # t /\ thread[u].k # k
  BY Zenon, <1>1, <1>3 DEF Owners, Loading
<1>6. Unharmed' /\ Stores'
  BY Zenon, <1>1, <1>3, <1>4 DEF Unharmed, Stores
<1>7. Pipes'
  BY ZenonT(30), <1>1, <1>3, <1>4 DEF Pipes
<1>8. Owners'
  <2>1. \A u \in Threads : u # t => thread'[u] = thread[u]
    BY Zenon, <1>4
  <2>2. thread'[t].pc \notin Loading
    BY Zenon, <1>4 DEF Loading
  <2> QED BY <2>1, <2>2, <1>1, <1>3, <1>4, <1>5 DEF Owners
<1>9. Sources' /\ BoundOnce'
  BY ZenonT(30), <1>1, <1>3 DEF Sources, BoundOnce
<1>10. LoadingHasLoader'
  BY <1>1, <1>3, <1>4, <1>5 DEF LoadingHasLoader
<1> QED BY Zenon, <1>6, <1>7, <1>8, <1>9, <1>10 DEF Bindings

LEMMA ReleaseReplaceBinds ==
  ASSUME LockInv, Bindings, Stores, NEW t \in Threads, ReleaseReplace(t)
  PROVE  Bindings' /\ Stores'
<1> DEFINE k == thread[t].k
<1>1. Unharmed /\ Pipes /\ Owners /\ Sources /\ BoundOnce /\ LoadingHasLoader
  BY Zenon DEF Bindings
<1>2. SlotTypes /\ ThreadTypes /\ StateLock /\ SlotLocks
  BY Zenon, InvParts
<1>3. thread[t].pc = "release" /\ slotLock[k] = None /\ Done(t) /\ slotLock' = slotLock
  BY Zenon DEF ReleaseReplace
<1>4. k \in SlotIds /\ slot[k].asn = thread[t].asn /\ thread[t].asn \in Assignments
  BY Zenon, <1>1, <1>3, Everyone DEF Owners
<1>5. Replace(k, t)
  BY Zenon, <1>4, SupervisorAssumption DEF ReleaseReplace
<1>6. /\ slot'[k].asn = None /\ child'[k] = Fresh
      /\ \A j \in SlotIds : j # k => slot'[j] = slot[j] /\ child'[j] = child[j]
  <2>1. slot[k] \in [asn : Assignments \cup {None}, loading : BOOLEAN, high : 0 .. MaxSeq]
    BY Zenon, <1>2, <1>4 DEF SlotTypes
  <2>2. slot'[k] = [slot[k] EXCEPT !.asn = None, !.high = 0]
    BY Zenon, <1>2, <1>4, <1>5, ReplaceTyped
  <2>3. child'[k] = Fresh /\ \A j \in SlotIds : j # k => slot'[j] = slot[j] /\ child'[j] = child[j]
    BY Zenon, <1>2, <1>4, <1>5, ReplaceTyped
  <2> QED BY Zenon, <2>1, <2>2, <2>3
<1>7. thread'[t].pc = "idle" /\ \A u \in Threads : u # t => thread'[u] = thread[u]
  BY Zenon, <1>2, <1>3, Ends, IdleShape
<1>8. \A u \in Threads : thread[u].pc \in {"loadWait", "wait"} => thread[u].k \in SlotIds /\ thread[u].k # k
  BY Zenon, <1>3, Everyone DEF Holds
<1>9. broken' = {}
  <2>1. Readers(k) = {}
    BY Zenon, <1>8 DEF Readers
  <2> QED BY Zenon, <2>1, <1>1, <1>5 DEF Replace, Unharmed
<1>10. \A u \in Threads : u # t /\ thread[u].pc \in Loading \cup {"release"} =>
         thread[u].k \in SlotIds /\ thread[u].k # k
  <2>1. ASSUME NEW u \in Threads, u # t, thread[u].pc \in Loading  PROVE thread[u].k \in SlotIds /\ thread[u].k # k
    BY Zenon, <2>1, <1>1, <1>3, Everyone DEF Owners, Loading
  <2>2. ASSUME NEW u \in Threads, u # t  PROVE thread[u].pc # "release"
    BY Zenon, <2>2, <1>2, <1>3 DEF StateLock
  <2> QED BY Zenon, <2>1, <2>2
<1>11. Fresh.alive /\ Fresh.loaded = {} /\ Fresh.pipe = <<>>
  BY Zenon DEF Fresh
<1>12. Unharmed'
  BY Zenon, <1>1, <1>6, <1>7, <1>9, <1>11 DEF Unharmed
<1>13. Stores'
  BY Zenon, <1>7 DEF Stores
<1>14. Pipes'
  <2>1. \A j \in SlotIds : slotLock'[j] = None => child'[j].pipe = <<>>
    BY Zenon, <1>1, <1>3, <1>6, <1>11 DEF Pipes
  <2>2. \A u \in Threads : thread'[u].pc \in {"loadWait", "wait", "rejected"} =>
          thread'[u] = thread[u] /\ child'[thread[u].k] = child[thread[u].k]
    BY ZenonT(30), <1>6, <1>7, <1>8, <1>10 DEF Loading
  <2> QED BY ZenonT(30), <2>1, <2>2, <1>1 DEF Pipes
<1>15. Owners'
  <2>1. \A u \in Threads : thread'[u].pc \in Loading \cup {"release"} =>
          thread'[u] = thread[u] /\ slot'[thread[u].k] = slot[thread[u].k]
    BY Zenon, <1>6, <1>7, <1>10 DEF Loading
  <2> QED BY SMTT(20), <2>1, <1>1 DEF Owners
<1>16. Sources'
  BY Zenon, <1>1, <1>6, <1>11 DEF Sources
<1>17. BoundOnce'
  BY <1>1, <1>6 DEF BoundOnce
<1>18. LoadingHasLoader'
  <2>1. ASSUME NEW j \in SlotIds, slot'[j].asn # None, slot'[j].loading
        PROVE  \E u \in Threads : thread'[u].k = j /\ thread'[u].pc \in Loading
    <3>1. j # k /\ slot'[j] = slot[j]
      BY Zenon, <2>1, <1>6
    <3>2. PICK u \in Threads : thread[u].k = j /\ thread[u].pc \in Loading
      BY Zenon, <3>1, <2>1, <1>1 DEF LoadingHasLoader
    <3> QED BY Zenon, <3>1, <3>2, <1>7
  <2> QED BY Zenon, <2>1 DEF LoadingHasLoader
<1> QED BY Zenon, <1>12, <1>13, <1>14, <1>15, <1>16, <1>17, <1>18 DEF Bindings

LEMMA InvokeSendBinds ==
  ASSUME LockInv, Bindings, Stores, NEW t \in Threads, InvokeSend(t)
  PROVE  Bindings' /\ Stores'
<1> DEFINE k == thread[t].k
           i == thread[t].inv
           x == InvokeReply(i, thread[t].asn \in child[k].loaded)
<1>1. Unharmed /\ Pipes /\ Owners /\ Sources /\ BoundOnce /\ LoadingHasLoader
  BY Zenon DEF Bindings
<1>2. thread[t].pc = "invoke" /\ slotLock[k] = None
  BY Zenon DEF InvokeSend
<1>3. k \in SlotIds /\ thread[t] \in ThreadRec /\ SlotTypes /\ SlotLocks
  BY Zenon, <1>2, Serves DEF Invoking, Busy
<1>4. child[k].alive
  BY Zenon, <1>1, <1>3 DEF Unharmed
<1>5. /\ child' = [child EXCEPT ![k].pipe = Append(@, x)] /\ Step(t, "wait")
      /\ slotLock' = [slotLock EXCEPT ![k] = t] /\ UNCHANGED <<slot, stateLock, broken>>
  BY Zenon, <1>4 DEF InvokeSend
<1>6. /\ thread'[t].pc = "wait" /\ thread'[t].inv = i /\ thread'[t].k = k
      /\ \A u \in Threads : u # t => thread'[u] = thread[u]
  <2>1. thread'[t] = [thread[t] EXCEPT !.pc = "wait"] /\ \A u \in Threads : u # t => thread'[u] = thread[u]
    BY Zenon, <1>2, <1>5, Takes DEF Loading, Invoking, Held
  <2> QED BY Zenon, <2>1, <1>3 DEF ThreadRec
<1>7. /\ child'[k].alive = child[k].alive /\ child'[k].loaded = child[k].loaded
      /\ child'[k].pipe = Append(child[k].pipe, x)
      /\ \A j \in SlotIds : j # k => child'[j] = child[j]
  BY Zenon, <1>3, <1>5 DEF SlotTypes
<1>8. child'[k].pipe = <<x>>
  <2>1. child[k].pipe = <<>>
    BY Zenon, <1>1, <1>2, <1>3 DEF Pipes
  <2> QED BY <2>1, <1>7
<1>9. slotLock'[k] = t /\ t # None /\ \A j \in SlotIds : j # k => slotLock'[j] = slotLock[j]
  BY SMTT(20), <1>3, <1>5, Everyone DEF SlotLocks
<1>10. \A u \in Threads : u # t /\ thread[u].pc \in {"loadWait", "wait"} => thread[u].k \in SlotIds /\ thread[u].k # k
  BY Zenon, <1>2, Everyone DEF Holds
<1>11. Unharmed' /\ Stores'
  BY Zenon, <1>1, <1>5, <1>6, <1>7 DEF Unharmed, Stores
<1>12. Pipes'
  <2>1. \A j \in SlotIds : slotLock'[j] = None => child'[j].pipe = <<>>
    BY Zenon, <1>1, <1>7, <1>9 DEF Pipes
  <2>2. \A u \in Threads : u # t /\ thread'[u].pc \in {"loadWait", "wait"} =>
          thread'[u] = thread[u] /\ child'[thread[u].k] = child[thread[u].k]
    BY Zenon, <1>6, <1>7, <1>10
  <2>3. ASSUME NEW u \in Threads, thread'[u].pc = "wait"
        PROVE  \E o \in BOOLEAN : child'[thread'[u].k].pipe = <<InvokeReply(thread'[u].inv, o)>>
    <3>1. CASE u = t
      <4>1. (thread[t].asn \in child[k].loaded) \in BOOLEAN
        OBVIOUS
      <4>2. child'[thread'[u].k].pipe = <<InvokeReply(thread'[u].inv, thread[t].asn \in child[k].loaded)>>
        BY <3>1, <1>6, <1>8, Zenon
      <4> QED BY <4>1, <4>2, Zenon
    <3>2. CASE u # t
      <4>1. \E o \in BOOLEAN : child[thread[u].k].pipe = <<InvokeReply(thread[u].inv, o)>>
        BY Zenon, <3>2, <2>2, <2>3, <1>1 DEF Pipes
      <4> QED BY Zenon, <4>1, <3>2, <2>2, <2>3
    <3> QED BY Zenon, <3>1, <3>2
  <2>4. ASSUME NEW u \in Threads, thread'[u].pc = "loadWait"
        PROVE  \E o \in BOOLEAN : /\ child'[thread'[u].k].pipe = <<LoadReply(thread'[u].asn, o)>>
                                  /\ o \/ thread'[u].asn \notin child'[thread'[u].k].loaded
    <3>1. u # t /\ thread'[u] = thread[u] /\ child'[thread[u].k] = child[thread[u].k]
      BY Zenon, <2>2, <2>4, <1>6
    <3> QED BY Zenon, <3>1, <2>4, <1>1 DEF Pipes
  <2>5. ASSUME NEW u \in Threads, thread'[u].pc = "rejected"
        PROVE  thread'[u].asn \notin child'[thread'[u].k].loaded
    <3>1. u # t /\ thread'[u] = thread[u] /\ thread[u].k \in SlotIds
      BY Zenon, <2>5, <1>6, Everyone
    <3>2. child'[thread[u].k].loaded = child[thread[u].k].loaded
      BY Zenon, <3>1, <1>7
    <3> QED BY Zenon, <3>1, <3>2, <2>5, <1>1 DEF Pipes
  <2> QED BY Zenon, <2>1, <2>3, <2>4, <2>5 DEF Pipes
<1>13. \A u \in Threads : thread'[u].pc \in Loading \cup {"release"} => thread'[u] = thread[u]
  BY Zenon, <1>6 DEF Loading
<1>14. Owners'
  BY <1>1, <1>5, <1>13 DEF Owners
<1>15. Sources' /\ BoundOnce'
  BY Zenon, <1>1, <1>5, <1>7 DEF Sources, BoundOnce
<1>16. LoadingHasLoader'
  BY <1>1, <1>2, <1>5, <1>6 DEF LoadingHasLoader, Loading
<1> QED BY Zenon, <1>11, <1>12, <1>14, <1>15, <1>16 DEF Bindings

LEMMA InvokeReceiveBinds ==
  ASSUME LockInv, Bindings, Stores, NEW t \in Threads, InvokeReceive(t)
  PROVE  Bindings' /\ Stores'
<1> DEFINE k == thread[t].k
           i == thread[t].inv
           x == Head(child[k].pipe)
<1>1. Unharmed /\ Pipes /\ Owners /\ Sources /\ BoundOnce /\ LoadingHasLoader
  BY Zenon DEF Bindings
<1>2. /\ thread[t].pc = "wait" /\ child[k].pipe # <<>> /\ child' = [child EXCEPT ![k].pipe = Tail(@)]
      /\ Done(t) \/ thread' = [thread EXCEPT ![t].pc = "store", ![t].res = x]
      /\ Unlock(k) /\ UNCHANGED <<slot, stateLock, broken>>
  BY Zenon DEF InvokeReceive
<1>3. k \in SlotIds /\ thread[t] \in ThreadRec /\ SlotTypes /\ SlotLocks /\ ThreadTypes
  BY Zenon, <1>2, Serves DEF Invoking, Busy
<1>4. PICK ok \in BOOLEAN : child[k].pipe = <<InvokeReply(i, ok)>>
  BY Zenon, <1>1, <1>2 DEF Pipes
<1>5. x.kind = "invoke" /\ x.id = i
  BY <1>4 DEF InvokeReply
<1>6. /\ child'[k].alive = child[k].alive /\ child'[k].loaded = child[k].loaded
      /\ child'[k].pipe = Tail(child[k].pipe) /\ x \in Replies
      /\ \A j \in SlotIds : j # k => child'[j] = child[j]
  BY Zenon, <1>2, <1>3, Receives
<1>7. child'[k].pipe = <<>>
  BY <1>4, <1>6
<1> HIDE DEF x
<1>8. /\ \A u \in Threads : u # t => thread'[u] = thread[u]
      /\ \/ thread'[t].pc = "idle"
         \/ thread'[t].pc = "store" /\ thread'[t].inv = i /\ thread'[t].res = x
  <2>1. CASE Done(t)
    BY Zenon, <2>1, <1>3, Ends, IdleShape
  <2>2. CASE thread' = [thread EXCEPT ![t].pc = "store", ![t].res = x]
    BY Zenon, <2>2, <1>3 DEF ThreadTypes, ThreadRec
  <2> QED BY Zenon, <2>1, <2>2, <1>2
<1>9. \A j \in SlotIds : j # k => slotLock'[j] = slotLock[j]
  BY Zenon, <1>2, <1>3 DEF Unlock, SlotLocks
<1>10. \A u \in Threads : u # t /\ thread[u].pc \in {"loadWait", "wait"} => thread[u].k \in SlotIds /\ thread[u].k # k
  BY <1>2, <1>3, Everyone DEF Holds
<1>11. Unharmed'
  BY Zenon, <1>1, <1>2, <1>6, <1>8 DEF Unharmed
<1>12. Stores'
  <2>1. Own(i, x)
    BY Zenon, <1>5 DEF Own
  <2> QED BY Zenon, <2>1, <1>8 DEF Stores
<1>13. Pipes'
  <2>1. \A j \in SlotIds : slotLock'[j] = None => child'[j].pipe = <<>>
    BY Zenon, <1>1, <1>6, <1>7, <1>9 DEF Pipes
  <2>2. \A u \in Threads : thread'[u].pc \in {"loadWait", "wait"} =>
          thread'[u] = thread[u] /\ child'[thread[u].k] = child[thread[u].k]
    BY Zenon, <1>6, <1>8, <1>10
  <2>3. ASSUME NEW u \in Threads, thread'[u].pc = "rejected"
        PROVE  thread'[u].asn \notin child'[thread'[u].k].loaded
    <3>1. u # t /\ thread'[u] = thread[u] /\ thread[u].k \in SlotIds
      BY Zenon, <2>3, <1>8, Everyone
    <3>2. child'[thread[u].k].loaded = child[thread[u].k].loaded
      BY Zenon, <3>1, <1>6
    <3> QED BY Zenon, <3>1, <3>2, <2>3, <1>1 DEF Pipes
  <2> QED BY ZenonT(30), <2>1, <2>2, <2>3, <1>1 DEF Pipes
<1>14. \A u \in Threads : thread'[u].pc \in Loading \cup {"release"} => thread'[u] = thread[u]
  BY Zenon, <1>8 DEF Loading
<1>15. Owners'
  BY Zenon, <1>1, <1>2, <1>14 DEF Owners
<1>16. Sources' /\ BoundOnce'
  BY Zenon, <1>1, <1>2, <1>6 DEF Sources, BoundOnce
<1>17. LoadingHasLoader'
  BY SMTT(20), <1>1, <1>2, <1>8 DEF LoadingHasLoader, Loading
<1> QED BY Zenon, <1>11, <1>12, <1>13, <1>15, <1>16, <1>17 DEF Bindings

\* The other steps of an invoke touch neither the children nor who is bound.
LEMMA InvokeQuietBinds ==
  ASSUME LockInv, Bindings, Stores, NEW t \in Threads,
         InvokeFence(t) \/ InvokeReplay(t) \/ InvokeAdmit(t) \/ InvokeStore(t)
  PROVE  Bindings' /\ Stores'
<1>1. thread[t].pc \in {"verify", "lookup", "store"} /\ UNCHANGED <<child, slotLock, broken>>
  BY Zenon DEF InvokeFence, InvokeReplay, InvokeAdmit, InvokeStore
<1>2. thread[t].k \in SlotIds /\ thread[t] \in ThreadRec /\ SlotTypes /\ ThreadTypes
  BY Zenon, <1>1, Serves DEF Invoking, Busy
<1>3. /\ thread'[t].pc \in {"idle", "lookup", "invoke"}
      /\ \A u \in Threads : u # t => thread'[u] = thread[u]
  <2>1. CASE Done(t)
    BY Zenon, <2>1, <1>2, Ends, IdleShape
  <2>2. CASE Step(t, "lookup") \/ Step(t, "invoke")
    BY SMTT(20), <2>2, <1>2 DEF Step, ThreadTypes, ThreadRec
  <2> QED BY Zenon, <2>1, <2>2 DEF InvokeFence, InvokeReplay, InvokeAdmit, InvokeStore
<1>4. \A k \in SlotIds : slot'[k].asn = slot[k].asn /\ slot'[k].loading = slot[k].loading
  <2>1. CASE InvokeFence(t)
    BY Zenon, <2>1, <1>2 DEF InvokeFence, SlotTypes
  <2>2. CASE InvokeReplay(t) \/ InvokeAdmit(t) \/ InvokeStore(t)
    BY ZenonT(30), <2>2 DEF InvokeReplay, InvokeAdmit, InvokeStore
  <2> QED BY Zenon, <2>1, <2>2
<1> QED BY Zenon, <1>1, <1>2, <1>3, <1>4, QuietMove DEF Loading

LEMMA InvokeVerifyBinds ==
  ASSUME LockInv, Bindings, Stores, NEW t \in Threads, NEW a \in Assignments, NEW i \in Invocations,
         NEW q \in 1 .. MaxSeq, InvokeVerify(t, a, i, q)
  PROVE  Bindings' /\ Stores'
<1>1. thread[t].pc = "idle" /\ UNCHANGED <<slot, child, slotLock, broken>> /\ ThreadTypes
  BY Zenon, InvParts DEF InvokeVerify, Arrives
<1>2. PICK k \in SlotIds : thread' = [thread EXCEPT ![t] =
                             [Idle EXCEPT !.pc = "verify", !.asn = a, !.inv = i, !.seq = q, !.k = k]]
  BY Zenon DEF InvokeVerify, Bound
<1>3. thread'[t].pc = "verify" /\ \A u \in Threads : u # t => thread'[u] = thread[u]
  BY Zenon, <1>1, <1>2 DEF ThreadTypes, Idle
<1> QED BY Zenon, <1>1, <1>3, QuietMove DEF Loading

\* A calm step keeps the bindings, whoever takes it.
LEMMA NextBinds ==
  ASSUME Calm, LockInv, Bindings, Stores, [Next]_vars
  PROVE  Bindings' /\ Stores'
<1>1. /\ broken = {} /\ \A k \in SlotIds : child[k].alive
      /\ \A t \in Threads : thread[t].pc \notin {"loadFailed", "lost", "restore"}
  BY Zenon DEF Bindings, Unharmed
<1>2. \A t \in Threads : thread[t].pc # "idle" => thread[t].k \in SlotIds
  BY Zenon, Everyone
<1>3. ASSUME NEW t \in Threads, AssignStep(t)  PROVE Bindings' /\ Stores'
  <2>1. ~AssignSendFails(t) /\ ~AssignFail(t)
    BY Zenon, <1>1, <1>2 DEF AssignSendFails, AssignFail
  <2>2. ~AssignInterrupted(t)
    BY Zenon, <1>1, <1>2 DEF AssignInterrupted, Interrupted, Calm
  <2> QED BY Zenon, <1>3, <2>1, <2>2, AssignSendBinds, AssignReceiveBinds, AssignEndBinds DEF AssignStep
<1>4. ASSUME NEW t \in Threads, InvokeStep(t)  PROVE Bindings' /\ Stores'
  <2>1. ~InvokeReplace(t) /\ ~InvokeRestore(t)
    BY Zenon, <1>1 DEF InvokeReplace, InvokeRestore
  <2>2. ~InvokeInterrupted(t)
    BY Zenon, <1>1, <1>2 DEF InvokeInterrupted, Interrupted, Calm
  <2> QED BY Zenon, <1>4, <2>1, <2>2, InvokeSendBinds, InvokeReceiveBinds, InvokeQuietBinds DEF InvokeStep
<1>5. ASSUME NEW t \in Threads, Continue(t)  PROVE Bindings' /\ Stores'
  BY Zenon, <1>3, <1>4, <1>5, ReleaseReplaceBinds DEF Continue
<1>6. ASSUME NEW t \in Threads, Arrive(t)  PROVE Bindings' /\ Stores'
  BY Zenon, <1>6, AssignTakeBinds, ReleaseFindBinds, InvokeVerifyBinds DEF Arrive
<1>7. ASSUME UNCHANGED <<slot, child, slotLock, thread, broken>>  PROVE Bindings' /\ Stores'
  <2>1. Unharmed' /\ Pipes'
    BY Zenon, <1>7 DEF Bindings, Unharmed, Pipes
  <2>2. Owners' /\ Sources' /\ BoundOnce' /\ LoadingHasLoader'
    BY Zenon, <1>7 DEF Bindings, Owners, Sources, BoundOnce, LoadingHasLoader
  <2>3. Stores'
    BY Zenon, <1>7 DEF Stores
  <2> QED BY Zenon, <2>1, <2>2, <2>3 DEF Bindings
<1>8. ASSUME NEW i \in Invocations, ExpireIdempotency(i)  PROVE Bindings' /\ Stores'
  BY Zenon, <1>7, <1>8 DEF ExpireIdempotency
<1>9. ASSUME NEW k \in SlotIds  PROVE ~ChildDies(k)
  BY Zenon DEF ChildDies, Calm
<1>10. CASE UNCHANGED vars
  BY Zenon, <1>7, <1>10 DEF vars
<1> QED BY Zenon, <1>5, <1>6, <1>8, <1>9, <1>10 DEF Next

\* What is kept and what was answered, per invocation.
Recorded ==
  /\ \A i \in Invocations : idem[i] # None => Own(i, idem[i])
  /\ \A i \in Invocations : answer[i] # None => Own(i, answer[i])

LEMMA NextRecords ==
  ASSUME LockInv, Stores, Recorded, [Next]_vars
  PROVE  Recorded'
<1>1. LogTypes /\ ThreadTypes
  BY Zenon, InvParts
<1>2. CASE UNCHANGED <<idem, answer>>
  BY Zenon, <1>2 DEF Recorded
<1>3. ASSUME NEW t \in Threads, InvokeReplay(t)  PROVE Recorded'
  <2> DEFINE i == thread[t].inv
  <2>1. idem[i] # None /\ answer' = [answer EXCEPT ![i] = idem[i]] /\ idem' = idem
    BY Zenon, <1>3 DEF InvokeReplay
  <2>2. \A j \in Invocations : answer'[j] = answer[j] \/ (j = i /\ answer'[j] = idem[j])
    BY Zenon, <2>1, <1>1 DEF LogTypes
  <2> QED BY Zenon, <2>1, <2>2 DEF Recorded
<1>4. ASSUME NEW t \in Threads, InvokeStore(t)  PROVE Recorded'
  <2> DEFINE i == thread[t].inv
  <2>1. thread[t].pc = "store" /\ Own(i, thread[t].res)
    BY Zenon, <1>4 DEF InvokeStore, Stores
  <2>2. PICK r \in {thread[t].res} \cup {x \in {Unrecorded} : "ledger" \in Faults} :
          idem' = [idem EXCEPT ![i] = r] /\ answer' = [answer EXCEPT ![i] = r]
    BY Zenon, <1>4 DEF InvokeStore
  <2>3. Own(i, r)
    <3>1. Unrecorded.kind # "invoke"
      BY Zenon DEF Unrecorded
    <3> QED BY Zenon, <2>1, <2>2, <3>1 DEF Own
  <2>4. \A j \in Invocations : (idem'[j] = idem[j] /\ answer'[j] = answer[j])
                               \/ (j = i /\ idem'[j] = r /\ answer'[j] = r)
    BY Zenon, <2>2, <1>1 DEF LogTypes
  <2> QED BY Zenon, <2>3, <2>4 DEF Recorded
<1>5. ASSUME answer' = answer, \A j \in Invocations : idem'[j] \in {idem[j], None}
      PROVE  Recorded'
  BY Zenon, <1>5 DEF Recorded
<1>6. ASSUME NEW t \in Threads, ReleaseReplace(t)  PROVE Recorded'
  <2>1. answer' = answer /\ \A j \in Invocations : idem'[j] \in {idem[j], None}
    BY Zenon, <1>6 DEF ReleaseReplace
  <2> QED BY Zenon, <2>1, <1>5
<1>7. ASSUME NEW i \in Invocations, ExpireIdempotency(i)  PROVE Recorded'
  <2>1. answer' = answer /\ \A j \in Invocations : idem'[j] \in {idem[j], None}
    BY Zenon, <1>1, <1>7 DEF ExpireIdempotency, LogTypes
  <2> QED BY Zenon, <2>1, <1>5
<1>8. ASSUME NEW t \in Threads, AssignStep(t)  PROVE Recorded'
  <2>1. UNCHANGED <<idem, answer>>
    BY Zenon, <1>8 DEF AssignStep, AssignSend, AssignSendFails, AssignReceive, AssignInterrupted, AssignFail,
                AssignRejected, AssignLoaded
  <2> QED BY Zenon, <2>1, <1>2
<1>9. ASSUME NEW t \in Threads, InvokeStep(t)  PROVE Recorded'
  <2>1. InvokeReplay(t) \/ InvokeStore(t) \/ UNCHANGED <<idem, answer>>
    BY Zenon, <1>9 DEF InvokeStep, InvokeFence, InvokeAdmit, InvokeSend, InvokeReceive, InvokeInterrupted,
                InvokeReplace, InvokeRestore
  <2> QED BY Zenon, <2>1, <1>2, <1>3, <1>4
<1>10. ASSUME NEW t \in Threads, Arrive(t)  PROVE Recorded'
  <2>1. UNCHANGED <<idem, answer>>
    BY Zenon, <1>10 DEF Arrive, AssignTake, ReleaseFind, InvokeVerify
  <2> QED BY Zenon, <2>1, <1>2
<1>11. ASSUME NEW k \in SlotIds, ChildDies(k)  PROVE Recorded'
  BY Zenon, <1>2, <1>11 DEF ChildDies
<1>12. CASE UNCHANGED vars
  BY Zenon, <1>2, <1>12 DEF vars
<1> QED BY Zenon, <1>6, <1>7, <1>8, <1>9, <1>10, <1>11, <1>12 DEF Next, Continue

LEMMA InitCalm == Init => CalmInv
<1> SUFFICES ASSUME Init  PROVE CalmInv
  BY Zenon
<1>1. \A t \in Threads : thread[t].pc = "idle"
  BY Zenon, IdleShape DEF Init
<1>2. \A k \in SlotIds : /\ slot[k].asn = None /\ ~slot[k].loading /\ child[k].alive
                         /\ child[k].loaded = {} /\ child[k].pipe = <<>>
  BY Zenon DEF Init, Fresh
<1>3. Unharmed /\ Pipes
  BY Zenon, <1>1, <1>2 DEF Init, Unharmed, Pipes
<1>4. Owners /\ Sources /\ BoundOnce /\ LoadingHasLoader
  BY Zenon, <1>1, <1>2 DEF Owners, Sources, BoundOnce, LoadingHasLoader, Loading
<1>5. Answers
  BY Zenon, <1>1 DEF Init, Answers
<1> QED BY Zenon, <1>3, <1>4, <1>5 DEF CalmInv

LEMMA NextCalm ==
  ASSUME Calm, LockInv, CalmInv, [Next]_vars
  PROVE  CalmInv'
<1>1. Bindings /\ Stores /\ Recorded
  BY Zenon DEF CalmInv, Bindings, Answers, Stores, Recorded
<1>2. Bindings' /\ Stores'
  BY Zenon, <1>1, NextBinds
<1>3. Recorded'
  BY Zenon, <1>1, NextRecords
<1> QED BY Zenon, <1>2, <1>3 DEF CalmInv, Bindings, Answers, Stores, Recorded

\* CalmInv is an invariant of a supervisor whose children answer in time and
\* stay up, and whose releases follow answered assigns: then a pipe holds the
\* answer to the command of the thread that has slot.lock and nothing else.
THEOREM CalmInvariant == ASSUME Calm PROVE Spec => []CalmInv
<1>1. LockInv /\ CalmInv /\ [Next]_vars => CalmInv'
  BY Zenon, NextCalm
<1> QED BY <1>1, InitCalm, LockInvariant, PTL DEF Spec

\* A slot's child never holds the sources of two assignments: release replaces
\* the process, and a refused load leaves nothing behind.
THEOREM ChildrenFresh == ASSUME Calm PROVE Spec => []FreshChild
<1>1. CalmInv => FreshChild
  BY Zenon DEF CalmInv, Sources, FreshChild
<1> QED BY <1>1, CalmInvariant, PTL

-----------------------------------------------------------------------------
(* Answers, when children may exit, be replaced and be restored, and releases *)
(* may overtake loads, but no answer comes after its deadline.                *)

Prompt == "slow" \notin Faults

\* The answer in slot k's pipe is to the command thread t is waiting for.
WaitsFor(t, k) ==
  /\ thread[t].k = k /\ t \notin broken
  /\ \/ thread[t].pc = "loadWait" /\ \E ok \in BOOLEAN : child[k].pipe = <<LoadReply(thread[t].asn, ok)>>
     \/ thread[t].pc = "wait" /\ \E ok \in BOOLEAN : child[k].pipe = <<InvokeReply(thread[t].inv, ok)>>

\* Nothing but such answers is ever in a pipe, and only waiting threads have
\* their connection closed under them.
PipesOwned == \A k \in SlotIds : child[k].pipe = <<>> \/ \E t \in Threads : WaitsFor(t, k)
BrokenWait == \A t \in broken : thread[t].pc \in {"loadWait", "wait"}

PromptInv == PipesOwned /\ BrokenWait /\ Stores /\ Recorded

\* A step of t that empties a pipe or leaves it and the thread it belongs to alone.
LEMMA PipesKept ==
  ASSUME PipesOwned, NEW t \in Threads,
         \A u \in Threads : u # t => thread'[u] = thread[u],
         \A k \in SlotIds : \/ child'[k].pipe = <<>>
                            \/ /\ child'[k].pipe = child[k].pipe /\ ~WaitsFor(t, k)
                               /\ \A u \in Threads : u # t /\ thread[u].k = k /\ u \in broken' => u \in broken
  PROVE  PipesOwned'
<1> SUFFICES ASSUME NEW k \in SlotIds, child'[k].pipe # <<>>
             PROVE  \E u \in Threads : WaitsFor(u, k)'
  BY Zenon DEF PipesOwned
<1>1. /\ child'[k].pipe = child[k].pipe /\ ~WaitsFor(t, k)
      /\ \A u \in Threads : u # t /\ thread[u].k = k /\ u \in broken' => u \in broken
  BY Zenon
<1>2. PICK u \in Threads : WaitsFor(u, k)
  BY Zenon, <1>1 DEF PipesOwned
<1>3. u # t /\ thread'[u] = thread[u] /\ thread[u].k = k /\ u \notin broken'
  BY Zenon, <1>1, <1>2 DEF WaitsFor
<1>4. WaitsFor(u, k)'
  BY Zenon, <1>1, <1>2, <1>3 DEF WaitsFor
<1> QED BY Zenon, <1>4

\* A waiting thread has the lock of its slot, so the pipe of a slot whose lock is
\* free is empty and the answer a lock holder finds is its own.
LEMMA PipeOfHolder ==
  ASSUME LockInv, PipesOwned, NEW k \in SlotIds
  PROVE  /\ slotLock[k] = None => child[k].pipe = <<>>
         /\ \A t \in Threads : Holds(thread[t], k) => child[k].pipe = <<>> \/ WaitsFor(t, k)
<1>1. /\ \A u \in Threads : Holds(thread[u], k) => slotLock[k] = u
      /\ None \notin Threads
  BY Zenon, Everyone
<1>2. \A u \in Threads : WaitsFor(u, k) => Holds(thread[u], k)
  BY Zenon DEF WaitsFor, Holds
<1> QED BY Zenon, <1>1, <1>2 DEF PipesOwned

\* Steps of a thread that waits for no answer and touches no pipe.
LEMMA QuietPipes ==
  ASSUME LockInv, PromptInv, NEW t \in Threads, thread[t].pc \notin {"loadWait", "wait"},
         \A u \in Threads : u # t => thread'[u] = thread[u],
         thread'[t].pc = "store" => Own(thread'[t].inv, thread'[t].res),
         \A k \in SlotIds : child'[k].pipe = child[k].pipe, broken' = broken
  PROVE  PipesOwned' /\ BrokenWait' /\ Stores'
<1>1. PipesOwned /\ BrokenWait /\ Stores /\ broken \subseteq Threads
  BY Zenon, InvParts DEF PromptInv, SlotTypes
<1>2. \A k \in SlotIds : ~WaitsFor(t, k)
  BY Zenon DEF WaitsFor
<1>3. PipesOwned'
  BY Zenon, <1>1, <1>2, PipesKept
<1>4. BrokenWait'
  BY Zenon, <1>1 DEF BrokenWait
<1>5. Stores'
  BY Zenon, <1>1 DEF Stores
<1> QED BY Zenon, <1>3, <1>4, <1>5

\* A command is sent under the slot's lock, into an empty pipe.
LEMMA SentPipes ==
  ASSUME LockInv, PromptInv, NEW t \in Threads, thread[t].pc \notin {"loadWait", "wait"},
         NEW k \in SlotIds, WaitsFor(t, k)', thread'[t].pc # "store",
         \A u \in Threads : u # t => thread'[u] = thread[u],
         \A j \in SlotIds : j # k => child'[j] = child[j], broken' = broken
  PROVE  PipesOwned' /\ BrokenWait' /\ Stores'
<1>1. PipesOwned /\ BrokenWait /\ Stores /\ broken \subseteq Threads
  BY Zenon, InvParts DEF PromptInv, SlotTypes
<1>2. ASSUME NEW j \in SlotIds, j # k, child'[j].pipe # <<>>
      PROVE  \E u \in Threads : WaitsFor(u, j)'
  <2>1. child'[j].pipe = child[j].pipe /\ child[j].pipe # <<>>
    BY Zenon, <1>2
  <2>2. PICK u \in Threads : WaitsFor(u, j)
    BY Zenon, <2>1, <1>1 DEF PipesOwned
  <2>3. u # t /\ thread'[u] = thread[u]
    BY Zenon, <2>2 DEF WaitsFor
  <2>4. WaitsFor(u, j)'
    BY Zenon, <2>1, <2>2, <2>3 DEF WaitsFor
  <2> QED BY Zenon, <2>4
<1>3. PipesOwned'
  BY Zenon, <1>2 DEF PipesOwned
<1>4. BrokenWait'
  BY Zenon, <1>1 DEF BrokenWait
<1>5. Stores'
  BY Zenon, <1>1 DEF Stores
<1> QED BY Zenon, <1>3, <1>4, <1>5

\* The connection of the slot is replaced, under every thread that reads from it.
LEMMA ReplacedPipes ==
  ASSUME LockInv, PromptInv, NEW t \in Threads, thread[t].pc \notin {"loadWait", "wait"},
         NEW k \in SlotIds, Replace(k, t),
         \A u \in Threads : u # t => thread'[u] = thread[u],
         thread'[t].pc = "store" => Own(thread'[t].inv, thread'[t].res)
  PROVE  PipesOwned' /\ BrokenWait' /\ Stores'
<1>1. PipesOwned /\ BrokenWait /\ Stores /\ SlotTypes
  BY Zenon, InvParts DEF PromptInv
<1>2. child'[k] = Fresh /\ \A j \in SlotIds : j # k => child'[j] = child[j]
  BY Zenon, <1>1, ReplaceTyped
<1>3. child'[k].pipe = <<>>
  <2>1. Fresh.pipe = <<>>
    BY DEF Fresh
  <2> QED BY Zenon, <2>1, <1>2
<1>4. \A u \in broken' : u \in Threads /\ u # t /\ (u \in broken \/ (thread[u].k = k /\ thread[u].pc \in {"loadWait", "wait"}))
  BY Zenon, <1>1 DEF Replace, Readers, SlotTypes
<1>5. \A j \in SlotIds : ~WaitsFor(t, j)
  BY Zenon DEF WaitsFor
<1>6. ASSUME NEW j \in SlotIds
      PROVE  \/ child'[j].pipe = <<>>
             \/ /\ child'[j].pipe = child[j].pipe /\ ~WaitsFor(t, j)
                /\ \A u \in Threads : u # t /\ thread[u].k = j /\ u \in broken' => u \in broken
  <2>1. CASE j = k
    BY Zenon, <2>1, <1>3
  <2>2. CASE j # k
    BY Zenon, <2>2, <1>2, <1>4, <1>5
  <2> QED BY Zenon, <2>1, <2>2
<1>7. PipesOwned'
  BY Zenon, <1>1, <1>6, PipesKept
<1>8. BrokenWait'
  BY Zenon, <1>1, <1>4 DEF BrokenWait
<1>9. Stores'
  BY Zenon, <1>1 DEF Stores
<1> QED BY Zenon, <1>7, <1>8, <1>9

\* The holder of the lock takes the one answer, or finds that none will come.
LEMMA EndedPipes ==
  ASSUME LockInv, PromptInv, NEW t \in Threads, thread[t].pc \in {"loadWait", "wait"},
         \A u \in Threads : u # t => thread'[u] = thread[u],
         thread'[t].pc = "store" => Own(thread'[t].inv, thread'[t].res),
         broken' = broken \ {t},
         \A j \in SlotIds : j # thread[t].k => child'[j] = child[j],
         child'[thread[t].k].pipe = <<>>
           \/ (child' = child /\ (t \in broken \/ child[thread[t].k].pipe = <<>>))
  PROVE  PipesOwned' /\ BrokenWait' /\ Stores'
<1>1. PipesOwned /\ BrokenWait /\ Stores /\ SlotTypes
  BY Zenon, InvParts DEF PromptInv
<1>2. ASSUME NEW j \in SlotIds
      PROVE  \/ child'[j].pipe = <<>>
             \/ /\ child'[j].pipe = child[j].pipe /\ ~WaitsFor(t, j)
                /\ \A u \in Threads : u # t /\ thread[u].k = j /\ u \in broken' => u \in broken
  <2>1. CASE j # thread[t].k
    BY Zenon, <2>1 DEF WaitsFor
  <2>2. CASE j = thread[t].k
    BY Zenon, <2>2 DEF WaitsFor
  <2> QED BY Zenon, <2>1, <2>2
<1>3. PipesOwned'
  BY Zenon, <1>1, <1>2, PipesKept
<1>4. BrokenWait'
  BY Zenon, <1>1 DEF BrokenWait, SlotTypes
<1>5. Stores'
  BY Zenon, <1>1 DEF Stores
<1> QED BY Zenon, <1>3, <1>4, <1>5

\* What a step does to the record of the thread that takes it.
LEMMA StepRecord ==
  ASSUME LockInv, NEW t \in Threads, NEW p, Step(t, p)
  PROVE  /\ \A u \in Threads : u # t => thread'[u] = thread[u]
         /\ thread'[t].pc = p /\ thread'[t].k = thread[t].k
         /\ thread'[t].asn = thread[t].asn /\ thread'[t].inv = thread[t].inv
<1>1. thread \in [Threads -> ThreadRec] /\ thread[t] \in ThreadRec
  BY Zenon, InvParts DEF ThreadTypes
<1> QED BY Zenon, <1>1 DEF Step, ThreadRec

LEMMA StoreRecord ==
  ASSUME LockInv, NEW t \in Threads, NEW x, thread' = [thread EXCEPT ![t].pc = "store", ![t].res = x]
  PROVE  /\ \A u \in Threads : u # t => thread'[u] = thread[u]
         /\ thread'[t].inv = thread[t].inv /\ thread'[t].res = x
<1>1. thread \in [Threads -> ThreadRec] /\ thread[t] \in ThreadRec
  BY Zenon, InvParts DEF ThreadTypes
<1> QED BY Zenon, <1>1 DEF ThreadRec

LEMMA DoneRecord ==
  ASSUME LockInv, NEW t \in Threads, Done(t)
  PROVE  /\ \A u \in Threads : u # t => thread'[u] = thread[u]
         /\ thread'[t].pc = "idle"
  BY Zenon, InvParts, Ends, IdleShape

LEMMA AssignPipes ==
  ASSUME Prompt, LockInv, PromptInv, NEW t \in Threads, AssignStep(t)
  PROVE  PipesOwned' /\ BrokenWait' /\ Stores'
<1> DEFINE k == thread[t].k
<1> USE DEF Prompt
<1>1. thread[t].pc \in Loading => k \in SlotIds /\ thread[t].asn \in Assignments /\ SlotTypes
  BY Zenon, Serves
<1>2. ASSUME NEW ok \in BOOLEAN, AssignSend(t, ok)  PROVE PipesOwned' /\ BrokenWait' /\ Stores'
  <2>1. /\ thread[t].pc = "load" /\ slotLock[k] = None /\ LoadEffect(k, thread[t].asn, ok)
        /\ Step(t, "loadWait") /\ broken' = broken
    BY Zenon, <1>2 DEF AssignSend
  <2>2. k \in SlotIds /\ thread[t].asn \in Assignments /\ SlotTypes
    BY Zenon, <1>1, <2>1 DEF Loading
  <2>3. /\ child'[k].pipe = Append(child[k].pipe, LoadReply(thread[t].asn, ok))
        /\ \A j \in SlotIds : j # k => child'[j] = child[j]
    <3> DEFINE a == thread[t].asn
    <3>1. LoadEffect(k, a, ok) /\ k \in SlotIds /\ a \in Assignments
      BY Zenon, <2>1, <2>2
    <3> SUFFICES /\ child'[k].pipe = Append(child[k].pipe, LoadReply(a, ok))
                 /\ \A j \in SlotIds : j # k => child'[j] = child[j]
      OBVIOUS
    <3> HIDE DEF k, a
    <3> QED BY Zenon, <2>2, <3>1, Loads
  <2>4. child[k].pipe = <<>> /\ t \notin broken
    BY Zenon, <2>1, <2>2, PipeOfHolder DEF PromptInv, BrokenWait
  <2>5. child'[k].pipe = <<LoadReply(thread[t].asn, ok)>>
    BY <2>3, <2>4
  <2>6. /\ \A u \in Threads : u # t => thread'[u] = thread[u]
        /\ thread'[t].pc = "loadWait" /\ thread'[t].k = k /\ thread'[t].asn = thread[t].asn
    BY Zenon, <2>1, StepRecord
  <2>7. WaitsFor(t, k)'
    BY Zenon, <2>1, <2>4, <2>5, <2>6 DEF WaitsFor
  <2> QED BY Zenon, <2>1, <2>2, <2>3, <2>6, <2>7, SentPipes
<1>3. ASSUME AssignSendFails(t) \/ AssignRejected(t) \/ AssignLoaded(t)
      PROVE  PipesOwned' /\ BrokenWait' /\ Stores'
  <2>1. /\ thread[t].pc \notin {"loadWait", "wait"} /\ child' = child /\ broken' = broken
        /\ Step(t, "loadFailed") \/ Done(t)
    BY Zenon, <1>3 DEF AssignSendFails, AssignRejected, AssignLoaded
  <2>2. thread'[t].pc # "store" /\ \A u \in Threads : u # t => thread'[u] = thread[u]
    <3>1. ASSUME Step(t, "loadFailed")  PROVE thread'[t].pc # "store" /\ \A u \in Threads : u # t => thread'[u] = thread[u]
        <4>1. thread'[t].pc = "loadFailed" /\ \A u \in Threads : u # t => thread'[u] = thread[u]
          BY Zenon, <3>1, StepRecord
        <4> QED BY Zenon, <4>1
    <3>2. ASSUME Done(t)  PROVE thread'[t].pc # "store" /\ \A u \in Threads : u # t => thread'[u] = thread[u]
        BY Zenon, <3>2, DoneRecord
    <3> QED BY Zenon, <2>1, <3>1, <3>2
  <2> QED BY Zenon, <2>1, <2>2, QuietPipes
<1>4. ASSUME AssignReceive(t)  PROVE PipesOwned' /\ BrokenWait' /\ Stores'
  <2>1. /\ thread[t].pc = "loadWait" /\ t \notin broken /\ child[k].pipe # <<>>
        /\ child' = [child EXCEPT ![k].pipe = Tail(@)] /\ broken' = broken
        /\ Step(t, "loaded") \/ Step(t, "rejected")
    BY Zenon, <1>4 DEF AssignReceive
  <2>2. k \in SlotIds /\ SlotTypes
    BY Zenon, <1>1, <2>1 DEF Loading
  <2>3. child'[k].pipe = Tail(child[k].pipe) /\ \A j \in SlotIds : j # k => child'[j] = child[j]
    BY Zenon, <2>1, <2>2, Receives
  <2>4. WaitsFor(t, k)
    BY Zenon, <2>1, <2>2, PipeOfHolder DEF PromptInv, Holds
  <2>5. PICK x : child[k].pipe = <<x>>
    BY Zenon, <2>4 DEF WaitsFor
  <2>6. child'[k].pipe = <<>>
    BY <2>3, <2>5
  <2>7. thread'[t].pc # "store" /\ \A u \in Threads : u # t => thread'[u] = thread[u]
      <3>1. ASSUME Step(t, "loaded")  PROVE thread'[t].pc # "store" /\ \A u \in Threads : u # t => thread'[u] = thread[u]
        <4>1. thread'[t].pc = "loaded" /\ \A u \in Threads : u # t => thread'[u] = thread[u]
          BY Zenon, <3>1, StepRecord
        <4> QED BY Zenon, <4>1
      <3>2. ASSUME Step(t, "rejected")  PROVE thread'[t].pc # "store" /\ \A u \in Threads : u # t => thread'[u] = thread[u]
        <4>1. thread'[t].pc = "rejected" /\ \A u \in Threads : u # t => thread'[u] = thread[u]
          BY Zenon, <3>2, StepRecord
        <4> QED BY Zenon, <4>1
      <3> QED BY Zenon, <2>1, <3>1, <3>2
  <2>8. broken' = broken \ {t}
    BY Zenon, <2>1
  <2> QED BY Zenon, <2>1, <2>3, <2>6, <2>7, <2>8, EndedPipes
<1>5. ASSUME AssignInterrupted(t)  PROVE PipesOwned' /\ BrokenWait' /\ Stores'
  <2>1. /\ thread[t].pc = "loadWait" /\ child' = child /\ broken' = broken \ {t}
        /\ t \in broken \/ child[k].pipe = <<>>
        /\ Step(t, "loadFailed")
    BY Zenon, <1>5 DEF AssignInterrupted, Interrupted
  <2>2. thread'[t].pc # "store" /\ \A u \in Threads : u # t => thread'[u] = thread[u]
      <3>1. ASSUME Step(t, "loadFailed")  PROVE thread'[t].pc # "store" /\ \A u \in Threads : u # t => thread'[u] = thread[u]
        <4>1. thread'[t].pc = "loadFailed" /\ \A u \in Threads : u # t => thread'[u] = thread[u]
          BY Zenon, <3>1, StepRecord
        <4> QED BY Zenon, <4>1
      <3> QED BY Zenon, <2>1, <3>1
  <2> QED BY Zenon, <2>1, <2>2, EndedPipes
<1>6. ASSUME AssignFail(t)  PROVE PipesOwned' /\ BrokenWait' /\ Stores'
  <2>1. thread[t].pc = "loadFailed" /\ Replace(k, t) /\ Done(t)
    BY Zenon, <1>6 DEF AssignFail
  <2>2. thread'[t].pc # "store" /\ \A u \in Threads : u # t => thread'[u] = thread[u]
    BY Zenon, <2>1, DoneRecord
  <2>3. k \in SlotIds
    BY Zenon, <1>1, <2>1 DEF Loading
  <2> QED BY Zenon, <2>1, <2>2, <2>3, ReplacedPipes
<1> QED BY Zenon, <1>2, <1>3, <1>4, <1>5, <1>6 DEF AssignStep

LEMMA InvokePipes ==
  ASSUME Prompt, LockInv, PromptInv, NEW t \in Threads, InvokeStep(t)
  PROVE  PipesOwned' /\ BrokenWait' /\ Stores'
<1> DEFINE k == thread[t].k
           i == thread[t].inv
<1> USE DEF Prompt
<1>1. thread[t].pc \in Invoking => k \in SlotIds /\ i \in Invocations /\ SlotTypes
  BY Zenon, Serves
<1>2. Own(i, Unknown)
  BY DEF Own, Unknown
<1>3. ASSUME InvokeFence(t) \/ InvokeReplay(t) \/ InvokeAdmit(t) \/ InvokeStore(t)
      PROVE  PipesOwned' /\ BrokenWait' /\ Stores'
  <2>1. /\ thread[t].pc \notin {"loadWait", "wait"} /\ child' = child /\ broken' = broken
        /\ Step(t, "lookup") \/ Step(t, "invoke") \/ Done(t)
    BY Zenon, <1>3 DEF InvokeFence, InvokeReplay, InvokeAdmit, InvokeStore
  <2>2. thread'[t].pc # "store" /\ \A u \in Threads : u # t => thread'[u] = thread[u]
      <3>1. ASSUME Step(t, "lookup")  PROVE thread'[t].pc # "store" /\ \A u \in Threads : u # t => thread'[u] = thread[u]
        <4>1. thread'[t].pc = "lookup" /\ \A u \in Threads : u # t => thread'[u] = thread[u]
          BY Zenon, <3>1, StepRecord
        <4> QED BY Zenon, <4>1
      <3>2. ASSUME Step(t, "invoke")  PROVE thread'[t].pc # "store" /\ \A u \in Threads : u # t => thread'[u] = thread[u]
        <4>1. thread'[t].pc = "invoke" /\ \A u \in Threads : u # t => thread'[u] = thread[u]
          BY Zenon, <3>2, StepRecord
        <4> QED BY Zenon, <4>1
      <3>3. ASSUME Done(t)  PROVE thread'[t].pc # "store" /\ \A u \in Threads : u # t => thread'[u] = thread[u]
        BY Zenon, <3>3, DoneRecord
      <3> QED BY Zenon, <2>1, <3>1, <3>2, <3>3
  <2> QED BY Zenon, <2>1, <2>2, QuietPipes
<1>4. ASSUME InvokeSend(t)  PROVE PipesOwned' /\ BrokenWait' /\ Stores'
  <2>1. /\ thread[t].pc = "invoke" /\ slotLock[k] = None /\ broken' = broken
        /\ k \in SlotIds /\ i \in Invocations /\ SlotTypes
    BY Zenon, <1>1, <1>4 DEF InvokeSend, Invoking
  <2>2. CASE Step(t, "lost") /\ child' = child
    <3>1. thread'[t].pc # "store" /\ \A u \in Threads : u # t => thread'[u] = thread[u]
        <4>1. ASSUME Step(t, "lost")  PROVE thread'[t].pc # "store" /\ \A u \in Threads : u # t => thread'[u] = thread[u]
          <5>1. thread'[t].pc = "lost" /\ \A u \in Threads : u # t => thread'[u] = thread[u]
            BY Zenon, <4>1, StepRecord
          <5> QED BY Zenon, <5>1
        <4> QED BY Zenon, <2>2, <4>1
    <3> QED BY Zenon, <2>1, <2>2, <3>1, QuietPipes
  <2>3. ASSUME NEW found \in BOOLEAN, Step(t, "wait"),
               child' = [child EXCEPT ![k].pipe = Append(@, InvokeReply(i, found))]
        PROVE  PipesOwned' /\ BrokenWait' /\ Stores'
    <3>1. child[k].pipe = <<>> /\ t \notin broken
      BY Zenon, <2>1, PipeOfHolder DEF PromptInv, BrokenWait
    <3>2. /\ child'[k].pipe = Append(child[k].pipe, InvokeReply(i, found))
          /\ \A j \in SlotIds : j # k => child'[j] = child[j]
      BY Zenon, <2>1, <2>3 DEF SlotTypes
    <3>3. child'[k].pipe = <<InvokeReply(i, found)>>
      BY <3>1, <3>2
    <3>4. /\ \A u \in Threads : u # t => thread'[u] = thread[u]
          /\ thread'[t].pc = "wait" /\ thread'[t].k = k /\ thread'[t].inv = i
      BY Zenon, <2>3, StepRecord
    <3>5. WaitsFor(t, k)'
      BY Zenon, <2>1, <3>1, <3>3, <3>4 DEF WaitsFor
    <3> QED BY Zenon, <2>1, <3>2, <3>4, <3>5, SentPipes
  <2>4. (thread[t].asn \in child[k].loaded) \in BOOLEAN
    BY SMT
  <2> QED BY Zenon, <1>4, <2>2, <2>3, <2>4 DEF InvokeSend
<1>5. ASSUME InvokeReceive(t)  PROVE PipesOwned' /\ BrokenWait' /\ Stores'
  <2> DEFINE x == Head(child[k].pipe)
  <2>1. /\ thread[t].pc = "wait" /\ t \notin broken /\ child[k].pipe # <<>>
        /\ child' = [child EXCEPT ![k].pipe = Tail(@)] /\ broken' = broken
        /\ Done(t) \/ thread' = [thread EXCEPT ![t].pc = "store", ![t].res = x]
    BY Zenon, <1>5 DEF InvokeReceive
  <2>2. k \in SlotIds /\ SlotTypes
    BY Zenon, <1>1, <2>1 DEF Invoking
  <2>3. child'[k].pipe = Tail(child[k].pipe) /\ \A j \in SlotIds : j # k => child'[j] = child[j]
    BY Zenon, <2>1, <2>2, Receives
  <2>4. WaitsFor(t, k)
    BY Zenon, <2>1, <2>2, PipeOfHolder DEF PromptInv, Holds
  <2>5. PICK ok \in BOOLEAN : child[k].pipe = <<InvokeReply(i, ok)>>
    BY Zenon, <2>1, <2>4 DEF WaitsFor
  <2>6. child'[k].pipe = <<>> /\ x = InvokeReply(i, ok)
    BY <2>3, <2>5
  <2>7. Own(i, x)
    BY <2>6 DEF Own, InvokeReply
  <2> HIDE DEF x
  <2>8. /\ \A u \in Threads : u # t => thread'[u] = thread[u]
        /\ thread'[t].pc = "store" => Own(thread'[t].inv, thread'[t].res)
    <3>1. CASE Done(t)
      BY Zenon, <3>1, DoneRecord
    <3>2. CASE thread' = [thread EXCEPT ![t].pc = "store", ![t].res = x]
      BY Zenon, <3>2, <2>7, StoreRecord
    <3> QED BY Zenon, <3>1, <3>2, <2>1
  <2>9. broken' = broken \ {t}
    BY Zenon, <2>1
  <2> QED BY Zenon, <2>1, <2>3, <2>6, <2>8, <2>9, EndedPipes
<1>6. ASSUME InvokeInterrupted(t)  PROVE PipesOwned' /\ BrokenWait' /\ Stores'
  <2>1. /\ thread[t].pc = "wait" /\ child' = child /\ broken' = broken \ {t}
        /\ t \in broken \/ child[k].pipe = <<>>
        /\ Step(t, "lost")
    BY Zenon, <1>6 DEF InvokeInterrupted, Interrupted
  <2>2. thread'[t].pc # "store" /\ \A u \in Threads : u # t => thread'[u] = thread[u]
      <3>1. ASSUME Step(t, "lost")  PROVE thread'[t].pc # "store" /\ \A u \in Threads : u # t => thread'[u] = thread[u]
        <4>1. thread'[t].pc = "lost" /\ \A u \in Threads : u # t => thread'[u] = thread[u]
          BY Zenon, <3>1, StepRecord
        <4> QED BY Zenon, <4>1
      <3> QED BY Zenon, <2>1, <3>1
  <2> QED BY Zenon, <2>1, <2>2, EndedPipes
<1>7. ASSUME InvokeReplace(t)  PROVE PipesOwned' /\ BrokenWait' /\ Stores'
  <2>1. /\ thread[t].pc = "lost" /\ Replace(k, t)
        /\ \/ thread' = [thread EXCEPT ![t].pc = "restore", ![t].saved = slot[k].asn]
           \/ thread' = [thread EXCEPT ![t].pc = "store", ![t].res = Unknown]
    BY Zenon, <1>7 DEF InvokeReplace
  <2>2. k \in SlotIds
    BY Zenon, <1>1, <2>1 DEF Invoking
  <2>3. /\ \A u \in Threads : u # t => thread'[u] = thread[u]
        /\ thread'[t].pc = "store" => Own(thread'[t].inv, thread'[t].res)
    <3>1. CASE thread' = [thread EXCEPT ![t].pc = "restore", ![t].saved = slot[k].asn]
      <4>1. thread \in [Threads -> ThreadRec] /\ thread[t] \in ThreadRec
        BY Zenon, InvParts DEF ThreadTypes
      <4>2. thread'[t].pc = "restore" /\ \A u \in Threads : u # t => thread'[u] = thread[u]
        BY Zenon, <3>1, <4>1 DEF ThreadRec
      <4> QED BY Zenon, <4>2
    <3>2. CASE thread' = [thread EXCEPT ![t].pc = "store", ![t].res = Unknown]
      BY Zenon, <3>2, <1>2, StoreRecord
    <3> QED BY Zenon, <3>1, <3>2, <2>1
  <2> QED BY Zenon, <2>1, <2>2, <2>3, ReplacedPipes
<1>8. ASSUME InvokeRestore(t)  PROVE PipesOwned' /\ BrokenWait' /\ Stores'
  <2>1. /\ thread[t].pc = "restore" /\ broken' = broken
        /\ child' = child \/ child' = [child EXCEPT ![k].loaded = @ \cup {thread[t].saved}]
        /\ thread' = [thread EXCEPT ![t].pc = "store", ![t].res = Unknown]
    BY Zenon, <1>8 DEF InvokeRestore
  <2>2. k \in SlotIds /\ SlotTypes
    BY Zenon, <1>1, <2>1 DEF Invoking
  <2>3. \A j \in SlotIds : child'[j].pipe = child[j].pipe
    <3>1. CASE child' = child
      BY Zenon, <3>1
    <3>2. CASE child' = [child EXCEPT ![k].loaded = @ \cup {thread[t].saved}]
      BY Zenon, <3>2, <2>2 DEF SlotTypes
    <3> QED BY Zenon, <2>1, <3>1, <3>2
  <2>4. /\ \A u \in Threads : u # t => thread'[u] = thread[u]
        /\ Own(thread'[t].inv, thread'[t].res)
    BY Zenon, <2>1, <1>2, StoreRecord
  <2>5. thread[t].pc \notin {"loadWait", "wait"}
    BY Zenon, <2>1
  <2> QED BY Zenon, <2>1, <2>3, <2>4, <2>5, QuietPipes
<1> QED BY Zenon, <1>3, <1>4, <1>5, <1>6, <1>7, <1>8 DEF InvokeStep

LEMMA NextPipes ==
  ASSUME Prompt, LockInv, PromptInv, [Next]_vars
  PROVE  PromptInv'
<1> DEFINE Kept == PipesOwned' /\ BrokenWait' /\ Stores'
<1>1. ASSUME NEW t \in Threads, ReleaseReplace(t)  PROVE Kept
  <2>1. /\ thread[t].pc = "release" /\ Done(t)
        /\ Replace(thread[t].k, t) \/ (child' = child /\ broken' = broken)
    BY Zenon, <1>1 DEF ReleaseReplace
  <2>2. thread'[t].pc # "store" /\ \A u \in Threads : u # t => thread'[u] = thread[u]
    BY Zenon, <2>1, DoneRecord
  <2>3. thread[t].pc \notin {"loadWait", "wait"} /\ thread[t].k \in SlotIds
    BY Zenon, <2>1, Everyone
  <2>4. CASE Replace(thread[t].k, t)
    BY Zenon, <2>2, <2>3, <2>4, ReplacedPipes
  <2>5. CASE child' = child /\ broken' = broken
    BY Zenon, <2>2, <2>3, <2>5, QuietPipes
  <2> QED BY Zenon, <2>1, <2>4, <2>5
<1>2. ASSUME NEW t \in Threads, Arrive(t)  PROVE Kept
  <2>1. thread[t].pc = "idle" /\ child' = child /\ broken' = broken
    BY Zenon, <1>2 DEF Arrive, AssignTake, ReleaseFind, InvokeVerify, Arrives
  <2>2. thread \in [Threads -> ThreadRec]
    BY Zenon, InvParts DEF ThreadTypes
  <2>3. ASSUME NEW a \in Assignments, AssignTake(t, a)
        PROVE  thread'[t].pc \in {"load", "release", "verify"} /\ \A u \in Threads : u # t => thread'[u] = thread[u]
    <3>1. PICK k \in SlotIds : thread' = [thread EXCEPT ![t] = [Idle EXCEPT !.pc = "load", !.asn = a, !.k = k]]
      BY Zenon, <2>3 DEF AssignTake
    <3>2. thread'[t] = [Idle EXCEPT !.pc = "load", !.asn = a, !.k = k] /\ \A u \in Threads : u # t => thread'[u] = thread[u]
      BY Zenon, <3>1, <2>2
    <3>3. [Idle EXCEPT !.pc = "load", !.asn = a, !.k = k].pc = "load"
      BY DEF Idle
    <3> QED BY Zenon, <3>2, <3>3
  <2>4. ASSUME NEW a \in Assignments, ReleaseFind(t, a)
        PROVE  thread'[t].pc \in {"load", "release", "verify"} /\ \A u \in Threads : u # t => thread'[u] = thread[u]
    <3>1. PICK k \in Bound(a) : thread' = [thread EXCEPT ![t] = [Idle EXCEPT !.pc = "release", !.asn = a, !.k = k]]
      BY Zenon, <2>4 DEF ReleaseFind
    <3>2. thread'[t] = [Idle EXCEPT !.pc = "release", !.asn = a, !.k = k] /\ \A u \in Threads : u # t => thread'[u] = thread[u]
      BY Zenon, <3>1, <2>2
    <3>3. [Idle EXCEPT !.pc = "release", !.asn = a, !.k = k].pc = "release"
      BY DEF Idle
    <3> QED BY Zenon, <3>2, <3>3
  <2>5. ASSUME NEW a \in Assignments, NEW i \in Invocations, NEW q \in 1 .. MaxSeq, InvokeVerify(t, a, i, q)
        PROVE  thread'[t].pc \in {"load", "release", "verify"} /\ \A u \in Threads : u # t => thread'[u] = thread[u]
    <3>1. PICK k \in Bound(a) : thread' = [thread EXCEPT ![t] = [Idle EXCEPT !.pc = "verify", !.asn = a, !.inv = i, !.seq = q, !.k = k]]
      BY Zenon, <2>5 DEF InvokeVerify
    <3>2. thread'[t] = [Idle EXCEPT !.pc = "verify", !.asn = a, !.inv = i, !.seq = q, !.k = k] /\ \A u \in Threads : u # t => thread'[u] = thread[u]
      BY Zenon, <3>1, <2>2
    <3>3. [Idle EXCEPT !.pc = "verify", !.asn = a, !.inv = i, !.seq = q, !.k = k].pc = "verify"
      BY DEF Idle
    <3> QED BY Zenon, <3>2, <3>3
  <2>6. thread'[t].pc \in {"load", "release", "verify"} /\ \A u \in Threads : u # t => thread'[u] = thread[u]
    BY Zenon, <1>2, <2>3, <2>4, <2>5 DEF Arrive
  <2>7. thread'[t].pc # "store" /\ thread[t].pc \notin {"loadWait", "wait"}
    BY Zenon, <2>1, <2>6
  <2> QED BY Zenon, <2>1, <2>6, <2>7, QuietPipes
<1>3. ASSUME NEW k \in SlotIds, ChildDies(k)  PROVE Kept
  <2>1. PICK left \in {child[k].pipe, <<>>} :
               child' = [child EXCEPT ![k].alive = FALSE, ![k].pipe = left]
    BY Zenon, <1>3 DEF ChildDies
  <2>2. thread' = thread /\ broken' = broken
    BY Zenon, <1>3 DEF ChildDies
  <2>3. \A j \in SlotIds : child'[j].pipe \in {child[j].pipe, <<>>}
    BY Zenon, <2>1, InvParts DEF SlotTypes
  <2>4. \A t \in Threads, j \in SlotIds : WaitsFor(t, j) /\ child'[j].pipe = child[j].pipe => WaitsFor(t, j)'
    BY Zenon, <2>2 DEF WaitsFor
  <2>5. PipesOwned'
    BY Zenon, <2>3, <2>4 DEF PromptInv, PipesOwned
  <2> QED BY Zenon, <2>2, <2>5 DEF PromptInv, BrokenWait, Stores
<1>4. ASSUME UNCHANGED <<child, thread, broken>>  PROVE Kept
  <2>1. \A t \in Threads, k \in SlotIds : WaitsFor(t, k) => WaitsFor(t, k)'
    BY Zenon, <1>4 DEF WaitsFor
  <2>2. PipesOwned'
    BY Zenon, <1>4, <2>1 DEF PromptInv, PipesOwned
  <2> QED BY Zenon, <1>4, <2>2 DEF PromptInv, BrokenWait, Stores
<1>5. ASSUME NEW t \in Threads, Continue(t)  PROVE Kept
  BY Zenon, <1>1, <1>5, AssignPipes, InvokePipes DEF Continue
<1>6. ASSUME NEW i \in Invocations, ExpireIdempotency(i)  PROVE Kept
  <2>1. UNCHANGED <<child, thread, broken>>
    BY Zenon, <1>6 DEF ExpireIdempotency
  <2> QED BY Zenon, <2>1, <1>4
<1>7. ASSUME UNCHANGED vars  PROVE Kept
  BY Zenon, <1>4, <1>7 DEF vars
<1> HIDE DEF Kept
<1>8. Kept
  BY Zenon, <1>2, <1>3, <1>5, <1>6, <1>7 DEF Next
<1>9. Recorded'
  BY Zenon, NextRecords DEF PromptInv
<1> QED BY Zenon, <1>8, <1>9 DEF PromptInv, Kept

LEMMA InitPrompt == Init => PromptInv
<1> SUFFICES ASSUME Init  PROVE PromptInv
  BY Zenon
<1>1. (\A t \in Threads : thread[t].pc = "idle") /\ \A k \in SlotIds : child[k].pipe = <<>>
  BY Zenon, IdleShape DEF Init, Fresh
<1> QED BY Zenon, <1>1 DEF Init, PromptInv, PipesOwned, BrokenWait, Stores, Recorded

\* invoke takes the next message of the pipe for its own, and it is: children
\* that exit, releases that overtake a load, and the replacement and restore of
\* a process under other threads never hand an invocation the answer to another
\* command, nor is such an answer replayed from the idempotency records.
THEOREM RepliesOwned == ASSUME Prompt PROVE Spec => []OwnReply
<1>1. PromptInv => OwnReply
  BY Zenon DEF PromptInv, Recorded, Own, OwnReply
<1>2. LockInv /\ PromptInv /\ [Next]_vars => PromptInv'
  BY Zenon, NextPipes
<1> QED BY <1>1, <1>2, InitPrompt, LockInvariant, PTL DEF Spec
=============================================================================

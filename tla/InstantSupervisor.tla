------------------------- MODULE InstantSupervisor -------------------------
(***************************************************************************)
(* The warm executor's supervisor (runtime/supervisor.py) and its child    *)
(* processes (runtime/child.py).  A ThreadingHTTPServer runs each request  *)
(* on a thread of its own; a thread executes assign, release or invoke.    *)
(*                                                                         *)
(* _state_lock is held for a whole step where the code never blocks under  *)
(* it, and is a variable where it does (release waits for slot.lock while  *)
(* holding it).  slot.lock is a variable.  A child handles one command at  *)
(* a time and answers through a pipe; the parent takes whatever answer is  *)
(* first in the pipe.  A command takes effect when it is sent; the answer  *)
(* may come too late, in which case it stays in the pipe.                  *)
(***************************************************************************)
EXTENDS Naturals, Sequences

CONSTANTS
  Threads,
  Pool,            \* pool_size: the slots are 1 .. Pool, in the list's order
  Assignments,
  Invocations,     \* keys (tenant, session, invocation id)
  Sessions,
  SessionOf,       \* the session of an assignment or invocation
  MaxSeq,          \* bound on lease sequences
  MaxRequests,     \* bound on the requests that arrive
  MaxRuns,         \* bound at which the execution count saturates
  ReleaseWaits,    \* TRUE: an assignment is released only after its assign
                   \* was answered (the control plane calls one by one, and
                   \* its timeout of 5 s is longer than a load's of 2 s)
  Operations,      \* which requests arrive
  Faults,          \* "slow": a child misses a deadline; "die": it exits;
                   \* "reject": it refuses a source; "ledger": accounting is
                   \* unreachable; "expire": idempotency records time out
  None

SlotIds == 1 .. Pool

ASSUME SupervisorAssumption ==
  /\ Pool \in Nat \ {0} /\ MaxSeq \in Nat /\ MaxRequests \in Nat /\ MaxRuns \in Nat
  /\ \A x \in Assignments \cup Invocations : SessionOf[x] \in Sessions
  /\ ReleaseWaits \in BOOLEAN
  /\ Operations \subseteq {"assign", "release", "invoke"}
  /\ Faults \subseteq {"slow", "die", "reject", "ledger", "expire"}
  /\ None \notin Assignments \cup Invocations \cup Threads

VARIABLES
  slot,            \* Slot: assignment, loading, highest_lease_sequence
  child,           \* the slot's process: alive, loaded sources, answers
  slotLock,        \* holder of each slot.lock
  stateLock,       \* holder of _state_lock across a wait
  thread,          \* the request a thread serves and where it is in it
  arrived,         \* requests so far
  broken,          \* threads whose connection was closed under them
  idem,            \* _idempotency
  runs,            \* executions of user code per invocation (history)
  top,             \* highest lease sequence accepted per assignment (history)
  answer           \* the last answer given for each invocation (history)

vars == <<slot, child, slotLock, stateLock, thread, arrived, broken, idem, runs, top, answer>>

Fresh == [alive |-> TRUE, loaded |-> {}, pipe |-> <<>>]
Idle == [pc |-> "idle", asn |-> None, inv |-> None, seq |-> 0, k |-> 0, saved |-> None, res |-> None]

\* Answers of the child.
LoadReply(a, ok) == [kind |-> "load", id |-> a, ok |-> ok]
InvokeReply(i, ok) == [kind |-> "invoke", id |-> i, ok |-> ok]

\* Answers the parent makes up: the child was lost, or the terminal usage
\* record could not be delivered.
Unknown == [kind |-> "unknown", id |-> None, ok |-> FALSE]
Unrecorded == [kind |-> "unrecorded", id |-> None, ok |-> FALSE]

Init ==
  /\ slot = [k \in SlotIds |-> [asn |-> None, loading |-> FALSE, high |-> 0]]
  /\ child = [k \in SlotIds |-> Fresh]
  /\ slotLock = [k \in SlotIds |-> None]
  /\ stateLock = None
  /\ thread = [t \in Threads |-> Idle]
  /\ arrived = 0
  /\ broken = {}
  /\ idem = [i \in Invocations |-> None]
  /\ runs = [i \in Invocations |-> 0]
  /\ top = [a \in Assignments |-> 0]
  /\ answer = [i \in Invocations |-> None]

\* A request arrives and gets a thread.
Arrives(t, op) ==
  /\ op \in Operations /\ thread[t].pc = "idle"
  /\ arrived < MaxRequests /\ arrived' = arrived + 1

Step(t, pc) == thread' = [thread EXCEPT ![t].pc = pc]
Done(t) == thread' = [thread EXCEPT ![t] = Idle]
Unlock(k) == slotLock' = [slotLock EXCEPT ![k] = None]

\* Where a thread is in assign and in invoke.
Loading == {"load", "loadWait", "loadFailed", "rejected", "loaded"}
Invoking == {"verify", "lookup", "invoke", "wait", "lost", "restore", "store"}

Bound(a) == {k \in SlotIds : slot[k].asn = a}

\* Threads that are reading from slot k's connection.
Readers(k) == {t \in Threads : thread[t].k = k /\ thread[t].pc \in {"loadWait", "wait"}}

\* Faulty: the slot's fields are cleared and its process is kept.
ReplaceKeepsChild(k, t) ==
  /\ slot' = [slot EXCEPT ![k].asn = None, ![k].high = 0]
  /\ UNCHANGED child
  /\ broken' = (broken \cup Readers(k)) \ {t}

\* _replace up to the restore: a fresh process and pipe, the binding and the
\* lease sequence cleared; slot.loading is left as it is.
Replace(k, t) ==
  /\ slot' = [slot EXCEPT ![k].asn = None, ![k].high = 0]
  /\ child' = [child EXCEPT ![k] = Fresh]
  /\ broken' = (broken \cup Readers(k)) \ {t}

-----------------------------------------------------------------------------
(* assign *)

Free(k) == slot[k].asn = None /\ child[k].alive

\* Under _state_lock: the assignment is new, the first free slot is taken.
\* (A known assignment is answered at once and a full pool is refused; both
\* leave the state alone.)
AssignTake(t, a) ==
  /\ Arrives(t, "assign") /\ stateLock = None
  /\ Bound(a) = {}
  /\ \E k \in SlotIds :
       /\ Free(k) /\ \A j \in 1 .. k - 1 : ~Free(j)
       /\ slot' = [slot EXCEPT ![k].asn = a, ![k].loading = TRUE]
       /\ thread' = [thread EXCEPT ![t] = [Idle EXCEPT !.pc = "load", !.asn = a, !.k = k]]
  /\ UNCHANGED <<child, slotLock, stateLock, broken, idem, runs, top, answer>>

\* The child keeps a source it already has, and may refuse a new one.
LoadEffect(k, a, ok) ==
  child' = [child EXCEPT ![k].loaded = IF ok THEN @ \cup {a} ELSE @,
                         ![k].pipe = Append(@, LoadReply(a, ok))]

AssignSend(t, ok) ==
  LET k == thread[t].k  a == thread[t].asn
  IN /\ thread[t].pc = "load" /\ slotLock[k] = None /\ child[k].alive
     /\ ok \/ ("reject" \in Faults /\ a \notin child[k].loaded)
     /\ LoadEffect(k, a, ok)
     /\ slotLock' = [slotLock EXCEPT ![k] = t]
     /\ Step(t, "loadWait")
     /\ UNCHANGED <<arrived, slot, stateLock, broken, idem, runs, top, answer>>

AssignSendFails(t) ==
  LET k == thread[t].k
  IN /\ thread[t].pc = "load" /\ slotLock[k] = None /\ ~child[k].alive
     /\ Step(t, "loadFailed")
     /\ UNCHANGED <<arrived, slot, child, slotLock, stateLock, broken, idem, runs, top, answer>>

AssignReceive(t) ==
  LET k == thread[t].k
  IN /\ thread[t].pc = "loadWait" /\ t \notin broken /\ child[k].pipe # <<>>
     /\ child' = [child EXCEPT ![k].pipe = Tail(@)]
     /\ Step(t, IF Head(child[k].pipe).ok THEN "loaded" ELSE "rejected")
     /\ Unlock(k)
     /\ UNCHANGED <<arrived, slot, stateLock, broken, idem, runs, top, answer>>

\* The reply does not come in time, the child has exited, or another thread
\* closed the connection.
Interrupted(t) ==
  \/ "slow" \in Faults /\ t \notin broken
  \/ t \in broken
  \/ ~child[thread[t].k].alive /\ child[thread[t].k].pipe = <<>>

AssignInterrupted(t) ==
  /\ thread[t].pc = "loadWait" /\ Interrupted(t)
  /\ Step(t, "loadFailed") /\ Unlock(thread[t].k) /\ broken' = broken \ {t}
  /\ UNCHANGED <<arrived, slot, child, stateLock, idem, runs, top, answer>>

\* The except branch: _replace under _state_lock, without slot.lock.
AssignFail(t) ==
  /\ thread[t].pc = "loadFailed" /\ stateLock = None
  /\ Replace(thread[t].k, t)
  /\ Done(t)
  /\ UNCHANGED <<arrived, slotLock, stateLock, idem, runs, top, answer>>

\* ARTIFACT_UNAVAILABLE: the slot's fields are cleared, its child is kept.
AssignRejected(t) ==
  /\ thread[t].pc = "rejected" /\ stateLock = None
  /\ slot' = [slot EXCEPT ![thread[t].k].asn = None, ![thread[t].k].loading = FALSE]
  /\ Done(t)
  /\ UNCHANGED <<arrived, child, slotLock, stateLock, broken, idem, runs, top, answer>>

\* Readiness of whatever the slot holds now; a TypeError if it holds nothing.
AssignLoaded(t) ==
  /\ thread[t].pc = "loaded" /\ stateLock = None
  /\ slot' = [slot EXCEPT ![thread[t].k].loading = FALSE]
  /\ Done(t)
  /\ UNCHANGED <<arrived, child, slotLock, stateLock, broken, idem, runs, top, answer>>

-----------------------------------------------------------------------------
(* release: takes _state_lock, then waits for slot.lock. *)

ReleaseFind(t, a) ==
  /\ Arrives(t, "release") /\ stateLock = None
  /\ ReleaseWaits => \A u \in Threads : ~(thread[u].asn = a /\ thread[u].pc \in Loading)
  /\ \E k \in Bound(a) :
       /\ \A j \in Bound(a) : k <= j
       /\ thread' = [thread EXCEPT ![t] = [Idle EXCEPT !.pc = "release", !.asn = a, !.k = k]]
  /\ stateLock' = t
  /\ UNCHANGED <<slot, child, slotLock, broken, idem, runs, top, answer>>

\* The session's idempotency records go with the binding.  A slot that lost
\* its assignment while the thread waited raises a TypeError.
ReleaseReplace(t) ==
  LET k == thread[t].k
  IN /\ thread[t].pc = "release" /\ slotLock[k] = None
     /\ IF slot[k].asn = None
        THEN UNCHANGED <<slot, child, broken, idem>>
        ELSE /\ Replace(k, t)
             /\ idem' = [i \in Invocations |->
                  IF SessionOf[i] = SessionOf[slot[k].asn] THEN None ELSE idem[i]]
     /\ stateLock' = None
     /\ Done(t)
     /\ UNCHANGED <<arrived, slotLock, runs, top, answer>>

-----------------------------------------------------------------------------
(* invoke *)

\* _verify_lease up to the sequence comparison; no lock is held.
InvokeVerify(t, a, i, q) ==
  /\ Arrives(t, "invoke")
  /\ SessionOf[a] = SessionOf[i]
  /\ \E k \in Bound(a) :
       /\ \A j \in Bound(a) : k <= j
       /\ ~slot[k].loading
       /\ q >= slot[k].high
       /\ thread' = [thread EXCEPT ![t] =
            [Idle EXCEPT !.pc = "verify", !.asn = a, !.inv = i, !.seq = q, !.k = k]]
  /\ UNCHANGED <<slot, child, slotLock, stateLock, broken, idem, runs, top, answer>>

\* The assignment of highest_lease_sequence that ends _verify_lease.
InvokeFence(t) ==
  LET k == thread[t].k  a == thread[t].asn  q == thread[t].seq
  IN /\ thread[t].pc = "verify"
     /\ slot' = [slot EXCEPT ![k].high = q]
     /\ top' = [top EXCEPT ![a] = IF q > @ THEN q ELSE @]
     /\ Step(t, "lookup")
     /\ UNCHANGED <<arrived, child, slotLock, stateLock, broken, idem, runs, answer>>

\* A recorded answer is replayed.
InvokeReplay(t) ==
  LET i == thread[t].inv
  IN /\ thread[t].pc = "lookup" /\ stateLock = None /\ idem[i] # None
     /\ answer' = [answer EXCEPT ![i] = idem[i]]
     /\ Done(t)
     /\ UNCHANGED <<arrived, slot, child, slotLock, stateLock, broken, idem, runs, top>>

\* A slot that lost its catalog raises a TypeError; accounting that cannot be
\* reached refuses the call before it starts.
InvokeAdmit(t) ==
  /\ thread[t].pc = "lookup" /\ stateLock = None /\ idem[thread[t].inv] = None
  /\ \/ slot[thread[t].k].asn # None /\ Step(t, "invoke")
     \/ slot[thread[t].k].asn = None /\ Done(t)
     \/ "ledger" \in Faults /\ Done(t)
  /\ UNCHANGED <<arrived, slot, child, slotLock, stateLock, broken, idem, runs, top, answer>>

\* Faulty: the command is sent without slot.lock.
InvokeSendUnlocked(t) ==
  LET k == thread[t].k  i == thread[t].inv  found == thread[t].asn \in child[k].loaded
  IN /\ thread[t].pc = "invoke" /\ child[k].alive
     /\ child' = [child EXCEPT ![k].pipe = Append(@, InvokeReply(i, found))]
     /\ runs' = [runs EXCEPT ![i] = IF found /\ @ < MaxRuns THEN @ + 1 ELSE @]
     /\ Step(t, "wait")
     /\ UNCHANGED <<arrived, slot, slotLock, stateLock, broken, idem, top, answer>>

\* The child runs the tool when the assignment is loaded and otherwise
\* answers "assignment is not loaded".
InvokeSend(t) ==
  LET k == thread[t].k  i == thread[t].inv  found == thread[t].asn \in child[k].loaded
  IN /\ thread[t].pc = "invoke" /\ slotLock[k] = None
     /\ slotLock' = [slotLock EXCEPT ![k] = t]
     /\ \/ /\ child[k].alive
           /\ child' = [child EXCEPT ![k].pipe = Append(@, InvokeReply(i, found))]
           /\ runs' = [runs EXCEPT ![i] = IF found /\ @ < MaxRuns THEN @ + 1 ELSE @]
           /\ Step(t, "wait")
        \/ /\ ~child[k].alive
           /\ Step(t, "lost")
           /\ UNCHANGED <<child, runs>>
     /\ UNCHANGED <<arrived, slot, stateLock, broken, idem, top, answer>>

\* A load answer has no "bytes" and a cleared slot no catalog: both raise,
\* and the caller sees a closed connection.
InvokeReceive(t) ==
  LET k == thread[t].k  r == Head(child[k].pipe)
  IN /\ thread[t].pc = "wait" /\ t \notin broken /\ child[k].pipe # <<>>
     /\ child' = [child EXCEPT ![k].pipe = Tail(@)]
     /\ IF r.ok /\ (r.kind = "load" \/ slot[k].asn = None)
        THEN Done(t)
        ELSE thread' = [thread EXCEPT ![t].pc = "store", ![t].res = r]
     /\ Unlock(k)
     /\ UNCHANGED <<arrived, slot, stateLock, broken, idem, runs, top, answer>>

InvokeInterrupted(t) ==
  /\ thread[t].pc = "wait" /\ Interrupted(t)
  /\ Step(t, "lost") /\ broken' = broken \ {t}
  /\ UNCHANGED <<arrived, slot, child, slotLock, stateLock, idem, runs, top, answer>>

\* Faulty: the replacement takes _state_lock while it holds slot.lock.
InvokeReplaceLocked(t) ==
  LET k == thread[t].k
  IN /\ thread[t].pc = "lost" /\ stateLock = None
     /\ Replace(k, t)
     /\ thread' = [thread EXCEPT ![t].pc = "store", ![t].res = Unknown]
     /\ Unlock(k)
     /\ UNCHANGED <<arrived, stateLock, idem, runs, top, answer>>

\* _replace with restore, under slot.lock only: first the fresh child...
InvokeReplace(t) ==
  LET k == thread[t].k
  IN /\ thread[t].pc = "lost"
     /\ Replace(k, t)
     /\ \/ /\ slot[k].asn # None
           /\ thread' = [thread EXCEPT ![t].pc = "restore", ![t].saved = slot[k].asn]
           /\ UNCHANGED slotLock
        \/ /\ slot[k].asn = None
           /\ thread' = [thread EXCEPT ![t].pc = "store", ![t].res = Unknown]
           /\ Unlock(k)
     /\ UNCHANGED <<arrived, stateLock, idem, runs, top, answer>>

\* ... then the source again.  A late answer leaves the slot unbound, the
\* source loaded and the answer in the pipe.
InvokeRestore(t) ==
  LET k == thread[t].k  a == thread[t].saved
  IN /\ thread[t].pc = "restore"
     /\ \/ /\ child[k].alive
           /\ slot' = [slot EXCEPT ![k].asn = a]
           /\ child' = [child EXCEPT ![k].loaded = @ \cup {a}]
        \/ /\ child[k].alive /\ "slow" \in Faults
           /\ LoadEffect(k, a, TRUE)
           /\ UNCHANGED slot
        \/ /\ ~child[k].alive \/ "reject" \in Faults
           /\ UNCHANGED <<slot, child>>
     /\ thread' = [thread EXCEPT ![t].pc = "store", ![t].res = Unknown]
     /\ Unlock(k)
     /\ UNCHANGED <<arrived, stateLock, broken, idem, runs, top, answer>>

InvokeStore(t) ==
  LET i == thread[t].inv
  IN /\ thread[t].pc = "store" /\ stateLock = None
     /\ \E r \in {thread[t].res} \cup {x \in {Unrecorded} : "ledger" \in Faults} :
          /\ idem' = [idem EXCEPT ![i] = r]
          /\ answer' = [answer EXCEPT ![i] = r]
     /\ Done(t)
     /\ UNCHANGED <<arrived, slot, child, slotLock, stateLock, broken, runs, top>>

\* The TTL, or idempotency_max_entries, drops a record.
ExpireIdempotency(i) ==
  /\ "expire" \in Faults /\ idem[i] # None
  /\ idem' = [idem EXCEPT ![i] = None]
  /\ UNCHANGED <<arrived, slot, child, slotLock, stateLock, thread, broken, runs, top, answer>>

\* A child exits (os._exit(76), a crash, the OOM killer), before or after it
\* has answered.
ChildDies(k) ==
  /\ "die" \in Faults /\ child[k].alive
  /\ \E left \in {child[k].pipe, <<>>} :
       child' = [child EXCEPT ![k].alive = FALSE, ![k].pipe = left]
  /\ UNCHANGED <<arrived, slot, slotLock, stateLock, thread, broken, idem, runs, top, answer>>

-----------------------------------------------------------------------------

AssignStep(t) ==
  \/ \E ok \in BOOLEAN : AssignSend(t, ok)
  \/ AssignSendFails(t) \/ AssignReceive(t) \/ AssignInterrupted(t)
  \/ AssignFail(t) \/ AssignRejected(t) \/ AssignLoaded(t)

InvokeStep(t) ==
  \/ InvokeFence(t) \/ InvokeReplay(t) \/ InvokeAdmit(t) \/ InvokeSend(t)
  \/ InvokeReceive(t) \/ InvokeInterrupted(t) \/ InvokeReplace(t)
  \/ InvokeRestore(t) \/ InvokeStore(t)

\* A thread's next step in the request it serves.
Continue(t) == AssignStep(t) \/ ReleaseReplace(t) \/ InvokeStep(t)

Arrive(t) ==
  \/ \E a \in Assignments : AssignTake(t, a) \/ ReleaseFind(t, a)
  \/ \E a \in Assignments, i \in Invocations, q \in 1 .. MaxSeq : InvokeVerify(t, a, i, q)

Next ==
  \/ \E t \in Threads : Continue(t) \/ Arrive(t)
  \/ \E i \in Invocations : ExpireIdempotency(i)
  \/ \E k \in SlotIds : ChildDies(k)

Spec == Init /\ [][Next]_vars

\* A thread that can take a step takes one: the interpreter schedules every
\* runnable thread, poll returns by its timeout, and a lock is handed to some
\* waiter when it is freed.
FairSpec == Spec /\ \A t \in Threads : WF_vars(Continue(t))

-----------------------------------------------------------------------------
(* Properties *)

Replies ==
  [kind : {"load"}, id : Assignments, ok : BOOLEAN]
    \cup [kind : {"invoke"}, id : Invocations, ok : BOOLEAN] \cup {Unknown, Unrecorded}

\* Every variable holds values the code's fields can hold, and a lock is held
\* exactly by the thread that is between its acquire and its release.
TypeOK ==
  /\ slot \in [SlotIds -> [asn : Assignments \cup {None}, loading : BOOLEAN, high : 0 .. MaxSeq]]
  /\ child \in [SlotIds -> [alive : BOOLEAN, loaded : SUBSET Assignments, pipe : Seq(Replies)]]
  /\ slotLock \in [SlotIds -> Threads \cup {None}]
  /\ stateLock \in Threads \cup {None}
  /\ thread \in [Threads -> [pc : {"idle", "release"} \cup Loading \cup Invoking,
                             asn : Assignments \cup {None}, inv : Invocations \cup {None},
                             seq : 0 .. MaxSeq, k : 0 .. Pool, saved : Assignments \cup {None},
                             res : Replies \cup {None}]]
  /\ arrived \in 0 .. MaxRequests
  /\ broken \subseteq Threads
  /\ idem \in [Invocations -> Replies \cup {None}]
  /\ runs \in [Invocations -> 0 .. MaxRuns]
  /\ top \in [Assignments -> 0 .. MaxSeq]
  /\ answer \in [Invocations -> Replies \cup {None}]
  /\ \A t \in Threads : stateLock = t <=> thread[t].pc = "release"
  /\ \A k \in SlotIds, t \in Threads :
       slotLock[k] = t <=> thread[t].k = k /\ thread[t].pc \in {"loadWait", "wait", "lost", "restore"}

\* The answer to an invocation is the child's answer to that invocation, not
\* one left in the pipe by another command (invoke takes the next message of
\* the pipe for its own).
OwnReply ==
  \A i \in Invocations : answer[i] # None /\ answer[i].kind = "invoke" => answer[i].id = i

\* A child holds the source of one assignment at most: release clears the
\* process before the slot serves another assignment.
FreshChild == \A k \in SlotIds : \A a, b \in child[k].loaded : a = b

\* User code runs once at most for an invocation id whose answer is kept.
RunsAtMostOnce == \A i \in Invocations : runs[i] <= 1

\* The readiness assign is about to answer with names its own assignment.
ReadyConfirms ==
  \A t \in Threads : thread[t].pc = "loaded" => slot[thread[t].k].asn \in {None, thread[t].asn}

\* A lease with a lower sequence than one already accepted for the
\* assignment is refused.
SequenceFence ==
  [][\A t \in Threads : thread[t].pc = "idle" /\ thread'[t].pc = "verify" =>
       thread'[t].seq >= top[thread'[t].asn]]_vars

\* Every request that arrives is answered: assign, release and invoke never
\* wait for each other in a cycle (release holds _state_lock and waits for
\* slot.lock; invoke holds slot.lock and takes no other lock).
RequestsEnd == \A t \in Threads : thread[t].pc # "idle" ~> thread[t].pc = "idle"
=============================================================================

------------------------- MODULE InstantAccounting -------------------------
(***************************************************************************)
(* Durable accounting of instant invocations.                              *)
(*                                                                         *)
(* An executor call emits accepted, started and terminal records           *)
(* (runtime/supervisor.py invoke).  A delivery lane outside the repository *)
(* carries them to the control plane, which may see each of them late, in  *)
(* any order, several times or never.  AccountingService.ingest validates  *)
(* a record and PostgresStore.record_invocation applies it in one          *)
(* transaction.  A reaper closes the invocations whose terminal record     *)
(* never arrives (recover_stale_invocations).                              *)
(*                                                                         *)
(* The clock counts abstract ticks.  A lease is identified with the        *)
(* identity columns it fixes (tenant, session, lease, code digest).        *)
(***************************************************************************)
EXTENDS Naturals, FiniteSets

CONSTANTS
  Invocations,      \* client-chosen invocation identifiers
  Leases,           \* lease identifiers of one session
  Codes,            \* code digests the session is bound to over time
  CodeOf,           \* the digest each lease was signed for
  Calls,            \* supervisor.invoke threads
  Usages,           \* measured usage vectors (cpu, wall, memory, bytes)
  ZeroUsage,        \* the all-zero vector a recovered row carries
  Lifetime,         \* ticks between a lease's not_before and expires_at
  StaleAfter,       \* ticks without progress after which a row is abandoned
  DeliveryWindow,   \* oldest occurred_at the validator still accepts
  Horizon,          \* bound: executor and delivery act before this tick
  HostLoss,         \* may an executor vanish while its release is pending?
  None              \* SQL NULL

ASSUME ConstantsAssumption ==
  /\ CodeOf \in [Leases -> Codes]
  /\ Lifetime \in Nat /\ StaleAfter \in Nat /\ DeliveryWindow \in Nat
  /\ Horizon \in Nat
  /\ HostLoss \in BOOLEAN
  /\ ZeroUsage \notin Usages
  /\ None \notin Leases
  /\ None \notin [lease : Leases, outcome : {"succeeded", "failed"}, at : Nat,
                  usage : Usages \cup {ZeroUsage}, reason : {"measured", "executor_lost"}]

VARIABLES
  clock,            \* wall clock of control plane, database and executors
  lease,            \* executor_leases: window and revocation of each lease
  code,             \* instant_sessions.code_digest of the session row
  call,             \* the executor's invoke threads
  sent,             \* accounting records emitted so far, never lost from here
  row,              \* instant_invocations
  acct,             \* instant_accounting (UNIQUE invocation_id)
  outbox,           \* number of 'instant.accounting.recorded' outbox rows
  charged,          \* replies that said charged = true (history)
  reaper,           \* the step run_reaper's loop body is at
  stuck             \* a pending release names an executor that is gone

vars == <<clock, lease, code, call, sent, row, acct, outbox, charged, reaper, stuck>>

Outcomes == {"succeeded", "failed"}
Open == {"accepted", "started"}
Closed == Outcomes

\* Base records carry no usage; the terminal one carries outcome and usage.
Record == [inv : Invocations, lease : Leases, at : Nat,
           state : {"accepted", "started", "terminal"},
           outcome : Outcomes \cup {None}, usage : Usages \cup {None}]

Account == [lease : Leases, outcome : Outcomes, at : Nat,
            usage : Usages \cup {ZeroUsage}, reason : {"measured", "executor_lost"}]

NoRow == [state |-> "absent", lease |-> None, updated |-> 0, started |-> FALSE]

Row == [state : {"absent"} \cup Open \cup Closed, lease : Leases \cup {None},
        updated : Nat, started : BOOLEAN]

Init ==
  /\ clock = 0
  /\ lease = [l \in Leases |-> [issued |-> FALSE, nbf |-> 0, revoked |-> None]]
  /\ code \in Codes
  /\ call = [c \in Calls |-> [pc |-> "idle", inv |-> None, lease |-> None]]
  /\ sent = {}
  /\ row = [i \in Invocations |-> NoRow]
  /\ acct = [i \in Invocations |-> None]
  /\ outbox = [i \in Invocations |-> 0]
  /\ charged = [i \in Invocations |-> 0]
  /\ reaper = "reconcile"
  /\ stuck = FALSE

-----------------------------------------------------------------------------
(* Leases, as the control plane writes them. *)

Expiry(l) == lease[l].nbf + Lifetime

\* activate and renew insert a lease; a rebind has by then rewritten the
\* session row's digest to the digest the new lease is signed for.
IssueLease(l) ==
  /\ ~lease[l].issued
  /\ clock < Horizon
  /\ lease' = [lease EXCEPT ![l] = [issued |-> TRUE, nbf |-> clock, revoked |-> None]]
  /\ code' = CodeOf[l]
  /\ UNCHANGED <<clock, call, sent, row, acct, outbox, charged, reaper, stuck>>

\* renew (SUPERSEDED) and _finish_session (REVOKED) stamp revoked_at.
RevokeLease(l) ==
  /\ lease[l].issued
  /\ lease[l].revoked = None
  /\ clock < Horizon
  /\ lease' = [lease EXCEPT ![l].revoked = clock]
  /\ UNCHANGED <<clock, code, call, sent, row, acct, outbox, charged, reaper, stuck>>

-----------------------------------------------------------------------------
(* The executor: one thread of supervisor.invoke per element of Calls.     *)

Emit(i, l, state, outcome, usage) ==
  sent' = sent \cup {[inv |-> i, lease |-> l, at |-> clock, state |-> state,
                      outcome |-> outcome, usage |-> usage]}

\* A call passes _verify_lease (signature and expiry; the executor does not
\* learn of revocation) and hands over its accepted record.
InvokeAccepted(c, i, l) ==
  /\ call[c].pc = "idle"
  /\ clock < Horizon
  /\ lease[l].issued /\ clock < Expiry(l)
  /\ call' = [call EXCEPT ![c] = [pc |-> "accepted", inv |-> i, lease |-> l]]
  /\ Emit(i, l, "accepted", None, None)
  /\ UNCHANGED <<clock, lease, code, row, acct, outbox, charged, reaper, stuck>>

InvokeStarted(c) ==
  /\ call[c].pc = "accepted"
  /\ clock < Horizon
  /\ call' = [call EXCEPT ![c].pc = "started"]
  /\ Emit(call[c].inv, call[c].lease, "started", None, None)
  /\ UNCHANGED <<clock, lease, code, row, acct, outbox, charged, reaper, stuck>>

\* User code has answered, failed or been killed at its deadline.
InvokeTerminal(c, outcome, usage) ==
  /\ call[c].pc = "started"
  /\ clock < Horizon
  /\ call' = [call EXCEPT ![c].pc = "done"]
  /\ Emit(call[c].inv, call[c].lease, "terminal", outcome, usage)
  /\ UNCHANGED <<clock, lease, code, row, acct, outbox, charged, reaper, stuck>>

\* The emitter raises (ACCOUNTING_UNAVAILABLE) or the executor dies: the call
\* hands over nothing more.
InvokeLost(c) ==
  /\ call[c].pc \in {"accepted", "started"}
  /\ clock < Horizon
  /\ call' = [call EXCEPT ![c].pc = "done"]
  /\ UNCHANGED <<clock, lease, code, sent, row, acct, outbox, charged, reaper, stuck>>

-----------------------------------------------------------------------------
(* The control plane. *)

\* validate_record refuses a record older than the delivery window.  Its other
\* bound, five minutes past now, is about a host clock running ahead: the
\* model's hosts and control plane share one clock, so it always holds.
ValidRecord(r) == r.at + DeliveryWindow >= clock

\* Faulty: the lease's revocation is not compared with the record's instant.
BackedByRevokedLease(r) ==
  /\ lease[r.lease].issued
  /\ CodeOf[r.lease] = code
  /\ lease[r.lease].nbf <= r.at /\ r.at <= Expiry(r.lease)

\* The first SELECT of record_invocation: the lease row joined with the
\* session's current row must cover the instant the record names.
BackedByLease(r) ==
  /\ lease[r.lease].issued
  /\ CodeOf[r.lease] = code
  /\ lease[r.lease].nbf <= r.at /\ r.at <= Expiry(r.lease)
  /\ lease[r.lease].revoked # None => lease[r.lease].revoked >= r.at

\* INSERT ... ON CONFLICT DO NOTHING followed by SELECT ... FOR UPDATE.
RowAfterInsert(r) ==
  IF row[r.inv].state = "absent"
  THEN [state |-> "accepted", lease |-> r.lease, updated |-> clock, started |-> FALSE]
  ELSE row[r.inv]

\* ingest of an accepted record: creates the row or leaves it as it is.
RecordAccepted(r) ==
  /\ r.state = "accepted"
  /\ ValidRecord(r) /\ BackedByLease(r) /\ RowAfterInsert(r).lease = r.lease
  /\ row' = [row EXCEPT ![r.inv] = RowAfterInsert(r)]
  /\ UNCHANGED <<acct, outbox, charged>>

\* ingest of a started record: also creates a row whose accepted record is
\* still on its way, and never moves a row backwards.
RecordStarted(r) ==
  /\ r.state = "started"
  /\ ValidRecord(r) /\ BackedByLease(r) /\ RowAfterInsert(r).lease = r.lease
  /\ row' = [row EXCEPT ![r.inv] =
               IF RowAfterInsert(r).state = "accepted"
               THEN [RowAfterInsert(r) EXCEPT !.state = "started",
                                              !.updated = clock, !.started = TRUE]
               ELSE RowAfterInsert(r)]
  /\ UNCHANGED <<acct, outbox, charged>>

\* ingest of a terminal record.  From 'accepted' (or from no row) the
\* transaction is refused and rolled back; when the accounting row exists the
\* unique index makes it a replay (same values or a recovered row) or a
\* conflict, and neither writes anything.
RecordTerminal(r) ==
  /\ r.state = "terminal"
  /\ ValidRecord(r) /\ BackedByLease(r) /\ RowAfterInsert(r).lease = r.lease
  /\ RowAfterInsert(r).state # "accepted"
  /\ acct[r.inv] = None
  /\ acct' = [acct EXCEPT ![r.inv] = [lease |-> r.lease, outcome |-> r.outcome, at |-> r.at,
                                      usage |-> r.usage, reason |-> "measured"]]
  /\ row' = [row EXCEPT ![r.inv].state = r.outcome, ![r.inv].updated = clock]
  /\ outbox' = [outbox EXCEPT ![r.inv] = @ + 1]
  /\ charged' = [charged EXCEPT ![r.inv] = @ + 1]

RecordInvocation(r) ==
  /\ clock < Horizon
  /\ RecordAccepted(r) \/ RecordStarted(r) \/ RecordTerminal(r)
  /\ UNCHANGED <<clock, lease, code, call, sent, reaper, stuck>>

\* Faulty: only rows that had started are looked for.
StaleStartedOnly(i) == row[i].state = "started" /\ row[i].updated + StaleAfter <= clock

\* SELECT ... updated_at <= now - stale_timeout.
Stale(i) == row[i].state \in Open /\ row[i].updated + StaleAfter <= clock

\* reconcile() comes first in the loop body.  Its sweep sends every pending
\* executor release; when one of them raises, the loop swallows the exception
\* and starts over, and the accounting pass of that cycle does not run.
Reconcile ==
  /\ reaper = "reconcile" /\ ~stuck
  /\ reaper' = "recover"
  /\ UNCHANGED <<clock, lease, code, call, sent, row, acct, outbox, charged, stuck>>

\* The executor of a pending release is gone for good (its task was replaced
\* under a new identity), so each pass's release call to it raises.
ReleaseStuck ==
  /\ HostLoss /\ ~stuck
  /\ reaper = "reconcile"
  /\ stuck' = TRUE
  /\ UNCHANGED <<clock, lease, code, call, sent, row, acct, outbox, charged, reaper>>

\* Faulty: recovery closes the rows and does not announce it.
RecoverSilently(S) ==
  /\ reaper = "recover"
  /\ \A i \in S : Stale(i)
  /\ acct' = [i \in Invocations |->
                IF i \in S /\ acct[i] = None
                THEN [lease |-> row[i].lease, outcome |-> "failed", at |-> clock,
                      usage |-> ZeroUsage, reason |-> "executor_lost"]
                ELSE acct[i]]
  /\ row' = [i \in Invocations |->
               IF i \in S /\ acct[i] = None
               THEN [row[i] EXCEPT !.state = "failed", !.started = TRUE, !.updated = clock]
               ELSE row[i]]
  /\ reaper' = "reconcile"
  /\ UNCHANGED <<clock, lease, code, call, sent, outbox, charged, stuck>>

\* One transaction over the stale rows the reaper could lock (SKIP LOCKED).
RecoverStaleInvocations(S) ==
  /\ reaper = "recover"
  /\ \A i \in S : Stale(i)
  /\ acct' = [i \in Invocations |->
                IF i \in S /\ acct[i] = None
                THEN [lease |-> row[i].lease, outcome |-> "failed", at |-> clock,
                      usage |-> ZeroUsage, reason |-> "executor_lost"]
                ELSE acct[i]]
  /\ row' = [i \in Invocations |->
               IF i \in S /\ acct[i] = None
               THEN [row[i] EXCEPT !.state = "failed", !.started = TRUE, !.updated = clock]
               ELSE row[i]]
  /\ outbox' = [i \in Invocations |->
                  IF i \in S /\ acct[i] = None THEN outbox[i] + 1 ELSE outbox[i]]
  /\ reaper' = "reconcile"
  /\ UNCHANGED <<clock, lease, code, call, sent, charged, stuck>>

Tick ==
  /\ clock < Horizon + StaleAfter
  /\ clock' = clock + 1
  /\ UNCHANGED <<lease, code, call, sent, row, acct, outbox, charged, reaper, stuck>>

-----------------------------------------------------------------------------
Executor ==
  \/ \E c \in Calls, i \in Invocations, l \in Leases : InvokeAccepted(c, i, l)
  \/ \E c \in Calls : InvokeStarted(c)
  \/ \E c \in Calls, o \in Outcomes, u \in Usages : InvokeTerminal(c, o, u)
  \/ \E c \in Calls : InvokeLost(c)

Recover == \E S \in SUBSET Invocations : RecoverStaleInvocations(S)

Next ==
  \/ \E l \in Leases : IssueLease(l)
  \/ \E l \in Leases : RevokeLease(l)
  \/ Executor
  \/ \E r \in sent : RecordInvocation(r)
  \/ Reconcile
  \/ ReleaseStuck
  \/ Recover
  \/ Tick

Spec == Init /\ [][Next]_vars

\* Time passes and the reaper's endless loop takes its steps.  SKIP LOCKED
\* leaves a row to a later pass only while another transaction holds it, so a
\* row that stays stale is picked by some pass: strong fairness.
FairSpec ==
  /\ Spec
  /\ WF_vars(Tick)
  /\ WF_vars(Reconcile)
  /\ WF_vars(Recover)
  /\ \A i \in Invocations :
       SF_vars(\E S \in SUBSET Invocations : i \in S /\ RecoverStaleInvocations(S))

-----------------------------------------------------------------------------
(* Properties. *)

Call == [pc : {"idle", "accepted", "started", "done"},
         inv : Invocations \cup {None}, lease : Leases \cup {None}]

LeaseRow == [issued : BOOLEAN, nbf : Nat, revoked : Nat \cup {None}]

\* Type invariant of the durable rows, the executor calls and the log plane.
TypeOK ==
  /\ clock \in Nat
  /\ lease \in [Leases -> LeaseRow]
  /\ code \in Codes
  /\ call \in [Calls -> Call]
  /\ \A c \in Calls : call[c].pc # "idle" => call[c].inv \in Invocations /\ call[c].lease \in Leases
  /\ sent \subseteq Record
  /\ row \in [Invocations -> Row]
  /\ acct \in [Invocations -> Account \cup {None}]
  /\ outbox \in [Invocations -> Nat]
  /\ charged \in [Invocations -> Nat]
  /\ reaper \in {"reconcile", "recover"}
  /\ stuck \in BOOLEAN

\* The four places that say an invocation is over agree after any delivery
\* order and any race with the reaper: the invocation row is terminal, its
\* accounting row exists, one outbox row announces it, and started_at is set
\* as the CHECK of migration 002 demands (record_invocation and
\* recover_stale_invocations each write all of them or none).
LedgerAgrees ==
  \A i \in Invocations :
    /\ row[i].state \in Closed <=> acct[i] # None
    /\ outbox[i] = IF acct[i] # None THEN 1 ELSE 0
    /\ row[i].started <=> row[i].state \in {"started"} \cup Closed
    /\ acct[i] # None => acct[i].lease = row[i].lease /\ acct[i].outcome = row[i].state

\* A tenant is billed only for usage an executor measured: the billed values
\* are those of a terminal record of the same invocation and lease, that call
\* had reported its start, and the terminal instant lies inside the lease and
\* not after its revocation.  A row closed by the reaper bills nothing.
ChargeIsProven ==
  \A i \in Invocations : acct[i] # None =>
    \/ acct[i].reason = "executor_lost" /\ acct[i].usage = ZeroUsage /\ acct[i].outcome = "failed"
    \/ /\ \E t \in sent : /\ t.state = "terminal" /\ t.inv = i /\ t.lease = acct[i].lease
                          /\ t.outcome = acct[i].outcome /\ t.usage = acct[i].usage
                          /\ t.at = acct[i].at
       /\ \E b \in sent : b.state = "started" /\ b.inv = i /\ b.lease = acct[i].lease
       /\ LET l == acct[i].lease
          IN /\ lease[l].issued /\ lease[l].nbf <= acct[i].at /\ acct[i].at <= Expiry(l)
             /\ lease[l].revoked # None => lease[l].revoked >= acct[i].at

\* Over all deliveries and replays of an invocation's records, charged = true
\* is answered once if its usage was billed and never if the reaper closed it
\* (README: "executor loss cannot double-charge the tenant").
ChargedAtMostOnce ==
  \A i \in Invocations :
    charged[i] = IF acct[i] # None /\ acct[i].reason = "measured" THEN 1 ELSE 0

Rank(s) == CASE s = "absent" -> 0 [] s = "accepted" -> 1 [] s = "started" -> 2 [] OTHER -> 3

\* An invocation row only moves forward and keeps the identity it was created
\* with; a late or duplicated record never reopens it, and what was recorded
\* for it never changes.
NeverReopened ==
  [][\A i \in Invocations :
       /\ Rank(row[i].state) <= Rank(row'[i].state)
       /\ row[i].state # "absent" => row'[i].lease = row[i].lease
       /\ row[i].state \in Closed => row'[i] = row[i]
       /\ acct[i] # None => acct'[i] = acct[i]]_vars

\* The ledger as its readers see it.
status == [i \in Invocations |->
             CASE row[i].state = "absent" -> "none"
               [] row[i].state \in Open -> "open"
               [] OTHER -> "closed"]

Ledger == INSTANCE ChargeOnce
          WITH Bills <- Account, NoBill <- None, bill <- acct, notices <- outbox

\* The ingestion path and the reaper together implement ChargeOnce.
ImplementsChargeOnce == Ledger!Spec

\* No row stays open for ever, whatever records are lost: the reaper closes it,
\* unless a release to a vanished executor stops each of its passes before the
\* accounting step (run_reaper's loop body).
ClosedUnlessStuck ==
  \A i \in Invocations : row[i].state \in Open ~> (row[i].state \in Closed \/ stuck)

\* "A call that remains accepted or started past that bound is closed once"
\* (control_plane/README.md): no row stays open for ever, whatever records are
\* lost.
AbandonedIsClosed ==
  \A i \in Invocations : row[i].state \in Open ~> row[i].state \in Closed
=============================================================================

----------------------- MODULE InstantAccountingProofs -----------------------
(***************************************************************************)
(* The accounting ledger of InstantAccounting is correct for any number of *)
(* invocations, leases, calls and records, and any timing constants.       *)
(***************************************************************************)
EXTENDS InstantAccounting, TLAPS

(***************************************************************************)
(* The inductive strengthening.  A row that exists names its lease; a row  *)
(* that is started was started by a record of its lease; records and       *)
(* accounts lie in the past (so a later revocation cannot precede them);   *)
(* terminal records carry an outcome and a usage.                          *)
(***************************************************************************)
RowsNameLeases == \A i \in Invocations : row[i].state # "absent" => row[i].lease \in Leases

StartIsWitnessed ==
  \A i \in Invocations : row[i].state = "started" =>
    \E b \in sent : b.state = "started" /\ b.inv = i /\ b.lease = row[i].lease

RecordsInPast ==
  /\ \A r \in sent : r.at <= clock
  /\ \A i \in Invocations : acct[i] # None => acct[i].at <= clock

TerminalsMeasured ==
  \A r \in sent : r.state = "terminal" => r.outcome \in Outcomes /\ r.usage \in Usages

Aux == RowsNameLeases /\ StartIsWitnessed /\ RecordsInPast /\ TerminalsMeasured

Inv == TypeOK /\ LedgerAgrees /\ ChargeIsProven /\ ChargedAtMostOnce /\ Aux

-----------------------------------------------------------------------------
(* The ledger variables of a step that records nothing. *)

\* A step that leaves the ledger alone keeps every ledger property that
\* mentions no other variable.
LEMMA LedgerUntouched ==
  ASSUME LedgerAgrees, ChargedAtMostOnce, RowsNameLeases,
         UNCHANGED <<row, acct, outbox, charged>>
  PROVE  LedgerAgrees' /\ ChargedAtMostOnce' /\ RowsNameLeases'
  BY Zenon DEF LedgerAgrees, ChargedAtMostOnce, RowsNameLeases

\* Emitting a record keeps the invariant when the record is well formed.
LEMMA EmitKeepsInv ==
  ASSUME Inv,
         NEW i \in Invocations, NEW l \in Leases,
         NEW state \in {"accepted", "started", "terminal"},
         NEW outcome \in Outcomes \cup {None}, NEW usage \in Usages \cup {None},
         state = "terminal" => outcome \in Outcomes /\ usage \in Usages,
         Emit(i, l, state, outcome, usage),
         call' \in [Calls -> Call],
         \A c \in Calls : call'[c].pc # "idle" => call'[c].inv \in Invocations /\ call'[c].lease \in Leases,
         UNCHANGED <<clock, lease, code, row, acct, outbox, charged, reaper, stuck>>
  PROVE  Inv'
<1> DEFINE rec == [inv |-> i, lease |-> l, at |-> clock, state |-> state,
                   outcome |-> outcome, usage |-> usage]
<1>1. rec \in Record
  BY Zenon DEF Inv, TypeOK, Record
<1>2. sent' = sent \cup {rec}
  BY Zenon DEF Emit
<1>3. TypeOK'
  BY Zenon, <1>1, <1>2 DEF Inv, TypeOK
<1>4. LedgerAgrees' /\ ChargedAtMostOnce' /\ RowsNameLeases'
  BY Zenon, LedgerUntouched DEF Inv, Aux
<1>5. ChargeIsProven'
  BY <1>2 DEF Inv, ChargeIsProven, Expiry
<1>6. StartIsWitnessed'
  BY Zenon, <1>2 DEF Inv, Aux, StartIsWitnessed
<1>7. RecordsInPast'
  <2>1. rec.at <= clock
    BY DEF Inv, TypeOK
  <2> QED BY Zenon, <1>2, <2>1 DEF Inv, Aux, RecordsInPast
<1>8. TerminalsMeasured'
  BY <1>2 DEF Inv, Aux, TerminalsMeasured
<1> QED BY Zenon, <1>3, <1>4, <1>5, <1>6, <1>7, <1>8 DEF Inv, Aux

-----------------------------------------------------------------------------
(* The steps. *)

\* The invariant holds before the first lease.
LEMMA InitInv ==
  ASSUME Init PROVE Inv
BY ConstantsAssumption, Zenon
   DEF Init, Inv, Aux, TypeOK, LedgerAgrees, ChargeIsProven, ChargedAtMostOnce, RowsNameLeases,
       StartIsWitnessed, RecordsInPast, TerminalsMeasured, LeaseRow, Call, Row, NoRow, Closed, Outcomes, Open

\* A new lease backs new records and disturbs no row.
LEMMA IssueLeaseInv ==
  ASSUME Inv, NEW l \in Leases, IssueLease(l) PROVE Inv'
<1>1. TypeOK'
  BY ConstantsAssumption, Zenon DEF Inv, TypeOK, IssueLease, LeaseRow
<1>2. LedgerAgrees' /\ ChargedAtMostOnce' /\ RowsNameLeases'
  BY Zenon, LedgerUntouched DEF Inv, Aux, IssueLease
<1>3. ChargeIsProven'
  <2>1. \A m \in Leases : lease[m].issued => lease'[m] = lease[m]
    BY Zenon DEF Inv, TypeOK, IssueLease
  <2>2. \A i \in Invocations : acct[i] # None => acct[i].lease \in Leases
    BY Zenon DEF Inv, TypeOK, Account
  <2> QED BY <2>1, <2>2 DEF Inv, ChargeIsProven, IssueLease, Expiry
<1>4. StartIsWitnessed' /\ RecordsInPast' /\ TerminalsMeasured'
  BY Zenon DEF Inv, Aux, StartIsWitnessed, RecordsInPast, TerminalsMeasured, IssueLease
<1> QED BY Zenon, <1>1, <1>2, <1>3, <1>4 DEF Inv, Aux

\* An account lies in the past, so a revocation stamped now cannot precede it.
LEMMA RevokeLeaseInv ==
  ASSUME Inv, NEW l \in Leases, RevokeLease(l) PROVE Inv'
<1>1. TypeOK'
  BY DEF Inv, TypeOK, RevokeLease, LeaseRow
<1>2. LedgerAgrees' /\ ChargedAtMostOnce' /\ RowsNameLeases'
  BY Zenon, LedgerUntouched DEF Inv, Aux, RevokeLease
<1>3. ChargeIsProven'
  <2>1. \A m \in Leases : /\ lease'[m].issued = lease[m].issued
                          /\ lease'[m].nbf = lease[m].nbf
    BY Zenon DEF Inv, TypeOK, RevokeLease, LeaseRow
  <2>2. \A i \in Invocations : acct[i] # None => /\ acct[i].lease \in Leases
                                                 /\ acct[i].at \in Nat /\ acct[i].at <= clock
    BY Zenon DEF Inv, Aux, TypeOK, Account, RecordsInPast
  <2>3. lease[l].revoked = None /\ lease'[l].revoked = clock /\ clock \in Nat
    BY Zenon DEF Inv, TypeOK, RevokeLease, LeaseRow
  <2>4. ASSUME NEW i \in Invocations, acct[i] # None,
               lease[acct[i].lease].revoked # None => lease[acct[i].lease].revoked >= acct[i].at,
               lease'[acct[i].lease].revoked # None
        PROVE  lease'[acct[i].lease].revoked >= acct[i].at
    <3>1. CASE acct[i].lease = l
      BY Zenon, <3>1, <2>2, <2>3, <2>4
    <3>2. CASE acct[i].lease # l
      <4>1. acct[i].lease \in Leases
        BY Zenon, <2>2, <2>4
      <4>2. lease'[acct[i].lease] = lease[acct[i].lease]
        BY Zenon, <3>2, <4>1 DEF Inv, TypeOK, RevokeLease
      <4> QED BY <4>2, <2>4, Zenon
    <3> QED BY Zenon, <3>1, <3>2
  <2> QED BY <2>1, <2>2, <2>4 DEF Inv, ChargeIsProven, RevokeLease, Expiry
<1>4. StartIsWitnessed' /\ RecordsInPast' /\ TerminalsMeasured'
  BY Zenon DEF Inv, Aux, StartIsWitnessed, RecordsInPast, TerminalsMeasured, RevokeLease
<1> QED BY Zenon, <1>1, <1>2, <1>3, <1>4 DEF Inv, Aux

\* The executor only emits records; the ledger does not move.
LEMMA ExecutorInv ==
  ASSUME Inv, Executor PROVE Inv'
<1>1. CASE \E c \in Calls, i \in Invocations, l \in Leases : InvokeAccepted(c, i, l)
  <2> PICK c \in Calls, i \in Invocations, l \in Leases : InvokeAccepted(c, i, l)
    BY Zenon, <1>1
  <2>1. /\ call' \in [Calls -> Call]
        /\ \A d \in Calls : call'[d].pc # "idle" => call'[d].inv \in Invocations /\ call'[d].lease \in Leases
    BY Zenon DEF Inv, TypeOK, InvokeAccepted, Call
  <2> QED BY Zenon, <2>1, EmitKeepsInv DEF InvokeAccepted
<1>2. CASE \E c \in Calls : InvokeStarted(c)
  <2> PICK c \in Calls : InvokeStarted(c)
    BY Zenon, <1>2
  <2>1. /\ call' \in [Calls -> Call]
        /\ \A d \in Calls : call'[d].pc # "idle" => call'[d].inv \in Invocations /\ call'[d].lease \in Leases
        /\ call[c].inv \in Invocations /\ call[c].lease \in Leases
    BY Zenon DEF Inv, TypeOK, InvokeStarted, Call
  <2> QED BY <2>1, EmitKeepsInv, Zenon DEF InvokeStarted
<1>3. CASE \E c \in Calls, o \in Outcomes, u \in Usages : InvokeTerminal(c, o, u)
  <2> PICK c \in Calls, o \in Outcomes, u \in Usages : InvokeTerminal(c, o, u)
    BY Zenon, <1>3
  <2>1. /\ call' \in [Calls -> Call]
        /\ \A d \in Calls : call'[d].pc # "idle" => call'[d].inv \in Invocations /\ call'[d].lease \in Leases
        /\ call[c].inv \in Invocations /\ call[c].lease \in Leases
    BY Zenon DEF Inv, TypeOK, InvokeTerminal, Call
  <2> QED BY Zenon, <2>1, EmitKeepsInv DEF InvokeTerminal
<1>4. CASE \E c \in Calls : InvokeLost(c)
  <2> PICK c \in Calls : InvokeLost(c)
    BY Zenon, <1>4
  <2>1. TypeOK'
    BY Zenon DEF Inv, TypeOK, InvokeLost, Call
  <2>2. LedgerAgrees' /\ ChargedAtMostOnce' /\ RowsNameLeases'
    BY Zenon, LedgerUntouched DEF Inv, Aux, InvokeLost
  <2>3. ChargeIsProven' /\ StartIsWitnessed' /\ RecordsInPast' /\ TerminalsMeasured'
    BY DEF Inv, Aux, ChargeIsProven, Expiry, StartIsWitnessed, RecordsInPast, TerminalsMeasured, InvokeLost
  <2> QED BY Zenon, <2>1, <2>2, <2>3 DEF Inv, Aux
<1> QED BY Zenon, <1>1, <1>2, <1>3, <1>4 DEF Executor

\* Steps of the clock and of the reaper's reconcile half.
LEMMA QuietInv ==
  ASSUME Inv, Tick \/ Reconcile \/ ReleaseStuck PROVE Inv'
<1>1. UNCHANGED <<lease, code, call, sent, row, acct, outbox, charged>> /\ clock' \in Nat /\ clock <= clock'
  BY DEF Inv, TypeOK, Tick, Reconcile, ReleaseStuck
<1>2. TypeOK'
  BY <1>1, Zenon DEF Inv, TypeOK, Tick, Reconcile, ReleaseStuck
<1>3. LedgerAgrees' /\ ChargedAtMostOnce' /\ RowsNameLeases'
  BY Zenon, <1>1, LedgerUntouched DEF Inv, Aux
<1>4. ChargeIsProven' /\ StartIsWitnessed' /\ TerminalsMeasured'
  <2>1. ChargeIsProven'
    BY <1>1 DEF Inv, ChargeIsProven, Expiry
  <2>2. StartIsWitnessed' /\ TerminalsMeasured'
    BY Zenon, <1>1 DEF Inv, Aux, StartIsWitnessed, TerminalsMeasured
  <2> QED BY Zenon, <2>1, <2>2
<1>5. RecordsInPast'
  BY <1>1 DEF Inv, Aux, RecordsInPast, TypeOK, Record, Account
<1> QED BY Zenon, <1>2, <1>3, <1>4, <1>5 DEF Inv, Aux

\* The two non-terminal records: the row is created or moved on to started.
LEMMA RecordOpenInv ==
  ASSUME Inv, NEW r \in sent, RecordInvocation(r), RecordAccepted(r) \/ RecordStarted(r) PROVE Inv'
<1> DEFINE i == r.inv
<1>1. r \in Record /\ i \in Invocations /\ r.lease \in Leases
  BY Zenon DEF Inv, TypeOK, Record
<1>2. /\ RowAfterInsert(r) \in Row /\ RowAfterInsert(r).lease = r.lease
      /\ row[i].state # "absent" => RowAfterInsert(r) = row[i]
      /\ row[i].state = "absent" => RowAfterInsert(r).state = "accepted" /\ RowAfterInsert(r).started = FALSE
  BY Zenon, <1>1 DEF Inv, TypeOK, RowAfterInsert, Row, Open, RecordAccepted, RecordStarted
<1>3. UNCHANGED <<clock, lease, code, call, sent, acct, outbox, charged, reaper, stuck>>
  BY Zenon DEF RecordInvocation, RecordAccepted, RecordStarted
<1>4. /\ row' = [row EXCEPT ![i] = row'[i]]
      /\ row'[i] \in Row /\ row'[i].lease = r.lease
      /\ \/ row'[i].state = RowAfterInsert(r).state /\ row'[i].started = RowAfterInsert(r).started
         \/ /\ r.state = "started" /\ RowAfterInsert(r).state = "accepted"
            /\ row'[i].state = "started" /\ row'[i].started = TRUE
  <2>1. CASE RecordAccepted(r)
    BY <1>1, <1>2, <2>1, Zenon DEF Inv, TypeOK, RecordAccepted
  <2>2. CASE RecordStarted(r)
    <3> DEFINE next == IF RowAfterInsert(r).state = "accepted"
                       THEN [RowAfterInsert(r) EXCEPT !.state = "started", !.updated = clock, !.started = TRUE]
                       ELSE RowAfterInsert(r)
    <3>1. row' = [row EXCEPT ![i] = next] /\ r.state = "started"
      BY Zenon, <2>2 DEF RecordStarted
    <3>2. row'[i] = next
      BY Zenon, <1>1, <3>1 DEF Inv, TypeOK
    <3>3. next \in Row /\ next.lease = r.lease
      BY <1>2, Zenon DEF Row, Open, Inv, TypeOK
    <3>4. \/ next.state = RowAfterInsert(r).state /\ next.started = RowAfterInsert(r).started
          \/ RowAfterInsert(r).state = "accepted" /\ next.state = "started" /\ next.started = TRUE
      BY <1>2, Zenon DEF Row
    <3> HIDE DEF next
    <3> QED BY <3>1, <3>2, <3>3, <3>4, Zenon
  <2> QED BY <2>1, <2>2, Zenon
<1>5. TypeOK'
  BY Zenon, <1>1, <1>3, <1>4 DEF Inv, TypeOK
<1>6. LedgerAgrees'
  BY <1>1, <1>2, <1>3, <1>4, SMTT(30) DEF Inv, TypeOK, LedgerAgrees, Closed, Outcomes
<1>7. ChargeIsProven' /\ ChargedAtMostOnce' /\ RecordsInPast' /\ TerminalsMeasured'
  BY <1>3, SMTT(30) DEF Inv, Aux, ChargeIsProven, ChargedAtMostOnce, Expiry, RecordsInPast, TerminalsMeasured
<1>8. RowsNameLeases'
  BY Zenon, <1>1, <1>4 DEF Inv, TypeOK, Aux, RowsNameLeases
<1>9. StartIsWitnessed'
  BY <1>1, <1>2, <1>3, <1>4 DEF Inv, TypeOK, Aux, StartIsWitnessed
<1> QED BY Zenon, <1>5, <1>6, <1>7, <1>8, <1>9 DEF Inv, Aux

\* The terminal record: only a row that is started can be closed by it.
LEMMA RecordTerminalInv ==
  ASSUME Inv, NEW r \in sent, RecordInvocation(r), RecordTerminal(r) PROVE Inv'
<1> DEFINE i == r.inv
           bill == [lease |-> r.lease, outcome |-> r.outcome, at |-> r.at,
                    usage |-> r.usage, reason |-> "measured"]
<1>1. /\ r \in Record /\ i \in Invocations /\ r.lease \in Leases /\ r.at \in Nat
      /\ r.outcome \in Outcomes /\ r.usage \in Usages /\ r.state = "terminal"
  BY Zenon DEF Inv, TypeOK, Record, Aux, TerminalsMeasured, RecordTerminal
<1>2. UNCHANGED <<clock, lease, code, call, sent, reaper, stuck>>
  BY Zenon DEF RecordInvocation
<1>3. bill \in Account /\ bill # None
  BY <1>1, ConstantsAssumption DEF Account, Outcomes
<1>4. row[i].state = "started" /\ row[i].lease = r.lease /\ acct[i] = None
  BY Zenon, <1>1 DEF Inv, TypeOK, Row, LedgerAgrees, RecordTerminal, RowAfterInsert, Open, Closed, Outcomes
<1>5. /\ acct' = [acct EXCEPT ![i] = bill]
      /\ row' = [row EXCEPT ![i].state = r.outcome, ![i].updated = clock]
      /\ outbox' = [outbox EXCEPT ![i] = @ + 1]
      /\ charged' = [charged EXCEPT ![i] = @ + 1]
  BY Zenon DEF RecordTerminal
<1>6. TypeOK'
  <2>1. acct' \in [Invocations -> Account \cup {None}]
    BY <1>3, <1>5, Zenon DEF Inv, TypeOK
  <2>2. row' \in [Invocations -> Row]
    <3>1. [row[i] EXCEPT !.state = r.outcome, !.updated = clock] \in Row
      <4>1. row[i] \in Row /\ clock \in Nat /\ r.outcome \in Closed
        BY Zenon, <1>1 DEF Inv, TypeOK, Closed
      <4>2. [row[i] EXCEPT !.state = r.outcome] \in Row
        BY Zenon, <4>1 DEF Row
      <4>3. [[row[i] EXCEPT !.state = r.outcome] EXCEPT !.updated = clock] \in Row
        BY <4>1, <4>2, Zenon DEF Row
      <4> QED BY Zenon, <4>3
    <3>2. row' = [row EXCEPT ![i] = [row[i] EXCEPT !.state = r.outcome, !.updated = clock]]
      BY <1>1, <1>5, Zenon DEF Inv, TypeOK, Row
    <3> QED BY <3>1, <3>2, Zenon DEF Inv, TypeOK
  <2>3. outbox' \in [Invocations -> Nat] /\ charged' \in [Invocations -> Nat]
    BY <1>1, <1>5 DEF Inv, TypeOK
  <2> QED BY Zenon, <1>2, <2>1, <2>2, <2>3 DEF Inv, TypeOK
<1>7. LedgerAgrees'
  BY <1>1, <1>3, <1>4, <1>5 DEF Inv, TypeOK, Row, LedgerAgrees, Closed, Outcomes
<1>8. ChargeIsProven'
  <2>1. \E b \in sent : b.state = "started" /\ b.inv = i /\ b.lease = r.lease
    BY <1>1, <1>4 DEF Inv, Aux, StartIsWitnessed
  <2>2. BackedByLease(r)
    BY Zenon DEF RecordTerminal
  <2>3. acct'[i] = bill /\ \A j \in Invocations : j # i => acct'[j] = acct[j]
    BY Zenon, <1>1, <1>5 DEF Inv, TypeOK
  <2> QED BY <1>1, <1>2, <2>1, <2>2, <2>3, SMTT(30) DEF Inv, ChargeIsProven, BackedByLease, Expiry
<1>9. ChargedAtMostOnce'
  BY <1>1, <1>3, <1>4, <1>5 DEF Inv, TypeOK, ChargedAtMostOnce
<1>10. RowsNameLeases' /\ StartIsWitnessed'
  BY <1>1, <1>2, <1>4, <1>5 DEF Inv, TypeOK, Row, Aux, RowsNameLeases, StartIsWitnessed, Outcomes
<1>11. RecordsInPast' /\ TerminalsMeasured'
  BY Zenon, <1>1, <1>2, <1>5 DEF Inv, TypeOK, Aux, RecordsInPast, TerminalsMeasured
<1> QED BY Zenon, <1>6, <1>7, <1>8, <1>9, <1>10, <1>11 DEF Inv, Aux

\* The reaper closes stale rows with a zero bill.
LEMMA RecoverInv ==
  ASSUME Inv, NEW S \in SUBSET Invocations, RecoverStaleInvocations(S) PROVE Inv'
<1> DEFINE bill(i) == [lease |-> row[i].lease, outcome |-> "failed", at |-> clock,
                       usage |-> ZeroUsage, reason |-> "executor_lost"]
<1>1. UNCHANGED <<clock, lease, code, call, sent, charged, stuck>> /\ reaper' = "reconcile"
  BY Zenon DEF RecoverStaleInvocations
<1>2. \A i \in S : row[i].state \in Open /\ acct[i] = None /\ row[i].lease \in Leases
  BY Zenon DEF RecoverStaleInvocations, Stale, Inv, Aux, RowsNameLeases, LedgerAgrees, Open, Closed, Outcomes
<1>3. \A i \in S : bill(i) \in Account /\ bill(i) # None
  BY <1>2, ConstantsAssumption DEF Inv, TypeOK, Account, Outcomes
<1>4. \A i \in Invocations \ S : acct'[i] = acct[i] /\ row'[i] = row[i] /\ outbox'[i] = outbox[i]
  BY Zenon DEF RecoverStaleInvocations
<1>5. \A i \in S : acct'[i] = bill(i)
  BY <1>2, Zenon DEF RecoverStaleInvocations
<1>announced. \A i \in S : outbox'[i] = outbox[i] + 1
  BY <1>2, Zenon DEF RecoverStaleInvocations
<1>6. \A i \in S : row'[i] \in Row /\ row'[i].state = "failed" /\ row'[i].started /\ row'[i].lease = row[i].lease
  <2> SUFFICES ASSUME NEW i \in S
               PROVE  row'[i] \in Row /\ row'[i].state = "failed" /\ row'[i].started /\ row'[i].lease = row[i].lease
    BY Zenon
  <2>1. row'[i] = [row[i] EXCEPT !.state = "failed", !.started = TRUE, !.updated = clock]
    BY <1>2, Zenon DEF RecoverStaleInvocations
  <2>2. row[i] \in Row /\ clock \in Nat
    BY Zenon DEF Inv, TypeOK
  <2> QED BY <2>1, <2>2, Zenon DEF Row, Closed, Outcomes
<1>7. \A i \in S : /\ acct'[i] \in Account /\ acct'[i] # None
                   /\ acct'[i].lease = row[i].lease /\ acct'[i].outcome = "failed" /\ acct'[i].at = clock
                   /\ acct'[i].usage = ZeroUsage /\ acct'[i].reason = "executor_lost"
  <2> SUFFICES ASSUME NEW i \in S
               PROVE  /\ acct'[i] \in Account /\ acct'[i] # None
                      /\ acct'[i].lease = row[i].lease /\ acct'[i].outcome = "failed" /\ acct'[i].at = clock
                      /\ acct'[i].usage = ZeroUsage /\ acct'[i].reason = "executor_lost"
    BY Zenon
  <2>1. acct'[i] = bill(i) /\ bill(i) \in Account /\ bill(i) # None
    BY <1>3, <1>5, Zenon
  <2> QED BY <2>1
<1> HIDE DEF bill
<1>8. TypeOK'
  <2>1. acct' \in [Invocations -> Account \cup {None}]
    <3>1. acct' = [i \in Invocations |-> acct'[i]]
      BY Zenon DEF RecoverStaleInvocations
    <3> QED BY Zenon, <3>1, <1>4, <1>7 DEF Inv, TypeOK
  <2>2. row' \in [Invocations -> Row]
    <3>1. row' = [i \in Invocations |-> row'[i]]
      BY Zenon DEF RecoverStaleInvocations
    <3> QED BY Zenon, <3>1, <1>4, <1>6 DEF Inv, TypeOK
  <2>3. outbox' \in [Invocations -> Nat]
    <3>1. outbox' = [i \in Invocations |-> outbox'[i]]
      BY Zenon DEF RecoverStaleInvocations
    <3>2. \A i \in Invocations : outbox'[i] \in Nat
      BY <1>4, <1>announced DEF Inv, TypeOK
    <3> QED BY Zenon, <3>1, <3>2
  <2> QED BY Zenon, <1>1, <2>1, <2>2, <2>3 DEF Inv, TypeOK
<1>9. LedgerAgrees'
  <2> SUFFICES ASSUME NEW i \in Invocations
               PROVE  (/\ row[i].state \in Closed <=> acct[i] # None
                       /\ outbox[i] = IF acct[i] # None THEN 1 ELSE 0
                       /\ row[i].started <=> row[i].state \in {"started"} \cup Closed
                       /\ acct[i] # None => acct[i].lease = row[i].lease /\ acct[i].outcome = row[i].state)'
    BY Zenon DEF LedgerAgrees
  <2>1. CASE i \in S
    <3>1. outbox'[i] = 1
      BY <2>1, <1>2, <1>announced DEF Inv, LedgerAgrees
    <3> QED BY Zenon, <2>1, <3>1, <1>6, <1>7 DEF Closed, Outcomes
  <2>2. CASE i \notin S
    BY <2>2, <1>4 DEF Inv, LedgerAgrees
  <2> QED BY Zenon, <2>1, <2>2
<1>10. ChargeIsProven'
  BY <1>1, <1>4, <1>7, SMTT(30) DEF Inv, ChargeIsProven, Expiry
<1>11. ChargedAtMostOnce'
  <2> SUFFICES ASSUME NEW i \in Invocations
               PROVE  (charged[i] = IF acct[i] # None /\ acct[i].reason = "measured" THEN 1 ELSE 0)'
    BY Zenon DEF ChargedAtMostOnce
  <2>1. CASE i \in S
    BY Zenon, <2>1, <1>1, <1>2, <1>7 DEF Inv, ChargedAtMostOnce
  <2>2. CASE i \notin S
    BY Zenon, <2>2, <1>1, <1>4 DEF Inv, ChargedAtMostOnce
  <2> QED BY Zenon, <2>1, <2>2
<1>12. RowsNameLeases' /\ StartIsWitnessed'
  BY <1>1, <1>2, <1>4, <1>6 DEF Inv, Aux, RowsNameLeases, StartIsWitnessed
<1>13. RecordsInPast' /\ TerminalsMeasured'
  <2>1. ASSUME NEW i \in Invocations, acct'[i] # None PROVE acct'[i].at <= clock
    <3>1. CASE i \in S
      BY <1>7, <3>1 DEF Inv, TypeOK
    <3>2. CASE i \notin S
      BY Zenon, <1>4, <2>1, <3>2 DEF Inv, Aux, RecordsInPast
    <3> QED BY Zenon, <3>1, <3>2
  <2> QED BY Zenon, <1>1, <2>1 DEF Inv, Aux, RecordsInPast, TerminalsMeasured
<1> QED BY Zenon, <1>8, <1>9, <1>10, <1>11, <1>12, <1>13 DEF Inv, Aux

\* Every step keeps the invariant.
LEMMA NextInv ==
  ASSUME Inv, [Next]_vars PROVE Inv'
<1>1. CASE UNCHANGED vars
  <2>1. UNCHANGED <<clock, lease, code, row, acct, outbox, charged, sent, call, reaper, stuck>>
    BY Zenon, <1>1 DEF vars
  <2>2. TypeOK'
    BY Zenon, <2>1 DEF Inv, TypeOK
  <2>3. LedgerAgrees' /\ ChargedAtMostOnce' /\ RowsNameLeases'
    BY Zenon, <2>1, LedgerUntouched DEF Inv, Aux
  <2>4. ChargeIsProven'
    BY <2>1 DEF Inv, ChargeIsProven, Expiry
  <2>5. StartIsWitnessed'
    BY Zenon, <2>1 DEF Inv, Aux, StartIsWitnessed
  <2>6. RecordsInPast' /\ TerminalsMeasured'
    BY Zenon, <2>1 DEF Inv, Aux, RecordsInPast, TerminalsMeasured
  <2> QED BY Zenon, <2>2, <2>3, <2>4, <2>5, <2>6 DEF Inv, Aux
<1>2. CASE \E l \in Leases : IssueLease(l)
  BY Zenon, <1>2, IssueLeaseInv
<1>3. CASE \E l \in Leases : RevokeLease(l)
  BY Zenon, <1>3, RevokeLeaseInv
<1>4. CASE Executor
  BY Zenon, <1>4, ExecutorInv
<1>5. CASE \E r \in sent : RecordInvocation(r)
  BY Zenon, <1>5, RecordOpenInv, RecordTerminalInv DEF RecordInvocation
<1>6. CASE Recover
  BY Zenon, <1>6, RecoverInv DEF Recover
<1>7. CASE Tick \/ Reconcile \/ ReleaseStuck
  BY Zenon, <1>7, QuietInv
<1> QED BY Zenon, <1>1, <1>2, <1>3, <1>4, <1>5, <1>6, <1>7 DEF Next

-----------------------------------------------------------------------------
(* What holds in every reachable state. *)

\* The strengthened invariant holds throughout.
THEOREM Invariance == Spec => []Inv
<1>1. Init => Inv
  BY Zenon, InitInv
<1>2. Inv /\ [Next]_vars => Inv'
  BY Zenon, NextInv
<1> QED BY <1>1, <1>2, PTL DEF Spec

\* Type correctness of every row, record and call.
THEOREM TypeCorrect == Spec => []TypeOK
<1>1. Inv => TypeOK
  BY Zenon DEF Inv
<1> QED BY <1>1, Invariance, PTL

\* Row, account, outbox and started_at agree whatever is lost, duplicated or
\* reordered, and however deliveries race with the reaper.
THEOREM LedgerConsistent == Spec => []LedgerAgrees
<1>1. Inv => LedgerAgrees
  BY Zenon DEF Inv
<1> QED BY <1>1, Invariance, PTL

\* Every billed usage was measured under a lease that covered it.
THEOREM ChargesProven == Spec => []ChargeIsProven
<1>1. Inv => ChargeIsProven
  BY Zenon DEF Inv
<1> QED BY <1>1, Invariance, PTL

\* record_invocation answers charged = true once per billed invocation.
THEOREM ChargedOnce == Spec => []ChargedAtMostOnce
<1>1. Inv => ChargedAtMostOnce
  BY Zenon DEF Inv
<1> QED BY <1>1, Invariance, PTL

------------------------------------------------------------------------------
(***************************************************************************)
(* What a step of InstantAccounting does to one invocation's ledger, and   *)
(* that it implements ChargeOnce.                                          *)
(***************************************************************************)
(* What a step does to the ledger. *)

LedgerSame == row' = row /\ acct' = acct /\ outbox' = outbox

\* accepted or started: one row is created or started, or nothing changes.
RowMoves(i) ==
  /\ acct' = acct /\ outbox' = outbox /\ DOMAIN row' = Invocations
  /\ \A j \in Invocations \ {i} : row'[j] = row[j]
  /\ \/ row'[i] = row[i]
     \/ row[i].state = "absent" /\ row'[i].state \in Open
     \/ row[i].state = "accepted" /\ row'[i].state = "started" /\ row'[i].lease = row[i].lease

\* terminal record or recovery: the rows of S are closed and announced.
RowsClose(S) ==
  /\ \A i \in S : /\ row[i].state \in Open /\ row'[i].state \in Closed /\ row'[i].lease = row[i].lease
                  /\ acct[i] = None /\ acct'[i] \in Account /\ outbox'[i] = 1
  /\ \A j \in Invocations \ S : row'[j] = row[j] /\ acct'[j] = acct[j] /\ outbox'[j] = outbox[j]

\* An accepted or started record leaves the usage totals alone.
LEMMA RecordMoves ==
  ASSUME Inv, NEW r \in sent, RecordInvocation(r), RecordAccepted(r) \/ RecordStarted(r)
  PROVE  r.inv \in Invocations /\ RowMoves(r.inv)
<1> DEFINE i == r.inv
<1>1. i \in Invocations /\ row \in [Invocations -> Row]
  BY Zenon DEF Inv, TypeOK, Record
<1>2. acct' = acct /\ outbox' = outbox
  BY Zenon DEF RecordInvocation, RecordAccepted, RecordStarted
<1>3. /\ row[i].state # "absent" => RowAfterInsert(r) = row[i]
      /\ row[i].state = "absent" => RowAfterInsert(r).state = "accepted"
  BY Zenon DEF RowAfterInsert
<1>4. CASE RecordAccepted(r)
  <2>1. row' = [row EXCEPT ![i] = RowAfterInsert(r)]
    BY Zenon, <1>4 DEF RecordAccepted
  <2> QED BY Zenon, <1>1, <1>2, <1>3, <2>1 DEF RowMoves, Open
<1>5. CASE RecordStarted(r)
  <2> DEFINE next == IF RowAfterInsert(r).state = "accepted"
                     THEN [RowAfterInsert(r) EXCEPT !.state = "started", !.updated = clock, !.started = TRUE]
                     ELSE RowAfterInsert(r)
  <2>1. row' = [row EXCEPT ![i] = next]
    BY Zenon, <1>5 DEF RecordStarted
  <2>2. RowAfterInsert(r) \in [state : {"absent"} \cup Open \cup Closed, lease : Leases \cup {None},
                             updated : Nat, started : BOOLEAN]
    BY Zenon, <1>1 DEF RowAfterInsert, Row, Inv, TypeOK, Open, Record
  <2>3. \/ next = RowAfterInsert(r) /\ RowAfterInsert(r).state # "accepted"
        \/ next.state = "started" /\ next.lease = RowAfterInsert(r).lease /\ RowAfterInsert(r).state = "accepted"
    BY Zenon, <2>2
  <2> HIDE DEF next
  <2>4. row'[i] = next /\ DOMAIN row' = Invocations /\ \A j \in Invocations \ {i} : row'[j] = row[j]
    BY Zenon, <1>1, <2>1
  <2> QED BY Zenon, <1>1, <1>2, <1>3, <2>3, <2>4 DEF RowMoves, Open
<1> QED BY Zenon, <1>1, <1>4, <1>5

\* A terminal record either changes nothing or closes one row.
LEMMA TerminalCloses ==
  ASSUME Inv, NEW r \in sent, RecordInvocation(r), RecordTerminal(r)
  PROVE  r.inv \in Invocations /\ RowsClose({r.inv})
<1> DEFINE i == r.inv
<1>1. /\ i \in Invocations /\ r.lease \in Leases /\ r.at \in Nat
      /\ r.outcome \in Outcomes /\ r.usage \in Usages
  BY Zenon DEF Inv, TypeOK, Record, Aux, TerminalsMeasured, RecordTerminal
<1>2. row[i].state = "started" /\ row[i].lease = r.lease /\ acct[i] = None
  BY Zenon, <1>1 DEF Inv, TypeOK, Row, LedgerAgrees, RecordTerminal, RowAfterInsert, Open, Closed, Outcomes
<1>3. /\ acct' = [acct EXCEPT ![i] = [lease |-> r.lease, outcome |-> r.outcome, at |-> r.at,
                                     usage |-> r.usage, reason |-> "measured"]]
      /\ row' = [row EXCEPT ![i].state = r.outcome, ![i].updated = clock]
      /\ outbox' = [outbox EXCEPT ![i] = @ + 1]
  BY Zenon DEF RecordTerminal
<1>4. outbox'[i] = 1
  BY <1>1, <1>2, <1>3 DEF Inv, TypeOK, LedgerAgrees
<1>5. acct'[i] \in Account
  BY Zenon, <1>1, <1>3 DEF Inv, TypeOK, Account, Outcomes
<1>6. row'[i].state \in Closed /\ row'[i].lease = row[i].lease
  BY Zenon, <1>1, <1>3 DEF Inv, TypeOK, Row, Closed
<1>7. \A j \in Invocations \ {i} : row'[j] = row[j] /\ acct'[j] = acct[j] /\ outbox'[j] = outbox[j]
  BY Zenon, <1>1, <1>3 DEF Inv, TypeOK
<1> QED BY Zenon, <1>1, <1>2, <1>4, <1>5, <1>6, <1>7 DEF RowsClose, Open

\* Recovery closes stale rows without usage.
LEMMA RecoverCloses ==
  ASSUME Inv, NEW S \in SUBSET Invocations, RecoverStaleInvocations(S)
  PROVE  RowsClose(S)
<1>1. \A i \in S : row[i].state \in Open /\ acct[i] = None /\ row[i].lease \in Leases
  BY Zenon DEF RecoverStaleInvocations, Stale, Inv, Aux, RowsNameLeases, LedgerAgrees, Open, Closed, Outcomes
<1>2. \A j \in Invocations \ S : row'[j] = row[j] /\ acct'[j] = acct[j] /\ outbox'[j] = outbox[j]
  BY Zenon DEF RecoverStaleInvocations
<1>3. ASSUME NEW i \in S
      PROVE  /\ row'[i].state \in Closed /\ row'[i].lease = row[i].lease
             /\ acct'[i] \in Account /\ outbox'[i] = 1
  <2>1. row'[i] = [row[i] EXCEPT !.state = "failed", !.started = TRUE, !.updated = clock]
    BY <1>1, Zenon DEF RecoverStaleInvocations
  <2>2. acct'[i] = [lease |-> row[i].lease, outcome |-> "failed", at |-> clock,
                    usage |-> ZeroUsage, reason |-> "executor_lost"]
    BY <1>1, Zenon DEF RecoverStaleInvocations
  <2>3. outbox'[i] = outbox[i] + 1
    BY <1>1, Zenon DEF RecoverStaleInvocations
  <2>4. outbox[i] = 0
    BY Zenon, <1>1 DEF Inv, LedgerAgrees
  <2>5. row[i] \in Row /\ clock \in Nat
    BY Zenon DEF Inv, TypeOK
  <2>6. row'[i].state \in Closed /\ row'[i].lease = row[i].lease
    BY Zenon, <2>1, <2>5 DEF Row, Closed, Outcomes
  <2>7. acct'[i] \in Account
    BY <1>1, <2>2, <2>5 DEF Account, Outcomes
  <2> QED BY <2>3, <2>4, <2>6, <2>7
<1> QED BY Zenon, <1>1, <1>2, <1>3 DEF RowsClose

\* A step maps to a step of the abstract ledger or to a stutter.
LEMMA LedgerStep ==
  ASSUME Inv, [Next]_vars
  PROVE  \/ LedgerSame
         \/ \E i \in Invocations : RowMoves(i)
         \/ \E S \in SUBSET Invocations : RowsClose(S)
<1>1. CASE UNCHANGED vars \/ (\E l \in Leases : IssueLease(l) \/ RevokeLease(l)) \/ Executor
           \/ Tick \/ Reconcile \/ ReleaseStuck
  BY Zenon, <1>1 DEF vars, LedgerSame, IssueLease, RevokeLease, Executor, InvokeAccepted, InvokeStarted,
              InvokeTerminal, InvokeLost, Tick, Reconcile, ReleaseStuck
<1>2. CASE \E r \in sent : RecordInvocation(r)
  <2> PICK r \in sent : RecordInvocation(r)
    BY Zenon, <1>2
  <2>1. CASE RecordAccepted(r) \/ RecordStarted(r)
    BY Zenon, <2>1, RecordMoves
  <2>2. CASE RecordTerminal(r)
    <3>1. {r.inv} \in SUBSET Invocations /\ RowsClose({r.inv})
      BY Zenon, <2>2, TerminalCloses
    <3> QED BY Zenon, <3>1
  <2> QED BY Zenon, <2>1, <2>2 DEF RecordInvocation
<1>3. CASE Recover
  BY Zenon, <1>3, RecoverCloses DEF Recover
<1> QED BY Zenon, <1>1, <1>2, <1>3 DEF Next

\* No delivery order and no race with the reaper reopens an invocation,
\* changes its identity, or alters what was recorded for it.
THEOREM RowsOnlyAdvance == Spec => NeverReopened
<1>1. ASSUME Inv, [Next]_vars, NEW i \in Invocations
      PROVE  /\ Rank(row[i].state) <= Rank(row'[i].state)
             /\ row[i].state # "absent" => row'[i].lease = row[i].lease
             /\ row[i].state \in Closed => row'[i] = row[i]
             /\ acct[i] # None => acct'[i] = acct[i]
  <2>1. row[i].state \in {"absent"} \cup Open \cup Closed
    BY Zenon, <1>1 DEF Inv, TypeOK, Row
  <2>2. \A s : Rank(s) \in 0 .. 3
    BY DEF Rank
  <2>3. CASE row'[i] = row[i] /\ acct'[i] = acct[i]
    BY <2>2, <2>3
  <2>4. CASE /\ acct' = acct /\ row'[i].state \in Open
             /\ row[i].state = "absent"
    BY <2>4 DEF Rank, Open, Closed, Outcomes
  <2>5. CASE /\ acct' = acct /\ row[i].state = "accepted" /\ row'[i].state = "started"
             /\ row'[i].lease = row[i].lease
    BY <2>5 DEF Rank, Closed, Outcomes
  <2>6. CASE /\ row[i].state \in Open /\ row'[i].state \in Closed /\ row'[i].lease = row[i].lease
             /\ acct[i] = None
    BY <2>6 DEF Rank, Open, Closed, Outcomes
  <2>7. CASE LedgerSame
    BY Zenon, <2>3, <2>7 DEF LedgerSame
  <2>8. CASE \E j \in Invocations : RowMoves(j)
    BY Zenon, <2>3, <2>4, <2>5, <2>8 DEF RowMoves
  <2>9. CASE \E S \in SUBSET Invocations : RowsClose(S)
    BY Zenon, <2>3, <2>6, <2>9 DEF RowsClose
  <2> QED BY Zenon, <1>1, <2>7, <2>8, <2>9, LedgerStep
<1>2. Inv /\ [Next]_vars => [\A i \in Invocations :
        /\ Rank(row[i].state) <= Rank(row'[i].state)
        /\ row[i].state # "absent" => row'[i].lease = row[i].lease
        /\ row[i].state \in Closed => row'[i] = row[i]
        /\ acct[i] # None => acct'[i] = acct[i]]_vars
  BY Zenon, <1>1
<1> QED BY <1>2, Invariance, PTL DEF Spec, NeverReopened

-----------------------------------------------------------------------------
(* The refinement of ChargeOnce. *)

\* The initial state maps to an initial state of the abstract ledger.
LEMMA LedgerInit ==
  ASSUME Init PROVE Ledger!Init
<1>1. \A i \in Invocations : row[i].state = "absent"
  BY Zenon DEF Init, NoRow
<1>2. status = [i \in Invocations |-> "none"]
  BY Zenon, <1>1 DEF status, Open
<1> QED BY Zenon, <1>2 DEF Init, Ledger!Init

\* Creating a row opens the invocation; every other move is a stutter.
LEMMA MovesRefine ==
  ASSUME Inv, Inv', NEW i \in Invocations, RowMoves(i)
  PROVE  Ledger!Open(i) \/ status' = status
<1>1. acct' = acct /\ outbox' = outbox
  BY Zenon DEF RowMoves
<1>2. \A j \in Invocations \ {i} : status'[j] = status[j]
  BY DEF RowMoves, status
<1>3. status = [j \in Invocations |-> status[j]] /\ status' = [j \in Invocations |-> status'[j]]
  BY DEF status
<1>4. CASE status'[i] = status[i]
  BY Zenon, <1>2, <1>3, <1>4
<1>5. CASE status[i] = "none" /\ status'[i] = "open"
  <2>1. status' = [status EXCEPT ![i] = "open"]
    BY Zenon, <1>2, <1>3, <1>5
  <2> QED BY Zenon, <1>1, <1>5, <2>1 DEF Ledger!Open
<1>6. status'[i] = status[i] \/ (status[i] = "none" /\ status'[i] = "open")
  BY Zenon DEF RowMoves, status, Open
<1> QED BY Zenon, <1>4, <1>5, <1>6

\* Closing rows closes the invocations with one notice each.
LEMMA CloseRefines ==
  ASSUME Inv, Inv', NEW S \in SUBSET Invocations, RowsClose(S), S # {}
  PROVE  Ledger!Next
<1>1. \A i \in S : status[i] = "open" /\ status'[i] = "closed"
  BY Zenon DEF RowsClose, status, Open, Closed, Outcomes
<1>2. \A i \in Invocations \ S : status'[i] = status[i]
  BY DEF RowsClose, status
<1>3. status' = [i \in Invocations |-> IF i \in S THEN "closed" ELSE status[i]]
  <2>1. status' = [i \in Invocations |-> status'[i]]
    BY DEF status
  <2> QED BY Zenon, <1>1, <1>2, <2>1
<1>4. acct' \in [Invocations -> Account \cup {None}]
  BY Zenon DEF Inv, TypeOK
<1>5. \A i \in Invocations : IF i \in S THEN acct'[i] \in Account ELSE acct'[i] = acct[i]
  BY Zenon DEF RowsClose
<1>6. outbox' = [i \in Invocations |-> IF i \in S THEN 1 ELSE outbox[i]]
  <2>1. outbox' = [i \in Invocations |-> outbox'[i]]
    BY Zenon DEF Inv, TypeOK
  <2> QED BY Zenon, <2>1 DEF RowsClose
<1>7. Ledger!Close(S)
  BY Zenon, <1>1, <1>3, <1>4, <1>5, <1>6 DEF Ledger!Close
<1> QED BY Zenon, <1>7 DEF Ledger!Next

\* The next-state relation maps to the abstract one.
LEMMA LedgerNext ==
  ASSUME Inv, Inv', [Next]_vars PROVE [Ledger!Next]_(Ledger!vars)
<1>1. CASE LedgerSame
  BY <1>1 DEF LedgerSame, Ledger!vars, status
<1>2. CASE \E i \in Invocations : RowMoves(i)
  <2> PICK i \in Invocations : RowMoves(i)
    BY Zenon, <1>2
  <2>1. acct' = acct /\ outbox' = outbox
    BY Zenon DEF RowMoves
  <2> QED BY Zenon, <2>1, MovesRefine DEF Ledger!Next, Ledger!vars
<1>3. CASE \E S \in SUBSET Invocations : RowsClose(S)
  <2> PICK S \in SUBSET Invocations : RowsClose(S)
    BY Zenon, <1>3
  <2>1. CASE S = {}
    <3>1. row' = row /\ acct' = acct /\ outbox' = outbox
      <4>1. \A j \in Invocations : row'[j] = row[j] /\ acct'[j] = acct[j] /\ outbox'[j] = outbox[j]
        BY Zenon, <2>1 DEF RowsClose
      <4> QED BY <4>1 DEF Inv, TypeOK
    <3> QED BY <3>1 DEF Ledger!vars, status
  <2>2. CASE S # {}
    BY Zenon, <2>2, CloseRefines
  <2> QED BY Zenon, <2>1, <2>2
<1> QED BY Zenon, <1>1, <1>2, <1>3, LedgerStep

\* Ingestion and the reaper together implement the abstract ledger: every
\* invocation is closed at most once, with one bill and one notice.
THEOREM Refinement == Spec => ImplementsChargeOnce
<1>1. Init => Ledger!Init
  BY Zenon, LedgerInit
<1>2. Inv /\ Inv' /\ [Next]_vars => [Ledger!Next]_(Ledger!vars)
  BY Zenon, LedgerNext
<1> QED BY <1>1, <1>2, Invariance, PTL DEF Spec, ImplementsChargeOnce, Ledger!Spec
=============================================================================

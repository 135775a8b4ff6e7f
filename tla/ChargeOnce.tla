----------------------------- MODULE ChargeOnce -----------------------------
(***************************************************************************)
(* What the accounting ledger of instant execution promises its readers:   *)
(* an invocation is opened, is closed at most once with one bill, the bill *)
(* never changes afterwards, and closing announces it exactly once on the  *)
(* outbox.  InstantAccounting implements this specification.               *)
(***************************************************************************)
EXTENDS Naturals

CONSTANTS Invocations,   \* invocation identifiers
          Bills,         \* what a closed invocation may be billed
          NoBill         \* the bill of an invocation that is not closed

VARIABLES status,        \* "none", "open" or "closed"
          bill,          \* the ledger row
          notices        \* how many outbox events announced the row

vars == <<status, bill, notices>>

Init ==
  /\ status = [i \in Invocations |-> "none"]
  /\ bill = [i \in Invocations |-> NoBill]
  /\ notices = [i \in Invocations |-> 0]

Open(i) ==
  /\ status[i] = "none"
  /\ status' = [status EXCEPT ![i] = "open"]
  /\ UNCHANGED <<bill, notices>>

\* A set of open invocations is closed, each with a bill of its own.
Close(S) ==
  /\ \A i \in S : status[i] = "open"
  /\ status' = [i \in Invocations |-> IF i \in S THEN "closed" ELSE status[i]]
  /\ bill' \in [Invocations -> Bills \cup {NoBill}]
  /\ \A i \in Invocations : IF i \in S THEN bill'[i] \in Bills ELSE bill'[i] = bill[i]
  /\ notices' = [i \in Invocations |-> IF i \in S THEN 1 ELSE notices[i]]

Next ==
  \/ \E i \in Invocations : Open(i)
  \/ \E S \in (SUBSET Invocations) \ {{}} : Close(S)

Spec == Init /\ [][Next]_vars
=============================================================================

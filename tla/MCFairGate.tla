----------------------------- MODULE MCFairGate -----------------------------
(* A small instance of the gate for TLC: more fair callers than permits, so *)
(* that tenants queue, and one caller of admit to compete with them.        *)
EXTENDS FairGate

CONSTANTS p1, p2, p3, q1

AllThreads == {p1, p2, p3, q1}
OneLegacy == {q1}
=============================================================================

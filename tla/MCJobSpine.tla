----------------------------- MODULE MCJobSpine -----------------------------
(* A small instance of the job spine for TLC. *)
EXTENDS JobSpine

CONSTANTS j1, w1, w2

OneJob == {j1}
TwoWorkers == {w1, w2}
=============================================================================

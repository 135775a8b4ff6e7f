------------------------ MODULE MCInstantSupervisor ------------------------
(***************************************************************************)
(* Instances of InstantSupervisor: assignments a1, a2 of different         *)
(* sessions, and one or two invocations, the first of them of a1's.        *)
(***************************************************************************)
EXTENDS InstantSupervisor, TLC

CONSTANTS a1, a2, i1, i2

\* i1 is a call on a1, i2 on a2.
SessionsApart == a1 :> "s1" @@ a2 :> "s2" @@ i1 :> "s1" @@ i2 :> "s2"

ThreadSymmetry == Permutations(Threads)
=============================================================================

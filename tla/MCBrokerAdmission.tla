-------------------------- MODULE MCBrokerAdmission --------------------------
(* Small instances of the broker's admission store for TLC. *)
EXTENDS BrokerAdmission, TLC

CONSTANTS k1, k2, f1, j1, j2, r1, r2, i1, i2, i3

TwoRunKeys == {k1, k2}
TwoRunsAndFallback == {k1, k2, f1}
OneLive == {k1}
TwoLive == {k1, k2}
TwoJobs == {j1, j2}
JobsOfKeys == [k \in Keys |-> IF k = k2 THEN j2 ELSE j1]
TwoRuns == {r1, r2}
TwoItems == {i1, i2}
\* With one key per job and both live, the two requests are interchangeable with their jobs.
Exchange == (k1 :> k2) @@ (k2 :> k1) @@ (j1 :> j2) @@ (j2 :> j1)
Symmetric == Permutations(Runs) \cup Permutations(Items)
SymmetricRequests == Symmetric \cup {Exchange}
=============================================================================

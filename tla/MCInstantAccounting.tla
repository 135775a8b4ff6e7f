------------------------ MODULE MCInstantAccounting ------------------------
(* Small instances of InstantAccounting: one session whose second lease may *)
(* be signed for the same digest (a renewal) or for another (a rebind).     *)
EXTENDS InstantAccounting, TLC

CONSTANTS i1, i2, l1, l2, c1, c2, k1, k2, u1

OneInvocation == {i1}
TwoInvocations == {i1, i2}
TwoLeases == {l1, l2}
SameCode == {k1}
TwoCodes == {k1, k2}
RenewedCode == [l \in {l1, l2} |-> k1]
ReboundCode == [l \in {l1, l2} |-> IF l = l1 THEN k1 ELSE k2]
OneCall == {c1}
TwoCalls == {c1, c2}
\* invoke threads are interchangeable.
CallSymmetry == Permutations({c1, c2})
OneUsage == {u1}
=============================================================================

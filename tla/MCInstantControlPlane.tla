----------------------- MODULE MCInstantControlPlane -----------------------
(* Small instances of InstantControlPlane: hosts with one or two slots, one *)
(* or two sessions, the two request workers of the deployed image.          *)
EXTENDS InstantControlPlane, TLC

CONSTANTS h1, h2, t1, t2, s1, s2, w1, w2, c1, c2, c3

OneHost == {h1}
TwoSlots == {t1, t2}
OneSlot == {t1}
OnOneHost == [t \in Slots |-> h1]
OneSession == {s1}
TwoSessions == {s1, s2}
OneWorker == {w1}
TwoWorkers == {w1, w2}
TwoClaims == {c1, c2}
ThreeClaims == {c1, c2, c3}

Interchangeable == Permutations(Workers) \cup Permutations(Claims) \cup Permutations(Slots) \cup Permutations(Sessions)
=============================================================================

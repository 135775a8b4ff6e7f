-------------------------- MODULE MCCanonicalJobs --------------------------
(* Small instances of the canonical jobs for TLC. *)
EXTENDS CanonicalJobs, TLC

CONSTANTS j1, j2, w1, w2

TwoJobs == {j1, j2}
TwoWorkers == {w1, w2}
\* Any kind of job, and a commit of it when it is a proposal.
AnyThenCommit == (j1 :> {"solve", "edit", "sizing", "proposal"}) @@ (j2 :> {"commit"})
OnlyProposal == (j1 :> {"proposal"}) @@ (j2 :> {})
=============================================================================

-------------------------- MODULE MCVoteLifecycle --------------------------
EXTENDS VoteLifecycle, TLC

\* Administrators are interchangeable.
Symmetry == Permutations(Admins)
=============================================================================

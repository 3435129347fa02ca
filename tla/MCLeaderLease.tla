--------------------------- MODULE MCLeaderLease ---------------------------
(* LeaderLease for TLC: the sessions are interchangeable, and every property *)
(* checked of it is an invariant.                                             *)
EXTENDS LeaderLease, TLC

SessionsAreAlike == Permutations(Session)
=============================================================================

-------------------------- MODULE MCLeaderSession --------------------------
(* LeaderSession for TLC: two modules, with a lock each or with the same one. *)
EXTENDS LeaderSession, TLC

CONSTANTS m1, m2, k1, k2

KeyEach == (m1 :> k1) @@ (m2 :> k2)
KeySame == [m \in Module |-> k1]

\* The modules, with their locks, are interchangeable.
Swapping == {(m1 :> m2) @@ (m2 :> m1) @@ (k1 :> k2) @@ (k2 :> k1)}
=============================================================================

------------------------------- MODULE MCOutbox -------------------------------
(* The outbox for TLC: two processes of one deployment, which are alike. *)
EXTENDS Outbox, TLC
Same == Permutations(Instances)
=============================================================================

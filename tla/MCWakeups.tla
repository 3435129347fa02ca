----------------------------- MODULE MCWakeups -----------------------------
(* Instances of Wakeups: one module of a process, and its progress hub.     *)
EXTENDS Wakeups, TLC
CONSTANTS e1, e2, e3, outbox, progress

MCTypeOf == (e1 :> "Opened") @@ (e2 :> "Moved") @@ (e3 :> "Opened")
MCKeysOf == (e1 :> {"wallet"}) @@ (e2 :> {"wallet", "period"}) @@ (e3 :> {"wallet", "a,b"})
MCForeign == {[wildcard |-> FALSE, types |-> {"Closed"}, keys |-> {"period"}]}
MCSelection == outbox :> [types |-> {"Opened", "Moved"}, required |-> {"wallet"}, anyOf |-> {}, exact |-> {}]
=============================================================================

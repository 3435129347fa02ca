------------------------------ MODULE MCReads ------------------------------
(* An instance of Reads: an endpoint that reads two views, and a page that  *)
(* follows one of them.                                                    *)
EXTENDS Reads, TLC
CONSTANTS balances, summaries, page1

MCSelection == (balances :> {"deposit"}) @@ (summaries :> {"note"})
MCEndpoints == {[mode |-> "strict", whenNoMarker |-> "latest", clientMayRelax |-> FALSE],
                [mode |-> "bounded", whenNoMarker |-> "none", clientMayRelax |-> FALSE]}
MCFollows == page1 :> {balances}
=============================================================================

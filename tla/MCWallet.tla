------------------------------ MODULE MCWallet ------------------------------
(* A small wallet: two intents whose holds together take the whole of one credit. *)
EXTENDS WalletRefinement, TLC

CONSTANTS c1, c2, i1, i2, k1

MCAmount == (i1 :> 2) @@ (i2 :> 1) @@ (k1 :> 3)

=============================================================================

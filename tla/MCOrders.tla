------------------------------ MODULE MCOrders ------------------------------
(***************************************************************************)
(* A cart of two sellers, and a second cart that wants some of both of its *)
(* products: p, which has not enough for both, and the variant u of q,     *)
(* which has not enough either while the variant v has.                    *)
(***************************************************************************)
EXTENDS OrderStock, TLC

CONSTANTS w1, w2, k1, k2, x, y, a1, a2, b1, p, q, u, v

MCCheckoutOf == a1 :> k1 @@ a2 :> k1 @@ b1 :> k2
MCProductOf == u :> q @@ v :> q
MCQuantity == a1 :> (p :> 2 @@ q :> 0) @@ a2 :> (p :> 0 @@ q :> 1) @@ b1 :> (p :> 1 @@ q :> 1)
MCWants ==
    a1 :> (p :> NoVariant @@ q :> NoVariant) @@ a2 :> (p :> NoVariant @@ q :> u)
       @@ b1 :> (p :> NoVariant @@ q :> u)
MCShelf == p :> 2 @@ q :> 2
MCRack == u :> 1 @@ v :> 1

\* Checkouts with one key come one after the other, unless a lock expires, and are
\* transactions here; those with two keys overlap, compensate by hand, and no courier
\* delivers while they do. The lock of a key that one checkout has guards nothing.
OneKey == key[k1] = key[k2]
MCInit == Init /\ (OneKey <=> deployment = "replica")
MCNext ==
    /\ Next
    /\ ~OneKey => UNCHANGED expired /\ \A o \in Orders : ~Deliver(o)

MCSpec == MCInit /\ [][MCNext]_vars

Alike == Permutations({w1, w2}) \cup Permutations({x, y})
=============================================================================

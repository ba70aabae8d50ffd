---------------------------- MODULE MCWorkOrders ----------------------------
(* WorkOrders on a small instance.  Orders never touch one another's rows, *)
(* so one order shows every interleaving; requests are interchangeable.    *)
EXTENDS WorkOrders, TLC

Symmetric == Permutations(Sessions)
=============================================================================

----------------------------- MODULE MCMembers -----------------------------
(***************************************************************************)
(* Members on a small instance, with its interchangeable identifiers.      *)
(***************************************************************************)
EXTENDS Members, TLC

Symmetric == Permutations(Requests) \cup Permutations(Tokens)
=============================================================================

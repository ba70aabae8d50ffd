--------------------------- MODULE MCCommitments ---------------------------
(***************************************************************************)
(* Commitments on small instances.  "part" says which question is asked:   *)
(* "contracts" has two commitments of two contracts and no measurement,    *)
(* "settlement" one commitment and two measurements.  Every identifier is  *)
(* interchangeable.                                                        *)
(***************************************************************************)
EXTENDS Commitments, TLC

CONSTANT MaxMovedTogether  \* bound: MaxMoved, in the part with two commitments

VARIABLE part

MCInit == Init /\ part \in {"contracts", "settlement"}

SumMoved(l) == SumFunctionOnSet(l, Later)

MCNext ==
  /\ Next
  /\ part = "contracts" =>
       /\ UNCHANGED meas
       /\ \A s \in Sessions : tx'[s].op = "movement" => tx'[s].amount = 1
       /\ \A c \in CommitmentIds : SumMoved(led'[c]) <= MaxMovedTogether
  /\ part = "settlement" =>
       \E c \in CommitmentIds, k \in Contracts :
         \A d \in CommitmentIds : row'[d].contract # None => d = c /\ row'[d].contract = k
  /\ UNCHANGED part

MCSpec == MCInit /\ [][MCNext]_<<vars, part>>

Symmetric ==
  Permutations(CommitmentIds) \cup Permutations(Contracts)
    \cup Permutations(Measurements) \cup Permutations(Sessions)
=============================================================================

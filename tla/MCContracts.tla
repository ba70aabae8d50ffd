---------------------------- MODULE MCContracts ----------------------------
(***************************************************************************)
(* ContractValue and OrderBudgets on small instances.  OrderBudgets takes  *)
(* of a contract only its ceiling, that may move at any step, so "part"    *)
(* says which of them runs while the other stays in an initial state:      *)
(* "value", or the orders, either with all their stages and linked to one  *)
(* contract for good, or with one stage each and "linked" to two contracts *)
(* that may change.  The requests are the editors, so that they are        *)
(* permuted once.                                                          *)
(***************************************************************************)
EXTENDS ContractValue, OrderBudgets, TLC

CONSTANTS Shared, Other,   \* contracts of the orders
          MaxMoves         \* bound: changes of links, ceilings and archivings

VARIABLES part,
          moves            \* how many of them there were

mcVars == <<contractVars, orderVars, part, moves>>

MCAmounts == {-1}

\* An order with two stages and an order with one.
MCBudgets == {<<o, "PLANNED">> : o \in Orders} \cup {<<CHOOSE o \in Orders : TRUE, "FINAL_EXECUTED">>}

MCLinkLists == {<<Shared>>, <<Other, Shared>>}

OneContract == links = [o \in Orders |-> <<Shared>>]

MCInit ==
  /\ ContractInit /\ OrderInit /\ moves = 0
  /\ ceiling = [c \in ContractIds |-> Max(Ceilings)]
  /\ \/ part = "value" /\ OneContract
     \/ part = "orders" /\ OneContract /\ original = Min(Originals)
     \/ /\ part = "linked" /\ original = Min(Originals)
        /\ \E list \in LinkLists : links = [o \in Orders |-> list]

OrdersStep ==
  /\ OrderNext /\ UNCHANGED contractVars
  /\ part = "orders" => UNCHANGED contractRows
  /\ part = "linked" =>
       \A r \in Requests : request'[r] # Waiting => request'[r].b[2] = "PLANNED"

MCNext ==
  /\ \/ part = "value" /\ ContractNext /\ UNCHANGED orderVars
     \/ part # "value" /\ OrdersStep
  /\ moves' = IF contractRows' = contractRows THEN moves ELSE moves + 1
  /\ moves' <= MaxMoves
  /\ UNCHANGED part

MCSpec == MCInit /\ [][MCNext]_mcVars

Symmetric == Permutations(Entries) \cup Permutations(Lines) \cup Permutations(Editors)
=============================================================================

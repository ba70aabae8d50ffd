---------------------------- MODULE OrderBudgets ----------------------------
(***************************************************************************)
(* The budgets of the work orders (budgets.service.ts): each order has one *)
(* per stage.  An order is linked to any number of contracts, the first of *)
(* which is its primary one, and an update of the order replaces its links *)
(* (work-orders.service.ts), also after its budgets are approved.          *)
(*                                                                         *)
(* An approval is checked against one contract, the primary one as a rule: *)
(* what is approved for all the orders linked to it may not exceed its     *)
(* ceiling, the total of its ACTIVE budget or its current value            *)
(* (ContractValue).  It is checked against none when no contract is left.  *)
(*                                                                         *)
(* saveBudget looks at the status before its transaction, and writes       *)
(* without looking again.  transition locks its own budget, takes its      *)
(* snapshot, and writes.  The version a user sends with a transition only  *)
(* refuses requests: any transition can be sent with the current one.      *)
(*                                                                         *)
(* Left out: the items (their sources of prices, and that those of the     *)
(* contract's budget need it ACTIVE), the state of the work order (one     *)
(* that is concluded is not linked again), what an update asks of the      *)
(* contracts before its transaction (that they exist, and the supplier),   *)
(* and the cost that an approval copies to the order.                      *)
(***************************************************************************)
EXTENDS Integers, FiniteSets, Functions, SequencesExt

CONSTANTS Orders, ContractIds, Requests,
          LinkLists, \* the lists of contracts, primary first, an order may be linked to
          Totals,    \* totals of an order's budget
          Ceilings,  \* ceilings that a contract goes through
          Budgets    \* the order and the stage of each budget

\* BudgetStage, in the order of "priority".
StageOrder == <<"PLANNED", "APPROVED", "FINAL_EXECUTED">>

NoContract == "none"

\* Quantities are positive, unit costs and the BDI are not negative.
ASSUME BudgetsAreOfOrders ==
  /\ IsFiniteSet(Orders)
  /\ Budgets \subseteq Orders \X ToSet(StageOrder)
  /\ LinkLists \subseteq Seq(ContractIds)
  /\ NoContract \notin ContractIds
  /\ Totals \subseteq Nat /\ Ceilings \subseteq Int

TRANSITIONS ==
  [DRAFT |-> {"SUBMITTED", "CANCELED"},
   SUBMITTED |-> {"APPROVED", "REJECTED", "CANCELED"},
   REJECTED |-> {"DRAFT", "CANCELED"},
   APPROVED |-> {}, CANCELED |-> {}, ABSENT |-> {}]

VARIABLES
  status,   \* status[b]: WorkOrderBudget.status, or ABSENT
  total,    \* total[b]
  links,    \* links[o]: the contracts of order o, the primary one first
  archived, \* the contracts that are archived, with their links
  ceiling,  \* ceiling[c]
  request   \* request[r]: what request r is about to write

contractRows == <<links, archived, ceiling>>
orderVars == <<status, total, contractRows, request>>

Waiting == [op |-> "none"]

OrderInit ==
  /\ status = [b \in Budgets |-> "ABSENT"]
  /\ total = [b \in Budgets |-> 0]
  /\ links \in [Orders -> LinkLists]
  /\ archived = {}
  /\ ceiling \in [ContractIds -> Ceilings]
  /\ request = [r \in Requests |-> Waiting]

Locked(b) == \E r \in Requests : request[r].op = "transition" /\ request[r].b = b

\* What a request has read and relies on: the budget it saves, all that an approval adds up.
ReliesOn(q, bs) == \/ q.op = "save" /\ q.b \in bs
                   \/ q.op = "transition" /\ q.to = "APPROVED"

\* The requests, once budgets bs, links or contracts are written: what some have read is
\* not what is committed now.
Overtaken(bs) ==
  [r \in Requests |-> IF ReliesOn(request[r], bs) THEN [request[r] EXCEPT !.overtaken = TRUE]
                                                  ELSE request[r]]

-----------------------------------------------------------------------------
(* saveBudget                                                              *)

SaveRead(r, b, t) ==
  /\ request[r] = Waiting
  /\ status[b] \in {"ABSENT", "DRAFT", "REJECTED"}
  /\ request' = [request EXCEPT ![r] = [op |-> "save", b |-> b, total |-> t,
                                        create |-> status[b] = "ABSENT", overtaken |-> FALSE]]
  /\ UNCHANGED <<status, total, contractRows>>

SaveCommit(r) ==
  LET q == request[r] IN
  /\ q.op = "save"
  /\ ~Locked(q.b)
  /\ q.create => status[q.b] = "ABSENT"
  /\ status' = [status EXCEPT ![q.b] = "DRAFT"]
  /\ total' = [total EXCEPT ![q.b] = q.total]
  /\ request' = [Overtaken({q.b}) EXCEPT ![r] = Waiting]
  /\ UNCHANGED contractRows

-----------------------------------------------------------------------------
(* transition                                                              *)

IsApproved(o, stage) == <<o, stage>> \in Budgets /\ status[<<o, stage>>] = "APPROVED"

\* The official total of an order: that of its latest approved stage.
Official(o) == LET s == SelectLastInSeq(StageOrder, LAMBDA stage : IsApproved(o, stage))
               IN IF s = 0 THEN 0 ELSE total[<<o, StageOrder[s]>>]

OfficialOf(orders) == SumFunction([o \in orders |-> Official(o)])

LinkedTo(c) == {o \in Orders : c \in ToSet(links[o])}

\* The contract that an approval for order o is checked against: the primary one, another
\* of its contracts when that one is archived, or none.
MayCheck(o) ==
  LET left == ToSet(links[o]) \ archived IN
  IF left = {} THEN {NoContract}
  ELSE IF Head(links[o]) \in left THEN {Head(links[o])} ELSE left

\* Mutant: an order counts for its primary contract only.
WithinByPrimary(b, c) ==
  OfficialOf({o \in LinkedTo(c) : Head(links[o]) = c} \ {b[1]}) + total[b] <= ceiling[c]

\* assertWorkOrderBudgetWithinContract: all the orders linked to the contract count, by
\* any of their links, and the other stages of the same order do not.
WithinContract(b, c) == OfficialOf(LinkedTo(c) \ {b[1]}) + total[b] <= ceiling[c]

TransitionStart(r, b, to, c) ==
  /\ request[r] = Waiting
  /\ ~Locked(b)
  /\ to \in TRANSITIONS[status[b]]
  /\ IF to = "APPROVED" THEN c \in MayCheck(b[1]) /\ (c # NoContract => WithinContract(b, c))
                        ELSE c = NoContract
  /\ request' = [request EXCEPT ![r] = [op |-> "transition", b |-> b, to |-> to, contract |-> c,
                                        overtaken |-> FALSE]]
  /\ UNCHANGED <<status, total, contractRows>>

TransitionCommit(r) ==
  LET q == request[r] IN
  /\ q.op = "transition"
  /\ status' = [status EXCEPT ![q.b] = q.to]
  /\ request' = [Overtaken({q.b}) EXCEPT ![r] = Waiting]
  /\ UNCHANGED <<total, contractRows>>

Fail(r) ==
  /\ request[r] # Waiting
  /\ request' = [request EXCEPT ![r] = Waiting]
  /\ UNCHANGED <<status, total, contractRows>>

-----------------------------------------------------------------------------
(* The contracts and their orders, each in one transaction that has no     *)
(* lock in common with an approval before its last update.                 *)

\* Any step of ContractValue that moves the ceiling.
MoveCeiling(c, value) ==
  /\ value # ceiling[c]
  /\ ceiling' = [ceiling EXCEPT ![c] = value]
  /\ request' = Overtaken({})
  /\ UNCHANGED <<status, total, links, archived>>

\* The archiving of a contract leaves the links to it.
ArchiveContract(c) ==
  /\ c \notin archived
  /\ archived' = archived \cup {c}
  /\ request' = Overtaken({})
  /\ UNCHANGED <<status, total, links, ceiling>>

\* update of work-orders.service.ts: the links are deleted and those sent are created.  No
\* budget and no ceiling is looked at.
Relink(o, list) ==
  /\ list # links[o]
  /\ links' = [links EXCEPT ![o] = list]
  /\ request' = Overtaken({})
  /\ UNCHANGED <<status, total, archived, ceiling>>

OrderNext ==
  \/ \E r \in Requests :
       \/ \E b \in Budgets, t \in Totals : SaveRead(r, b, t)
       \/ SaveCommit(r)
       \/ \E b \in Budgets, to \in DOMAIN TRANSITIONS, c \in ContractIds \cup {NoContract} :
            TransitionStart(r, b, to, c)
       \/ TransitionCommit(r)
       \/ Fail(r)
  \/ \E c \in ContractIds : ArchiveContract(c) \/ \E value \in Ceilings : MoveCeiling(c, value)
  \/ \E o \in Orders, list \in LinkLists : Relink(o, list)

OrderSpec == OrderInit /\ [][OrderNext]_orderVars

-----------------------------------------------------------------------------
(* Properties                                                              *)

Within(c) == OfficialOf(LinkedTo(c)) <= ceiling[c]

Commits(r) == request[r] # Waiting /\ request'[r] = Waiting

CommitsOvertakenRequest == \E r \in Requests : Commits(r) /\ request[r].overtaken

\* This step approves a budget whose order is linked to contract c but that was checked
\* against another contract, or none.
ApprovesUnchecked(c) == \E r \in Requests :
  /\ Commits(r)
  /\ request[r].op = "transition" /\ request[r].to = "APPROVED" /\ request[r].contract # c
  /\ request[r].b[1] \in LinkedTo(c)

GainsOrder(c) == ~(LinkedTo(c)' \subseteq LinkedTo(c))

\* Invariant 6 of docs/28 as far as the code keeps it, of every contract and all the orders
\* linked to it: the official budgets come to exceed the ceiling only when the ceiling comes
\* down, an order is linked to the contract, an approval was checked against another of the
\* order's contracts, or a request commits after another committed what it had not read.
\* Approving another stage of an order, saving, unlinking and archiving never do it.
CeilingHolds ==
  [][\A c \in ContractIds : Within(c) =>
       \/ Within(c)'
       \/ ceiling'[c] < ceiling[c] \/ GainsOrder(c) \/ ApprovesUnchecked(c)
       \/ CommitsOvertakenRequest]_orderVars

\* What docs/28 says of approvals: the ceiling is validated inside the transaction that
\* approves a budget, so one that read what is committed exceeds it for no contract of the
\* order, unless the contract is archived.
ApprovalsAreValidated ==
  [][\A c \in ContractIds \ archived : Within(c) /\ ~Within(c)' =>
       ceiling'[c] < ceiling[c] \/ GainsOrder(c) \/ CommitsOvertakenRequest]_orderVars
=============================================================================

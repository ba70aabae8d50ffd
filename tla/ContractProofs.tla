--------------------------- MODULE ContractProofs ---------------------------
(***************************************************************************)
(* Proofs about the money of a contract, for any numbers of requests and   *)
(* any amounts: its value, which an ACTIVE contract budget must equal      *)
(* (ContractValue), the budgets of its orders (OrderBudgets) and its       *)
(* commitments (Commitments), which must fit in it.                        *)
(*                                                                         *)
(* The first needs nothing about the sums themselves: an activation        *)
(* compares with a value that its lock on the contract keeps current, and  *)
(* every store of another value takes the budget out of ACTIVE.  The two   *)
(* others do: a step writes one budget or one commitment, and the sum      *)
(* moves by what that one counts for (SumLemmas).                          *)
(***************************************************************************)
EXTENDS ContractValue, OrderBudgets, Commitments, SumLemmas, TLAPS

\* What an open transaction r has worked out follows from the rows, unless another one
\* has overtaken it; an activation has the current value in any case, by its lock.
Sound(r) ==
  /\ "op" \in DOMAIN r
  /\ r.op = "activate" => "value" \in DOMAIN r /\ r.value = current
  /\ r.op # "idle" => "overtaken" \in DOMAIN r
  /\ r.op # "idle" /\ ~r.overtaken =>
       /\ r.op = "entry" => r.value = original + SumFunction([entry EXCEPT ![r.i] = r.amount])
       /\ r.op = "update" => /\ r.value = r.original + SumFunction(entry)
                             /\ ~r.sent => r.original = original
       /\ r.op = "activate" => r.total = SumFunction(line)

EditsAreSound == edit = [e \in Editors |-> edit[e]] /\ \A e \in Editors : Sound(edit[e])

BudgetHasFields == DOMAIN budget = {"active", "total"}

ContractInv == EditsAreSound /\ BudgetHasFields /\ ActiveBudgetEqualsValue

-----------------------------------------------------------------------------

\* A contract begins with its own value.
LEMMA ContractBegins == ContractInit => ContractInv
BY DEF ContractInit, ContractInv, EditsAreSound, BudgetHasFields, ActiveBudgetEqualsValue, Sound, Idle

\* A step that marks the transactions that read "ops", ends some and opens others keeps
\* them sound, if it marks all that what it writes could make unsound.
LEMMA EditsKeep ==
  ASSUME EditsAreSound, NEW ops, "idle" \notin ops,
         edit' = [e \in Editors |-> edit'[e]],
         \A e \in Editors : edit'[e] = Idle \/ edit'[e] = Overtake(ops)[e] \/ Sound(edit[e])',
         UNCHANGED <<original, entry>> \/ {"entry", "update"} \subseteq ops,
         ContractLocked => current' = current /\ (line' = line \/ "activate" \in ops)
  PROVE  EditsAreSound'
<1> SUFFICES ASSUME NEW e \in Editors, edit'[e] = Overtake(ops)[e]
             PROVE  Sound(edit[e])'
  BY DEF EditsAreSound, Sound, Idle
<1>1. Sound(edit[e])
  BY DEF EditsAreSound
<1>2. edit'[e] = IF edit[e].op \in ops THEN [edit[e] EXCEPT !.overtaken = TRUE] ELSE edit[e]
  BY DEF Overtake
<1>3. edit[e].op = "activate" => ContractLocked
  BY DEF ContractLocked, Editing
<1>4. CASE edit[e].op \in ops
  <2>1. /\ DOMAIN edit'[e] = DOMAIN edit[e] /\ edit'[e].overtaken
        /\ edit'[e].op = edit[e].op
        /\ edit[e].op = "activate" => edit'[e].value = edit[e].value
    BY <1>1, <1>2, <1>4 DEF Sound
  <2> QED BY <1>1, <1>3, <2>1 DEF Sound
<1>5. CASE edit[e].op \notin ops
  BY <1>1, <1>2, <1>3, <1>5 DEF Sound
<1> QED BY <1>4, <1>5

\* What a step does to the transactions when it commits the one of e, or none.
LEMMA OvertakeEnds ==
  ASSUME NEW ops, edit' = Overtake(ops) \/ \E e \in Editors : edit' = [Overtake(ops) EXCEPT ![e] = Idle]
  PROVE  /\ edit' = [e \in Editors |-> edit'[e]]
         /\ \A e \in Editors : edit'[e] = Idle \/ edit'[e] = Overtake(ops)[e]
BY DEF Overtake

\* Opening a transaction changes no row.
LEMMA StartKeeps ==
  ASSUME ContractInv, NEW e \in Editors, NEW transaction, Start(e, transaction), Sound(transaction)
  PROVE  ContractInv'
<1>1. EditsAreSound'
  BY DEF ContractInv, EditsAreSound, Start, rows, Sound
<1> QED BY <1>1 DEF ContractInv, BudgetHasFields, ActiveBudgetEqualsValue, Start, rows

\* Neither does ending one without a commit.
LEMMA RollbackKeeps ==
  ASSUME ContractInv, NEW e \in Editors, Rollback(e)
  PROVE  ContractInv'
<1>1. EditsAreSound'
  BY DEF ContractInv, EditsAreSound, Rollback, rows, Sound, Idle
<1> QED BY <1>1 DEF ContractInv, BudgetHasFields, ActiveBudgetEqualsValue, Rollback, rows

\* A step that may store another value finds no activation open, and leaves the budget
\* ACTIVE only at that value.
LEMMA StoreKeeps ==
  ASSUME ContractInv, NEW value, Store(value),
         \/ edit' = Overtake({"entry", "update"})
         \/ \E e \in Editors : edit' = [Overtake({"entry", "update"}) EXCEPT ![e] = Idle]
  PROVE  ContractInv'
<1>1. EditsAreSound'
  BY OvertakeEnds, EditsKeep DEF ContractInv, Store
<1>2. BudgetHasFields' /\ ActiveBudgetEqualsValue'
  BY DEF ContractInv, BudgetHasFields, Store, Redraft, ActiveBudgetEqualsValue
<1> QED BY <1>1, <1>2 DEF ContractInv

\* A step that refreshes the total of the budget takes it out of ACTIVE.
LEMMA RefreshKeeps ==
  ASSUME ContractInv, NEW sum, budget' = Refresh(sum), UNCHANGED <<original, current, entry>>,
         NEW e \in Editors, edit' = [Overtake({"line", "activate", "import"}) EXCEPT ![e] = Idle]
  PROVE  ContractInv'
<1>1. EditsAreSound'
  BY OvertakeEnds, EditsKeep DEF ContractInv
<1>2. BudgetHasFields' /\ ActiveBudgetEqualsValue'
  BY DEF BudgetHasFields, Refresh, ActiveBudgetEqualsValue
<1> QED BY <1>1, <1>2 DEF ContractInv

\* A change of the budget keeps the invariant.
LEMMA ActivateKeeps ==
  ASSUME ContractInv, NEW e \in Editors, UpdateBudgetCommit(e)
  PROVE  ContractInv'
<1>1. EditsAreSound'
  BY DEF ContractInv, EditsAreSound, UpdateBudgetCommit, Sound, Idle
<1>2. edit[e].active => edit[e].total = current
  BY DEF ContractInv, EditsAreSound, Sound, Editing, UpdateBudgetCommit, Reconciled
<1>3. /\ DOMAIN budget' = {"active", "total"}
      /\ budget'.active = edit[e].active /\ budget'.total = edit[e].total
  BY DEF UpdateBudgetCommit, Refresh
<1> QED BY <1>1, <1>2, <1>3 DEF ContractInv, BudgetHasFields, ActiveBudgetEqualsValue, UpdateBudgetCommit

\* No first step breaks the invariant.
LEMMA StartsKeep ==
  ASSUME ContractInv, NEW e \in Editors,
         \/ \E i \in Entries, amount \in Amounts \cup {0} : EditEntryStart(e, i, amount)
         \/ \E o \in Originals, sent \in BOOLEAN : UpdateContractStart(e, o, sent)
         \/ \E k \in Lines, cost \in Costs \cup {0} : EditLineStart(e, k, cost)
         \/ \E lines \in [Lines -> Costs \cup {0}], replaceExisting \in BOOLEAN :
              ImportStart(e, lines, replaceExisting)
         \/ \E active \in BOOLEAN : UpdateBudgetStart(e, active)
  PROVE  ContractInv'
<1>1. ASSUME NEW i, NEW amount, EditEntryStart(e, i, amount) PROVE ContractInv'
  <2>1. Sound([op |-> "entry", i |-> i, amount |-> amount,
               value |-> Snapshot(i, amount), overtaken |-> FALSE])
    BY DEF Sound, Snapshot
  <2> QED BY <1>1, <2>1, StartKeeps DEF EditEntryStart
<1>2. ASSUME NEW o, NEW sent, UpdateContractStart(e, o, sent) PROVE ContractInv'
  <2>1. Sound([op |-> "update", original |-> o, sent |-> sent, value |-> o + SumFunction(entry),
               overtaken |-> FALSE])
    BY <1>2 DEF Sound, UpdateContractStart
  <2> QED BY <1>2, <2>1, StartKeeps DEF UpdateContractStart
<1>3. ASSUME NEW k, NEW cost, EditLineStart(e, k, cost) PROVE ContractInv'
  <2>1. Sound([op |-> "line", k |-> k, cost |-> cost,
               total |-> SumFunction([line EXCEPT ![k] = cost]), overtaken |-> FALSE])
    BY DEF Sound
  <2> QED BY <1>3, <2>1, StartKeeps DEF EditLineStart
<1>4. ASSUME NEW active, UpdateBudgetStart(e, active) PROVE ContractInv'
  <2>1. Sound([op |-> "activate", active |-> active, value |-> current, total |-> SumFunction(line),
               overtaken |-> FALSE])
    BY DEF Sound
  <2> QED BY <1>4, <2>1, StartKeeps DEF UpdateBudgetStart
<1>5. ASSUME NEW lines, NEW replaceExisting, ImportStart(e, lines, replaceExisting) PROVE ContractInv'
  <2> DEFINE known == [k \in Lines |-> IF replaceExisting THEN 0 ELSE line[k]]
  <2>1. Sound([op |-> "import", lines |-> lines, replace |-> replaceExisting, known |-> known,
               overtaken |-> FALSE])
    BY DEF Sound
  <2> QED BY <1>5, <2>1, StartKeeps DEF ImportStart
<1> QED BY <1>1, <1>2, <1>3, <1>4, <1>5

\* Nor does any other.
LEMMA ContractKeeps == ContractInv /\ [ContractNext]_contractVars => ContractInv'
<1> SUFFICES ASSUME ContractInv, [ContractNext]_contractVars PROVE ContractInv'
  OBVIOUS
<1>1. ASSUME NEW i, NEW amount, NEW kind, AddEntry(i, amount, kind) PROVE ContractInv'
  BY <1>1, StoreKeeps DEF AddEntry
<1>2. ASSUME NEW e \in Editors, ImportCommit(e) PROVE ContractInv'
  BY <1>2, RefreshKeeps DEF ImportCommit
<1>3. CASE EnsureBudget
  BY <1>3 DEF EnsureBudget, ContractInv, EditsAreSound, Sound, BudgetHasFields, ActiveBudgetEqualsValue
<1>4. ASSUME NEW e \in Editors, EditEntryCommit(e) PROVE ContractInv'
  BY <1>4, StoreKeeps DEF EditEntryCommit
<1>5. ASSUME NEW e \in Editors, UpdateContractCommit(e) PROVE ContractInv'
  BY <1>5, StoreKeeps DEF UpdateContractCommit
<1>6. ASSUME NEW e \in Editors, EditLineCommit(e) PROVE ContractInv'
  BY <1>6, RefreshKeeps DEF EditLineCommit
<1>7. CASE UNCHANGED contractVars
  BY <1>7 DEF contractVars, rows, ContractInv, EditsAreSound, Sound, BudgetHasFields, ActiveBudgetEqualsValue
<1> QED BY <1>1, <1>2, <1>3, <1>4, <1>5, <1>6, <1>7,
          StartsKeep, ActivateKeeps, RollbackKeeps DEF ContractNext

\* The invariant of a contract.
LEMMA ContractSpecKeeps == ContractSpec => []ContractInv
BY ContractBegins, ContractKeeps, PTL DEF ContractSpec

\* An ACTIVE budget is exactly equal to the current value of its contract, in every
\* reachable state of any number of transactions.
THEOREM ActiveBudgetAlwaysEqualsValue == ContractSpec => []ActiveBudgetEqualsValue
<1>1. ContractInv => ActiveBudgetEqualsValue
  BY DEF ContractInv
<1> QED BY <1>1, ContractSpecKeeps, PTL

\* A transaction that commits, changes the rows and does not count as overtaken is not.
LEMMA NotOvertaken ==
  ASSUME NEW e \in Editors, ~Editing(e, "idle"), edit'[e] = Idle, ~CommitsOvertaken
  PROVE  rows' = rows \/ ~edit[e].overtaken
BY DEF CommitsOvertaken

\* What the rows decide stays while they do.
LEMMA RowsDecide == UNCHANGED rows /\ ValueIsSum /\ ActiveTotalIsOfLines => (ValueIsSum /\ ActiveTotalIsOfLines)'
BY DEF rows, ValueIsSum, ActiveTotalIsOfLines

\* The recomputation of the value redrafts the budget, and leaves its lines.
LEMMA StoreDecides ==
  ASSUME BudgetHasFields, ActiveTotalIsOfLines, NEW value, Store(value), line' = line,
         value = original' + SumFunction(entry')
  PROVE  (ValueIsSum /\ ActiveTotalIsOfLines)'
BY DEF BudgetHasFields, ActiveTotalIsOfLines, ValueIsSum, Store, Redraft

\* Only an edit that another overtakes leaves the value apart from the lines.
LEMMA DivergesOnlyOvertaken ==
  ASSUME ContractInv, ContractNext, ValueIsSum, ActiveTotalIsOfLines, ~CommitsOvertaken
  PROVE  (ValueIsSum /\ ActiveTotalIsOfLines)'
<1>0. BudgetHasFields /\ edit = [e \in Editors |-> edit[e]]
  BY DEF ContractInv, EditsAreSound
<1>1. ASSUME NEW i, NEW amount, NEW kind, AddEntry(i, amount, kind)
      PROVE  (ValueIsSum /\ ActiveTotalIsOfLines)'
  BY <1>1, <1>0, StoreDecides DEF AddEntry
<1>2. ASSUME NEW e \in Editors, ImportCommit(e) PROVE (ValueIsSum /\ ActiveTotalIsOfLines)'
  BY <1>2 DEF ImportCommit, Refresh, ValueIsSum, ActiveTotalIsOfLines
<1>3. CASE EnsureBudget
  BY <1>3, <1>0 DEF EnsureBudget, BudgetHasFields, ValueIsSum, ActiveTotalIsOfLines
<1>4. ASSUME NEW e \in Editors, EditEntryCommit(e) PROVE (ValueIsSum /\ ActiveTotalIsOfLines)'
  <2>1. ~Editing(e, "idle") /\ edit'[e] = Idle
    BY <1>4, <1>0 DEF EditEntryCommit, Overtake, Editing
  <2>2. CASE ~edit[e].overtaken
    <3>1. edit[e].value = original' + SumFunction(entry')
      BY <1>4, <2>2 DEF ContractInv, EditsAreSound, Sound, Editing, EditEntryCommit
    <3> QED BY <1>4, <1>0, <3>1, StoreDecides DEF EditEntryCommit
  <2> QED BY <2>1, <2>2, NotOvertaken, RowsDecide
<1>5. ASSUME NEW e \in Editors, UpdateContractCommit(e) PROVE (ValueIsSum /\ ActiveTotalIsOfLines)'
  <2>1. ~Editing(e, "idle") /\ edit'[e] = Idle
    BY <1>5, <1>0 DEF UpdateContractCommit, Overtake, Editing
  <2>2. CASE ~edit[e].overtaken
    <3>1. edit[e].value = original' + SumFunction(entry')
      BY <1>5, <2>2 DEF ContractInv, EditsAreSound, Sound, Editing, UpdateContractCommit
    <3> QED BY <1>5, <1>0, <3>1, StoreDecides DEF UpdateContractCommit
  <2> QED BY <2>1, <2>2, NotOvertaken, RowsDecide
<1>6. ASSUME NEW e \in Editors, EditLineCommit(e) PROVE (ValueIsSum /\ ActiveTotalIsOfLines)'
  BY <1>6 DEF EditLineCommit, Refresh, ValueIsSum, ActiveTotalIsOfLines
<1>7. ASSUME NEW e \in Editors, UpdateBudgetCommit(e) PROVE (ValueIsSum /\ ActiveTotalIsOfLines)'
  <2>1. ~Editing(e, "idle") /\ edit'[e] = Idle
    BY <1>7, <1>0 DEF UpdateBudgetCommit, Editing
  <2>2. CASE ~edit[e].overtaken
    <3>1. edit[e].total = SumFunction(line)
      BY <1>7, <2>2 DEF ContractInv, EditsAreSound, Sound, Editing, UpdateBudgetCommit
    <3>2. budget'.total = edit[e].total
      BY <1>7 DEF UpdateBudgetCommit, Refresh
    <3> QED BY <1>7, <3>1, <3>2 DEF UpdateBudgetCommit, ValueIsSum, ActiveTotalIsOfLines
  <2> QED BY <2>1, <2>2, NotOvertaken, RowsDecide
<1>8. ASSUME NEW e \in Editors, NEW transaction, Start(e, transaction) \/ Rollback(e)
      PROVE  (ValueIsSum /\ ActiveTotalIsOfLines)'
  BY <1>8, RowsDecide DEF Start, Rollback
<1> QED BY <1>1, <1>2, <1>3, <1>4, <1>5, <1>6, <1>7, <1>8
        DEF ContractNext, EditEntryStart, UpdateContractStart, EditLineStart, ImportStart, UpdateBudgetStart

\* The value stays the sum of its parts, and the total of an ACTIVE budget that of its
\* lines, at every step of any number of transactions except the commit of one that
\* another has overtaken.
THEOREM OnlyOvertakenEditsEverDiverge == ContractSpec => OnlyOvertakenEditsDiverge
<1>1. ContractInv /\ [ContractNext]_contractVars
        => [ValueIsSum /\ ActiveTotalIsOfLines =>
              (ValueIsSum /\ ActiveTotalIsOfLines)' \/ CommitsOvertaken]_contractVars
  BY DivergesOnlyOvertaken
<1> QED BY <1>1, ContractSpecKeeps, PTL DEF ContractSpec, OnlyOvertakenEditsDiverge

-----------------------------------------------------------------------------
(* The budgets of the orders, and the ceiling.                             *)

OrderRequest ==
  {Waiting}
    \cup [op : {"save"}, b : Budgets, total : Totals, create : BOOLEAN, overtaken : BOOLEAN]
    \cup [op : {"transition"}, b : Budgets, to : DOMAIN TRANSITIONS,
          contract : ContractIds \cup {NoContract}, overtaken : BOOLEAN]

OrderTypeOK ==
  /\ status \in [Budgets -> DOMAIN TRANSITIONS]
  /\ total \in [Budgets -> Nat]
  /\ links \in [Orders -> LinkLists]
  /\ ceiling \in [ContractIds -> Int]
  /\ request \in [Requests -> OrderRequest]

\* A transition is alone on its budget, which is not approved; nothing saves an approved
\* budget unless overtaken; and an approval that is not still fits under the ceiling it
\* was checked against.
TransitionsHold == \A r \in Requests : request[r].op = "transition" =>
  /\ status[request[r].b] # "APPROVED"
  /\ \A q \in Requests : request[q].op = "transition" /\ request[q].b = request[r].b => q = r

SavesAreCurrent == \A r \in Requests : request[r].op = "save" /\ ~request[r].overtaken =>
  status[request[r].b] # "APPROVED"

ApprovalsFit == \A r \in Requests :
  /\ request[r].op = "transition" /\ request[r].to = "APPROVED" /\ ~request[r].overtaken
  /\ request[r].contract # NoContract
  => WithinContract(request[r].b, request[r].contract)

OrderInv == OrderTypeOK /\ TransitionsHold /\ SavesAreCurrent /\ ApprovalsFit

-----------------------------------------------------------------------------
(* The official total of an order, and of several.                         *)

\* The stages of order o that have an approved budget, by their rank.
Stages(o) == {k \in 1..3 : IsApproved(o, StageOrder[k])}

ByLatest(o) == IF Stages(o) = {} THEN 0 ELSE total[<<o, StageOrder[Max(Stages(o))]>>]

\* A budget is a stage of an order.
LEMMA BudgetParts ==
  ASSUME NEW b \in Budgets
  PROVE  b[1] \in Orders /\ \E k \in 1..3 : b = <<b[1], StageOrder[k]>>
BY BudgetsAreOfOrders DEF ToSet, StageOrder

\* The latest of some stages.
LEMMA LatestStage ==
  ASSUME NEW T \in SUBSET (1..3), T # {}
  PROVE  Max(T) \in T /\ \A k \in T : k <= Max(T)
<1>1. \E k \in T : \A j \in T : k >= j
  <2>1. CASE 3 \in T
    BY <2>1
  <2>2. CASE 3 \notin T /\ 2 \in T
    BY <2>2
  <2>3. CASE 3 \notin T /\ 2 \notin T
    <3>1. \A k \in T : k = 1
      BY <2>3
    <3>2. 1 \in T
      BY <3>1
    <3> QED BY <3>1, <3>2
  <2> QED BY <2>1, <2>2, <2>3
<1> QED BY <1>1 DEF Max

\* The official value is that of the latest stage.
LEMMA OfficialIsByLatest == \A o : Official(o) = ByLatest(o) /\ Official(o)' = ByLatest(o)'
<1> SUFFICES ASSUME NEW o PROVE Official(o) = ByLatest(o) /\ Official(o)' = ByLatest(o)'
  OBVIOUS
<1>1. Len(StageOrder) = 3
  BY DEF StageOrder
<1>2. Stages(o) # {} => Max(Stages(o)) # 0
  BY LatestStage DEF Stages
<1>3. (Stages(o) # {} => Max(Stages(o)) # 0)'
  BY LatestStage DEF Stages
<1>4. Official(o) = ByLatest(o)
  BY <1>1, <1>2 DEF Official, ByLatest, SelectLastInSeq, Stages
<1>5. Official(o)' = ByLatest(o)'
  BY <1>1, <1>3 DEF Official, ByLatest, SelectLastInSeq, Stages
<1> QED BY <1>4, <1>5

\* An official value is a natural number.
LEMMA OfficialIsNat == ASSUME OrderTypeOK, NEW o PROVE Official(o) \in Nat
<1>1. CASE Stages(o) = {}
  <2>1. ByLatest(o) = 0
    BY <1>1 DEF ByLatest
  <2> QED BY <2>1, OfficialIsByLatest
<1>2. CASE Stages(o) # {}
  <2>1. Max(Stages(o)) \in Stages(o)
    BY <1>2, LatestStage DEF Stages
  <2>2. total[<<o, StageOrder[Max(Stages(o))]>>] \in Nat
    BY <2>1 DEF Stages, IsApproved, OrderTypeOK
  <2>3. ByLatest(o) \in Nat
    BY <1>2, <2>2 DEF ByLatest
  <2> QED BY <2>3, OfficialIsByLatest
<1> QED BY <1>1, <1>2

\* An order whose approved budgets stay as they are keeps its official total.
LEMMA OfficialStays ==
  ASSUME NEW o,
         \A k \in 1..3 : LET b == <<o, StageOrder[k]>> IN b \in Budgets =>
           /\ (status'[b] = "APPROVED") = (status[b] = "APPROVED")
           /\ status[b] = "APPROVED" => total'[b] = total[b]
  PROVE  Official(o)' = Official(o)
<1>1. Stages(o)' = Stages(o)
  BY DEF Stages, IsApproved
<1>2. \A k \in Stages(o) : total'[<<o, StageOrder[k]>>] = total[<<o, StageOrder[k]>>]
  BY DEF Stages, IsApproved
<1>3. Stages(o) # {} => Max(Stages(o)) \in Stages(o)
  BY LatestStage DEF Stages
<1> QED BY <1>1, <1>2, <1>3, OfficialIsByLatest DEF ByLatest

\* The approval of a budget makes it the official one of its order, or a later one is.
LEMMA OfficialOnApproval ==
  ASSUME OrderTypeOK, NEW b \in Budgets, status' = [status EXCEPT ![b] = "APPROVED"], total' = total
  PROVE  /\ Official(b[1])' = Official(b[1]) \/ Official(b[1])' = total[b]
         /\ \A o \in Orders \ {b[1]} : Official(o)' = Official(o)
<1>1. PICK k \in 1..3 : b = <<b[1], StageOrder[k]>>
  BY BudgetParts
<1>2. status'[b] = "APPROVED" /\ \A c \in Budgets \ {b} : status'[c] = status[c]
  BY DEF OrderTypeOK
<1>3. ASSUME NEW o \in Orders \ {b[1]} PROVE Official(o)' = Official(o)
  <2>1. \A j \in 1..3 : <<o, StageOrder[j]>> # b
    BY <1>1
  <2> QED BY <1>2, <2>1, OfficialStays
<1> DEFINE o == b[1]
<1>4. Stages(o)' = Stages(o) \cup {k}
  <2>1. \A i, j \in 1..3 : StageOrder[i] = StageOrder[j] => i = j
    BY DEF StageOrder
  <2>2. ASSUME NEW j \in 1..3 PROVE IsApproved(o, StageOrder[j])' = (IsApproved(o, StageOrder[j]) \/ j = k)
    <3>1. CASE j = k
      BY <1>1, <1>2, <3>1 DEF IsApproved
    <3>2. CASE j # k
      <4>1. <<o, StageOrder[j]>> # b
        BY <1>1, <2>1, <3>2
      <4> QED BY <1>2, <3>2, <4>1 DEF IsApproved
    <3> QED BY <3>1, <3>2
  <2> QED BY <2>2 DEF Stages
<1>5. LET T == Stages(o) IN
      /\ Max(T \cup {k}) \in T \cup {k} /\ \A j \in T \cup {k} : j <= Max(T \cup {k})
      /\ T # {} => Max(T) \in T /\ \A j \in T : j <= Max(T)
  BY LatestStage DEF Stages
<1>6. \/ Max(Stages(o) \cup {k}) = k
      \/ Stages(o) # {} /\ Max(Stages(o) \cup {k}) = Max(Stages(o))
  <2>1. Stages(o) \subseteq Int
    BY DEF Stages
  <2>2. CASE Max(Stages(o) \cup {k}) \in Stages(o)
    <3>1. Max(Stages(o)) \in Stages(o) /\ Max(Stages(o) \cup {k}) <= Max(Stages(o))
      BY <1>5, <2>2
    <3>2. Max(Stages(o)) <= Max(Stages(o) \cup {k})
      BY <1>5, <3>1
    <3> QED BY <2>1, <2>2, <3>1, <3>2
  <2> QED BY <1>5, <2>2
<1>7. Official(o)' = total[<<o, StageOrder[Max(Stages(o) \cup {k})]>>]
  BY <1>4, OfficialIsByLatest DEF ByLatest
<1>8. Official(o)' = Official(o) \/ Official(o)' = total[b]
  BY <1>1, <1>6, <1>7, OfficialIsByLatest DEF ByLatest
<1> QED BY <1>3, <1>8

\* Within the ceiling without one of the orders, and with what it comes to count for.
LEMMA OfficialsFit ==
  ASSUME OrderTypeOK, NEW S \in SUBSET Orders, NEW o, \A p \in S \ {o} : Official(p)' = Official(p),
         NEW top \in Int, OfficialOf(S) <= top,
         o \in S => \/ Official(o)' = Official(o)
                    \/ Official(o)' \in Int /\ OfficialOf(S \ {o}) + Official(o)' <= top
  PROVE  OfficialOf(S)' <= top
<1>1. PICK f : f = [p \in S |-> Official(p)]
  OBVIOUS
<1>2. PICK h : h = [p \in S |-> Official(p)']
  OBVIOUS
<1>3. OfficialOf(S) = SumFunction(f) /\ OfficialOf(S)' = SumFunction(h)
  BY <1>1, <1>2 DEF OfficialOf
<1>4. CASE \A p \in S : Official(p)' = Official(p)
  BY <1>1, <1>2, <1>3, <1>4
<1>5. CASE o \in S /\ Official(o)' \in Int /\ OfficialOf(S \ {o}) + Official(o)' <= top
  <2>1. IsFiniteSet(S)
    BY BudgetsAreOfOrders, FS_Subset
  <2>2. h \in [S -> Int] /\ h[o] = Official(o)'
    BY <1>2, <1>5, OfficialIsNat
  <2>3. [p \in S \ {o} |-> h[p]] = [p \in S \ {o} |-> Official(p)]
    BY <1>2
  <2>4. SumFunction(h) = h[o] + OfficialOf(S \ {o})
    BY <1>5, <2>1, <2>2, <2>3, SumFunctionSplit DEF OfficialOf
  <2>5. OfficialOf(S \ {o}) \in Int
    <3>1. PICK g : g = [p \in S \ {o} |-> Official(p)]
      OBVIOUS
    <3>2. g \in [S \ {o} -> Int] /\ IsFiniteSet(S \ {o})
      BY <2>1, <3>1, OfficialIsNat, FS_RemoveElement
    <3> QED BY <3>1, <3>2, SumFunctionInt DEF OfficialOf
  <2> QED BY <1>3, <1>5, <2>2, <2>4, <2>5
<1> QED BY <1>4, <1>5

\* Fewer orders count for no more.
LEMMA FewerOrders ==
  ASSUME OrderTypeOK, NEW S \in SUBSET Orders, NEW T \in SUBSET S
  PROVE  OfficialOf(T) <= OfficialOf(S) /\ OfficialOf(T) \in Int /\ OfficialOf(S) \in Int
<1>1. PICK f : f = [p \in S |-> Official(p)]
  OBVIOUS
<1>2. f \in [S -> Nat] /\ [p \in T |-> f[p]] = [p \in T |-> Official(p)]
  BY <1>1, OfficialIsNat
<1>3. IsFiniteSet(S) /\ IsFiniteSet(T)
  BY BudgetsAreOfOrders, FS_Subset
<1>4. /\ SumFunction([p \in T |-> f[p]]) <= SumFunction(f)
      /\ SumFunction([p \in T |-> f[p]]) \in Int /\ SumFunction(f) \in Int
  BY <1>2, <1>3, SumFunctionSubset
<1> QED BY <1>1, <1>2, <1>4 DEF OfficialOf

-----------------------------------------------------------------------------
(* The invariant of the requests.                                          *)

\* No budget is there at first.
LEMMA OrderBegins == OrderInit => OrderInv
<1> SUFFICES ASSUME OrderInit PROVE OrderInv
  OBVIOUS
<1>1. /\ status \in [Budgets -> DOMAIN TRANSITIONS] /\ total \in [Budgets -> Nat]
      /\ links \in [Orders -> LinkLists] /\ ceiling \in [ContractIds -> Int]
  BY BudgetsAreOfOrders DEF OrderInit, TRANSITIONS
<1>2. \A r \in Requests : request[r] = Waiting /\ request[r].op = "none"
  BY DEF OrderInit, Waiting
<1>3. request \in [Requests -> OrderRequest]
  BY DEF OrderInit, OrderRequest
<1> QED BY <1>1, <1>2, <1>3 DEF OrderInv, OrderTypeOK, TransitionsHold, SavesAreCurrent, ApprovalsFit

\* A request is none, or a save or a transition of a budget.
LEMMA OrderRequestIs ==
  ASSUME NEW q \in OrderRequest
  PROVE  /\ q.op = "none" <=> q = Waiting
         /\ q.op \in {"none", "save", "transition"}
         /\ q.op # "none" => q.b \in Budgets /\ q.overtaken \in BOOLEAN
         /\ q.op = "save" => q.total \in Totals
         /\ q.op = "transition" =>
              q.to \in DOMAIN TRANSITIONS /\ q.contract \in ContractIds \cup {NoContract}
<1>1. CASE q = Waiting
  BY <1>1 DEF Waiting
<1>2. CASE q \in [op : {"save"}, b : Budgets, total : Totals, create : BOOLEAN, overtaken : BOOLEAN]
  BY <1>2 DEF Waiting
<1>3. CASE q \in [op : {"transition"}, b : Budgets, to : DOMAIN TRANSITIONS,
                   contract : ContractIds \cup {NoContract}, overtaken : BOOLEAN]
  BY <1>3 DEF Waiting
<1> QED BY <1>1, <1>2, <1>3 DEF OrderRequest

\* What a write leaves of the others' requests.
LEMMA OvertakenKeeps ==
  ASSUME OrderTypeOK, NEW bs, NEW r \in Requests
  PROVE  /\ Overtaken(bs)[r] \in OrderRequest
         /\ Overtaken(bs)[r].op = request[r].op
         /\ request[r].op # "none" => Overtaken(bs)[r].b = request[r].b
         /\ request[r].op = "transition" =>
              Overtaken(bs)[r].to = request[r].to /\ Overtaken(bs)[r].contract = request[r].contract
         /\ request[r].op # "none" /\ ~Overtaken(bs)[r].overtaken =>
              ~request[r].overtaken /\ ~ReliesOn(request[r], bs)
<1> DEFINE p == request[r]
<1>1. p \in OrderRequest
  BY DEF OrderTypeOK
<1>2. Overtaken(bs)[r] = IF ReliesOn(p, bs) THEN [p EXCEPT !.overtaken = TRUE] ELSE p
  BY DEF Overtaken
<1>3. CASE ReliesOn(p, bs)
  <2>1. p.op \in {"save", "transition"} /\ p # Waiting
    BY <1>1, <1>3, OrderRequestIs DEF ReliesOn
  <2>2. PICK q : q = [p EXCEPT !.overtaken = TRUE]
    OBVIOUS
  <2>3. /\ q \in OrderRequest /\ q.op = p.op /\ q.b = p.b /\ q.overtaken
        /\ q.op = "transition" => q.to = p.to /\ q.contract = p.contract
    BY <1>1, <2>1, <2>2 DEF OrderRequest, Waiting
  <2> QED BY <1>2, <1>3, <2>2, <2>3
<1>4. CASE ~ReliesOn(p, bs)
  BY <1>1, <1>2, <1>4
<1> QED BY <1>3, <1>4

\* What is within a contract stays so while the budgets, the links and the ceiling do.
LEMMA WithinContractStays ==
  ASSUME UNCHANGED <<status, total, links, ceiling>>, NEW b, NEW c
  PROVE  WithinContract(b, c)' = WithinContract(b, c) /\ Within(c)' = Within(c)
<1>1. \A o : Official(o)' = Official(o)
  BY OfficialStays
<1> QED BY <1>1 DEF WithinContract, Within, OfficialOf, LinkedTo

\* A request starts or is given up: no row changes.
LEMMA RequestKeeps ==
  ASSUME OrderInv, NEW r \in Requests, NEW q \in OrderRequest, request' = [request EXCEPT ![r] = q],
         UNCHANGED <<status, total, links, ceiling>>,
         q.op = "save" => status[q.b] # "APPROVED",
         q.op = "transition" =>
           /\ status[q.b] # "APPROVED" /\ ~Locked(q.b)
           /\ q.to = "APPROVED" /\ q.contract # NoContract => WithinContract(q.b, q.contract)
  PROVE  OrderInv'
<1>1. OrderTypeOK'
  BY DEF OrderInv, OrderTypeOK
<1>2. request'[r] = q /\ \A t \in Requests \ {r} : request'[t] = request[t]
  BY DEF OrderInv, OrderTypeOK
<1>3. TransitionsHold' /\ SavesAreCurrent'
  BY <1>2 DEF OrderInv, TransitionsHold, SavesAreCurrent, Locked
<1>4. ApprovalsFit'
  BY <1>2, WithinContractStays DEF OrderInv, ApprovalsFit
<1> QED BY <1>1, <1>3, <1>4 DEF OrderInv

\* A request writes budget b, on which no other transition is.
LEMMA WriteKeeps ==
  ASSUME OrderInv, NEW r \in Requests, NEW b \in Budgets, NEW to \in DOMAIN TRANSITIONS,
         status' = [status EXCEPT ![b] = to], total' \in [Budgets -> Nat],
         UNCHANGED <<links, ceiling>>,
         request' = [Overtaken({b}) EXCEPT ![r] = Waiting],
         \A t \in Requests \ {r} : request[t].op = "transition" => request[t].b # b
  PROVE  OrderInv'
<1>1. /\ request'[r] = Waiting /\ \A t \in Requests \ {r} : request'[t] = Overtaken({b})[t]
      /\ \A c \in Budgets \ {b} : status'[c] = status[c]
  BY DEF OrderInv, OrderTypeOK, Overtaken
<1>2. Waiting \in OrderRequest /\ Waiting.op = "none"
  BY DEF OrderRequest, Waiting
<1>3. OrderTypeOK'
  <2>1. request' = [t \in Requests |-> request'[t]]
    BY DEF Overtaken
  <2>2. \A t \in Requests : request'[t] \in OrderRequest
    BY <1>1, <1>2, OvertakenKeeps DEF OrderInv
  <2> QED BY <2>1, <2>2 DEF OrderInv, OrderTypeOK
<1>4. ASSUME NEW t \in Requests, request'[t].op # "none"
      PROVE  /\ t # r /\ request'[t].op = request[t].op /\ request'[t].b = request[t].b
             /\ request[t].b \in Budgets
             /\ request[t].op = "transition" => request'[t].to = request[t].to
             /\ ~request'[t].overtaken => ~request[t].overtaken /\ ~ReliesOn(request[t], {b})
  <2>1. request[t] \in OrderRequest /\ OrderTypeOK
    BY DEF OrderInv, OrderTypeOK
  <2>2. t # r /\ request'[t] = Overtaken({b})[t]
    BY <1>1, <1>2, <1>4
  <2> QED BY <1>4, <2>1, <2>2, OvertakenKeeps, OrderRequestIs
<1>5. TransitionsHold'
  <2> SUFFICES ASSUME NEW t \in Requests, request'[t].op = "transition"
               PROVE  /\ status'[request'[t].b] # "APPROVED"
                      /\ \A q \in Requests :
                           request'[q].op = "transition" /\ request'[q].b = request'[t].b => q = t
    BY DEF TransitionsHold
  <2>1. t # r /\ request[t].op = "transition" /\ request'[t].b = request[t].b /\ request[t].b \in Budgets
    BY <1>4
  <2>2. request[t].b # b
    BY <2>1
  <2>3. status'[request'[t].b] # "APPROVED"
    BY <1>1, <2>1, <2>2 DEF OrderInv, TransitionsHold
  <2>4. ASSUME NEW q \in Requests, request'[q].op = "transition", request'[q].b = request'[t].b
        PROVE  q = t
    <3>1. request[q].op = "transition" /\ request[q].b = request[t].b
      BY <1>4, <2>1, <2>4
    <3> QED BY <2>1, <3>1 DEF OrderInv, TransitionsHold
  <2> QED BY <2>3, <2>4
<1>6. SavesAreCurrent'
  <2> SUFFICES ASSUME NEW t \in Requests, request'[t].op = "save", ~request'[t].overtaken
               PROVE  status'[request'[t].b] # "APPROVED"
    BY DEF SavesAreCurrent
  <2> QED BY <1>1, <1>4 DEF OrderInv, SavesAreCurrent, ReliesOn
<1>7. ApprovalsFit'
  <2> SUFFICES ASSUME NEW t \in Requests, request'[t].op = "transition", request'[t].to = "APPROVED",
                      ~request'[t].overtaken
               PROVE  FALSE
    BY DEF ApprovalsFit
  <2> QED BY <1>4 DEF ReliesOn
<1> QED BY <1>3, <1>5, <1>6, <1>7 DEF OrderInv

\* Only what is undecided moves.
LEMMA OnlyUndecidedMove ==
  ASSUME NEW from \in DOMAIN TRANSITIONS, NEW to \in TRANSITIONS[from]
  PROVE  from # "APPROVED" /\ to \in DOMAIN TRANSITIONS
BY DEF TRANSITIONS

\* Reading before a save changes no order.
LEMMA SaveReadKeeps ==
  ASSUME OrderInv, NEW r \in Requests, NEW b \in Budgets, NEW t \in Totals, SaveRead(r, b, t)
  PROVE  OrderInv'
<1>1. PICK q : q = [op |-> "save", b |-> b, total |-> t, create |-> status[b] = "ABSENT", overtaken |-> FALSE]
  OBVIOUS
<1>2. q \in OrderRequest
  BY <1>1 DEF OrderRequest
<1> QED BY <1>1, <1>2, RequestKeeps DEF SaveRead, contractRows

\* Nor does opening a transition.
LEMMA TransitionStartKeeps ==
  ASSUME OrderInv, NEW r \in Requests, NEW b \in Budgets, NEW to \in DOMAIN TRANSITIONS,
         NEW c \in ContractIds \cup {NoContract}, TransitionStart(r, b, to, c)
  PROVE  OrderInv'
<1>1. PICK q : q = [op |-> "transition", b |-> b, to |-> to, contract |-> c, overtaken |-> FALSE]
  OBVIOUS
<1>2. q \in OrderRequest
  BY <1>1 DEF OrderRequest
<1>3. status[b] # "APPROVED"
  BY OnlyUndecidedMove DEF OrderInv, OrderTypeOK, TransitionStart
<1> QED BY <1>1, <1>2, <1>3, RequestKeeps DEF TransitionStart, contractRows

\* A commit keeps the invariant of the orders.
LEMMA CommitsKeep ==
  ASSUME OrderInv, NEW r \in Requests, SaveCommit(r) \/ TransitionCommit(r)
  PROVE  OrderInv'
<1>1. request[r] \in OrderRequest
  BY DEF OrderInv, OrderTypeOK
<1>2. CASE SaveCommit(r)
  <2>1. request[r].b \in Budgets /\ request[r].total \in Nat /\ "DRAFT" \in DOMAIN TRANSITIONS
    BY <1>1, <1>2, OrderRequestIs, BudgetsAreOfOrders DEF SaveCommit, TRANSITIONS
  <2>2. total' \in [Budgets -> Nat]
    BY <1>2, <2>1 DEF SaveCommit, OrderInv, OrderTypeOK
  <2>3. \A t \in Requests \ {r} : request[t].op = "transition" => request[t].b # request[r].b
    BY <1>2 DEF SaveCommit, Locked
  <2>4. /\ status' = [status EXCEPT ![request[r].b] = "DRAFT"] /\ UNCHANGED <<links, ceiling>>
        /\ request' = [Overtaken({request[r].b}) EXCEPT ![r] = Waiting]
    BY <1>2 DEF SaveCommit, contractRows
  <2> QED BY <2>1, <2>2, <2>3, <2>4, WriteKeeps
<1>3. CASE TransitionCommit(r)
  <2>1. request[r].b \in Budgets /\ request[r].to \in DOMAIN TRANSITIONS
    BY <1>1, <1>3, OrderRequestIs DEF TransitionCommit
  <2>2. \A t \in Requests \ {r} : request[t].op = "transition" => request[t].b # request[r].b
    BY <1>3 DEF OrderInv, TransitionsHold, TransitionCommit
  <2> QED BY <1>3, <2>1, <2>2, WriteKeeps DEF TransitionCommit, OrderInv, OrderTypeOK, contractRows
<1> QED BY <1>2, <1>3

\* So does a change of the contracts or of the links to them.
LEMMA ContractsKeep ==
  ASSUME OrderInv, UNCHANGED <<status, total>>, request' = Overtaken({}),
         links' \in [Orders -> LinkLists], ceiling' \in [ContractIds -> Int]
  PROVE  OrderInv'
<1>1. \A r \in Requests : request'[r] = Overtaken({})[r]
  OBVIOUS
<1>2. OrderTypeOK'
  <2>1. request' = [r \in Requests |-> request'[r]]
    BY DEF Overtaken
  <2> QED BY <1>1, <2>1, OvertakenKeeps DEF OrderInv, OrderTypeOK
<1>3. ASSUME NEW t \in Requests, request'[t].op # "none"
      PROVE  /\ request'[t].op = request[t].op /\ request'[t].b = request[t].b
             /\ request[t].op = "transition" => request'[t].to = request[t].to
             /\ ~request'[t].overtaken => ~request[t].overtaken /\ ~ReliesOn(request[t], {})
  BY <1>1, <1>3, OvertakenKeeps DEF OrderInv
<1>4. TransitionsHold' /\ SavesAreCurrent'
  BY <1>3 DEF OrderInv, TransitionsHold, SavesAreCurrent
<1>5. ApprovalsFit'
  <2> SUFFICES ASSUME NEW t \in Requests, request'[t].op = "transition", request'[t].to = "APPROVED",
                      ~request'[t].overtaken
               PROVE  FALSE
    BY DEF ApprovalsFit
  <2> QED BY <1>3 DEF ReliesOn
<1> QED BY <1>2, <1>4, <1>5 DEF OrderInv

\* And every step.
LEMMA OrderKeeps == OrderInv /\ [OrderNext]_orderVars => OrderInv'
<1> SUFFICES ASSUME OrderInv, [OrderNext]_orderVars PROVE OrderInv'
  OBVIOUS
<1>1. ASSUME NEW r \in Requests, Fail(r) PROVE OrderInv'
  <2>1. Waiting \in OrderRequest /\ Waiting.op = "none"
    BY DEF OrderRequest, Waiting
  <2> QED BY <1>1, <2>1, RequestKeeps DEF Fail, contractRows
<1>2. ASSUME NEW c \in ContractIds, NEW value \in Ceilings, MoveCeiling(c, value) PROVE OrderInv'
  <2>1. links' \in [Orders -> LinkLists] /\ ceiling' \in [ContractIds -> Int]
    BY <1>2, BudgetsAreOfOrders DEF MoveCeiling, OrderInv, OrderTypeOK
  <2> QED BY <1>2, <2>1, ContractsKeep DEF MoveCeiling
<1>3. ASSUME NEW c \in ContractIds, ArchiveContract(c) PROVE OrderInv'
  <2>1. links' \in [Orders -> LinkLists] /\ ceiling' \in [ContractIds -> Int]
    BY <1>3 DEF ArchiveContract, OrderInv, OrderTypeOK
  <2> QED BY <1>3, <2>1, ContractsKeep DEF ArchiveContract
<1>4. ASSUME NEW o \in Orders, NEW list \in LinkLists, Relink(o, list) PROVE OrderInv'
  <2>1. links' \in [Orders -> LinkLists] /\ ceiling' \in [ContractIds -> Int]
    BY <1>4 DEF Relink, OrderInv, OrderTypeOK
  <2> QED BY <1>4, <2>1, ContractsKeep DEF Relink
<1>5. CASE UNCHANGED orderVars
  BY <1>5, WithinContractStays
     DEF orderVars, contractRows, OrderInv, OrderTypeOK, TransitionsHold, SavesAreCurrent, ApprovalsFit
<1> QED BY <1>1, <1>2, <1>3, <1>4, <1>5, SaveReadKeeps, TransitionStartKeeps, CommitsKeep DEF OrderNext

\* The invariant of the orders.
LEMMA OrderSpecKeeps == OrderSpec => []OrderInv
BY OrderBegins, OrderKeeps, PTL DEF OrderSpec

-----------------------------------------------------------------------------
(* The ceiling.                                                            *)

\* What is committed after fresh reads fits the contract it was checked against.
LEMMA CommitsFit ==
  ASSUME OrderInv, NEW r \in Requests, SaveCommit(r) \/ TransitionCommit(r), NEW c \in ContractIds,
         Within(c), ~ApprovesUnchecked(c), ~CommitsOvertakenRequest
  PROVE  Within(c)'
<1>0. PICK q, b : q = request[r] /\ b = request[r].b
  OBVIOUS
<1>1. /\ q \in OrderRequest /\ q.op \in {"save", "transition"} /\ request'[r] = Waiting
      /\ q # Waiting /\ UNCHANGED <<links, ceiling>>
  BY <1>0 DEF OrderInv, OrderTypeOK, SaveCommit, TransitionCommit, Overtaken, Waiting, contractRows
<1>2. b \in Budgets /\ b[1] \in Orders /\ ~q.overtaken
  BY <1>0, <1>1, OrderRequestIs, BudgetParts DEF CommitsOvertakenRequest, Commits
<1>3. status[b] # "APPROVED"
  BY <1>0, <1>1, <1>2 DEF OrderInv, TransitionsHold, SavesAreCurrent
<1>4. \A d \in Budgets \ {b} : status'[d] = status[d] /\ total'[d] = total[d]
  BY <1>0, <1>2 DEF OrderInv, OrderTypeOK, SaveCommit, TransitionCommit
<1>5. PICK S : S = LinkedTo(c)
  OBVIOUS
<1>6. S \in SUBSET Orders /\ LinkedTo(c)' = S
  BY <1>1, <1>5 DEF LinkedTo
<1>7. PICK top : top = ceiling[c]
  OBVIOUS
<1>8. top \in Int /\ ceiling'[c] = top /\ OfficialOf(S) <= top
  BY <1>1, <1>5, <1>7 DEF OrderInv, OrderTypeOK, Within
<1>9. OfficialOf(S)' <= top
  <2>1. CASE TransitionCommit(r) /\ q.to = "APPROVED"
    <3>1. status' = [status EXCEPT ![b] = "APPROVED"] /\ total' = total
      BY <1>0, <2>1 DEF TransitionCommit
    <3>2. /\ Official(b[1])' = Official(b[1]) \/ Official(b[1])' = total[b]
          /\ \A p \in Orders \ {b[1]} : Official(p)' = Official(p)
      BY <1>2, <3>1, OfficialOnApproval DEF OrderInv
    <3>3. total[b] \in Int
      BY <1>2 DEF OrderInv, OrderTypeOK
    <3>4. ASSUME b[1] \in S PROVE OfficialOf(S \ {b[1]}) + total[b] <= top
      <4>1. q.contract = c /\ c # NoContract
        BY <1>0, <1>1, <1>5, <2>1, <3>4, BudgetsAreOfOrders DEF ApprovesUnchecked, Commits, TransitionCommit
      <4>2. WithinContract(b, c)
        BY <1>0, <1>2, <2>1, <4>1 DEF OrderInv, ApprovalsFit, TransitionCommit
      <4> QED BY <1>5, <1>7, <4>2 DEF WithinContract
    <3>5. b[1] \in S => \/ Official(b[1])' = Official(b[1])
                        \/ Official(b[1])' \in Int /\ OfficialOf(S \ {b[1]}) + Official(b[1])' <= top
      BY <3>2, <3>3, <3>4
    <3>6. \A p \in S \ {b[1]} : Official(p)' = Official(p)
      BY <1>6, <3>2
    <3> QED BY <1>6, <1>8, <3>5, <3>6, OfficialsFit DEF OrderInv
  <2>2. CASE SaveCommit(r) \/ q.to # "APPROVED"
    <3>1. status'[b] # "APPROVED"
      BY <1>0, <1>2, <2>2 DEF OrderInv, OrderTypeOK, SaveCommit, TransitionCommit
    <3>2. \A o : Official(o)' = Official(o)
      BY <1>3, <1>4, <3>1, OfficialStays
    <3> QED BY <1>6, <1>8, <3>2, OfficialsFit DEF OrderInv
  <2> QED BY <2>1, <2>2
<1>10. OfficialOf(LinkedTo(c))' = OfficialOf(S)'
  BY <1>6 DEF OfficialOf
<1> QED BY <1>8, <1>9, <1>10 DEF Within

\* A change of the contracts or of the links keeps the orders of a contract within it, if
\* its ceiling does not fall and no order is linked to it.
LEMMA ContractsStayWithin ==
  ASSUME OrderInv, UNCHANGED <<status, total>>, NEW c \in ContractIds, Within(c),
         ceiling[c] \in Int, ceiling'[c] \in Int, ~(ceiling'[c] < ceiling[c]), ~GainsOrder(c)
  PROVE  Within(c)'
<1>1. \A o : Official(o)' = Official(o)
  BY OfficialStays
<1>2. PICK S : S = LinkedTo(c)
  OBVIOUS
<1>3. PICK T : T = LinkedTo(c)'
  OBVIOUS
<1>4. S \in SUBSET Orders /\ T \in SUBSET S
  BY <1>2, <1>3 DEF LinkedTo, GainsOrder
<1>5. OfficialOf(LinkedTo(c))' = OfficialOf(T)
  BY <1>1, <1>3 DEF OfficialOf
<1>6. OfficialOf(T) <= OfficialOf(S) /\ OfficialOf(T) \in Int /\ OfficialOf(S) \in Int
  BY <1>4, FewerOrders DEF OrderInv
<1>7. OfficialOf(S) <= ceiling[c]
  BY <1>2 DEF Within
<1> QED BY <1>5, <1>6, <1>7 DEF Within

\* Every step but those that CeilingHolds names keeps the orders within each contract.
LEMMA CeilingKept ==
  ASSUME OrderInv, OrderNext, NEW c \in ContractIds, Within(c), ~(ceiling'[c] < ceiling[c]),
         ~GainsOrder(c), ~ApprovesUnchecked(c), ~CommitsOvertakenRequest
  PROVE  Within(c)'
<1>1. ceiling[c] \in Int /\ ceiling'[c] \in Int
  BY OrderKeeps DEF OrderInv, OrderTypeOK
<1>2. CASE UNCHANGED <<status, total>>
  BY <1>1, <1>2, ContractsStayWithin
<1> QED BY <1>2, CommitsFit
        DEF OrderNext, SaveRead, TransitionStart, Fail, MoveCeiling, ArchiveContract, Relink

\* The official budgets of the orders linked to a contract, of any number, come to exceed
\* its ceiling only when it comes down, an order is linked to the contract, an approval was
\* checked against another contract or none, or a request commits after another committed
\* what it had not read.
THEOREM CeilingHoldsOfOrders == OrderSpec => CeilingHolds
<1>1. OrderInv /\ [OrderNext]_orderVars
        => [\A c \in ContractIds : Within(c) =>
              \/ Within(c)'
              \/ ceiling'[c] < ceiling[c] \/ GainsOrder(c) \/ ApprovesUnchecked(c)
              \/ CommitsOvertakenRequest]_orderVars
  BY CeilingKept
<1> QED BY <1>1, OrderSpecKeeps, PTL DEF OrderSpec, CeilingHolds

-----------------------------------------------------------------------------
(* Commitments.                                                            *)

NoneLater(l) == \A t \in Later : l[t] = 0

CommitmentRow == [contract : Contracts \cup {None}, canceled : BOOLEAN]

Measured == [status : {None, "APPROVED", "LIQUIDATED", "PAID"},
             commitment : CommitmentIds \cup {None}, net : Nat]

CommitmentRequest ==
  [op : {"idle"}]
    \cup [op : {"update"}, c : CommitmentIds, from : Contracts, led : Ledger,
           to : Contracts \cup {None}, amount : Nat]
    \cup [op : {"archive"}, c : CommitmentIds, led : Ledger]
    \cup [op : {"movement"}, c : CommitmentIds, type : Later, amount : Nat, led : Ledger,
           committed : Int]
    \cup [op : {"settle"}, m : Measurements, led : Ledger]

CommitmentsTypeOK ==
  /\ row \in [CommitmentIds -> CommitmentRow]
  /\ led \in [CommitmentIds -> Ledger]
  /\ meas \in [Measurements -> Measured]
  /\ tx \in [Sessions -> CommitmentRequest]

HasRow(c) == c \in CommitmentIds /\ row[c].contract # None

\* Whatever moves on a commitment, or is measured against it, has its row.
RowsComeFirst ==
  /\ \A c \in CommitmentIds : led[c] # Empty => HasRow(c)
  /\ \A m \in Measurements : meas[m].status \in DOMAIN Settled => HasRow(meas[m].commitment)
  /\ \A s \in Sessions : tx[s].op \in {"update", "archive", "movement"} => HasRow(tx[s].c)

UpdatesComeFirst == \A s \in Sessions : tx[s].op = "update" => NoneLater(tx[s].led)

\* A movement is alone on its commitment, and the ledger stays as it read it.
MovementsHold ==
  /\ \A s \in Sessions : tx[s].op = "movement" => tx[s].led = led[tx[s].c]
  /\ \A s, t \in Sessions :
       tx[s].op = "movement" /\ tx[t].op = "movement" /\ tx[s].c = tx[t].c => s = t

\* A settlement is alone on its measurement, which is still to be settled.
SettlementsHold ==
  /\ \A s \in Sessions : tx[s].op = "settle" => meas[tx[s].m].status \in DOMAIN Settled
  /\ \A s, t \in Sessions :
       tx[s].op = "settle" /\ tx[t].op = "settle" /\ tx[s].m = tx[t].m => s = t

CommitmentsInv ==
  CommitmentsTypeOK /\ RowsComeFirst /\ UpdatesComeFirst /\ MovementsHold /\ SettlementsHold
-----------------------------------------------------------------------------
\* The kinds of requests.
LEMMA CommitmentRequestIs ==
  ASSUME NEW r \in CommitmentRequest
  PROVE  /\ r.op = "update" => /\ r.c \in CommitmentIds /\ r.from \in Contracts /\ r.led \in Ledger
                               /\ r.to \in Contracts \cup {None} /\ r.amount \in Nat
         /\ r.op = "archive" => r.c \in CommitmentIds /\ r.led \in Ledger
         /\ r.op = "movement" => /\ r.c \in CommitmentIds /\ r.type \in Later /\ r.amount \in Nat
                                 /\ r.led \in Ledger /\ r.committed \in Int
         /\ r.op = "settle" => r.m \in Measurements /\ r.led \in Ledger
BY DEF CommitmentRequest

\* The movements of a commitment are naturals.
LEMMA LedgerEntries ==
  ASSUME NEW l \in Ledger
  PROVE  /\ l["ISSUE"] \in Nat /\ l["REINFORCEMENT"] \in Nat /\ l["CANCELLATION"] \in Nat
         /\ l["LIQUIDATION"] \in Nat /\ l["PAYMENT"] \in Nat /\ Net(l) \in Int
BY DEF Ledger, CommitmentMovementType, Net

-----------------------------------------------------------------------------
(* What is committed of a contract.                                        *)

\* What commitment c commits of contract k.
Part(c, k) == IF Live(c) /\ row[c].contract = k THEN Net(led[c]) ELSE 0

Parts(k) == [c \in CommitmentIds |-> Part(c, k)]

\* What a contract has committed is a sum of its parts.
LEMMA CommittedIs == ASSUME NEW k PROVE Committed(k) = SumFunction(Parts(k)) /\ Committed(k)' = SumFunction(Parts(k)')
BY DEF Committed, Parts, Part

\* And an integer.
LEMMA CommittedIsInt ==
  ASSUME CommitmentsTypeOK, NEW k
  PROVE  Committed(k) \in Int /\ Parts(k) \in [CommitmentIds -> Int]
<1>1. Parts(k) \in [CommitmentIds -> Int]
  <2>1. \A c \in CommitmentIds : Part(c, k) \in Int
    BY LedgerEntries DEF CommitmentsTypeOK, Part
  <2> QED BY <2>1 DEF Parts
<1> QED BY <1>1, SumFunctionInt, CommittedIs, AmountsArePositive

\* It changes by the part of the commitment that is written.
LEMMA CommittedMoves ==
  ASSUME CommitmentsTypeOK, CommitmentsTypeOK', NEW c \in CommitmentIds, NEW k,
         \A d \in CommitmentIds \ {c} : row'[d] = row[d] /\ led'[d] = led[d]
  PROVE  Committed(k)' = Committed(k) - Part(c, k) + Part(c, k)'
<1>1. Parts(k) \in [CommitmentIds -> Int] /\ Parts(k)' \in [CommitmentIds -> Int]
  <2>1. \A d \in CommitmentIds : Part(d, k)' \in Int
    BY LedgerEntries DEF CommitmentsTypeOK, Part
  <2> QED BY <2>1, CommittedIsInt DEF Parts
<1>2. \A d \in CommitmentIds \ {c} : Parts(k)'[d] = Parts(k)[d]
  BY DEF Parts, Part, Live
<1>3. SumFunction(Parts(k)') = SumFunction(Parts(k)) - Parts(k)[c] + Parts(k)'[c]
  BY <1>1, <1>2, SumFunctionUpdate, AmountsArePositive
<1>4. Parts(k)[c] = Part(c, k) /\ Parts(k)'[c] = Part(c, k)'
  BY DEF Parts
<1> QED BY <1>3, <1>4, CommittedIs

\* No commitment is there at first.
LEMMA CommitmentsBegin == Init => CommitmentsInv
<1> SUFFICES ASSUME Init PROVE CommitmentsInv
  OBVIOUS
<1>1. CommitmentsTypeOK
  BY DEF Init, CommitmentsTypeOK, CommitmentRow, Ledger, Empty, Measured, Unmeasured,
         CommitmentRequest, NoRequest
<1>2. RowsComeFirst
  BY DEF Init, RowsComeFirst, Unmeasured, NoRequest, Settled, None
<1>3. UpdatesComeFirst /\ MovementsHold /\ SettlementsHold
  BY DEF Init, UpdatesComeFirst, MovementsHold, SettlementsHold, NoRequest
<1> QED BY <1>1, <1>2, <1>3 DEF CommitmentsInv

\* A request begins, or is abandoned: r is what the session has now.
LEMMA SessionKeeps ==
  ASSUME CommitmentsInv, NEW s \in Sessions, NEW r \in CommitmentRequest,
         tx' = [tx EXCEPT ![s] = r], UNCHANGED <<row, led, meas>>,
         r.op \in {"update", "archive", "movement"} => HasRow(r.c),
         r.op = "update" => NoneLater(r.led),
         r.op = "movement" => r.led = led[r.c] /\ ~LockedByOther(s, r.c),
         r.op = "settle" => meas[r.m].status \in DOMAIN Settled /\ ~MeasurementLocked(s, r.m)
  PROVE  CommitmentsInv'
<1>1. tx' \in [Sessions -> CommitmentRequest] /\ tx'[s] = r /\ \A t \in Sessions \ {s} : tx'[t] = tx[t]
  BY DEF CommitmentsInv, CommitmentsTypeOK
<1>2. CommitmentsTypeOK'
  BY <1>1 DEF CommitmentsInv, CommitmentsTypeOK
<1>3. RowsComeFirst'
  BY <1>1 DEF CommitmentsInv, RowsComeFirst, HasRow
<1>4. UpdatesComeFirst' /\ MovementsHold'
  BY <1>1 DEF CommitmentsInv, UpdatesComeFirst, MovementsHold, LockedByOther
<1>5. SettlementsHold'
  BY <1>1 DEF CommitmentsInv, SettlementsHold, MeasurementLocked
<1> QED BY <1>2, <1>3, <1>4, <1>5 DEF CommitmentsInv

\* A request ends, and writes the row and the ledger of one commitment that no movement of
\* another holds, or the measurement that it holds itself.
LEMMA EndKeeps ==
  ASSUME CommitmentsInv, NEW s \in Sessions, NEW c \in CommitmentIds,
         tx' = [tx EXCEPT ![s] = NoRequest],
         row' \in [CommitmentIds -> CommitmentRow], led' \in [CommitmentIds -> Ledger],
         meas' \in [Measurements -> Measured],
         \A d \in CommitmentIds \ {c} : row'[d] = row[d] /\ led'[d] = led[d],
         row'[c].contract # None, ~LockedByOther(s, c),
         \A m \in Measurements :
           \/ meas'[m] = meas[m]
           \/ tx[s].op = "settle" /\ tx[s].m = m /\ meas'[m].commitment = meas[m].commitment
  PROVE  CommitmentsInv'
<1>1. tx' \in [Sessions -> CommitmentRequest] /\ tx'[s] = NoRequest /\ \A t \in Sessions \ {s} : tx'[t] = tx[t]
  BY DEF CommitmentsInv, CommitmentsTypeOK, CommitmentRequest, NoRequest
<1>2. CommitmentsTypeOK'
  BY <1>1 DEF CommitmentsTypeOK
<1>3. \A d \in CommitmentIds : row[d].contract # None => row'[d].contract # None
  OBVIOUS
<1>4. RowsComeFirst'
  <2>1. \A d \in CommitmentIds : led'[d] # Empty => HasRow(d)'
    BY <1>3 DEF CommitmentsInv, RowsComeFirst, HasRow
  <2>2. \A m \in Measurements : meas'[m].status \in DOMAIN Settled => HasRow(meas[m].commitment)'
    <3> SUFFICES ASSUME NEW m \in Measurements, meas'[m].status \in DOMAIN Settled
                 PROVE  HasRow(meas[m].commitment)'
      OBVIOUS
    <3>1. meas[m].status \in DOMAIN Settled /\ meas'[m].commitment = meas[m].commitment
      BY DEF CommitmentsInv, SettlementsHold
    <3> QED BY <1>3, <3>1 DEF CommitmentsInv, RowsComeFirst, HasRow
  <2>3. \A t \in Sessions : tx'[t].op \in {"update", "archive", "movement"} => HasRow(tx[t].c)'
    BY <1>1, <1>3 DEF CommitmentsInv, RowsComeFirst, NoRequest, HasRow
  <2> QED BY <2>1, <2>2, <2>3 DEF RowsComeFirst
<1>5. UpdatesComeFirst'
  BY <1>1 DEF CommitmentsInv, UpdatesComeFirst, NoRequest
<1>6. MovementsHold'
  <2>1. \A t \in Sessions \ {s} : tx[t].op = "movement" => tx[t].c \in CommitmentIds \ {c}
    BY CommitmentRequestIs DEF CommitmentsInv, CommitmentsTypeOK, LockedByOther
  <2> QED BY <1>1, <2>1 DEF CommitmentsInv, MovementsHold, NoRequest
<1>7. SettlementsHold'
  <2>1. \A t \in Sessions \ {s} : tx[t].op = "settle" => tx[t].m \in Measurements /\ meas'[tx[t].m] = meas[tx[t].m]
    BY CommitmentRequestIs DEF CommitmentsInv, CommitmentsTypeOK, SettlementsHold
  <2> QED BY <1>1, <2>1 DEF CommitmentsInv, SettlementsHold, NoRequest
<1> QED BY <1>2, <1>4, <1>5, <1>6, <1>7 DEF CommitmentsInv

\* What a movement does to the ledger.
LEMMA Posted ==
  ASSUME led \in [CommitmentIds -> Ledger], NEW c \in CommitmentIds,
         NEW type \in CommitmentMovementType, NEW amount \in Nat, Post(c, type, amount)
  PROVE  /\ led' \in [CommitmentIds -> Ledger]
         /\ \A d \in CommitmentIds \ {c} : led'[d] = led[d]
         /\ led'[c][type] = led[c][type] + amount
         /\ \A t \in CommitmentMovementType \ {type} : led'[c][t] = led[c][t]
<1>1. led' = [led EXCEPT ![c] = [led[c] EXCEPT ![type] = led[c][type] + amount]]
  BY DEF Post
<1>2. [led[c] EXCEPT ![type] = led[c][type] + amount] \in Ledger
  BY DEF Ledger
<1>3. led'[c] = [led[c] EXCEPT ![type] = led[c][type] + amount]
  BY <1>1
<1>4. led[c] \in [CommitmentMovementType -> Nat]
  BY DEF Ledger
<1> QED BY <1>1, <1>2, <1>3, <1>4

-----------------------------------------------------------------------------
(* What each end of a request writes.                                      *)

\* The commitment that an end of a request writes.
Written(s, c) ==
  /\ row' \in [CommitmentIds -> CommitmentRow] /\ led' \in [CommitmentIds -> Ledger]
  /\ \A d \in CommitmentIds \ {c} : row'[d] = row[d] /\ led'[d] = led[d]
  /\ row'[c].contract # None /\ ~LockedByOther(s, c)
  /\ tx' = [tx EXCEPT ![s] = NoRequest]

\* What a creation writes at its commit.
LEMMA CreationWrites ==
  ASSUME CommitmentsInv, NEW s \in Sessions, NEW c \in CommitmentIds, NEW k \in Contracts,
         NEW amount \in IssuedAmounts, CreateCommitment(s, c, k, amount)
  PROVE  /\ Written(s, c) /\ meas' = meas /\ amount \in Nat
         /\ ~Live(c) /\ row'[c].contract = k /\ led[c] = Empty
         /\ led'[c]["ISSUE"] = amount /\ \A t \in Later : led'[c][t] = 0
<1>1. /\ tx[s] = NoRequest /\ row[c].contract = None /\ row' = [row EXCEPT ![c].contract = k]
      /\ Post(c, "ISSUE", amount) /\ meas' = meas /\ tx' = tx
  BY DEF CreateCommitment
<1>2. amount \in Nat /\ "ISSUE" \in CommitmentMovementType /\ k # None
  BY AmountsArePositive DEF CommitmentMovementType, None
<1>3. /\ led' \in [CommitmentIds -> Ledger] /\ \A d \in CommitmentIds \ {c} : led'[d] = led[d]
      /\ led'[c]["ISSUE"] = led[c]["ISSUE"] + amount
      /\ \A t \in CommitmentMovementType \ {"ISSUE"} : led'[c][t] = led[c][t]
  BY <1>1, <1>2, Posted DEF CommitmentsInv, CommitmentsTypeOK
<1>4. led[c] = Empty /\ ~Live(c)
  BY <1>1 DEF CommitmentsInv, RowsComeFirst, HasRow, Live
<1>5. /\ row' \in [CommitmentIds -> CommitmentRow] /\ row'[c].contract = k
      /\ \A d \in CommitmentIds \ {c} : row'[d] = row[d]
  BY <1>1 DEF CommitmentsInv, CommitmentsTypeOK, CommitmentRow
<1>6. ~LockedByOther(s, c)
  BY <1>1 DEF LockedByOther, CommitmentsInv, RowsComeFirst, HasRow
<1>7. tx' = [tx EXCEPT ![s] = NoRequest]
  BY <1>1 DEF CommitmentsInv, CommitmentsTypeOK
<1>8. Written(s, c)
  BY <1>2, <1>3, <1>5, <1>6, <1>7 DEF Written
<1>9. led'[c]["ISSUE"] = amount /\ \A t \in Later : led'[c][t] = 0
  BY <1>2, <1>3, <1>4 DEF Empty, Later, CommitmentMovementType
<1> QED BY <1>1, <1>2, <1>4, <1>5, <1>8, <1>9

\* What an update writes at its commit.
LEMMA UpdateWrites ==
  ASSUME CommitmentsInv, NEW s \in Sessions, UpdateCommit(s)
  PROVE  /\ tx[s].op = "update" /\ tx[s].c \in CommitmentIds
         /\ Written(s, tx[s].c) /\ meas' = meas
         /\ row'[tx[s].c].canceled = row[tx[s].c].canceled
         /\ row'[tx[s].c].contract = IF tx[s].to = None THEN row[tx[s].c].contract ELSE tx[s].to
         /\ led'[tx[s].c]["ISSUE"] = IF tx[s].amount = 0 THEN led[tx[s].c]["ISSUE"] ELSE tx[s].amount
         /\ \A t \in Later : led'[tx[s].c][t] = led[tx[s].c][t]
<1>1. PICK r \in CommitmentRequest : r = tx[s]
  BY DEF CommitmentsInv, CommitmentsTypeOK
<1>2. /\ r.op = "update" /\ ~LockedByOther(s, r.c) /\ Finish(s) /\ meas' = meas
      /\ row' = IF r.to = None THEN row ELSE [row EXCEPT ![r.c].contract = r.to]
      /\ led' = IF r.amount = 0 THEN led ELSE [led EXCEPT ![r.c]["ISSUE"] = r.amount]
  BY <1>1 DEF UpdateCommit
<1>3. r.c \in CommitmentIds /\ r.to \in Contracts \cup {None} /\ r.amount \in Nat /\ HasRow(r.c)
  BY <1>1, <1>2, CommitmentRequestIs DEF CommitmentsInv, RowsComeFirst
<1>4. /\ row' \in [CommitmentIds -> CommitmentRow] /\ \A d \in CommitmentIds \ {r.c} : row'[d] = row[d]
      /\ row'[r.c].canceled = row[r.c].canceled
      /\ row'[r.c].contract = IF r.to = None THEN row[r.c].contract ELSE r.to
  <2>1. CASE r.to = None
    BY <1>2, <2>1 DEF CommitmentsInv, CommitmentsTypeOK
  <2>2. CASE r.to # None
    BY <1>2, <1>3, <2>2 DEF CommitmentsInv, CommitmentsTypeOK, CommitmentRow
  <2> QED BY <2>1, <2>2
<1>5. /\ led' \in [CommitmentIds -> Ledger] /\ \A d \in CommitmentIds \ {r.c} : led'[d] = led[d]
      /\ led'[r.c]["ISSUE"] = IF r.amount = 0 THEN led[r.c]["ISSUE"] ELSE r.amount
      /\ \A t \in Later : led'[r.c][t] = led[r.c][t]
  <2>1. CASE r.amount = 0
    BY <1>2, <2>1 DEF CommitmentsInv, CommitmentsTypeOK
  <2>2. CASE r.amount # 0
    <3>1. led \in [CommitmentIds -> Ledger] /\ led[r.c] \in [CommitmentMovementType -> Nat]
      BY <1>3 DEF CommitmentsInv, CommitmentsTypeOK, Ledger
    <3>2. led' = [led EXCEPT ![r.c] = [led[r.c] EXCEPT !["ISSUE"] = r.amount]]
      BY <1>2, <2>2
    <3>3. [led[r.c] EXCEPT !["ISSUE"] = r.amount] \in Ledger
      BY <1>3, <3>1 DEF Ledger
    <3>4. led'[r.c] = [led[r.c] EXCEPT !["ISSUE"] = r.amount]
      BY <1>3, <3>1, <3>2
    <3>5. led'[r.c]["ISSUE"] = r.amount /\ \A t \in Later : led'[r.c][t] = led[r.c][t]
      BY <3>1, <3>4 DEF Later, CommitmentMovementType
    <3> QED BY <2>2, <3>1, <3>2, <3>3, <3>5
  <2> QED BY <2>1, <2>2
<1>6. row'[r.c].contract # None
  BY <1>3, <1>4 DEF HasRow
<1> QED BY <1>1, <1>2, <1>3, <1>4, <1>5, <1>6 DEF Written, Finish

\* What an archive writes at its commit.
LEMMA ArchiveWrites ==
  ASSUME CommitmentsInv, NEW s \in Sessions, ArchiveCommit(s)
  PROVE  /\ tx[s].op = "archive" /\ tx[s].c \in CommitmentIds
         /\ Written(s, tx[s].c) /\ meas' = meas /\ row'[tx[s].c].canceled
         /\ \A t \in CommitmentMovementType \ {"CANCELLATION"} : led'[tx[s].c][t] = led[tx[s].c][t]
<1>1. PICK r \in CommitmentRequest : r = tx[s]
  BY DEF CommitmentsInv, CommitmentsTypeOK
<1>2. /\ r.op = "archive" /\ ~LockedByOther(s, r.c) /\ Finish(s) /\ meas' = meas
      /\ row' = [row EXCEPT ![r.c].canceled = TRUE]
      /\ IF Net(r.led) > 0 THEN Post(r.c, "CANCELLATION", Net(r.led)) ELSE UNCHANGED led
  BY <1>1 DEF ArchiveCommit
<1>3. r.c \in CommitmentIds /\ r.led \in Ledger /\ HasRow(r.c)
  BY <1>1, <1>2, CommitmentRequestIs DEF CommitmentsInv, RowsComeFirst
<1>4. /\ row' \in [CommitmentIds -> CommitmentRow] /\ \A d \in CommitmentIds \ {r.c} : row'[d] = row[d]
      /\ row'[r.c].canceled /\ row'[r.c].contract # None
  BY <1>2, <1>3 DEF CommitmentsInv, CommitmentsTypeOK, CommitmentRow, HasRow
<1>5. /\ led' \in [CommitmentIds -> Ledger] /\ \A d \in CommitmentIds \ {r.c} : led'[d] = led[d]
      /\ \A t \in CommitmentMovementType \ {"CANCELLATION"} : led'[r.c][t] = led[r.c][t]
  <2>1. CASE Net(r.led) > 0
    <3>1. Net(r.led) \in Nat /\ "CANCELLATION" \in CommitmentMovementType
      BY <1>3, <2>1, LedgerEntries DEF CommitmentMovementType
    <3>2. Post(r.c, "CANCELLATION", Net(r.led)) /\ led \in [CommitmentIds -> Ledger]
      BY <1>2, <2>1 DEF CommitmentsInv, CommitmentsTypeOK
    <3> QED BY <1>3, <3>1, <3>2, Posted
  <2>2. CASE ~(Net(r.led) > 0)
    BY <1>2, <2>2 DEF CommitmentsInv, CommitmentsTypeOK
  <2> QED BY <2>1, <2>2
<1> QED BY <1>1, <1>2, <1>3, <1>4, <1>5 DEF Written, Finish

\* What a movement writes at its commit.
LEMMA MovementWrites ==
  ASSUME CommitmentsInv, NEW s \in Sessions, MovementCommit(s)
  PROVE  /\ tx[s].op = "movement" /\ tx[s].c \in CommitmentIds /\ tx[s].type \in Later
         /\ tx[s].amount \in Nat /\ tx[s].committed \in Int /\ tx[s].led = led[tx[s].c]
         /\ Written(s, tx[s].c) /\ meas' = meas /\ row' = row
         /\ led'[tx[s].c][tx[s].type] = led[tx[s].c][tx[s].type] + tx[s].amount
         /\ \A t \in CommitmentMovementType \ {tx[s].type} : led'[tx[s].c][t] = led[tx[s].c][t]
<1>1. PICK r \in CommitmentRequest : r = tx[s]
  BY DEF CommitmentsInv, CommitmentsTypeOK
<1>2. r.op = "movement" /\ Post(r.c, r.type, r.amount) /\ Finish(s) /\ row' = row /\ meas' = meas
  BY <1>1 DEF MovementCommit
<1>3. /\ r.c \in CommitmentIds /\ r.type \in Later /\ r.amount \in Nat /\ r.committed \in Int /\ HasRow(r.c)
      /\ r.led = led[r.c] /\ ~LockedByOther(s, r.c)
  BY <1>1, <1>2, CommitmentRequestIs DEF CommitmentsInv, RowsComeFirst, MovementsHold, LockedByOther
<1>4. r.type \in CommitmentMovementType
  BY <1>3 DEF Later
<1>5. /\ led' \in [CommitmentIds -> Ledger]
      /\ \A d \in CommitmentIds \ {r.c} : led'[d] = led[d]
      /\ led'[r.c][r.type] = led[r.c][r.type] + r.amount
      /\ \A t \in CommitmentMovementType \ {r.type} : led'[r.c][t] = led[r.c][t]
  BY <1>2, <1>3, <1>4, Posted DEF CommitmentsInv, CommitmentsTypeOK
<1>6. row' \in [CommitmentIds -> CommitmentRow] /\ row'[r.c].contract # None
  BY <1>2, <1>3 DEF CommitmentsInv, CommitmentsTypeOK, HasRow
<1> QED BY <1>1, <1>2, <1>3, <1>5, <1>6 DEF Written, Finish

\* What the settlement of a measurement writes at its commit.
LEMMA SettlementWrites ==
  ASSUME CommitmentsInv, NEW s \in Sessions, SettleCommit(s)
  PROVE  \E m \in Measurements, c \in CommitmentIds, type \in {"LIQUIDATION", "PAYMENT"}, net \in Nat :
           /\ tx[s].op = "settle" /\ m = tx[s].m /\ c = meas[m].commitment
           /\ BalanceAllows(tx[s].led, type, net)
           /\ Written(s, c) /\ row' = row
           /\ meas' \in [Measurements -> Measured] /\ meas'[m].commitment = c
           /\ \A n \in Measurements \ {m} : meas'[n] = meas[n]
           /\ led'[c][type] = led[c][type] + net
           /\ \A t \in CommitmentMovementType \ {type} : led'[c][t] = led[c][t]
<1>1. PICK m : m = tx[s].m
  OBVIOUS
<1>2. PICK type : type = Settlement[meas[m].status]
  OBVIOUS
<1>3. PICK c, net : c = meas[m].commitment /\ net = meas[m].net
  OBVIOUS
<1>4. /\ tx[s].op = "settle" /\ ~LockedByOther(s, c) /\ BalanceAllows(tx[s].led, type, net)
      /\ Post(c, type, net) /\ meas' = [meas EXCEPT ![m].status = Settled[@]]
      /\ Finish(s) /\ row' = row
  BY <1>1, <1>2, <1>3 DEF SettleCommit
<1>5. m \in Measurements /\ meas[m].status \in DOMAIN Settled /\ HasRow(c)
  BY <1>1, <1>3, <1>4, CommitmentRequestIs
     DEF CommitmentsInv, CommitmentsTypeOK, SettlementsHold, RowsComeFirst
<1>6. c \in CommitmentIds /\ net \in Nat /\ type \in {"LIQUIDATION", "PAYMENT"}
  BY <1>2, <1>3, <1>5 DEF CommitmentsInv, CommitmentsTypeOK, Measured, HasRow, Settled, Settlement
<1>7. /\ led' \in [CommitmentIds -> Ledger]
      /\ \A d \in CommitmentIds \ {c} : led'[d] = led[d]
      /\ led'[c][type] = led[c][type] + net
      /\ \A t \in CommitmentMovementType \ {type} : led'[c][t] = led[c][t]
  <2>1. type \in CommitmentMovementType
    BY <1>6 DEF CommitmentMovementType
  <2> QED BY <1>4, <1>6, <2>1, Posted DEF CommitmentsInv, CommitmentsTypeOK
<1>8. row' \in [CommitmentIds -> CommitmentRow] /\ row'[c].contract # None
  BY <1>4, <1>5 DEF CommitmentsInv, CommitmentsTypeOK, HasRow
<1>9. /\ meas' \in [Measurements -> Measured] /\ meas'[m].commitment = c
      /\ \A n \in Measurements \ {m} : meas'[n] = meas[n]
  <2>1. Settled[meas[m].status] \in {None, "APPROVED", "LIQUIDATED", "PAID"}
    BY <1>5 DEF Settled
  <2>2. meas[m] \in Measured
    BY <1>5 DEF CommitmentsInv, CommitmentsTypeOK
  <2>3. [meas[m] EXCEPT !.status = Settled[meas[m].status]] \in Measured
    BY <2>1, <2>2 DEF Measured
  <2>4. meas' = [meas EXCEPT ![m] = [meas[m] EXCEPT !.status = Settled[meas[m].status]]]
    BY <1>4
  <2> QED BY <1>3, <1>5, <2>2, <2>3, <2>4 DEF CommitmentsInv, CommitmentsTypeOK, Measured
<1>10. Written(s, c)
  BY <1>4, <1>7, <1>8 DEF Written, Finish
<1> USE <1>5, <1>6
<1> WITNESS m \in Measurements, c \in CommitmentIds, type \in {"LIQUIDATION", "PAYMENT"}, net \in Nat
<1> QED BY <1>1, <1>3, <1>4, <1>7, <1>9, <1>10

-----------------------------------------------------------------------------
(* The steps keep the invariant.                                           *)

\* Reads write nothing.
LEMMA ReadsKeep ==
  ASSUME CommitmentsInv, NEW s \in Sessions, NEW c \in CommitmentIds
  PROVE  /\ \A to \in Contracts \cup {None}, amount \in IssuedAmounts \cup {0} :
              UpdateRead(s, c, to, amount) => CommitmentsInv'
         /\ ArchiveRead(s, c) => CommitmentsInv'
         /\ \A type \in Later, amount \in MovedAmounts :
              MovementStart(s, c, type, amount) => CommitmentsInv'
<1>0. /\ led[c] \in Ledger /\ row[c] \in CommitmentRow
      /\ Live(c) => HasRow(c) /\ row[c].contract \in Contracts
  BY DEF CommitmentsInv, CommitmentsTypeOK, Live, HasRow, CommitmentRow
<1>1. ASSUME NEW to \in Contracts \cup {None}, NEW amount \in IssuedAmounts \cup {0},
             UpdateRead(s, c, to, amount)
      PROVE  CommitmentsInv'
  <2>1. PICK r : r = [op |-> "update", c |-> c, from |-> row[c].contract, led |-> led[c],
                      to |-> to, amount |-> amount]
    OBVIOUS
  <2>2. amount \in Nat
    BY AmountsArePositive
  <2>3. r \in CommitmentRequest
    BY <1>0, <1>1, <2>1, <2>2 DEF CommitmentRequest, UpdateRead
  <2> QED BY <1>0, <1>1, <2>1, <2>3, SessionKeeps DEF UpdateRead, NoneLater
<1>2. ASSUME ArchiveRead(s, c) PROVE CommitmentsInv'
  <2>1. PICK r : r = [op |-> "archive", c |-> c, led |-> led[c]]
    OBVIOUS
  <2>2. r \in CommitmentRequest
    BY <1>0, <2>1 DEF CommitmentRequest
  <2> QED BY <1>0, <1>2, <2>1, <2>2, SessionKeeps DEF ArchiveRead
<1>3. ASSUME NEW type \in Later, NEW amount \in MovedAmounts, MovementStart(s, c, type, amount)
      PROVE  CommitmentsInv'
  <2>1. PICK committed :
          committed = IF type = "REINFORCEMENT" THEN Committed(row[c].contract) ELSE 0
    OBVIOUS
  <2>2. committed \in Int
    BY <2>1, CommittedIsInt DEF CommitmentsInv
  <2>3. PICK r : r = [op |-> "movement", c |-> c, type |-> type, amount |-> amount, led |-> led[c],
                      committed |-> committed]
    OBVIOUS
  <2>4. amount \in Nat
    BY AmountsArePositive
  <2>5. r \in CommitmentRequest
    BY <1>0, <2>2, <2>3, <2>4 DEF CommitmentRequest
  <2> QED BY <1>0, <1>3, <2>1, <2>3, <2>5, SessionKeeps DEF MovementStart
<1> QED BY <1>1, <1>2, <1>3

\* Nor do those of a settlement.
LEMMA SettleReadKeeps ==
  ASSUME CommitmentsInv, NEW s \in Sessions, NEW m \in Measurements, SettleStart(s, m)
  PROVE  CommitmentsInv'
<1>1. PICK r : r = [op |-> "settle", m |-> m, led |-> led[meas[m].commitment]]
  OBVIOUS
<1>2. led[meas[m].commitment] \in Ledger
  BY DEF SettleStart, CommitmentsInv, CommitmentsTypeOK, RowsComeFirst, HasRow
<1>3. r \in CommitmentRequest
  BY <1>1, <1>2 DEF CommitmentRequest
<1> QED BY <1>1, <1>3, SessionKeeps DEF SettleStart

\* The ends of requests keep the invariant.
LEMMA EndsKeep ==
  ASSUME CommitmentsInv, NEW s \in Sessions,
         \/ UpdateCommit(s) \/ ArchiveCommit(s) \/ MovementCommit(s) \/ SettleCommit(s)
         \/ \E c \in CommitmentIds, k \in Contracts, amount \in IssuedAmounts :
              CreateCommitment(s, c, k, amount)
  PROVE  CommitmentsInv'
<1>1. ASSUME NEW c \in CommitmentIds, Written(s, c), meas' = meas PROVE CommitmentsInv'
  <2>1. meas' \in [Measurements -> Measured]
    BY <1>1 DEF CommitmentsInv, CommitmentsTypeOK
  <2> QED BY <1>1, <2>1, EndKeeps DEF Written
<1>2. CASE SettleCommit(s)
  <2>1. PICK m \in Measurements, c \in CommitmentIds :
          /\ tx[s].op = "settle" /\ m = tx[s].m /\ c = meas[m].commitment
          /\ Written(s, c) /\ meas' \in [Measurements -> Measured] /\ meas'[m].commitment = c
          /\ \A n \in Measurements \ {m} : meas'[n] = meas[n]
    BY <1>2, SettlementWrites
  <2>2. \A n \in Measurements :
          \/ meas'[n] = meas[n]
          \/ tx[s].op = "settle" /\ tx[s].m = n /\ meas'[n].commitment = meas[n].commitment
    BY <2>1
  <2> QED BY <2>1, <2>2, EndKeeps DEF Written
<1> QED BY <1>1, <1>2, CreationWrites, UpdateWrites, ArchiveWrites, MovementWrites

\* So does the approval of a measurement.
LEMMA ApproveKeeps ==
  ASSUME CommitmentsInv, NEW m \in Measurements, NEW c \in CommitmentIds, NEW net \in MovedAmounts,
         Approve(m, c, net)
  PROVE  CommitmentsInv'
<1>1. PICK new : new = [status |-> "APPROVED", commitment |-> c, net |-> net]
  OBVIOUS
<1>2. /\ meas[m] = Unmeasured /\ Live(c) /\ meas' = [meas EXCEPT ![m] = new]
      /\ UNCHANGED <<row, led, tx>> /\ new \in Measured
  BY <1>1, AmountsArePositive DEF Approve, Measured
<1>3. meas' \in [Measurements -> Measured] /\ meas'[m] = new /\ \A n \in Measurements \ {m} : meas'[n] = meas[n]
  BY <1>2 DEF CommitmentsInv, CommitmentsTypeOK
<1>4. \A s \in Sessions : tx[s].op = "settle" => tx[s].m \in Measurements \ {m}
  BY <1>2, CommitmentRequestIs DEF CommitmentsInv, CommitmentsTypeOK, SettlementsHold, Unmeasured, Settled, None
<1>5. CommitmentsTypeOK'
  BY <1>2, <1>3 DEF CommitmentsInv, CommitmentsTypeOK
<1>6. RowsComeFirst'
  BY <1>1, <1>2, <1>3 DEF CommitmentsInv, RowsComeFirst, HasRow, Live
<1>7. UpdatesComeFirst' /\ MovementsHold'
  BY <1>2 DEF CommitmentsInv, UpdatesComeFirst, MovementsHold
<1>8. SettlementsHold'
  BY <1>2, <1>3, <1>4 DEF CommitmentsInv, SettlementsHold
<1> QED BY <1>5, <1>6, <1>7, <1>8 DEF CommitmentsInv

\* And every step.
LEMMA CommitmentsKeep == CommitmentsInv /\ [Next]_vars => CommitmentsInv'
<1> SUFFICES ASSUME CommitmentsInv, [Next]_vars PROVE CommitmentsInv'
  OBVIOUS
<1>1. CASE UNCHANGED vars
  BY <1>1 DEF vars, CommitmentsInv, CommitmentsTypeOK, RowsComeFirst, HasRow, UpdatesComeFirst,
     MovementsHold, SettlementsHold
<1>2. ASSUME NEW s \in Sessions, Abandon(s) PROVE CommitmentsInv'
  <2>1. NoRequest \in CommitmentRequest /\ NoRequest.op = "idle"
    BY DEF CommitmentRequest, NoRequest
  <2> QED BY <1>2, <2>1, SessionKeeps DEF Abandon, Finish
<1> QED BY <1>1, <1>2, ReadsKeep, SettleReadKeeps, EndsKeep, ApproveKeeps DEF Next, SessionStep

\* The invariant of the commitments.
LEMMA CommitmentsSpecKeeps == Spec => []CommitmentsInv
BY CommitmentsBegin, CommitmentsKeep, PTL DEF Spec

-----------------------------------------------------------------------------
(* The balances.                                                           *)

LiquidationFits(c) == led[c]["LIQUIDATION"] <= Net(led[c]) \/ row[c].canceled

PaymentFits(c) == led[c]["PAYMENT"] <= led[c]["LIQUIDATION"]

\* The three balances hold after a step that writes commitment c, if they do of c.
LEMMA BalancedAfter ==
  ASSUME CommitmentsInv, CommitmentsInv', Balanced, NEW c \in CommitmentIds,
         \A d \in CommitmentIds \ {c} : row'[d] = row[d] /\ led'[d] = led[d],
         \A k \in Contracts : \/ Part(c, k)' <= Part(c, k)
                              \/ Committed(k) - Part(c, k) + Part(c, k)' <= ContractValue,
         LiquidationFits(c)', PaymentFits(c)'
  PROVE  Balanced'
<1>1. ASSUME NEW k \in Contracts PROVE Committed(k)' <= ContractValue
  <2>1. Committed(k)' = Committed(k) - Part(c, k) + Part(c, k)' /\ Committed(k) \in Int
    BY CommittedMoves, CommittedIsInt DEF CommitmentsInv
  <2>2. Part(c, k) \in Int /\ Part(c, k)' \in Int
    BY LedgerEntries DEF Part, CommitmentsInv, CommitmentsTypeOK
  <2>3. Committed(k) <= ContractValue
    BY DEF Balanced, CommitmentsWithinContract
  <2> QED BY <2>1, <2>2, <2>3, AmountsArePositive
<1>2. LiquidationWithinCommitted'
  BY DEF Balanced, LiquidationWithinCommitted, LiquidationFits
<1>3. PaymentWithinLiquidation'
  BY DEF Balanced, PaymentWithinLiquidation, PaymentFits
<1> QED BY <1>1, <1>2, <1>3 DEF Balanced, CommitmentsWithinContract

\* Balances stay while the rows do.
LEMMA BalancedStays ==
  ASSUME Balanced, UNCHANGED <<row, led>>
  PROVE  Balanced'
<1>1. \A k \in Contracts : Committed(k)' = Committed(k)
  BY DEF Committed, Live
<1> QED BY <1>1 DEF Balanced, CommitmentsWithinContract, LiquidationWithinCommitted, PaymentWithinLiquidation

\* A fresh read is what is there at the commit.
LEMMA FreshMeans ==
  ASSUME NEW s \in Sessions, Fresh(s)
  PROVE  /\ tx[s].op = "update" => tx[s].led = led[tx[s].c] /\ tx[s].from = row[tx[s].c].contract
         /\ tx[s].op = "movement" /\ tx[s].type = "REINFORCEMENT" =>
              tx[s].committed = Committed(row[tx[s].c].contract)
         /\ tx[s].op = "settle" => tx[s].led = led[meas[tx[s].m].commitment]
BY DEF Fresh

\* A request that ends by a step that is not stale has read what is still so.
LEMMA EndsWithFreshReads ==
  ASSUME CommitmentsInv, ~StaleRequestEnds, NEW s \in Sessions, tx[s].op # "idle",
         NEW c \in CommitmentIds, Written(s, c)
  PROVE  Fresh(s)
<1>1. tx' = [tx EXCEPT ![s] = NoRequest] /\ tx[s] # NoRequest
  BY DEF Written, NoRequest
<1> QED BY <1>1 DEF StaleRequestEnds, CommitmentsInv, CommitmentsTypeOK

\* A creation after fresh reads keeps the balances.
LEMMA CreationBalances ==
  ASSUME CommitmentsInv, CommitmentsInv', Balanced, NEW s \in Sessions, NEW c \in CommitmentIds,
         NEW k \in Contracts, NEW amount \in IssuedAmounts, CreateCommitment(s, c, k, amount)
  PROVE  Balanced'
<1>1. /\ Written(s, c) /\ amount \in Nat /\ ~Live(c) /\ row'[c].contract = k
      /\ led'[c]["ISSUE"] = amount /\ \A t \in Later : led'[c][t] = 0
  BY CreationWrites
<1>2. Committed(k) + amount <= ContractValue
  BY DEF CreateCommitment, FitsCeiling
<1>3. Net(led'[c]) = amount /\ led'[c]["LIQUIDATION"] = 0 /\ led'[c]["PAYMENT"] = 0
  BY <1>1 DEF Net, Later, CommitmentMovementType
<1>4. \A j \in Contracts : Part(c, j) = 0 /\ Part(c, j)' \in {0, amount} /\ (j # k => Part(c, j)' = 0)
  BY <1>1, <1>3 DEF Part, Live
<1>5. \A j \in Contracts : \/ Part(c, j)' <= Part(c, j)
                           \/ Committed(j) - Part(c, j) + Part(c, j)' <= ContractValue
  BY <1>1, <1>2, <1>4, CommittedIsInt DEF CommitmentsInv
<1> QED BY <1>1, <1>3, <1>5, BalancedAfter DEF Written, LiquidationFits, PaymentFits

\* So does an update.
LEMMA UpdateBalances ==
  ASSUME CommitmentsInv, CommitmentsInv', Balanced, ~StaleRequestEnds, NEW s \in Sessions, UpdateCommit(s)
  PROVE  Balanced'
<1>1. PICK r \in CommitmentRequest : r = tx[s]
  BY DEF CommitmentsInv, CommitmentsTypeOK
<1>2. PICK c \in CommitmentIds : c = r.c
  BY <1>1, UpdateWrites
<1>3. /\ r.op = "update" /\ Written(s, c) /\ row'[c].canceled = row[c].canceled
      /\ row'[c].contract = IF r.to = None THEN row[c].contract ELSE r.to
      /\ led'[c]["ISSUE"] = IF r.amount = 0 THEN led[c]["ISSUE"] ELSE r.amount
      /\ \A t \in Later : led'[c][t] = led[c][t]
  BY <1>1, <1>2, UpdateWrites
<1>4. r.led = led[c] /\ r.from = row[c].contract /\ NoneLater(led[c])
  <2>1. Fresh(s)
    BY <1>1, <1>3, EndsWithFreshReads
  <2>2. r.led = led[c] /\ r.from = row[c].contract
    BY <1>1, <1>2, <1>3, <2>1, FreshMeans
  <2> QED BY <1>1, <1>3, <2>2 DEF CommitmentsInv, UpdatesComeFirst
<1>5. PICK old \in Nat : old = led[c]["ISSUE"]
  BY LedgerEntries DEF CommitmentsInv, CommitmentsTypeOK
<1>6. PICK new \in Nat : new = led'[c]["ISSUE"]
  BY LedgerEntries DEF CommitmentsInv, CommitmentsTypeOK
<1>7. /\ Target(r) = row'[c].contract /\ Proposed(r) = new /\ Increase(r) = new - old
  BY <1>3, <1>4, <1>5, <1>6 DEF Target, Proposed, Increase
<1>8. /\ Net(led[c]) = old /\ Net(led'[c]) = new
      /\ led'[c]["LIQUIDATION"] = 0 /\ led'[c]["PAYMENT"] = 0
  BY <1>3, <1>4, <1>5, <1>6 DEF Net, NoneLater, Later, CommitmentMovementType
<1>9. ASSUME NEW k \in Contracts
      PROVE  \/ Part(c, k)' <= Part(c, k)
             \/ Committed(k) - Part(c, k) + Part(c, k)' <= ContractValue
  <2>1. Committed(k) \in Int /\ ContractValue \in Int
    BY CommittedIsInt, AmountsArePositive DEF CommitmentsInv
  <2>2. /\ Part(c, k) = IF Live(c) /\ row[c].contract = k THEN old ELSE 0
        /\ Part(c, k)' = IF Live(c)' /\ row'[c].contract = k THEN new ELSE 0
        /\ Live(c)' => Live(c)
    <3>1. row[c].contract # None /\ row'[c].contract # None
      BY <1>1, <1>2, <1>3 DEF Written, CommitmentsInv, RowsComeFirst, HasRow
    <3>2. Live(c)' <=> Live(c)
      BY <1>3, <3>1 DEF Live
    <3> QED BY <1>8, <3>2 DEF Part
  <2>3. CASE row'[c].contract # k \/ ~Live(c)'
    BY <2>2, <2>3
  <2>4. CASE row'[c].contract = k /\ Live(c)' /\ row[c].contract = k
    <3>1. new - old > 0 => Committed(k) + (new - old) <= ContractValue
      BY <1>1, <1>4, <1>7, <2>4 DEF UpdateCommit, ProposalFits, IncreaseFits, FitsCeiling
    <3>2. Part(c, k) = old /\ Part(c, k)' = new
      BY <2>2, <2>4
    <3> QED BY <2>1, <3>1, <3>2
  <2>5. CASE row'[c].contract = k /\ Live(c)' /\ row[c].contract # k
    <3>1. Committed(k) + new <= ContractValue
      BY <1>1, <1>4, <1>7, <2>5 DEF UpdateCommit, ProposalFits, FitsCeiling
    <3>2. Part(c, k) = 0 /\ Part(c, k)' = new
      BY <2>2, <2>5
    <3> QED BY <2>1, <3>1, <3>2
  <2> QED BY <2>3, <2>4, <2>5
<1> QED BY <1>3, <1>8, <1>9, BalancedAfter DEF Written, LiquidationFits, PaymentFits

\* And an archive.
LEMMA ArchiveBalances ==
  ASSUME CommitmentsInv, CommitmentsInv', Balanced, NEW s \in Sessions, ArchiveCommit(s)
  PROVE  Balanced'
<1>1. PICK c \in CommitmentIds : c = tx[s].c
  BY ArchiveWrites
<1>2. /\ Written(s, c) /\ row'[c].canceled
      /\ led'[c]["LIQUIDATION"] = led[c]["LIQUIDATION"] /\ led'[c]["PAYMENT"] = led[c]["PAYMENT"]
  BY <1>1, ArchiveWrites DEF CommitmentMovementType
<1>3. \A k \in Contracts : Part(c, k)' <= Part(c, k)
  <2>1. Live(c) => Net(led[c]) >= 0 /\ Net(led[c]) \in Int
    BY LedgerEntries DEF Balanced, LiquidationWithinCommitted, Live, CommitmentsInv, CommitmentsTypeOK
  <2> QED BY <1>2, <2>1 DEF Part, Live
<1> QED BY <1>2, <1>3, BalancedAfter
        DEF Written, LiquidationFits, PaymentFits, Balanced, PaymentWithinLiquidation

\* And a movement.
LEMMA MovementBalances ==
  ASSUME CommitmentsInv, CommitmentsInv', Balanced, ~StaleRequestEnds, NEW s \in Sessions, MovementCommit(s)
  PROVE  Balanced'
<1>1. PICK r \in CommitmentRequest : r = tx[s]
  BY DEF CommitmentsInv, CommitmentsTypeOK
<1>2. PICK c \in CommitmentIds : c = r.c
  BY <1>1, MovementWrites
<1>3. /\ r.op = "movement" /\ r.type \in Later /\ r.amount \in Nat /\ r.led = led[c]
      /\ Written(s, c) /\ row' = row
      /\ led'[c][r.type] = led[c][r.type] + r.amount
      /\ \A t \in CommitmentMovementType \ {r.type} : led'[c][t] = led[c][t]
  BY <1>1, <1>2, MovementWrites
<1>4. /\ r.type = "REINFORCEMENT" => Committed(row[c].contract) + r.amount <= ContractValue
      /\ BalanceAllows(led[c], r.type, r.amount)
  <2>1. Fresh(s)
    BY <1>1, <1>3, EndsWithFreshReads
  <2>2. r.type = "REINFORCEMENT" => r.committed = Committed(row[c].contract)
    BY <1>1, <1>2, <1>3, <2>1, FreshMeans
  <2> QED BY <1>1, <1>3, <2>2 DEF MovementCommit, FitsCeiling
<1>5. /\ led[c]["ISSUE"] \in Nat /\ led[c]["REINFORCEMENT"] \in Nat /\ led[c]["CANCELLATION"] \in Nat
      /\ led[c]["LIQUIDATION"] \in Nat /\ led[c]["PAYMENT"] \in Nat /\ Net(led[c]) \in Int
  BY LedgerEntries DEF CommitmentsInv, CommitmentsTypeOK
<1>6. /\ LiquidationFits(c) /\ PaymentFits(c)
  BY DEF Balanced, LiquidationWithinCommitted, PaymentWithinLiquidation, LiquidationFits, PaymentFits
<1>7. /\ Net(led'[c]) = Net(led[c]) + (CASE r.type = "REINFORCEMENT" -> r.amount
                                         [] r.type = "CANCELLATION" -> -r.amount
                                         [] OTHER -> 0)
      /\ led'[c]["LIQUIDATION"] = led[c]["LIQUIDATION"] + (IF r.type = "LIQUIDATION" THEN r.amount ELSE 0)
      /\ led'[c]["PAYMENT"] = led[c]["PAYMENT"] + (IF r.type = "PAYMENT" THEN r.amount ELSE 0)
  BY <1>3, <1>5 DEF Net, Later, CommitmentMovementType
<1>8. ASSUME NEW k \in Contracts
      PROVE  \/ Part(c, k)' <= Part(c, k)
             \/ Committed(k) - Part(c, k) + Part(c, k)' <= ContractValue
  <2>1. Committed(k) \in Int /\ ContractValue \in Int
    BY CommittedIsInt, AmountsArePositive DEF CommitmentsInv
  <2>2. CASE Live(c) /\ row[c].contract = k
    <3>1. Part(c, k) = Net(led[c]) /\ Part(c, k)' = Net(led'[c])
      BY <1>3, <2>2 DEF Part, Live
    <3> QED BY <1>3, <1>4, <1>5, <1>7, <2>1, <2>2, <3>1 DEF Later, CommitmentMovementType
  <2>3. CASE ~(Live(c) /\ row[c].contract = k)
    BY <1>3, <2>3 DEF Part, Live
  <2> QED BY <2>2, <2>3
<1>9. LiquidationFits(c)' /\ PaymentFits(c)'
  BY <1>3, <1>4, <1>5, <1>6, <1>7 DEF LiquidationFits, PaymentFits, BalanceAllows, Later, CommitmentMovementType
<1> QED BY <1>3, <1>8, <1>9, BalancedAfter DEF Written

\* And a settlement.
LEMMA SettlementBalances ==
  ASSUME CommitmentsInv, CommitmentsInv', Balanced, ~StaleRequestEnds, NEW s \in Sessions, SettleCommit(s)
  PROVE  Balanced'
<1>1. PICK m \in Measurements, c \in CommitmentIds, type \in {"LIQUIDATION", "PAYMENT"}, net \in Nat :
        /\ tx[s].op = "settle" /\ m = tx[s].m /\ c = meas[m].commitment
        /\ BalanceAllows(tx[s].led, type, net)
        /\ Written(s, c) /\ row' = row
        /\ led'[c][type] = led[c][type] + net
        /\ \A t \in CommitmentMovementType \ {type} : led'[c][t] = led[c][t]
  BY SettlementWrites
<1>2. tx[s].led = led[c]
  <2>1. Fresh(s)
    BY <1>1, EndsWithFreshReads
  <2> QED BY <1>1, <2>1, FreshMeans
<1>3. /\ led[c]["LIQUIDATION"] \in Nat /\ led[c]["PAYMENT"] \in Nat /\ Net(led[c]) \in Int
  BY LedgerEntries DEF CommitmentsInv, CommitmentsTypeOK
<1>4. /\ Net(led'[c]) = Net(led[c])
      /\ led'[c]["LIQUIDATION"] = led[c]["LIQUIDATION"] + (IF type = "LIQUIDATION" THEN net ELSE 0)
      /\ led'[c]["PAYMENT"] = led[c]["PAYMENT"] + (IF type = "PAYMENT" THEN net ELSE 0)
  <2>1. /\ led'[c]["ISSUE"] = led[c]["ISSUE"] /\ led'[c]["REINFORCEMENT"] = led[c]["REINFORCEMENT"]
        /\ led'[c]["CANCELLATION"] = led[c]["CANCELLATION"]
    BY <1>1 DEF CommitmentMovementType
  <2>2. CASE type = "LIQUIDATION"
    <3>1. led'[c]["LIQUIDATION"] = led[c]["LIQUIDATION"] + net /\ led'[c]["PAYMENT"] = led[c]["PAYMENT"]
      BY <1>1, <2>2 DEF CommitmentMovementType
    <3> QED BY <1>3, <2>1, <2>2, <3>1 DEF Net
  <2>3. CASE type = "PAYMENT"
    <3>1. led'[c]["PAYMENT"] = led[c]["PAYMENT"] + net /\ led'[c]["LIQUIDATION"] = led[c]["LIQUIDATION"]
      BY <1>1, <2>3 DEF CommitmentMovementType
    <3> QED BY <1>3, <2>1, <2>3, <3>1 DEF Net
  <2> QED BY <1>1, <2>2, <2>3
<1>5. \A k \in Contracts : Part(c, k)' <= Part(c, k)
  <2>1. row' = row
    BY <1>1
  <2>2. \A k \in Contracts : Part(c, k)' = Part(c, k) /\ Part(c, k) \in Int
    BY <1>3, <1>4, <2>1 DEF Part, Live
  <2> QED BY <2>2
<1>6. LiquidationFits(c) /\ PaymentFits(c)
  BY DEF Balanced, LiquidationWithinCommitted, PaymentWithinLiquidation, LiquidationFits, PaymentFits
<1>7. LiquidationFits(c)' /\ PaymentFits(c)'
  <2>1. BalanceAllows(led[c], type, net) /\ row' = row /\ net \in Nat
    BY <1>1, <1>2
  <2> QED BY <1>3, <1>4, <1>6, <2>1 DEF LiquidationFits, PaymentFits, BalanceAllows
<1> QED BY <1>1, <1>5, <1>7, BalancedAfter DEF Written

\* So no step but a stale one breaks a balance.
LEMMA FreshStepsBalance ==
  ASSUME CommitmentsInv, CommitmentsInv', [Next]_vars, Balanced, ~StaleRequestEnds
  PROVE  Balanced'
<1>1. \/ UNCHANGED <<row, led>>
      \/ \E s \in Sessions :
           \/ UpdateCommit(s) \/ ArchiveCommit(s) \/ MovementCommit(s) \/ SettleCommit(s)
           \/ \E c \in CommitmentIds, k \in Contracts, amount \in IssuedAmounts :
                CreateCommitment(s, c, k, amount)
  BY DEF Next, SessionStep, vars, MovementStart, UpdateRead, ArchiveRead, SettleStart, Abandon, Approve
<1> QED BY <1>1, BalancedStays, CreationBalances, UpdateBalances, ArchiveBalances, MovementBalances,
           SettlementBalances

-----------------------------------------------------------------------------
\* The commitments of a contract come to exceed it only by the end of a request that
\* decided on reads that are not so any more, for any number of them, of sessions and of
\* amounts: the lock on the commitment and the checks suffice for all others.
THEOREM CommitmentsOverrunOnlyByStaleReads == Spec => CeilingKeptWhenFresh
<1>1. CommitmentsInv /\ CommitmentsInv' /\ [Next]_vars
        => [Balanced /\ ~CommitmentsWithinContract' => StaleRequestEnds]_vars
  BY FreshStepsBalance DEF Balanced
<1> QED BY <1>1, CommitmentsSpecKeeps, PTL DEF Spec, CeilingKeptWhenFresh

\* Nor is more liquidated than is committed,
THEOREM LiquidationsOverrunOnlyByStaleReads == Spec => LiquidationKeptWhenFresh
<1>1. CommitmentsInv /\ CommitmentsInv' /\ [Next]_vars
        => [Balanced /\ ~LiquidationWithinCommitted' => StaleRequestEnds]_vars
  BY FreshStepsBalance DEF Balanced
<1> QED BY <1>1, CommitmentsSpecKeeps, PTL DEF Spec, LiquidationKeptWhenFresh

\* or more paid than is liquidated.
THEOREM PaymentsOverrunOnlyByStaleReads == Spec => PaymentKeptWhenFresh
<1>1. CommitmentsInv /\ CommitmentsInv' /\ [Next]_vars
        => [Balanced /\ ~PaymentWithinLiquidation' => StaleRequestEnds]_vars
  BY FreshStepsBalance DEF Balanced
<1> QED BY <1>1, CommitmentsSpecKeeps, PTL DEF Spec, PaymentKeptWhenFresh
=============================================================================

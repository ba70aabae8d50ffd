--------------------------- MODULE ContractValue ---------------------------
(***************************************************************************)
(* The value of one contract and its contract budget                       *)
(* (contracts.service.ts, budgets.service.ts).  currentValue is stored: it *)
(* is recomputed from the original value and the active amendments,        *)
(* adjustments and apostilles by each transaction that changes one of      *)
(* them.  An ACTIVE budget must total exactly that value.                  *)
(*                                                                         *)
(* Transactions are REPEATABLE READ: their reads come from one snapshot,   *)
(* taken at the first of them, while their updates write what is committed.*)
(* The variables are the committed rows.  A transaction that locks the     *)
(* contract before it reads is one step; any other has a Start step, that  *)
(* takes the snapshot and works out what will be written, and a Commit     *)
(* step.  The updates of the contract and budget rows come last, after     *)
(* which nothing makes the transaction wait.                               *)
(*                                                                         *)
(* Left out: the end date that recomputeFinancials keeps, the archiving of *)
(* the contract (SlaPolicies has it), and what an entry is beside its      *)
(* amount.  DRAFT and ARCHIVED budgets are treated alike by the code.      *)
(***************************************************************************)
EXTENDS Integers, Functions

CONSTANTS Entries,    \* amendments, adjustments and apostilles
          Lines,      \* items and labour posts of the contract budget
          Editors,    \* transactions of the users
          Originals,  \* original values of the contract
          Amounts,    \* financial effects of an entry, of either sign
          Costs       \* totals of a line included in the total

VARIABLES
  original,  \* Contract.originalValue
  current,   \* Contract.currentValue
  entry,     \* entry[i]: its amount, 0 when it is canceled, not created or without effect
  line,      \* line[k]: its cost, 0 when it is deleted or not created
  budget,    \* ContractBudget: ACTIVE or not, and its total
  edit       \* edit[e]: the transaction that e has open

rows == <<original, current, entry, line, budget>>
contractVars == <<rows, edit>>

Idle == [op |-> "idle"]

ContractInit ==
  /\ original \in Originals
  /\ current = original
  /\ entry = [i \in Entries |-> 0]
  /\ line = [k \in Lines |-> 0]
  /\ budget = [active |-> FALSE, total |-> 0]   \* as good as no budget
  /\ edit = [e \in Editors |-> Idle]

Editing(e, op) == edit[e].op = op
EntryLocked(i) == \E e \in Editors : Editing(e, "entry") /\ edit[e].i = i
LineLocked(k) == \E e \in Editors : Editing(e, "line") /\ edit[e].k = k

\* updateContractBudget holds the contract from its first statement on.
ContractLocked == \E e \in Editors : Editing(e, "activate")

\* What the open transactions that read "ops" have read is not what is committed now.
Overtake(ops) ==
  [e \in Editors |-> IF edit[e].op \in ops THEN [edit[e] EXCEPT !.overtaken = TRUE] ELSE edit[e]]

Start(e, transaction) ==
  /\ Editing(e, "idle")
  /\ edit' = [edit EXCEPT ![e] = transaction]
  /\ UNCHANGED rows

Rollback(e) ==
  /\ ~Editing(e, "idle")
  /\ edit' = [edit EXCEPT ![e] = Idle]
  /\ UNCHANGED rows

-----------------------------------------------------------------------------
(* The value of the contract                                               *)

\* Mutant: the active budget stays active when the value moves away from it.
StaysActive(value) == budget

\* The budget that recomputeFinancials leaves, once the value is stored.
Redraft(value) == [budget EXCEPT !.active = @ /\ budget.total = value]

Store(value) ==
  /\ ~ContractLocked
  /\ current' = value
  /\ budget' = Redraft(value)

\* addAmendment, addAdjustment and addApostille lock the contract and then read; only
\* the apostille looks at the sign of the result.
AddEntry(i, amount, kind) ==
  /\ entry[i] = 0 /\ ~EntryLocked(i)
  /\ kind = "apostille" => current + amount >= 0
  /\ entry' = [entry EXCEPT ![i] = amount]
  /\ Store(original + SumFunction(entry'))
  /\ edit' = Overtake({"entry", "update"})
  /\ UNCHANGED <<original, line>>

\* Mutant: what is canceled is left in the value.
SnapshotOfActive(i, amount) == original + SumFunction([entry EXCEPT ![i] = IF amount = 0 THEN @ ELSE amount])

\* The value that recomputeFinancials works out for an entry its transaction has edited.
Snapshot(i, amount) == original + SumFunction([entry EXCEPT ![i] = amount])

\* updateGovernanceEntry, archiveGovernanceEntry (amount 0): the entry is updated, and
\* locked, and the rest is read with no lock of the contract.
EditEntryStart(e, i, amount) ==
  /\ ~EntryLocked(i)
  /\ Start(e, [op |-> "entry", i |-> i, amount |-> amount,
               value |-> Snapshot(i, amount), overtaken |-> FALSE])

EditEntryCommit(e) ==
  /\ Editing(e, "entry")
  /\ entry' = [entry EXCEPT ![edit[e].i] = edit[e].amount]
  /\ Store(edit[e].value)
  /\ edit' = [Overtake({"entry", "update"}) EXCEPT ![e] = Idle]
  /\ UNCHANGED <<original, line>>

\* update: Prisma reads the contract before it updates it.  The original value is written
\* only when it is sent.
UpdateContractStart(e, o, sent) ==
  /\ ~sent => o = original
  /\ Start(e, [op |-> "update", original |-> o, sent |-> sent, value |-> o + SumFunction(entry),
               overtaken |-> FALSE])

UpdateContractCommit(e) ==
  /\ Editing(e, "update")
  /\ original' = IF edit[e].sent THEN edit[e].original ELSE original
  /\ Store(edit[e].value)
  /\ edit' = [Overtake({"entry", "update"}) EXCEPT ![e] = Idle]
  /\ UNCHANGED <<entry, line>>

-----------------------------------------------------------------------------
(* The contract budget                                                     *)

\* ensureContractBudget, a statement of its own before the transactions that call it.
EnsureBudget ==
  /\ budget' = [budget EXCEPT !.active = FALSE]
  /\ UNCHANGED <<original, current, entry, line, edit>>

\* refreshContractBudget.
Refresh(total) == [active |-> FALSE, total |-> total]

\* upsertContractBudgetItem, upsertContractLaborPost and their archiving (cost 0): the
\* line is written, all are read, the budget is written.  Creating a line locks the
\* budget row for its foreign key: of two such transactions one is rolled back.
EditLineStart(e, k, cost) ==
  /\ ~LineLocked(k)
  /\ line[k] = 0 =>
       cost # 0 /\ ~\E o \in Editors : Editing(o, "line") /\ line[edit[o].k] = 0
  /\ Start(e, [op |-> "line", k |-> k, cost |-> cost,
               total |-> SumFunction([line EXCEPT ![k] = cost]), overtaken |-> FALSE])

EditLineCommit(e) ==
  /\ Editing(e, "line")
  /\ line' = [line EXCEPT ![edit[e].k] = edit[e].cost]
  /\ budget' = Refresh(edit[e].total)
  /\ edit' = [Overtake({"line", "activate", "import"}) EXCEPT ![e] = Idle]
  /\ UNCHANGED <<original, current, entry>>

\* importContractBudget takes its snapshot and then locks the budget row, so that nothing
\* else creates a line: the lines it adds and, unless they are replaced, those it had seen
\* make the total.
ImportStart(e, lines, replaceExisting) ==
  LET known == [k \in Lines |-> IF replaceExisting THEN 0 ELSE line[k]] IN
  Start(e, [op |-> "import", lines |-> lines, replace |-> replaceExisting, known |-> known,
            overtaken |-> FALSE])

\* The import writes a line that is not there when it commits, and any when it replaces.
Writes(e, k) == edit[e].replace \/ line[k] = 0

ImportCommit(e) ==
  /\ Editing(e, "import")
  /\ \A o \in Editors : Editing(o, "line") => ~Writes(e, edit[o].k)
  /\ line' = [k \in Lines |-> IF Writes(e, k) THEN edit[e].lines[k] ELSE line[k]]
  /\ budget' = Refresh(SumFunction([k \in Lines |->
                 IF Writes(e, k) THEN edit[e].known[k] + edit[e].lines[k] ELSE edit[e].known[k]]))
  /\ edit' = [Overtake({"line", "activate", "import"}) EXCEPT ![e] = Idle]
  /\ UNCHANGED <<original, current, entry>>

\* updateContractBudget.  The total is compared with the value read under the lock of
\* the contract, and the lines come from the same snapshot.
UpdateBudgetStart(e, active) ==
  /\ ~ContractLocked
  /\ Start(e, [op |-> "activate", active |-> active, value |-> current, total |-> SumFunction(line),
               overtaken |-> FALSE])

Reconciled(total, value) == total = value

UpdateBudgetCommit(e) ==
  /\ Editing(e, "activate")
  /\ edit[e].active => Reconciled(edit[e].total, edit[e].value)
  /\ budget' = [Refresh(edit[e].total) EXCEPT !.active = edit[e].active]
  /\ edit' = [edit EXCEPT ![e] = Idle]
  /\ UNCHANGED <<original, current, entry, line>>

-----------------------------------------------------------------------------
ContractNext ==
  \/ \E i \in Entries, amount \in Amounts, kind \in {"amendment", "adjustment", "apostille"} :
       AddEntry(i, amount, kind)
  \/ EnsureBudget
  \/ \E e \in Editors :
       \/ \E i \in Entries, amount \in Amounts \cup {0} : EditEntryStart(e, i, amount)
       \/ EditEntryCommit(e)
       \/ \E o \in Originals, sent \in BOOLEAN : UpdateContractStart(e, o, sent)
       \/ UpdateContractCommit(e)
       \/ \E k \in Lines, cost \in Costs \cup {0} : EditLineStart(e, k, cost)
       \/ EditLineCommit(e)
       \/ \E lines \in [Lines -> Costs \cup {0}], replaceExisting \in BOOLEAN :
            ImportStart(e, lines, replaceExisting)
       \/ ImportCommit(e)
       \/ \E active \in BOOLEAN : UpdateBudgetStart(e, active)
       \/ UpdateBudgetCommit(e)
       \/ Rollback(e)

ContractSpec == ContractInit /\ [][ContractNext]_contractVars

-----------------------------------------------------------------------------
(* Properties                                                              *)

\* Invariant 2 of docs/28: an ACTIVE budget is exactly equal to the current value,
\* whatever entries, lines and activations are in progress.
ActiveBudgetEqualsValue == budget.active => budget.total = current

\* Invariant 1 of docs/28: the current value is the original value plus the active
\* amendments, adjustments and apostilles.
ValueIsSum == current = original + SumFunction(entry)

\* The total that was compared with the value is that of the lines there are.
ActiveTotalIsOfLines == budget.active => budget.total = SumFunction(line)

\* This step commits a transaction that read before another one committed.
CommitsOvertaken ==
  \E e \in Editors : /\ ~Editing(e, "idle") /\ edit[e].overtaken /\ edit'[e] = Idle
                     /\ rows' # rows

\* What holds of the invariant 1 and of the lines of an ACTIVE budget: only a transaction
\* overtaken by another breaks either, never one that adds an entry or a recomputation of
\* the value that finds a budget active.
OnlyOvertakenEditsDiverge ==
  [][ValueIsSum /\ ActiveTotalIsOfLines =>
       (ValueIsSum /\ ActiveTotalIsOfLines)' \/ CommitsOvertaken]_contractVars
=============================================================================

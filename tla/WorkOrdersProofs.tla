-------------------------- MODULE WorkOrdersProofs --------------------------
(***************************************************************************)
(* Machine-checked proofs about WorkOrders, for every set of orders and of *)
(* sessions and every bound.                                               *)
(***************************************************************************)
EXTENDS WorkOrders, WellFoundedInduction, SequenceTheorems, TLAPS

Statuses == {"OPEN", "TRIAGED", "ASSIGNED", "IN_PROGRESS", "PENDING",
             "WAITING_APPROVAL", "COMPLETED", "CLOSED", "CANCELED"}

\* The statuses of the life cycle, spelled out for the provers.
LEMMA StatusSet == WorkOrderStatus = Statuses
BY DEF WorkOrderStatus, LC!WorkOrderStatus, Statuses

\* The transition table, row by row: what may follow a status, and that only
\* statuses before the conclusion have a successor.
LEMMA Table ==
  ASSUME NEW from \in WorkOrderStatus, NEW to, canTransition(from, to)
  PROVE  /\ to \in WorkOrderStatus
         /\ from \in {"OPEN", "TRIAGED", "ASSIGNED", "IN_PROGRESS", "PENDING",
                      "WAITING_APPROVAL"}
         /\ to = "PENDING" => from # "PENDING"
BY DEF canTransition, LC!canTransition, LC!transitions, WorkOrderStatus, LC!WorkOrderStatus

-----------------------------------------------------------------------------
(* The helpers that write rows.                                            *)

\* A function on an initial segment of the naturals is a sequence.
LEMMA FunctionIsSeq ==
  ASSUME NEW S, NEW n \in Nat, NEW f \in [1..n -> S]
  PROVE  f \in Seq(S)
<1>1. Seq(S) = UNION {[1..m -> S] : m \in Nat}
  BY SeqDef
<1> QED BY <1>1

\* Two rows that differ in their version only.
SameColumns(new, row) ==
  /\ new.status = row.status /\ new.deleted = row.deleted
  /\ new.hasOpenPendency = row.hasOpenPendency
  /\ new.solution = row.solution /\ new.accepted = row.accepted
  /\ new.measurementEligible = row.measurementEligible

\* updateMany to a row: the row gets its new columns and a new version, and no
\* other order is touched.
LEMMA WriteRowEffect ==
  ASSUME TypeOK, NEW w \in WorkOrderIds, MayWrite(w), NEW row \in Row, WriteRow(w, row)
  PROVE  /\ wo' \in [WorkOrderIds -> Row]
         /\ wo'[w] = [row EXCEPT !.updatedAt = wo[w].updatedAt + 1]
         /\ SameColumns(wo'[w], row)
         /\ \A v \in WorkOrderIds : v # w => wo'[v] = wo[v]
<1>1. wo[w].updatedAt + 1 \in 0..MaxWrites
  BY BoundsAreNatural DEF TypeOK, Row, MayWrite
<1>2. [row EXCEPT !.updatedAt = wo[w].updatedAt + 1] \in Row
  BY <1>1 DEF Row
<1>3. wo'[w] = [row EXCEPT !.updatedAt = wo[w].updatedAt + 1]
  BY DEF WriteRow, TypeOK
<1>4. SameColumns(wo'[w], row)
  BY <1>3 DEF Row, SameColumns
<1> QED BY <1>2, <1>3, <1>4 DEF WriteRow, TypeOK

\* A history row is appended to one order's history.
LEMMA RecordEffect ==
  ASSUME TypeOK, NEW w \in WorkOrderIds,
         NEW from \in WorkOrderStatus \cup {"ABSENT"}, NEW to \in WorkOrderStatus,
         NEW by \in {"flow", "archive"}, Record(w, from, to, by)
  PROVE  /\ history' \in [WorkOrderIds -> Seq(HistoryRow)]
         /\ history'[w] = Append(history[w], [from |-> from, to |-> to, by |-> by])
         /\ \A v \in WorkOrderIds : v # w => history'[v] = history[v]
<1>1. [from |-> from, to |-> to, by |-> by] \in HistoryRow
  BY DEF HistoryRow
<1>2. Append(history[w], [from |-> from, to |-> to, by |-> by]) \in Seq(HistoryRow)
  BY <1>1 DEF TypeOK
<1> QED BY <1>2 DEF Record, TypeOK

\* Canceling an order's open pendencies leaves none, and touches no other order.
LEMMA CancelEffect ==
  ASSUME TypeOK, NEW w \in WorkOrderIds, CancelPendencies(w)
  PROVE  /\ pend' \in [WorkOrderIds -> Seq(Pendency)]
         /\ OpenPendencies(w)' = {}
         /\ \A v \in WorkOrderIds : v # w => pend'[v] = pend[v]
<1> DEFINE cancel(p) == IF p.status = "OPEN" THEN [p EXCEPT !.status = "CANCELED"] ELSE p
           rows == [i \in DOMAIN pend[w] |-> cancel(pend[w][i])]
<1>1. pend' = [pend EXCEPT ![w] = rows]
  BY DEF CancelPendencies, TypeOK
<1>2. pend[w] \in Seq(Pendency)
  BY DEF TypeOK
<1>3. \A p \in Pendency : cancel(p) \in Pendency /\ cancel(p).status # "OPEN"
  BY DEF Pendency
<1>4. \A i \in DOMAIN pend[w] : pend[w][i] \in Pendency
  BY <1>2
<1>5. rows \in Seq(Pendency)
  <2>1. DOMAIN pend[w] = 1..Len(pend[w]) /\ Len(pend[w]) \in Nat
    BY <1>2
  <2>2. \A i \in 1..Len(pend[w]) : rows[i] \in Pendency
    BY <2>1, <1>3, <1>4
  <2>3. rows \in [1..Len(pend[w]) -> Pendency]
    BY <2>1, <2>2
  <2> HIDE DEF rows
  <2> QED BY <2>1, <2>3, FunctionIsSeq
<1>6. pend'[w] = rows /\ pend' \in [WorkOrderIds -> Seq(Pendency)]
  BY <1>1, <1>5 DEF TypeOK
<1>7. \A i \in DOMAIN rows : rows[i].status # "OPEN"
  BY <1>3, <1>4
<1>8. OpenPendencies(w)' = {}
  BY <1>6, <1>7 DEF OpenPendencies
<1> QED BY <1>1, <1>6, <1>8 DEF TypeOK

\* The oldest open pendency is one of the open pendencies.
LEMMA OldestExists ==
  ASSUME TypeOK, NEW w \in WorkOrderIds, OpenPendencies(w) # {}
  PROVE  OldestOpen(w) \in OpenPendencies(w)
<1>1. OpenPendencies(w) \subseteq Nat
  BY DEF OpenPendencies, TypeOK
<1>2. \E i \in OpenPendencies(w) : \A j \in OpenPendencies(w) : i <= j
  <2>1. PICK i \in OpenPendencies(w) :
          \A j \in OpenPendencies(w) : ~(<<j, i>> \in OpToRel(<, Nat))
    BY <1>1, NatLessThanWellFounded, WFMin, Zenon
  <2>2. \A j \in OpenPendencies(w) : ~(j < i)
    BY <1>1, <2>1 DEF OpToRel
  <2> QED BY <1>1, <2>2
<1> QED BY <1>2 DEF OldestOpen

-----------------------------------------------------------------------------
(***************************************************************************)
(* The inductive invariant.  Each property of WorkOrders speaks of one     *)
(* order at a time, so it is stated order by order; the three together     *)
(* are inductive and none of them is alone: that the flag is right needs   *)
(* the request a transition was decided on, that pendencies agree needs    *)
(* the flag, and that a conclusion holds needs both, because the last      *)
(* resolution of a pendency writes the status a pendency remembers.        *)
(***************************************************************************)

Suspendable == {"OPEN", "TRIAGED", "ASSIGNED", "IN_PROGRESS", "WAITING_APPROVAL"}

Coherent(w) ==
  /\ wo[w].hasOpenPendency <=> wo[w].status = "PENDING"
  /\ wo[w].hasOpenPendency <=> OpenPendencies(w) # {}

LastOf(w) == history[w][Len(history[w])]

Agree(w) == \A i \in OpenPendencies(w) :
  /\ pend[w][i].previousStatus \in Suspendable
  /\ pend[w][i].previousStatus = LastOf(w).from

Chained(w) ==
  /\ Exists(w) <=> history[w] # <<>>
  /\ Exists(w) => LastOf(w).to = wo[w].status
  /\ \A i \in 2..Len(history[w]) :
       history[w][i].by = "flow" => history[w][i].from = history[w][i-1].to

Conclusive(w) ==
  /\ wo[w].status \in Concluded => ready[w] /\ OpenPendencies(w) = {}
  /\ ~wo[w].deleted => (wo[w].solution <=> wo[w].status \in Concluded)
  /\ ~wo[w].deleted => (wo[w].accepted <=> wo[w].status = "CLOSED")
  /\ wo[w].measurementEligible => wo[w].status = "CLOSED"

RatedOK(w) == w \in rated => wo[w].status \in Concluded \/ wo[w].deleted

Archived(w) == wo[w].deleted => wo[w].status = "CANCELED"

OrderInv(w) ==
  /\ Coherent(w) /\ Agree(w) /\ Chained(w)
  /\ Conclusive(w) /\ RatedOK(w) /\ Archived(w)

\* A transition in progress asks for a successor of the status it read.
RequestOK == \A s \in Sessions : req[s].op = "transition" =>
  /\ req[s].read.status \in WorkOrderStatus
  /\ canTransition(req[s].read.status, req[s].to)
  /\ req[s].to \notin {"PENDING", "CLOSED"}

IInv == TypeOK /\ RequestOK /\ \A w \in WorkOrderIds : OrderInv(w)

\* A step on order w leaves the rows of every other order alone.
Frame(w) == \A v \in WorkOrderIds \ {w} :
  /\ wo'[v] = wo[v] /\ pend'[v] = pend[v] /\ history'[v] = history[v]
  /\ ready'[v] = ready[v] /\ (v \in rated' <=> v \in rated)

\* What a step on order w owes: types, the order's own invariant, the frame.
Owes(w) == TypeOK' /\ OrderInv(w)' /\ Frame(w)

LEMMA FrameKeeps ==
  ASSUME NEW w \in WorkOrderIds, NEW v \in WorkOrderIds, v # w, Frame(w), OrderInv(v)
  PROVE  OrderInv(v)'
<1>1. /\ wo'[v] = wo[v] /\ pend'[v] = pend[v] /\ history'[v] = history[v]
      /\ ready'[v] = ready[v] /\ (v \in rated' <=> v \in rated)
  BY DEF Frame
<1>2. Coherent(v)' BY <1>1 DEF OrderInv, Coherent, OpenPendencies
<1>3. Agree(v)' BY <1>1 DEF OrderInv, Agree, OpenPendencies, LastOf
<1>4. Chained(v)' BY <1>1 DEF OrderInv, Chained, Exists, LastOf
<1>5. Conclusive(v)' BY <1>1 DEF OrderInv, Conclusive, OpenPendencies
<1>6. RatedOK(v)' BY <1>1 DEF OrderInv, RatedOK
<1>7. Archived(v)' BY <1>1 DEF OrderInv, Archived
<1> QED BY <1>2, <1>3, <1>4, <1>5, <1>6, <1>7 DEF OrderInv

\* Appending the row of a status change keeps the history a chain.
LEMMA ChainExtends ==
  ASSUME TypeOK, NEW w \in WorkOrderIds, Chained(w), NEW row \in HistoryRow,
         history' = [history EXCEPT ![w] = Append(history[w], row)],
         wo'[w].status = row.to, row.to # "ABSENT",
         Exists(w) /\ row.by = "flow" => row.from = wo[w].status
  PROVE  Chained(w)' /\ LastOf(w)' = row
<1>1. history[w] \in Seq(HistoryRow)
  BY DEF TypeOK
<1>2. /\ history'[w] = Append(history[w], row)
      /\ Len(history'[w]) = Len(history[w]) + 1
      /\ history'[w] # <<>>
      /\ \A i \in 1..Len(history[w]) : history'[w][i] = history[w][i]
      /\ history'[w][Len(history[w]) + 1] = row
  <2>1. history'[w] = Append(history[w], row)
    BY DEF TypeOK
  <2>2. /\ Append(history[w], row) # <<>>
        /\ Len(Append(history[w], row)) = Len(history[w]) + 1
        /\ \A i \in 1..Len(history[w]) : Append(history[w], row)[i] = history[w][i]
        /\ Append(history[w], row)[Len(history[w]) + 1] = row
    BY <1>1, AppendProperties
  <2> QED BY <2>1, <2>2
<1>3. LastOf(w)' = row
  BY <1>2 DEF LastOf
<1>4. \A i \in 2..Len(history'[w]) :
        history'[w][i].by = "flow" => history'[w][i].from = history'[w][i-1].to
  <2> SUFFICES ASSUME NEW i \in 2..Len(history'[w]), history'[w][i].by = "flow"
               PROVE  history'[w][i].from = history'[w][i-1].to
    OBVIOUS
  <2>1. Len(history[w]) \in Nat
    BY <1>1
  <2>2. CASE i <= Len(history[w])
    BY <1>2, <2>1, <2>2 DEF Chained
  <2>3. CASE i = Len(history[w]) + 1
    <3>1. history[w] # <<>> /\ i - 1 = Len(history[w]) /\ i - 1 \in 1..Len(history[w])
      BY <1>1, <2>1, <2>3
    <3>2. Exists(w) /\ history[w][i-1].to = wo[w].status
      BY <3>1 DEF Chained, LastOf
    <3> QED BY <1>2, <2>3, <3>1, <3>2
  <2> QED BY <1>2, <2>1, <2>2, <2>3
<1> QED BY <1>2, <1>3, <1>4 DEF Chained, Exists

-----------------------------------------------------------------------------
(* What each operation owes to the order it works on.                      *)

\* Writing a status and recording it: the row, the history and the chain.
LEMMA StatusChange ==
  ASSUME IInv, NEW w \in WorkOrderIds, MayWrite(w),
         NEW row \in Row, row.status \in WorkOrderStatus, WriteRow(w, row),
         NEW from \in WorkOrderStatus \cup {"ABSENT"}, NEW by \in {"flow", "archive"},
         by = "flow" => from = wo[w].status,
         Record(w, from, row.status, by)
  PROVE  /\ wo' \in [WorkOrderIds -> Row] /\ SameColumns(wo'[w], row)
         /\ \A v \in WorkOrderIds : v # w => wo'[v] = wo[v]
         /\ history' \in [WorkOrderIds -> Seq(HistoryRow)]
         /\ \A v \in WorkOrderIds : v # w => history'[v] = history[v]
         /\ Chained(w)' /\ LastOf(w)'.from = from
<1> USE DEF IInv
<1> DEFINE entry == [from |-> from, to |-> row.status, by |-> by]
<1>1. /\ wo' \in [WorkOrderIds -> Row] /\ SameColumns(wo'[w], row)
      /\ \A v \in WorkOrderIds : v # w => wo'[v] = wo[v]
  BY WriteRowEffect
<1>2. /\ history' \in [WorkOrderIds -> Seq(HistoryRow)]
      /\ \A v \in WorkOrderIds : v # w => history'[v] = history[v]
  BY RecordEffect
<1>3. /\ entry \in HistoryRow /\ entry.from = from /\ entry.to = row.status /\ entry.by = by
      /\ history' = [history EXCEPT ![w] = Append(history[w], entry)]
  BY DEF Record, HistoryRow, TypeOK
<1> HIDE DEF entry
<1>4. wo'[w].status = entry.to /\ entry.to # "ABSENT"
  BY <1>1, <1>3, StatusSet DEF SameColumns, Statuses
<1>5. Chained(w) /\ (Exists(w) /\ entry.by = "flow" => entry.from = wo[w].status)
  BY <1>3 DEF OrderInv
<1>6. Chained(w)' /\ LastOf(w)' = entry
  BY <1>3, <1>4, <1>5, ChainExtends
<1> QED BY <1>1, <1>2, <1>3, <1>6

LEMMA CreateOwes ==
  ASSUME IInv, NEW w \in WorkOrderIds, Create(w)
  PROVE  Owes(w)
<1> USE DEF IInv
<1>1. PICK assigned \in BOOLEAN, noRequirements \in BOOLEAN :
        /\ WriteRow(w, [AbsentRow EXCEPT !.status = "OPEN", !.assigned = assigned])
        /\ ready' = [ready EXCEPT ![w] = noRequirements]
  BY DEF Create
<1> DEFINE row == [AbsentRow EXCEPT !.status = "OPEN", !.assigned = assigned]
<1>2. OrderInv(w) /\ ~Exists(w) /\ MayWrite(w)
  BY DEF Create, Exists
<1>3. row \in Row /\ row.status = "OPEN" /\ ~row.hasOpenPendency /\ ~row.solution
      /\ ~row.accepted /\ ~row.measurementEligible /\ ~row.deleted
  <2>1. 0 \in 0..MaxWrites /\ "OPEN" \in WorkOrderStatus
    BY BoundsAreNatural, StatusSet DEF Statuses
  <2>2. AbsentRow \in Row
    BY <2>1 DEF AbsentRow, Row
  <2>3. /\ ~AbsentRow.hasOpenPendency /\ ~AbsentRow.solution /\ ~AbsentRow.accepted
        /\ ~AbsentRow.measurementEligible /\ ~AbsentRow.deleted
    BY DEF AbsentRow
  <2>4. row \in Row
    BY <2>1, <2>2 DEF Row
  <2> QED BY <2>2, <2>3, <2>4 DEF Row
<1>4. WriteRow(w, row) /\ Record(w, "ABSENT", row.status, "flow")
  BY <1>1, <1>3 DEF Create
<1> HIDE DEF row
<1>5. /\ wo' \in [WorkOrderIds -> Row] /\ SameColumns(wo'[w], row)
      /\ \A v \in WorkOrderIds : v # w => wo'[v] = wo[v]
      /\ history' \in [WorkOrderIds -> Seq(HistoryRow)]
      /\ \A v \in WorkOrderIds : v # w => history'[v] = history[v]
      /\ Chained(w)'
  BY <1>2, <1>3, <1>4, StatusChange, StatusSet DEF Create, Statuses
<1>6. wo'[w].status = "OPEN" /\ OpenPendencies(w)' = {}
  <2>1. OpenPendencies(w) = {}
    BY <1>2 DEF OrderInv, Coherent, Exists
  <2> QED BY <1>3, <1>5, <2>1 DEF SameColumns, Create, OpenPendencies
<1>7. Coherent(w)' /\ Agree(w)' /\ Archived(w)'
  BY <1>3, <1>5, <1>6 DEF SameColumns, Coherent, Agree, Archived
<1>8. Conclusive(w)'
  BY <1>3, <1>5, <1>6 DEF SameColumns, Conclusive, Concluded
<1>9. RatedOK(w)'
  <2>1. w \notin rated
    BY <1>2 DEF OrderInv, RatedOK, Archived, Concluded, Exists
  <2> QED BY <2>1 DEF Create, RatedOK
<1>10. TypeOK'
  BY <1>1, <1>5 DEF Create, TypeOK
<1>11. Frame(w)
  BY <1>1, <1>5 DEF Create, Frame, TypeOK
<1> QED BY <1>5, <1>7, <1>8, <1>9, <1>10, <1>11 DEF Owes, OrderInv

\* A session with a request in progress works on an order of the tenant.
LEMMA RequestTarget ==
  ASSUME TypeOK, NEW s \in Sessions, req[s].op # "idle"
  PROVE  req[s] \in Request /\ req[s].w \in WorkOrderIds
BY DEF TypeOK, Request, Idle

\* A step that keeps the columns, the pendencies and the history of an order
\* may change its evidence while the order is not concluded.
LEMMA EvidenceKeeps ==
  ASSUME NEW w \in WorkOrderIds, OrderInv(w),
         wo'[w] = wo[w] \/ SameColumns(wo'[w], wo[w]),
         pend'[w] = pend[w], history'[w] = history[w],
         w \in rated' => w \in rated \/ wo[w].status \in Concluded,
         wo[w].status \in Concluded /\ ready[w] => ready'[w]
  PROVE  OrderInv(w)'
<1>1. SameColumns(wo'[w], wo[w])
  BY DEF SameColumns
<1>2. OpenPendencies(w)' = OpenPendencies(w)
  BY DEF OpenPendencies
<1>3. Coherent(w)' BY <1>1, <1>2 DEF OrderInv, Coherent, SameColumns
<1>4. Agree(w)' BY <1>2 DEF OrderInv, Agree, LastOf
<1>5. Chained(w)' BY <1>1 DEF OrderInv, Chained, LastOf, Exists, SameColumns
<1>6. Conclusive(w)' BY <1>1, <1>2 DEF OrderInv, Conclusive, SameColumns
<1>7. RatedOK(w)' BY <1>1 DEF OrderInv, RatedOK, SameColumns
<1>8. Archived(w)' BY <1>1 DEF OrderInv, Archived, SameColumns
<1> QED BY <1>3, <1>4, <1>5, <1>6, <1>7, <1>8 DEF OrderInv

LEMMA UpdateOwes ==
  ASSUME IInv, NEW s \in Sessions, UpdateCommit(s),
         NEW w \in WorkOrderIds, w = req[s].w
  PROVE  Owes(w)
<1> USE DEF IInv
<1>1. PICK assigned \in {wo[w].assigned, TRUE} : WriteRow(w, [wo[w] EXCEPT !.assigned = assigned])
  BY DEF UpdateCommit
<1>2. PICK requirementsMet \in BOOLEAN : ready' = [ready EXCEPT ![w] = requirementsMet]
  BY DEF UpdateCommit
<1>3. MayWrite(w) /\ wo[w].status \notin Concluded /\ OrderInv(w)
  BY DEF UpdateCommit, TERMINAL_WORK_ORDER_STATUSES, Concluded
<1> DEFINE row == [wo[w] EXCEPT !.assigned = assigned]
<1>4. row \in Row /\ SameColumns(row, wo[w]) /\ WriteRow(w, row)
  <2>1. wo[w] \in Row
    BY DEF TypeOK
  <2>2. assigned \in BOOLEAN
    BY <2>1 DEF Row
  <2>3. \A r \in Row : [r EXCEPT !.assigned = assigned] \in Row
                        /\ SameColumns([r EXCEPT !.assigned = assigned], r)
    BY <2>2 DEF Row, SameColumns
  <2> QED BY <1>1, <2>1, <2>3
<1> HIDE DEF row
<1>5. /\ wo' \in [WorkOrderIds -> Row] /\ SameColumns(wo'[w], row)
      /\ \A v \in WorkOrderIds : v # w => wo'[v] = wo[v]
  BY <1>3, <1>4, WriteRowEffect
<1>6. SameColumns(wo'[w], wo[w])
  BY <1>4, <1>5 DEF SameColumns
<1>7. UNCHANGED <<pend, history, rated, measured>> /\ req' = [req EXCEPT ![s] = Idle]
  BY DEF UpdateCommit, Finish
<1>8. OrderInv(w)'
  BY <1>3, <1>6, <1>7, EvidenceKeeps
<1>9. TypeOK'
  BY <1>2, <1>5, <1>7 DEF TypeOK
<1>10. Frame(w)
  BY <1>2, <1>5, <1>7 DEF Frame, TypeOK
<1> QED BY <1>8, <1>9, <1>10 DEF Owes

\* An order leaves its suspension only canceled, and a concluded order has no
\* transition: whatever was open is canceled, and nothing is left open.
LEMMA TransitionOwes ==
  ASSUME IInv, NEW s \in Sessions, TransitionCommit(s),
         NEW w \in WorkOrderIds, w = req[s].w
  PROVE  Owes(w)
<1> USE DEF IInv
<1> DEFINE to == req[s].to
           from == wo[w].status
           row == [wo[w] EXCEPT !.status = to,
                                !.hasOpenPendency = (to # "CANCELED" /\ @),
                                !.solution = (to = "COMPLETED" \/ @)]
<1>1. /\ from \in WorkOrderStatus /\ to \in WorkOrderStatus \ {"PENDING", "CLOSED"}
      /\ from \in {"OPEN", "TRIAGED", "ASSIGNED", "IN_PROGRESS", "PENDING", "WAITING_APPROVAL"}
  <2>1. from \in WorkOrderStatus /\ canTransition(from, to) /\ to \notin {"PENDING", "CLOSED"}
    BY DEF RequestOK, TransitionCommit, SameAsRead
  <2> QED BY <2>1, Table
<1>2. OrderInv(w) /\ MayWrite(w) /\ ~wo[w].deleted /\ wo[w] \in Row /\ from \notin Concluded
  BY <1>1 DEF TransitionCommit, TypeOK, Concluded
<1>3. /\ row \in Row /\ row.status = to /\ ~row.deleted
      /\ row.hasOpenPendency <=> (to # "CANCELED" /\ wo[w].hasOpenPendency)
      /\ row.solution <=> (to = "COMPLETED" \/ wo[w].solution)
      /\ row.accepted = wo[w].accepted /\ row.measurementEligible = wo[w].measurementEligible
  BY <1>1, <1>2 DEF Row
<1>4. WriteRow(w, row) /\ Record(w, from, row.status, "flow")
  BY <1>3 DEF TransitionCommit
<1>5. /\ to = "COMPLETED" => ready[w]
      /\ wo[w].hasOpenPendency => to = "CANCELED" /\ CancelPendencies(w)
      /\ ~wo[w].hasOpenPendency => pend' = pend
      /\ UNCHANGED <<ready, rated, measured>> /\ req' = [req EXCEPT ![s] = Idle]
  BY DEF TransitionCommit, Finish
<1> HIDE DEF row, to, from
<1>6. /\ wo' \in [WorkOrderIds -> Row] /\ SameColumns(wo'[w], row)
      /\ \A v \in WorkOrderIds : v # w => wo'[v] = wo[v]
      /\ history' \in [WorkOrderIds -> Seq(HistoryRow)]
      /\ \A v \in WorkOrderIds : v # w => history'[v] = history[v]
      /\ Chained(w)'
  BY <1>1, <1>2, <1>3, <1>4, StatusChange DEF from
<1>7. /\ pend' \in [WorkOrderIds -> Seq(Pendency)] /\ OpenPendencies(w)' = {}
      /\ \A v \in WorkOrderIds : v # w => pend'[v] = pend[v]
  <2>1. CASE wo[w].hasOpenPendency
    BY <1>5, <2>1, CancelEffect
  <2>2. CASE ~wo[w].hasOpenPendency
    <3>1. OpenPendencies(w) = {}
      BY <1>2, <2>2 DEF OrderInv, Coherent
    <3> QED BY <1>5, <2>2, <3>1 DEF OpenPendencies, TypeOK
  <2> QED BY <2>1, <2>2
<1>8. Coherent(w)' /\ Agree(w)' /\ Archived(w)'
  BY <1>1, <1>3, <1>5, <1>6, <1>7 DEF SameColumns, Coherent, Agree, Archived
<1>9. Conclusive(w)'
  <2>1. ~wo[w].solution /\ ~wo[w].accepted /\ ~wo[w].measurementEligible
    BY <1>2 DEF OrderInv, Conclusive, Concluded, from
  <2> QED BY <1>1, <1>3, <1>5, <1>6, <1>7, <2>1 DEF SameColumns, Conclusive, Concluded
<1>10. RatedOK(w)'
  BY <1>2, <1>5 DEF OrderInv, RatedOK, from
<1>11. TypeOK'
  BY <1>5, <1>6, <1>7 DEF TypeOK
<1>12. Frame(w)
  BY <1>5, <1>6, <1>7 DEF Frame
<1> QED BY <1>6, <1>8, <1>9, <1>10, <1>11, <1>12 DEF Owes, OrderInv

\* Archiving cancels everything, whatever happened since the order was read.
LEMMA ArchiveOwes ==
  ASSUME IInv, NEW s \in Sessions, ArchiveCommit(s),
         NEW w \in WorkOrderIds, w = req[s].w
  PROVE  Owes(w)
<1> USE DEF IInv
<1> DEFINE row == [wo[w] EXCEPT !.status = "CANCELED", !.deleted = TRUE,
                                !.hasOpenPendency = FALSE,
                                !.measurementEligible = FALSE]
           from == req[s].read.status
<1>1. MayWrite(w) /\ wo[w] \in Row /\ from \in WorkOrderStatus \cup {"ABSENT"}
  BY RequestTarget DEF ArchiveCommit, TypeOK, Request, Row
<1>2. /\ row \in Row /\ row.status = "CANCELED" /\ row.deleted
      /\ ~row.hasOpenPendency /\ ~row.measurementEligible
  BY <1>1, StatusSet DEF Row, Statuses
<1>3. /\ WriteRow(w, row) /\ Record(w, from, row.status, "archive") /\ CancelPendencies(w)
      /\ UNCHANGED <<ready, rated, measured>> /\ req' = [req EXCEPT ![s] = Idle]
  BY <1>2 DEF ArchiveCommit, Finish
<1> HIDE DEF row, from
<1>4. /\ wo' \in [WorkOrderIds -> Row] /\ SameColumns(wo'[w], row)
      /\ \A v \in WorkOrderIds : v # w => wo'[v] = wo[v]
      /\ history' \in [WorkOrderIds -> Seq(HistoryRow)]
      /\ \A v \in WorkOrderIds : v # w => history'[v] = history[v]
      /\ Chained(w)'
  BY <1>1, <1>2, <1>3, StatusChange, StatusSet DEF Statuses
<1>5. /\ pend' \in [WorkOrderIds -> Seq(Pendency)] /\ OpenPendencies(w)' = {}
      /\ \A v \in WorkOrderIds : v # w => pend'[v] = pend[v]
  BY <1>3, CancelEffect
<1>6. Coherent(w)' /\ Agree(w)' /\ Archived(w)' /\ Conclusive(w)' /\ RatedOK(w)'
  BY <1>2, <1>4, <1>5
     DEF SameColumns, Coherent, Agree, Archived, Conclusive, Concluded, RatedOK
<1>7. TypeOK'
  BY <1>3, <1>4, <1>5 DEF TypeOK
<1>8. Frame(w)
  BY <1>3, <1>4, <1>5 DEF Frame
<1> QED BY <1>4, <1>6, <1>7, <1>8 DEF Owes, OrderInv

\* The evidence, satisfaction and foreign writes change no status.
LEMMA RespondOwes ==
  ASSUME IInv, NEW w \in WorkOrderIds, RespondChecklist(w)
  PROVE  Owes(w)
<1> USE DEF IInv
<1>1. /\ UNCHANGED <<wo, pend, history, rated, measured, req>>
      /\ wo[w].status \notin Concluded
      /\ \E allChecked \in BOOLEAN : ready' = [ready EXCEPT ![w] = allChecked]
  BY DEF RespondChecklist, TERMINAL_WORK_ORDER_STATUSES, Concluded
<1>2. OrderInv(w)'
  BY <1>1, EvidenceKeeps
<1> QED BY <1>1, <1>2 DEF Owes, Frame, TypeOK

LEMMA UploadOwes ==
  ASSUME IInv, NEW s \in Sessions, UploadCommit(s),
         NEW w \in WorkOrderIds, w = req[s].w
  PROVE  Owes(w)
<1> USE DEF IInv
<1>1. PICK complete \in {ready[w], TRUE} : ready' = [ready EXCEPT ![w] = complete]
  BY DEF UploadCommit
<1>2. UNCHANGED <<wo, pend, history, rated, measured>> /\ req' = [req EXCEPT ![s] = Idle]
  BY DEF UploadCommit, Finish
<1>3. ready' \in [WorkOrderIds -> BOOLEAN] /\ (ready[w] => ready'[w])
      /\ \A v \in WorkOrderIds : v # w => ready'[v] = ready[v]
  BY <1>1 DEF TypeOK
<1>4. OrderInv(w)'
  BY <1>2, <1>3, EvidenceKeeps
<1>5. TypeOK'
  BY <1>2, <1>3 DEF TypeOK
<1> QED BY <1>2, <1>3, <1>4, <1>5 DEF Owes, Frame

LEMMA SatisfactionOwes ==
  ASSUME IInv, NEW w \in WorkOrderIds, SubmitSatisfaction(w)
  PROVE  Owes(w)
<1> USE DEF IInv
<1>1. /\ UNCHANGED <<wo, pend, history, ready, measured, req>>
      /\ wo[w].status \in Concluded /\ rated' = rated \cup {w}
  BY DEF SubmitSatisfaction
<1>2. OrderInv(w)'
  BY <1>1, EvidenceKeeps
<1> QED BY <1>1, <1>2 DEF Owes, Frame, TypeOK

LEMMA OtherWriteOwes ==
  ASSUME IInv, NEW w \in WorkOrderIds, OtherWrite(w)
  PROVE  Owes(w)
<1> USE DEF IInv
<1>1. UNCHANGED <<pend, history, ready, rated, measured, req>> /\ wo[w] \in Row
      /\ MayWrite(w) /\ WriteRow(w, wo[w])
  BY DEF OtherWrite, TypeOK
<1>2. /\ wo' \in [WorkOrderIds -> Row] /\ SameColumns(wo'[w], wo[w])
      /\ \A v \in WorkOrderIds : v # w => wo'[v] = wo[v]
  BY <1>1, WriteRowEffect
<1>3. OrderInv(w)'
  BY <1>1, <1>2, EvidenceKeeps
<1>4. TypeOK'
  BY <1>1, <1>2 DEF TypeOK
<1> QED BY <1>1, <1>2, <1>3, <1>4 DEF Owes, Frame

LEMMA MeasurementOwes ==
  ASSUME IInv, NEW w \in WorkOrderIds, MeasurementLinks(w) \/ MeasurementRejected(w)
  PROVE  Owes(w)
<1> USE DEF IInv
<1>1. UNCHANGED <<wo, pend, history, ready, rated, req>> /\ measured' \subseteq WorkOrderIds
  BY DEF MeasurementLinks, MeasurementRejected, TypeOK
<1>2. OrderInv(w)'
  BY <1>1, EvidenceKeeps
<1> QED BY <1>1, <1>2 DEF Owes, Frame, TypeOK

LEMMA CloseOwes ==
  ASSUME IInv, NEW w \in WorkOrderIds, Close(w)
  PROVE  Owes(w)
<1> USE DEF IInv
<1>1. PICK eligible \in BOOLEAN :
        WriteRow(w, [wo[w] EXCEPT !.status = "CLOSED", !.accepted = TRUE,
                                  !.measurementEligible = eligible])
  BY DEF Close
<1> DEFINE row == [wo[w] EXCEPT !.status = "CLOSED", !.accepted = TRUE,
                                !.measurementEligible = eligible]
<1>2. /\ OrderInv(w) /\ MayWrite(w) /\ wo[w] \in Row /\ wo[w].status = "COMPLETED"
      /\ wo[w].solution /\ ready[w] /\ ~wo[w].deleted
  BY DEF Close, Visible, TypeOK
<1>3. /\ row \in Row /\ row.status = "CLOSED" /\ row.accepted /\ row.solution
      /\ row.deleted = wo[w].deleted /\ row.hasOpenPendency = wo[w].hasOpenPendency
  BY <1>2, StatusSet DEF Row, Statuses
<1>4. WriteRow(w, row) /\ Record(w, "COMPLETED", row.status, "flow")
      /\ UNCHANGED <<pend, ready, rated, measured, req>>
  BY <1>1, <1>3 DEF Close
<1> HIDE DEF row
<1>5. /\ wo' \in [WorkOrderIds -> Row] /\ SameColumns(wo'[w], row)
      /\ \A v \in WorkOrderIds : v # w => wo'[v] = wo[v]
      /\ history' \in [WorkOrderIds -> Seq(HistoryRow)]
      /\ \A v \in WorkOrderIds : v # w => history'[v] = history[v]
      /\ Chained(w)'
  BY <1>2, <1>3, <1>4, StatusChange, StatusSet DEF Statuses
<1>6. OpenPendencies(w)' = {} /\ ~wo[w].hasOpenPendency
  <2>1. OpenPendencies(w) = {} /\ ~wo[w].hasOpenPendency
    BY <1>2 DEF OrderInv, Coherent
  <2> QED BY <1>4, <2>1 DEF OpenPendencies
<1>7. Coherent(w)' /\ Agree(w)' /\ Archived(w)' /\ Conclusive(w)' /\ RatedOK(w)'
  BY <1>2, <1>3, <1>4, <1>5, <1>6
     DEF SameColumns, Coherent, Agree, Archived, Conclusive, Concluded, RatedOK
<1>8. TypeOK'
  BY <1>4, <1>5 DEF TypeOK
<1>9. Frame(w)
  BY <1>4, <1>5 DEF Frame
<1> QED BY <1>5, <1>7, <1>8, <1>9 DEF Owes, OrderInv

LEMMA ReopenOwes ==
  ASSUME IInv, NEW s \in Sessions, ReopenCommit(s),
         NEW w \in WorkOrderIds, w = req[s].w
  PROVE  Owes(w)
<1> USE DEF IInv
<1> DEFINE row == [wo[w] EXCEPT !.status = "IN_PROGRESS", !.solution = FALSE,
                                !.accepted = FALSE, !.measurementEligible = FALSE]
           from == wo[w].status
<1>1. /\ OrderInv(w) /\ MayWrite(w) /\ wo[w] \in Row /\ from \in WorkOrderStatus
      /\ from \in Concluded /\ ~wo[w].deleted
  BY StatusSet DEF ReopenCommit, TypeOK, Statuses, Concluded
<1>2. /\ row \in Row /\ row.status = "IN_PROGRESS" /\ ~row.solution /\ ~row.accepted
      /\ ~row.measurementEligible /\ row.deleted = wo[w].deleted
      /\ row.hasOpenPendency = wo[w].hasOpenPendency
  BY <1>1, StatusSet DEF Row, Statuses
<1>3. WriteRow(w, row) /\ Record(w, from, row.status, "flow")
      /\ UNCHANGED <<pend, ready, measured>> /\ rated' = rated \ {w}
      /\ req' = [req EXCEPT ![s] = Idle]
  BY <1>2 DEF ReopenCommit, Finish
<1> HIDE DEF row
<1>4. /\ wo' \in [WorkOrderIds -> Row] /\ SameColumns(wo'[w], row)
      /\ \A v \in WorkOrderIds : v # w => wo'[v] = wo[v]
      /\ history' \in [WorkOrderIds -> Seq(HistoryRow)]
      /\ \A v \in WorkOrderIds : v # w => history'[v] = history[v]
      /\ Chained(w)'
  BY <1>1, <1>2, <1>3, StatusChange, StatusSet DEF Statuses
<1>5. OpenPendencies(w)' = {} /\ ~wo[w].hasOpenPendency
  <2>1. OpenPendencies(w) = {} /\ ~wo[w].hasOpenPendency
    BY <1>1 DEF OrderInv, Coherent, Concluded
  <2> QED BY <1>3, <2>1 DEF OpenPendencies
<1>6. Coherent(w)' /\ Agree(w)' /\ Archived(w)' /\ Conclusive(w)' /\ RatedOK(w)'
  BY <1>1, <1>2, <1>3, <1>4, <1>5
     DEF SameColumns, Coherent, Agree, Archived, Conclusive, Concluded, RatedOK
<1>7. TypeOK'
  BY <1>3, <1>4 DEF TypeOK
<1>8. Frame(w)
  BY <1>3, <1>4 DEF Frame
<1> QED BY <1>4, <1>6, <1>7, <1>8 DEF Owes, OrderInv

\* The status a new pendency preserves is one the order can be suspended from;
\* for a second pendency it is the one the first preserved.
LEMMA PreservedStatus ==
  ASSUME IInv, NEW w \in WorkOrderIds, AddPendency(w)
  PROVE  /\ PreviousStatus(w) \in Suspendable
         /\ wo[w].status = "PENDING" => PreviousStatus(w) = LastOf(w).from
         /\ wo[w].status # "PENDING" => PreviousStatus(w) = wo[w].status
<1> USE DEF IInv
<1>1. CASE wo[w].status = "PENDING"
  <2>1. OpenPendencies(w) # {} /\ Agree(w)
    BY <1>1 DEF OrderInv, Coherent
  <2>2. OldestOpen(w) \in OpenPendencies(w)
    BY <2>1, OldestExists
  <2>3. PreviousStatus(w) = pend[w][OldestOpen(w)].previousStatus
    BY <1>1, <2>1 DEF PreviousStatus
  <2> QED BY <1>1, <2>1, <2>2, <2>3 DEF Agree
<1>2. CASE wo[w].status # "PENDING"
  <2>1. wo[w].status \in WorkOrderStatus /\ canTransition(wo[w].status, "PENDING")
    BY <1>2 DEF AddPendency, Visible, Exists, TypeOK, Row
  <2>2. PreviousStatus(w) = wo[w].status
    BY <1>2 DEF PreviousStatus
  <2> QED BY <1>2, <2>1, <2>2, Table DEF Suspendable
<1> QED BY <1>1, <1>2

LEMMA AddPendencyOwes ==
  ASSUME IInv, NEW w \in WorkOrderIds, AddPendency(w)
  PROVE  Owes(w)
<1> USE DEF IInv
<1> DEFINE new == [previousStatus |-> PreviousStatus(w), status |-> "OPEN"]
           row == [wo[w] EXCEPT !.status = "PENDING", !.hasOpenPendency = TRUE]
           from == wo[w].status
<1>1. /\ OrderInv(w) /\ MayWrite(w) /\ wo[w] \in Row /\ from \in WorkOrderStatus
      /\ from \notin Concluded /\ ~wo[w].deleted
  <2>1. from = "PENDING" \/ canTransition(from, "PENDING")
    BY DEF AddPendency
  <2>2. from \in WorkOrderStatus /\ wo[w] \in Row
    BY DEF AddPendency, Visible, Exists, TypeOK, Row
  <2> QED BY <2>1, <2>2, Table DEF AddPendency, Visible, Concluded
<1>2. /\ row \in Row /\ row.status = "PENDING" /\ row.hasOpenPendency
      /\ row.solution = wo[w].solution /\ row.accepted = wo[w].accepted
      /\ row.measurementEligible = wo[w].measurementEligible /\ ~row.deleted
  BY <1>1, StatusSet DEF Row, Statuses
<1>3. new \in Pendency /\ new.status = "OPEN" /\ new.previousStatus = PreviousStatus(w)
  BY PreservedStatus, StatusSet DEF Pendency, Suspendable, Statuses
<1>4. /\ WriteRow(w, row) /\ UNCHANGED <<ready, rated, measured, req>>
      /\ pend' = [pend EXCEPT ![w] = Append(pend[w], new)]
      /\ from # "PENDING" => Record(w, from, row.status, "flow")
      /\ from = "PENDING" => UNCHANGED history
  BY <1>2 DEF AddPendency
<1> HIDE DEF row, new
<1>5. /\ pend' \in [WorkOrderIds -> Seq(Pendency)] /\ pend'[w] = Append(pend[w], new)
      /\ \A v \in WorkOrderIds : v # w => pend'[v] = pend[v]
  <2>1. pend[w] \in Seq(Pendency) /\ Append(pend[w], new) \in Seq(Pendency)
    BY <1>3 DEF TypeOK
  <2> QED BY <1>4, <2>1 DEF TypeOK
<1>6. /\ \A i \in OpenPendencies(w)' :
           pend'[w][i] = new \/ (i \in OpenPendencies(w) /\ pend'[w][i] = pend[w][i])
      /\ OpenPendencies(w)' # {}
  <2>1. pend[w] \in Seq(Pendency)
    BY DEF TypeOK
  <2>2. /\ Len(pend'[w]) = Len(pend[w]) + 1
        /\ \A i \in 1..Len(pend[w]) : pend'[w][i] = pend[w][i]
        /\ pend'[w][Len(pend[w]) + 1] = new
    BY <1>3, <1>5, <2>1, AppendProperties
  <2>3. /\ Len(pend[w]) \in Nat /\ DOMAIN pend[w] = 1..Len(pend[w])
        /\ DOMAIN pend'[w] = 1..(Len(pend[w]) + 1)
    BY <1>5, <2>1, <2>2
  <2>4. Len(pend[w]) + 1 \in OpenPendencies(w)'
    BY <1>3, <2>2, <2>3 DEF OpenPendencies
  <2>5. ASSUME NEW i \in OpenPendencies(w)'
        PROVE  pend'[w][i] = new \/ (i \in OpenPendencies(w) /\ pend'[w][i] = pend[w][i])
    <3>1. i \in 1..(Len(pend[w]) + 1) /\ pend'[w][i].status = "OPEN"
      BY <2>3 DEF OpenPendencies
    <3>2. CASE i = Len(pend[w]) + 1
      BY <2>2, <3>2
    <3>3. CASE i # Len(pend[w]) + 1
      <4>1. i \in 1..Len(pend[w])
        BY <2>3, <3>1, <3>3
      <4> QED BY <2>2, <2>3, <3>1, <4>1 DEF OpenPendencies
    <3> QED BY <3>2, <3>3
  <2> QED BY <2>4, <2>5
<1>7. /\ wo' \in [WorkOrderIds -> Row] /\ SameColumns(wo'[w], row)
      /\ \A v \in WorkOrderIds : v # w => wo'[v] = wo[v]
      /\ history' \in [WorkOrderIds -> Seq(HistoryRow)]
      /\ \A v \in WorkOrderIds : v # w => history'[v] = history[v]
      /\ Chained(w)' /\ Agree(w)'
  <2>1. CASE from = "PENDING"
    <3>1. /\ wo' \in [WorkOrderIds -> Row] /\ SameColumns(wo'[w], row)
          /\ \A v \in WorkOrderIds : v # w => wo'[v] = wo[v]
      BY <1>1, <1>2, <1>4, WriteRowEffect
    <3>2. history' = history
      BY <1>4, <2>1
    <3>3. wo'[w].status = wo[w].status
      BY <1>2, <2>1, <3>1 DEF SameColumns
    <3>4. Chained(w)'
      BY <1>1, <3>2, <3>3 DEF OrderInv, Chained, LastOf, Exists
    <3>5. /\ LastOf(w)' = LastOf(w) /\ Agree(w)
          /\ PreviousStatus(w) \in Suspendable /\ PreviousStatus(w) = LastOf(w).from
      BY <1>1, <2>1, <3>2, PreservedStatus DEF OrderInv, LastOf
    <3>6. Agree(w)'
      BY <1>3, <1>6, <3>5 DEF Agree
    <3> QED BY <3>1, <3>2, <3>4, <3>6 DEF TypeOK
  <2>2. CASE from # "PENDING"
    <3>1. /\ wo' \in [WorkOrderIds -> Row] /\ SameColumns(wo'[w], row)
          /\ \A v \in WorkOrderIds : v # w => wo'[v] = wo[v]
          /\ history' \in [WorkOrderIds -> Seq(HistoryRow)]
          /\ \A v \in WorkOrderIds : v # w => history'[v] = history[v]
          /\ Chained(w)' /\ LastOf(w)'.from = from
      BY <1>1, <1>2, <1>4, <2>2, StatusChange, StatusSet DEF Statuses
    <3>2. OpenPendencies(w) = {}
      BY <1>1, <2>2 DEF OrderInv, Coherent
    <3>3. PreviousStatus(w) \in Suspendable /\ PreviousStatus(w) = from
      BY <2>2, PreservedStatus
    <3>4. Agree(w)'
      BY <1>3, <1>6, <3>1, <3>2, <3>3 DEF Agree
    <3> QED BY <3>1, <3>4
  <2> QED BY <2>1, <2>2
<1>8. Coherent(w)' /\ Archived(w)' /\ RatedOK(w)'
  BY <1>1, <1>2, <1>4, <1>6, <1>7 DEF SameColumns, Coherent, Archived, RatedOK, OrderInv
<1>9. Conclusive(w)'
  BY <1>1, <1>2, <1>7 DEF SameColumns, Conclusive, Concluded, OrderInv
<1>10. TypeOK'
  BY <1>4, <1>5, <1>7 DEF TypeOK
<1>11. Frame(w)
  BY <1>4, <1>5, <1>7 DEF Frame
<1> QED BY <1>7, <1>8, <1>9, <1>10, <1>11 DEF Owes, OrderInv

\* The last resolution takes the order back to where it was suspended.
LEMMA ResolveOwes ==
  ASSUME IInv, NEW w \in WorkOrderIds, NEW i \in DOMAIN pend[w], ResolvePendency(w, i)
  PROVE  Owes(w)
<1> USE DEF IInv
<1>1. /\ OrderInv(w) /\ wo[w] \in Row /\ i \in OpenPendencies(w) /\ wo[w].status = "PENDING"
      /\ ~wo[w].deleted /\ wo[w].hasOpenPendency
  BY DEF ResolvePendency, Visible, TypeOK, OrderInv, Coherent
<1>2. /\ pend' \in [WorkOrderIds -> Seq(Pendency)]
      /\ \A v \in WorkOrderIds : v # w => pend'[v] = pend[v]
      /\ OpenPendencies(w)' = OpenPendencies(w) \ {i}
      /\ \A j \in OpenPendencies(w)' : pend'[w][j] = pend[w][j]
  <2> DEFINE rows == [pend[w] EXCEPT ![i].status = "RESOLVED"]
  <2>1. pend[w] \in Seq(Pendency) /\ pend[w][i] \in Pendency
    BY DEF TypeOK
  <2>2. [pend[w][i] EXCEPT !.status = "RESOLVED"] \in Pendency
    BY <2>1 DEF Pendency
  <2>3. rows \in Seq(Pendency)
    BY <2>1, <2>2
  <2>4. /\ DOMAIN rows = DOMAIN pend[w] /\ rows[i].status = "RESOLVED"
        /\ \A j \in DOMAIN pend[w] : j # i => rows[j] = pend[w][j]
    BY <2>1, <2>2 DEF Pendency
  <2>5. pend' = [pend EXCEPT ![w] = rows]
    BY DEF ResolvePendency
  <2> HIDE DEF rows
  <2>6. pend'[w] = rows
    BY <2>3, <2>5 DEF TypeOK
  <2> QED BY <2>3, <2>4, <2>5, <2>6 DEF OpenPendencies, TypeOK
<1>3. UNCHANGED <<ready, rated, measured, req>>
  BY DEF ResolvePendency
<1>4. CASE OpenPendencies(w) # {i}
  <2>1. UNCHANGED <<wo, history>>
    BY <1>4 DEF ResolvePendency
  <2>2. Coherent(w)'
    BY <1>1, <1>2, <1>4, <2>1 DEF Coherent, OrderInv
  <2>3. Agree(w)'
    BY <1>1, <1>2, <2>1 DEF Agree, OrderInv, LastOf
  <2>4. Chained(w)' /\ RatedOK(w)' /\ Archived(w)' /\ Conclusive(w)'
    BY <1>1, <1>3, <2>1
       DEF Chained, RatedOK, Archived, Conclusive, OrderInv, LastOf, Exists, Concluded
  <2>5. TypeOK'
    BY <1>2, <1>3, <2>1 DEF TypeOK
  <2> QED BY <1>2, <1>3, <2>1, <2>2, <2>3, <2>4, <2>5 DEF Owes, OrderInv, Frame
<1>5. CASE OpenPendencies(w) = {i}
  <2> DEFINE restored == pend[w][i].previousStatus
             row == [wo[w] EXCEPT !.hasOpenPendency = FALSE, !.status = restored]
  <2>1. restored \in Suspendable /\ RestoredStatus(restored) = restored
    BY <1>1 DEF Agree, OrderInv, Suspendable, RestoredStatus
  <2> HIDE DEF restored
  <2>2. restored \in WorkOrderStatus /\ restored \notin Concluded \cup {"PENDING"}
    BY <2>1, StatusSet DEF Suspendable, Statuses, Concluded
  <2>3. /\ row \in Row /\ row.status = restored /\ ~row.hasOpenPendency /\ ~row.deleted
        /\ row.solution = wo[w].solution /\ row.accepted = wo[w].accepted
        /\ row.measurementEligible = wo[w].measurementEligible
    BY <1>1, <2>2 DEF Row
  <2>4. MayWrite(w) /\ WriteRow(w, row) /\ Record(w, "PENDING", row.status, "flow")
    BY <1>5, <2>1, <2>3 DEF ResolvePendency, restored
  <2> HIDE DEF row
  <2>5. /\ wo' \in [WorkOrderIds -> Row] /\ SameColumns(wo'[w], row)
        /\ \A v \in WorkOrderIds : v # w => wo'[v] = wo[v]
        /\ history' \in [WorkOrderIds -> Seq(HistoryRow)]
        /\ \A v \in WorkOrderIds : v # w => history'[v] = history[v]
        /\ Chained(w)'
    BY <1>1, <2>2, <2>3, <2>4, StatusChange, StatusSet DEF Statuses
  <2>6. Coherent(w)' /\ Agree(w)' /\ Archived(w)' /\ RatedOK(w)'
    BY <1>1, <1>2, <1>3, <1>5, <2>2, <2>3, <2>5
       DEF SameColumns, Coherent, Agree, Archived, RatedOK, OrderInv, Concluded
  <2>7. Conclusive(w)'
    BY <1>1, <2>2, <2>3, <2>5 DEF SameColumns, Conclusive, OrderInv, Concluded
  <2>8. TypeOK'
    BY <1>2, <1>3, <2>5 DEF TypeOK
  <2> QED BY <1>2, <1>3, <2>5, <2>6, <2>7, <2>8 DEF Owes, OrderInv, Frame
<1> QED BY <1>4, <1>5

-----------------------------------------------------------------------------
(* The invariant is inductive.                                             *)

\* Reading for a request changes no row and remembers the row as it is.
LEMMA RememberKeeps ==
  ASSUME IInv, NEW s \in Sessions, NEW w \in WorkOrderIds, Exists(w),
         NEW op \in {"transition", "update", "archive", "reopen", "upload"},
         NEW to \in WorkOrderStatus, Remember(s, op, w, to),
         op = "transition" => canTransition(wo[w].status, to) /\ to \notin {"PENDING", "CLOSED"}
  PROVE  IInv'
<1> USE DEF IInv
<1> DEFINE request == [op |-> op, w |-> w, read |-> wo[w], to |-> to]
<1>1. /\ UNCHANGED <<wo, pend, history, ready, rated, measured>>
      /\ req' = [req EXCEPT ![s] = request]
  BY DEF Remember
<1>2. request \in Request /\ wo[w].status \in WorkOrderStatus
  BY DEF Request, TypeOK, Exists, Row
<1>3. request.op = op /\ request.read = wo[w] /\ request.to = to
  OBVIOUS
<1> HIDE DEF request
<1>4. TypeOK'
  BY <1>1, <1>2 DEF TypeOK
<1>5. /\ req'[s] = request
      /\ \A t \in Sessions \ {s} : req'[t] = req[t]
  BY <1>1 DEF TypeOK
<1>6. RequestOK'
  BY <1>2, <1>3, <1>5 DEF RequestOK
<1>7. \A v \in WorkOrderIds : OrderInv(v)'
  BY <1>1, EvidenceKeeps
<1> QED BY <1>4, <1>6, <1>7

\* A step on an order that adds no request keeps the invariant.
LEMMA OwesSuffices ==
  ASSUME IInv, NEW w \in WorkOrderIds, Owes(w),
         \A s \in Sessions : req'[s] = req[s] \/ req'[s] = Idle
  PROVE  IInv'
<1>1. RequestOK'
  BY DEF IInv, RequestOK, Idle
<1>2. \A v \in WorkOrderIds : OrderInv(v)'
  BY FrameKeeps DEF Owes, IInv
<1> QED BY <1>1, <1>2 DEF Owes, IInv

\* A commit finishes the request of its session.
LEMMA FinishKeeps ==
  ASSUME TypeOK, NEW s \in Sessions, req' = [req EXCEPT ![s] = Idle]
  PROVE  \A t \in Sessions : req'[t] = req[t] \/ req'[t] = Idle
BY DEF TypeOK

LEMMA InitInv == Init => IInv
<1> SUFFICES ASSUME Init PROVE IInv
  OBVIOUS
<1>1. 0 \in 0..MaxWrites
  BY BoundsAreNatural
<1>2. AbsentRow \in Row
  BY <1>1 DEF AbsentRow, Row
<1>3. TypeOK
  BY <1>2 DEF Init, TypeOK
<1>4. RequestOK
  BY DEF Init, RequestOK, Idle
<1>5. ASSUME NEW w \in WorkOrderIds PROVE OrderInv(w)
  <2>1. /\ wo[w] = AbsentRow /\ pend[w] = <<>> /\ history[w] = <<>> /\ w \notin rated
    BY DEF Init
  <2>2. OpenPendencies(w) = {}
    BY <2>1 DEF OpenPendencies
  <2>3. Coherent(w) /\ Agree(w) /\ Archived(w) /\ RatedOK(w)
    BY <2>1, <2>2 DEF Coherent, Agree, Archived, RatedOK, AbsentRow
  <2>4. Chained(w)
    BY <2>1 DEF Chained, Exists, AbsentRow
  <2>5. Conclusive(w)
    BY <2>1, <2>2 DEF Conclusive, Concluded, AbsentRow
  <2> QED BY <2>3, <2>4, <2>5 DEF OrderInv
<1> QED BY <1>3, <1>4, <1>5 DEF IInv

LEMMA SessionKeeps ==
  ASSUME IInv, NEW s \in Sessions, SessionStep(s)
  PROVE  IInv'
<1> USE DEF IInv
<1>1. ASSUME NEW w \in WorkOrderIds, UpdateRead(s, w) PROVE IInv'
  <2>1. Exists(w) /\ wo[w].status \in WorkOrderStatus
    BY <1>1 DEF UpdateRead, Visible, Exists, TypeOK, Row
  <2> QED BY <1>1, <2>1, RememberKeeps DEF UpdateRead
<1>2. ASSUME NEW w \in WorkOrderIds, ArchiveRead(s, w) PROVE IInv'
  <2>1. Exists(w) /\ wo[w].status \in WorkOrderStatus
    BY <1>2 DEF ArchiveRead, Visible, Exists, TypeOK, Row
  <2> QED BY <1>2, <2>1, RememberKeeps DEF ArchiveRead
<1>3. ASSUME NEW w \in WorkOrderIds, UploadRead(s, w) PROVE IInv'
  <2>1. Exists(w) /\ wo[w].status \in WorkOrderStatus
    BY <1>3 DEF UploadRead, Visible, Exists, TypeOK, Row
  <2> QED BY <1>3, <2>1, RememberKeeps DEF UploadRead
<1>4. ASSUME NEW w \in WorkOrderIds, ReopenRead(s, w) PROVE IInv'
  <2>1. Exists(w) /\ "IN_PROGRESS" \in WorkOrderStatus
    BY <1>4, StatusSet DEF ReopenRead, Visible, Statuses
  <2> QED BY <1>4, <2>1, RememberKeeps DEF ReopenRead
<1>5. ASSUME NEW w \in WorkOrderIds, NEW to \in WorkOrderStatus, TransitionRead(s, w, to)
      PROVE  IInv'
  BY <1>5, RememberKeeps DEF TransitionRead, Visible
<1>6. CASE UpdateCommit(s)
  <2>1. req[s].w \in WorkOrderIds /\ req' = [req EXCEPT ![s] = Idle]
    BY <1>6, RequestTarget DEF UpdateCommit, Finish
  <2> QED BY <1>6, <2>1, UpdateOwes, FinishKeeps, OwesSuffices
<1>7. CASE TransitionCommit(s)
  <2>1. req[s].w \in WorkOrderIds /\ req' = [req EXCEPT ![s] = Idle]
    BY <1>7, RequestTarget DEF TransitionCommit, Finish
  <2> QED BY <1>7, <2>1, TransitionOwes, FinishKeeps, OwesSuffices
<1>8. CASE ArchiveCommit(s)
  <2>1. req[s].w \in WorkOrderIds /\ req' = [req EXCEPT ![s] = Idle]
    BY <1>8, RequestTarget DEF ArchiveCommit, Finish
  <2> QED BY <1>8, <2>1, ArchiveOwes, FinishKeeps, OwesSuffices
<1>9. CASE UploadCommit(s)
  <2>1. req[s].w \in WorkOrderIds /\ req' = [req EXCEPT ![s] = Idle]
    BY <1>9, RequestTarget DEF UploadCommit, Finish
  <2> QED BY <1>9, <2>1, UploadOwes, FinishKeeps, OwesSuffices
<1>10. CASE ReopenCommit(s)
  <2>1. req[s].w \in WorkOrderIds /\ req' = [req EXCEPT ![s] = Idle]
    BY <1>10, RequestTarget DEF ReopenCommit, Finish
  <2> QED BY <1>10, <2>1, ReopenOwes, FinishKeeps, OwesSuffices
<1>11. CASE Abandon(s)
  <2>1. UNCHANGED <<wo, pend, history, ready, rated, measured>> /\ req' = [req EXCEPT ![s] = Idle]
    BY <1>11 DEF Abandon, Finish
  <2>2. TypeOK'
    BY <2>1 DEF TypeOK
  <2>3. RequestOK'
    BY <2>1, FinishKeeps DEF RequestOK, Idle
  <2>4. \A w \in WorkOrderIds : OrderInv(w)'
    BY <2>1, EvidenceKeeps
  <2> QED BY <2>2, <2>3, <2>4
<1> QED BY <1>1, <1>2, <1>3, <1>4, <1>5, <1>6, <1>7, <1>8, <1>9, <1>10, <1>11 DEF SessionStep

LEMMA OrderKeeps ==
  ASSUME IInv, NEW w \in WorkOrderIds, OrderStep(w)
  PROVE  IInv'
<1>1. Owes(w)
  BY CreateOwes, RespondOwes, AddPendencyOwes, CloseOwes, SatisfactionOwes, OtherWriteOwes,
     MeasurementOwes, ResolveOwes DEF OrderStep
<1>2. req' = req
  BY DEF OrderStep, Create, RespondChecklist, AddPendency, Close, SubmitSatisfaction,
     OtherWrite, MeasurementLinks, MeasurementRejected, ResolvePendency
<1> QED BY <1>1, <1>2, OwesSuffices

LEMMA Inductive == IInv /\ [Next]_vars => IInv'
<1> SUFFICES ASSUME IInv, [Next]_vars PROVE IInv'
  OBVIOUS
<1>1. CASE Next
  BY <1>1, SessionKeeps, OrderKeeps DEF Next
<1>2. CASE UNCHANGED vars
  <2>1. UNCHANGED <<wo, pend, history, ready, rated, measured, req>>
    BY <1>2 DEF vars
  <2>2. \A w \in WorkOrderIds : OrderInv(w)'
    BY <2>1, EvidenceKeeps DEF IInv
  <2> QED BY <2>1, <2>2 DEF IInv, TypeOK, RequestOK
<1> QED BY <1>1, <1>2

\* Every reachable state satisfies the inductive invariant.
THEOREM Invariance == Spec => []IInv
<1> QED BY InitInv, Inductive, PTL DEF Spec

\* Rows, pendencies, histories and requests keep their types.
THEOREM TypeCorrect == Spec => []TypeOK
<1>1. IInv => TypeOK
  BY DEF IInv
<1> QED BY Invariance, <1>1, PTL

\* However requests interleave, an order is PENDING exactly when its flag is
\* set, exactly when one of its pendencies is open.
THEOREM PendencyCoherent == Spec => []PendencyCoherence
<1>1. IInv => PendencyCoherence
  BY DEF IInv, OrderInv, Coherent, PendencyCoherence
<1> QED BY Invariance, <1>1, PTL

\* All open pendencies of an order remember the status it was suspended from.
THEOREM PendenciesAlwaysAgree == Spec => []PendenciesAgree
<1>1. IInv => PendenciesAgree
  BY DEF IInv, OrderInv, Agree, LastOf, Suspendable, PendenciesAgree
<1> QED BY Invariance, <1>1, PTL

\* The status history is a chain that ends in the current status.
THEOREM HistoryAlwaysChain == Spec => []HistoryIsChain
<1>1. IInv => HistoryIsChain
  BY DEF IInv, OrderInv, Chained, LastOf, HistoryIsChain
<1> QED BY Invariance, <1>1, PTL

\* A concluded order keeps what its conclusion required.
THEOREM ConclusionAlwaysHolds == Spec => []ConclusionHolds
<1>1. IInv => ConclusionHolds
  BY DEF IInv, OrderInv, Conclusive, ConclusionHolds
<1> QED BY Invariance, <1>1, PTL

\* A current satisfaction answer belongs to a concluded (or archived) order.
THEOREM RatedAlwaysConcluded == Spec => []RatedOnlyConcluded
<1>1. IInv => RatedOnlyConcluded
  BY DEF IInv, OrderInv, RatedOK, RatedOnlyConcluded, TypeOK
<1> QED BY Invariance, <1>1, PTL

-----------------------------------------------------------------------------
(* Optimistic concurrency: comparing two columns compares the whole row,   *)
(* because every write of a row raises its version.                        *)

Versioned == \A w \in WorkOrderIds :
  wo'[w] = wo[w] \/ wo'[w].updatedAt = wo[w].updatedAt + 1

\* What a request read is older than the row, or is the row.
ReadsOK == \A s \in Sessions : req[s].op # "idle" =>
  LET now == wo[req[s].w] IN
  /\ req[s].read.updatedAt <= now.updatedAt
  /\ req[s].read.updatedAt = now.updatedAt => now = req[s].read

LEMMA WriteIsVersioned ==
  ASSUME TypeOK, NEW w \in WorkOrderIds, NEW row,
         "updatedAt" \in DOMAIN row, WriteRow(w, row)
  PROVE  Versioned
<1> DEFINE new == [row EXCEPT !.updatedAt = wo[w].updatedAt + 1]
<1>1. new.updatedAt = wo[w].updatedAt + 1
  OBVIOUS
<1> HIDE DEF new
<1>2. wo' = [wo EXCEPT ![w] = new]
  BY DEF WriteRow, new
<1> QED BY <1>1, <1>2 DEF Versioned, TypeOK

LEMMA StepIsVersioned ==
  ASSUME IInv, [Next]_vars
  PROVE  Versioned
<1>1. TypeOK
  BY DEF IInv
<1>2. \A w \in WorkOrderIds : wo[w] \in Row
  BY <1>1 DEF TypeOK
<1>3. ASSUME NEW w \in WorkOrderIds, OrderStep(w) PROVE Versioned
  <2>1. CASE Create(w)
    <3>1. PICK assigned \in BOOLEAN :
            WriteRow(w, [AbsentRow EXCEPT !.status = "OPEN", !.assigned = assigned])
      BY <2>1 DEF Create
    <3>2. "updatedAt" \in DOMAIN [AbsentRow EXCEPT !.status = "OPEN", !.assigned = assigned]
      BY DEF AbsentRow
    <3> QED BY <1>1, <3>1, <3>2, WriteIsVersioned
  <2>2. CASE AddPendency(w)
    BY <1>1, <1>2, <2>2, WriteIsVersioned DEF AddPendency, Row
  <2>3. CASE Close(w)
    BY <1>1, <1>2, <2>3, WriteIsVersioned DEF Close, Row
  <2>4. CASE OtherWrite(w)
    BY <1>1, <1>2, <2>4, WriteIsVersioned DEF OtherWrite, Row
  <2>5. ASSUME NEW i \in DOMAIN pend[w], ResolvePendency(w, i) PROVE Versioned
    <3>1. CASE OpenPendencies(w) = {i}
      <4> DEFINE restored == RestoredStatus(pend[w][i].previousStatus)
      <4>1. WriteRow(w, [wo[w] EXCEPT !.hasOpenPendency = FALSE, !.status = restored])
        BY <2>5, <3>1 DEF ResolvePendency
      <4> HIDE DEF restored
      <4> QED BY <1>1, <1>2, <4>1, WriteIsVersioned DEF Row
    <3>2. CASE OpenPendencies(w) # {i}
      BY <2>5, <3>2 DEF ResolvePendency, Versioned
    <3> QED BY <3>1, <3>2
  <2>6. CASE \/ RespondChecklist(w) \/ SubmitSatisfaction(w)
             \/ MeasurementLinks(w) \/ MeasurementRejected(w)
    BY <2>6 DEF RespondChecklist, SubmitSatisfaction, MeasurementLinks, MeasurementRejected,
       Versioned
  <2> QED BY <1>3, <2>1, <2>2, <2>3, <2>4, <2>5, <2>6 DEF OrderStep
<1>4. ASSUME NEW s \in Sessions, SessionStep(s) PROVE Versioned
  <2>1. CASE UpdateCommit(s)
    <3>1. req[s].w \in WorkOrderIds
      BY <1>1, <2>1, RequestTarget DEF UpdateCommit
    <3>2. PICK assigned : WriteRow(req[s].w, [wo[req[s].w] EXCEPT !.assigned = assigned])
      BY <2>1 DEF UpdateCommit
    <3> QED BY <1>1, <1>2, <3>1, <3>2, WriteIsVersioned DEF Row
  <2>2. CASE TransitionCommit(s)
    <3>1. req[s].w \in WorkOrderIds
      BY <1>1, <2>2, RequestTarget DEF TransitionCommit
    <3> DEFINE row == [wo[req[s].w] EXCEPT !.status = req[s].to,
                         !.hasOpenPendency = (req[s].to # "CANCELED" /\ @),
                         !.solution = (req[s].to = "COMPLETED" \/ @)]
    <3>2. WriteRow(req[s].w, row)
      BY <2>2 DEF TransitionCommit
    <3>3. "updatedAt" \in DOMAIN row
      BY <1>2, <3>1 DEF Row
    <3> HIDE DEF row
    <3> QED BY <1>1, <3>1, <3>2, <3>3, WriteIsVersioned
  <2>3. CASE ArchiveCommit(s)
    <3>1. req[s].w \in WorkOrderIds
      BY <1>1, <2>3, RequestTarget DEF ArchiveCommit
    <3> DEFINE row == [wo[req[s].w] EXCEPT !.status = "CANCELED", !.deleted = TRUE,
                         !.hasOpenPendency = FALSE, !.measurementEligible = FALSE]
    <3>2. WriteRow(req[s].w, row)
      BY <2>3 DEF ArchiveCommit
    <3>3. "updatedAt" \in DOMAIN row
      BY <1>2, <3>1 DEF Row
    <3> HIDE DEF row
    <3> QED BY <1>1, <3>1, <3>2, <3>3, WriteIsVersioned
  <2>4. CASE ReopenCommit(s)
    <3>1. req[s].w \in WorkOrderIds
      BY <1>1, <2>4, RequestTarget DEF ReopenCommit
    <3> DEFINE row == [wo[req[s].w] EXCEPT !.status = "IN_PROGRESS", !.solution = FALSE,
                         !.accepted = FALSE, !.measurementEligible = FALSE]
    <3>2. WriteRow(req[s].w, row)
      BY <2>4 DEF ReopenCommit
    <3>3. "updatedAt" \in DOMAIN row
      BY <1>2, <3>1 DEF Row
    <3> HIDE DEF row
    <3> QED BY <1>1, <3>1, <3>2, <3>3, WriteIsVersioned
  <2>5. CASE UploadCommit(s) \/ Abandon(s)
    BY <2>5 DEF UploadCommit, Abandon, Versioned
  <2>6. CASE \E w \in WorkOrderIds :
               \/ UpdateRead(s, w) \/ ArchiveRead(s, w) \/ UploadRead(s, w) \/ ReopenRead(s, w)
               \/ \E to \in WorkOrderStatus : TransitionRead(s, w, to)
    BY <2>6 DEF UpdateRead, ArchiveRead, UploadRead, ReopenRead, TransitionRead, Remember,
       Versioned
  <2> QED BY <1>4, <2>1, <2>2, <2>3, <2>4, <2>5, <2>6 DEF SessionStep
<1>5. CASE UNCHANGED vars
  BY <1>5 DEF vars, Versioned
<1> QED BY <1>3, <1>4, <1>5 DEF Next

\* Only a session that has nothing in progress reads a row, and it reads the
\* row as it is; every other step of a session keeps its request or ends it.
LEMMA RequestsEvolve ==
  ASSUME IInv, [Next]_vars, NEW t \in Sessions
  PROVE  \/ req'[t] = req[t] \/ req'[t] = Idle
         \/ \E w \in WorkOrderIds :
              req'[t].w = w /\ req'[t].read = wo[w] /\ UNCHANGED wo
<1>1. TypeOK
  BY DEF IInv
<1>2. ASSUME NEW w \in WorkOrderIds, OrderStep(w) PROVE req' = req
  BY <1>2 DEF OrderStep, Create, RespondChecklist, AddPendency, Close, SubmitSatisfaction,
     OtherWrite, MeasurementLinks, MeasurementRejected, ResolvePendency
<1>3. ASSUME NEW s \in Sessions, NEW w \in WorkOrderIds, NEW op, NEW to, Remember(s, op, w, to)
      PROVE  req'[t] = req[t] \/ (req'[t].w = w /\ req'[t].read = wo[w] /\ UNCHANGED wo)
  <2> DEFINE request == [op |-> op, w |-> w, read |-> wo[w], to |-> to]
  <2>1. request.w = w /\ request.read = wo[w]
    OBVIOUS
  <2>2. req' = [req EXCEPT ![s] = request] /\ UNCHANGED wo
    BY <1>3 DEF Remember
  <2> HIDE DEF request
  <2> QED BY <1>1, <2>1, <2>2 DEF TypeOK
<1>4. ASSUME NEW s \in Sessions, SessionStep(s)
      PROVE  \/ req'[t] = req[t] \/ req'[t] = Idle
             \/ \E w \in WorkOrderIds :
                  req'[t].w = w /\ req'[t].read = wo[w] /\ UNCHANGED wo
  <2>1. CASE \/ UpdateCommit(s) \/ TransitionCommit(s) \/ ArchiveCommit(s)
             \/ UploadCommit(s) \/ ReopenCommit(s) \/ Abandon(s)
    <3>1. req' = [req EXCEPT ![s] = Idle]
      BY <2>1 DEF UpdateCommit, TransitionCommit, ArchiveCommit, UploadCommit, ReopenCommit,
         Abandon, Finish
    <3> QED BY <1>1, <3>1, FinishKeeps
  <2>2. CASE \E w \in WorkOrderIds :
               \/ UpdateRead(s, w) \/ ArchiveRead(s, w) \/ UploadRead(s, w) \/ ReopenRead(s, w)
               \/ \E to \in WorkOrderStatus : TransitionRead(s, w, to)
    BY <1>3, <2>2 DEF UpdateRead, ArchiveRead, UploadRead, ReopenRead, TransitionRead
  <2> QED BY <1>4, <2>1, <2>2 DEF SessionStep
<1>5. CASE UNCHANGED vars
  BY <1>5 DEF vars
<1> QED BY <1>2, <1>4, <1>5 DEF Next

LEMMA ReadsKept ==
  ASSUME IInv, ReadsOK, [Next]_vars
  PROVE  ReadsOK'
<1>1. TypeOK /\ TypeOK' /\ Versioned
  BY Inductive, StepIsVersioned DEF IInv
<1>2. \A w \in WorkOrderIds : wo[w].updatedAt \in Nat /\ wo'[w].updatedAt \in Nat
  BY <1>1, BoundsAreNatural DEF TypeOK, Row
<1> SUFFICES ASSUME NEW t \in Sessions, req'[t].op # "idle"
             PROVE  /\ req'[t].read.updatedAt <= wo'[req'[t].w].updatedAt
                    /\ req'[t].read.updatedAt = wo'[req'[t].w].updatedAt
                         => wo'[req'[t].w] = req'[t].read
  BY DEF ReadsOK
<1>3. CASE req'[t] = req[t]
  <2>1. req[t].w \in WorkOrderIds /\ req[t].read.updatedAt \in Nat
    BY <1>1, <1>3, RequestTarget, BoundsAreNatural DEF Request, Row
  <2>2. /\ req[t].read.updatedAt <= wo[req[t].w].updatedAt
        /\ req[t].read.updatedAt = wo[req[t].w].updatedAt => wo[req[t].w] = req[t].read
    BY <1>3 DEF ReadsOK
  <2>3. \/ wo'[req[t].w] = wo[req[t].w]
        \/ wo'[req[t].w].updatedAt = wo[req[t].w].updatedAt + 1
    BY <1>1, <2>1 DEF Versioned
  <2> QED BY <1>2, <1>3, <2>1, <2>2, <2>3
<1>4. CASE req'[t] = Idle
  BY <1>4 DEF Idle
<1>5. CASE \E w \in WorkOrderIds : req'[t].w = w /\ req'[t].read = wo[w] /\ UNCHANGED wo
  BY <1>2, <1>5
<1> QED BY <1>3, <1>4, <1>5, RequestsEvolve

\* No transition, update or reopening is written over a row that changed since
\* its request read it: the two columns compared under the lock are enough.
THEOREM NoUpdateIsLost == Spec => NoLostUpdate
<1>1. Init => ReadsOK
  BY DEF Init, ReadsOK, Idle
<1>2. IInv /\ ReadsOK /\ [Next]_vars => ReadsOK'
  BY ReadsKept
<1>3. ASSUME IInv, ReadsOK, [Next]_vars, NEW s \in Sessions,
             req[s] # Idle, req'[s] = Idle, wo' # wo, req[s].op # "archive"
      PROVE  wo[req[s].w] = req[s].read
  <2>1. TypeOK /\ req[s].op # "idle"
    BY <1>3 DEF IInv, TypeOK, Request
  <2>2. PICK u \in Sessions : SessionStep(u)
    <3>1. ~UNCHANGED vars
      BY <1>3 DEF vars
    <3>2. ASSUME NEW w \in WorkOrderIds, OrderStep(w) PROVE req' = req
      BY <3>2 DEF OrderStep, Create, RespondChecklist, AddPendency, Close, SubmitSatisfaction,
         OtherWrite, MeasurementLinks, MeasurementRejected, ResolvePendency
    <3> QED BY <1>3, <3>1, <3>2 DEF Next
  <2>3. ASSUME NEW w \in WorkOrderIds,
               \/ UpdateRead(u, w) \/ ArchiveRead(u, w) \/ UploadRead(u, w) \/ ReopenRead(u, w)
               \/ \E to \in WorkOrderStatus : TransitionRead(u, w, to)
        PROVE  FALSE
    BY <1>3, <2>3 DEF UpdateRead, ArchiveRead, UploadRead, ReopenRead, TransitionRead, Remember
  <2>4. \/ UpdateCommit(u) \/ TransitionCommit(u) \/ ReopenCommit(u) \/ ArchiveCommit(u)
    BY <1>3, <2>2, <2>3 DEF SessionStep, UploadCommit, Abandon
  <2>5. req' = [req EXCEPT ![u] = Idle]
    BY <2>4 DEF UpdateCommit, TransitionCommit, ReopenCommit, ArchiveCommit, Finish
  <2>6. u = s
    BY <1>3, <2>1, <2>5 DEF TypeOK
  <2>7. SameAsRead(s)
    BY <1>3, <2>4, <2>6 DEF UpdateCommit, TransitionCommit, ReopenCommit, ArchiveCommit
  <2> QED BY <1>3, <2>1, <2>7 DEF ReadsOK, SameAsRead
<1>4. IInv /\ ReadsOK /\ [Next]_vars =>
        [\A s \in Sessions :
          (req[s] # Idle /\ req'[s] = Idle /\ wo' # wo /\ req[s].op # "archive")
            => wo[req[s].w] = req[s].read]_vars
  BY <1>3
<1> QED BY <1>1, <1>2, <1>4, Invariance, PTL DEF Spec, NoLostUpdate

-----------------------------------------------------------------------------
(* The service implements the abstract life cycle.                         *)

StatusOf == [w \in WorkOrderIds |-> wo[w].status]
ResumeOf == [w \in WorkOrderIds |-> ResumeAt(w)]

\* A step on one order changes the abstract state of that order only.
LEMMA AbstractFrame ==
  ASSUME NEW w \in WorkOrderIds, Frame(w)
  PROVE  /\ StatusOf' = [StatusOf EXCEPT ![w] = wo'[w].status]
         /\ ResumeOf' = [ResumeOf EXCEPT ![w] = ResumeAt(w)']
         /\ StatusOf[w] = wo[w].status /\ ResumeOf[w] = ResumeAt(w)
<1>1. ASSUME NEW v \in WorkOrderIds, v # w
      PROVE  wo'[v].status = wo[v].status /\ ResumeAt(v)' = ResumeAt(v)
  BY <1>1 DEF Frame, ResumeAt
<1>2. StatusOf' = [StatusOf EXCEPT ![w] = wo'[w].status]
  BY <1>1 DEF StatusOf
<1>3. ResumeOf' = [ResumeOf EXCEPT ![w] = ResumeAt(w)']
  BY <1>1 DEF ResumeOf
<1> QED BY <1>2, <1>3 DEF StatusOf, ResumeOf

\* What a step on one order may look like in the abstract life cycle.
AbstractStep(w) ==
  LET from == wo[w].status
      to == wo'[w].status
      r == ResumeAt(w)
      s == ResumeAt(w)'
  IN \/ to = from /\ s = r
     \/ from = "ABSENT" /\ to = "OPEN" /\ s = r
     \/ from # "PENDING" /\ from \in WorkOrderStatus /\ to # "PENDING"
          /\ canTransition(from, to) /\ s = r
     \/ from \in WorkOrderStatus /\ canTransition(from, "PENDING") /\ to = "PENDING" /\ s = from
     \/ from = "PENDING" /\ to = r /\ s = "ABSENT"
     \/ from = "COMPLETED" /\ to = "CLOSED" /\ s = r
     \/ from \in Concluded /\ to = "IN_PROGRESS" /\ s = r
     \/ from \in WorkOrderStatus /\ to = "CANCELED" /\ s = "ABSENT"

LEMMA AbstractStepRefines ==
  ASSUME NEW w \in WorkOrderIds, Frame(w), AbstractStep(w)
  PROVE  [LC!LNext]_(LC!lvars)
<1> DEFINE from == wo[w].status
           to == wo'[w].status
           r == ResumeAt(w)
           s == ResumeAt(w)'
<1>1. /\ StatusOf' = [StatusOf EXCEPT ![w] = to] /\ ResumeOf' = [ResumeOf EXCEPT ![w] = s]
      /\ StatusOf[w] = from /\ ResumeOf[w] = r
  BY AbstractFrame
<1>2. s = r => ResumeOf' = ResumeOf
  BY <1>1 DEF ResumeOf
<1>3. CASE to = from /\ s = r
  <2>1. StatusOf' = StatusOf
    BY <1>1, <1>3 DEF StatusOf
  <2> QED BY <1>2, <1>3, <2>1 DEF LC!lvars, StatusOf, ResumeOf
<1>4. CASE from = "ABSENT" /\ to = "OPEN" /\ s = r
  <2>1. LC!Open(w)
    BY <1>1, <1>2, <1>4 DEF LC!Open, LC!Move, LC!Nowhere, StatusOf, ResumeOf
  <2> QED BY <2>1 DEF LC!LNext
<1>5. CASE from # "PENDING" /\ from \in WorkOrderStatus /\ to # "PENDING"
           /\ canTransition(from, to) /\ s = r
  <2>1. LC!Advance(w)
    BY <1>1, <1>2, <1>5
       DEF LC!Advance, LC!Move, StatusOf, ResumeOf, canTransition, LC!canTransition, WorkOrderStatus
  <2> QED BY <2>1 DEF LC!LNext
<1>6. CASE from \in WorkOrderStatus /\ canTransition(from, "PENDING") /\ to = "PENDING" /\ s = from
  <2>1. LC!Suspend(w)
    BY <1>1, <1>6
       DEF LC!Suspend, LC!Suspendable, StatusOf, ResumeOf, canTransition, LC!canTransition, WorkOrderStatus
  <2> QED BY <2>1 DEF LC!LNext
<1>7. CASE from = "PENDING" /\ to = r /\ s = "ABSENT"
  <2>1. LC!Continue(w)
    BY <1>1, <1>7 DEF LC!Continue, LC!Nowhere, StatusOf, ResumeOf
  <2> QED BY <2>1 DEF LC!LNext
<1>8. CASE from = "COMPLETED" /\ to = "CLOSED" /\ s = r
  <2>1. LC!Close(w)
    BY <1>1, <1>2, <1>8 DEF LC!Close, LC!Move, StatusOf, ResumeOf
  <2> QED BY <2>1 DEF LC!LNext
<1>9. CASE from \in Concluded /\ to = "IN_PROGRESS" /\ s = r
  <2>1. LC!Reopen(w)
    BY <1>1, <1>2, <1>9 DEF LC!Reopen, LC!Move, StatusOf, ResumeOf, Concluded, LC!Concluded
  <2> QED BY <2>1 DEF LC!LNext
<1>10. CASE from \in WorkOrderStatus /\ to = "CANCELED" /\ s = "ABSENT"
  <2>1. LC!Cancel(w)
    BY <1>1, <1>10 DEF LC!Cancel, LC!Nowhere, StatusOf, ResumeOf, WorkOrderStatus
  <2> QED BY <2>1 DEF LC!LNext
<1> QED BY <1>3, <1>4, <1>5, <1>6, <1>7, <1>8, <1>9, <1>10 DEF AbstractStep

LEMMA WrittenStatus ==
  ASSUME TypeOK, NEW w \in WorkOrderIds, NEW row, "status" \in DOMAIN row, WriteRow(w, row)
  PROVE  wo'[w].status = row.status
<1> DEFINE new == [row EXCEPT !.updatedAt = wo[w].updatedAt + 1]
<1>1. new.status = row.status
  OBVIOUS
<1> HIDE DEF new
<1>2. wo' = [wo EXCEPT ![w] = new]
  BY DEF WriteRow, new
<1> QED BY <1>1, <1>2 DEF TypeOK

\* Each operation on an order is a step of its life cycle, or none.
LEMMA OrderIsAbstract ==
  ASSUME IInv, NEW w \in WorkOrderIds, OrderStep(w)
  PROVE  AbstractStep(w)
<1>1. TypeOK /\ OrderInv(w) /\ wo[w] \in Row
  BY DEF IInv, TypeOK
<1>2. CASE Create(w)
  <2>1. PICK assigned \in BOOLEAN :
          WriteRow(w, [AbsentRow EXCEPT !.status = "OPEN", !.assigned = assigned])
    BY <1>2 DEF Create
  <2> DEFINE row == [AbsentRow EXCEPT !.status = "OPEN", !.assigned = assigned]
  <2>2. "status" \in DOMAIN row /\ row.status = "OPEN" /\ WriteRow(w, row)
    BY <2>1 DEF AbsentRow
  <2> HIDE DEF row
  <2>3. wo'[w].status = "OPEN" /\ wo[w].status = "ABSENT"
    BY <1>1, <1>2, <2>2, WrittenStatus DEF Create
  <2> QED BY <2>3 DEF AbstractStep, ResumeAt
<1>3. CASE AddPendency(w)
  <2> DEFINE row == [wo[w] EXCEPT !.status = "PENDING", !.hasOpenPendency = TRUE]
  <2>1. "status" \in DOMAIN row /\ row.status = "PENDING" /\ WriteRow(w, row)
    BY <1>1, <1>3 DEF AddPendency, Row
  <2> HIDE DEF row
  <2>2. wo'[w].status = "PENDING"
    BY <1>1, <2>1, WrittenStatus
  <2>3. CASE wo[w].status = "PENDING"
    <3>1. history' = history
      BY <1>3, <2>3 DEF AddPendency
    <3> QED BY <2>2, <2>3, <3>1 DEF AbstractStep, ResumeAt
  <2>4. CASE wo[w].status # "PENDING"
    <3>1. wo[w].status \in WorkOrderStatus /\ canTransition(wo[w].status, "PENDING")
      BY <1>1, <1>3, <2>4 DEF AddPendency, Visible, Exists, Row
    <3> DEFINE entry == [from |-> wo[w].status, to |-> "PENDING", by |-> "flow"]
    <3>2. entry \in HistoryRow /\ history[w] \in Seq(HistoryRow) /\ entry.from = wo[w].status
      BY <1>1, <3>1, StatusSet DEF HistoryRow, TypeOK, Statuses
    <3>3. history' = [history EXCEPT ![w] = Append(history[w], entry)]
      BY <1>3, <2>4 DEF AddPendency, Record
    <3> HIDE DEF entry
    <3>4. history'[w] = Append(history[w], entry)
      BY <1>1, <3>3 DEF TypeOK
    <3>5. history'[w][Len(history'[w])] = entry
      BY <3>2, <3>4, AppendProperties
    <3> QED BY <2>2, <3>1, <3>2, <3>5 DEF AbstractStep, ResumeAt
  <2> QED BY <2>3, <2>4
<1>4. CASE Close(w)
  <2>1. PICK eligible \in BOOLEAN :
          WriteRow(w, [wo[w] EXCEPT !.status = "CLOSED", !.accepted = TRUE,
                                    !.measurementEligible = eligible])
    BY <1>4 DEF Close
  <2> DEFINE row == [wo[w] EXCEPT !.status = "CLOSED", !.accepted = TRUE,
                                  !.measurementEligible = eligible]
  <2>2. "status" \in DOMAIN row /\ row.status = "CLOSED" /\ WriteRow(w, row)
    BY <1>1, <2>1 DEF Row
  <2> HIDE DEF row
  <2>3. wo'[w].status = "CLOSED" /\ wo[w].status = "COMPLETED"
    BY <1>1, <1>4, <2>2, WrittenStatus DEF Close
  <2> QED BY <2>3 DEF AbstractStep, ResumeAt
<1>5. CASE OtherWrite(w)
  <2>1. wo'[w].status = wo[w].status /\ history' = history
    BY <1>1, <1>5, WrittenStatus DEF OtherWrite, Row
  <2> QED BY <2>1 DEF AbstractStep, ResumeAt
<1>6. CASE \/ RespondChecklist(w) \/ SubmitSatisfaction(w)
           \/ MeasurementLinks(w) \/ MeasurementRejected(w)
  <2>1. UNCHANGED <<wo, history>>
    BY <1>6 DEF RespondChecklist, SubmitSatisfaction, MeasurementLinks, MeasurementRejected
  <2> QED BY <2>1 DEF AbstractStep, ResumeAt
<1>7. ASSUME NEW i \in DOMAIN pend[w], ResolvePendency(w, i) PROVE AbstractStep(w)
  <2>1. CASE OpenPendencies(w) # {i}
    BY <1>7, <2>1 DEF ResolvePendency, AbstractStep, ResumeAt
  <2>2. CASE OpenPendencies(w) = {i}
    <3> DEFINE restored == RestoredStatus(pend[w][i].previousStatus)
               row == [wo[w] EXCEPT !.hasOpenPendency = FALSE, !.status = restored]
    <3>1. /\ wo[w].status = "PENDING" /\ restored = pend[w][i].previousStatus
          /\ restored = LastOf(w).from /\ restored # "PENDING"
      BY <1>1, <1>7, <2>2
         DEF OrderInv, Coherent, Agree, ResolvePendency, RestoredStatus, Suspendable
    <3> HIDE DEF restored
    <3>2. "status" \in DOMAIN row /\ row.status = restored
      BY <1>1 DEF Row
    <3>3. WriteRow(w, row)
      BY <1>7, <2>2 DEF ResolvePendency, restored
    <3> HIDE DEF row
    <3>4. wo'[w].status = restored
      BY <1>1, <3>2, <3>3, WrittenStatus
    <3> QED BY <3>1, <3>4 DEF AbstractStep, ResumeAt, LastOf
  <2> QED BY <2>1, <2>2
<1> QED BY <1>2, <1>3, <1>4, <1>5, <1>6, <1>7 DEF OrderStep

\* The steps of a session that write the row of its order.
Writes(s) == UpdateCommit(s) \/ TransitionCommit(s) \/ ArchiveCommit(s) \/ ReopenCommit(s)

LEMMA SessionIsAbstract ==
  ASSUME IInv, NEW s \in Sessions, Writes(s),
         NEW w \in WorkOrderIds, w = req[s].w
  PROVE  AbstractStep(w)
<1>1. TypeOK /\ OrderInv(w) /\ wo[w] \in Row
  BY DEF IInv, TypeOK
<1>2. CASE UpdateCommit(s)
  <2>1. PICK assigned : WriteRow(w, [wo[w] EXCEPT !.assigned = assigned])
    BY <1>2 DEF UpdateCommit
  <2> DEFINE row == [wo[w] EXCEPT !.assigned = assigned]
  <2>2. "status" \in DOMAIN row /\ row.status = wo[w].status /\ WriteRow(w, row)
    BY <1>1, <2>1 DEF Row
  <2> HIDE DEF row
  <2>3. wo'[w].status = wo[w].status /\ history' = history
    BY <1>1, <1>2, <2>2, WrittenStatus DEF UpdateCommit
  <2> QED BY <2>3 DEF AbstractStep, ResumeAt
<1>3. CASE TransitionCommit(s)
  <2> DEFINE to == req[s].to
             row == [wo[w] EXCEPT !.status = to,
                                  !.hasOpenPendency = (to # "CANCELED" /\ @),
                                  !.solution = (to = "COMPLETED" \/ @)]
  <2>1. "status" \in DOMAIN row /\ row.status = to
    BY <1>1 DEF Row
  <2>2. WriteRow(w, row)
    BY <1>3 DEF TransitionCommit
  <2> HIDE DEF row
  <2>3. wo'[w].status = to
    BY <1>1, <2>1, <2>2, WrittenStatus
  <2>4. /\ wo[w].status \in WorkOrderStatus /\ canTransition(wo[w].status, to)
        /\ to \notin {"PENDING", "CLOSED"}
    BY <1>3 DEF IInv, RequestOK, TransitionCommit, SameAsRead
  <2>5. wo[w].status = "PENDING" => to = "CANCELED"
    BY <1>1, <1>3 DEF OrderInv, Coherent, TransitionCommit
  <2> HIDE DEF to
  <2> QED BY <2>3, <2>4, <2>5 DEF AbstractStep, ResumeAt
<1>4. CASE ArchiveCommit(s)
  <2> DEFINE row == [wo[w] EXCEPT !.status = "CANCELED", !.deleted = TRUE,
                                  !.hasOpenPendency = FALSE, !.measurementEligible = FALSE]
  <2>1. "status" \in DOMAIN row /\ row.status = "CANCELED"
    BY <1>1 DEF Row
  <2>2. WriteRow(w, row) /\ wo[w].status \in WorkOrderStatus
    BY <1>1, <1>4 DEF ArchiveCommit, Exists, Row
  <2> HIDE DEF row
  <2>3. wo'[w].status = "CANCELED"
    BY <1>1, <2>1, <2>2, WrittenStatus
  <2> QED BY <2>2, <2>3 DEF AbstractStep, ResumeAt
<1>5. CASE ReopenCommit(s)
  <2> DEFINE row == [wo[w] EXCEPT !.status = "IN_PROGRESS", !.solution = FALSE,
                                  !.accepted = FALSE, !.measurementEligible = FALSE]
  <2>1. "status" \in DOMAIN row /\ row.status = "IN_PROGRESS"
    BY <1>1 DEF Row
  <2>2. WriteRow(w, row) /\ wo[w].status \in Concluded
    BY <1>5 DEF ReopenCommit
  <2> HIDE DEF row
  <2>3. wo'[w].status = "IN_PROGRESS"
    BY <1>1, <2>1, <2>2, WrittenStatus
  <2> QED BY <2>2, <2>3 DEF AbstractStep, ResumeAt, Concluded
<1> QED BY <1>2, <1>3, <1>4, <1>5 DEF Writes

\* A session that writes a row does so within one order.
LEMMA SessionFrame ==
  ASSUME IInv, NEW s \in Sessions, Writes(s)
  PROVE  req[s].w \in WorkOrderIds /\ Frame(req[s].w)
<1>1. req[s].w \in WorkOrderIds
  BY RequestTarget
     DEF IInv, Writes, UpdateCommit, TransitionCommit, ArchiveCommit, ReopenCommit
<1> QED BY <1>1, UpdateOwes, TransitionOwes, ArchiveOwes, ReopenOwes DEF Owes, Writes

\* While nothing writes a row or its history, the abstract state stands still.
LEMMA QuietIsAbstract ==
  ASSUME UNCHANGED <<wo, history>>
  PROVE  [LC!LNext]_(LC!lvars)
<1>1. StatusOf' = StatusOf /\ ResumeOf' = ResumeOf
  BY DEF StatusOf, ResumeOf, ResumeAt
<1> QED BY <1>1 DEF LC!lvars, StatusOf, ResumeOf

\* The work-order service, with its rows, flags, pendency table, history and
\* concurrent requests, implements the abstract life cycle.
THEOREM ImplementsLifecycle == Spec => Lifecycle
<1>1. Init => LC!Init
  <2> SUFFICES ASSUME Init PROVE LC!Init
    OBVIOUS
  <2>1. \A w \in WorkOrderIds : wo[w].status = "ABSENT" /\ ResumeAt(w) = "ABSENT"
    BY DEF Init, AbsentRow, ResumeAt
  <2> QED BY <2>1 DEF LC!Init, LC!Nowhere
<1>2. ASSUME IInv, [Next]_vars PROVE [LC!LNext]_(LC!lvars)
  <2>1. ASSUME NEW w \in WorkOrderIds, OrderStep(w) PROVE [LC!LNext]_(LC!lvars)
    <3>1. Owes(w)
      BY <1>2, <2>1, CreateOwes, RespondOwes, AddPendencyOwes, CloseOwes, SatisfactionOwes,
         OtherWriteOwes, MeasurementOwes, ResolveOwes DEF OrderStep
    <3> QED BY <1>2, <2>1, <3>1, OrderIsAbstract, AbstractStepRefines DEF Owes
  <2>2. ASSUME NEW s \in Sessions, Writes(s) PROVE [LC!LNext]_(LC!lvars)
    <3>1. PICK w \in WorkOrderIds : w = req[s].w /\ Frame(w)
      BY <1>2, <2>2, SessionFrame
    <3> QED BY <1>2, <2>2, <3>1, SessionIsAbstract, AbstractStepRefines
  <2>3. ASSUME NEW s \in Sessions, SessionStep(s), ~Writes(s) PROVE [LC!LNext]_(LC!lvars)
    <3>1. UNCHANGED <<wo, history>>
      BY <2>3 DEF SessionStep, Writes, UpdateRead, ArchiveRead, UploadRead, ReopenRead,
         TransitionRead, Remember, UploadCommit, Abandon
    <3> QED BY <3>1, QuietIsAbstract
  <2>4. CASE UNCHANGED vars
    BY <2>4, QuietIsAbstract DEF vars
  <2> QED BY <1>2, <2>1, <2>2, <2>3, <2>4 DEF Next
<1> QED BY <1>1, <1>2, Invariance, PTL DEF Spec, Lifecycle, LC!LSpec
=============================================================================

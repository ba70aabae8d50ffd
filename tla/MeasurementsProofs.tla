------------------------- MODULE MeasurementsProofs -------------------------
(***************************************************************************)
(* Proofs about Measurements, for any number of orders, measurements and   *)
(* requests: when two active measurements can come to share an order, and  *)
(* when the totals of the contract can leave its measurements.  That an    *)
(* approval keeps the row it has locked is what carries both: an approval  *)
(* that wrote over a decision would bring a measurement back, or count it  *)
(* twice.                                                                  *)
(***************************************************************************)
EXTENDS Measurements, SumLemmas, TLAPS

Row == [status : MeasurementStatus \cup {"ABSENT"}, items : SUBSET Orders, gross : Int, net : Int]

Request ==
  [op : {"idle"}]
    \cup [op : {"create"}, m : MeasurementIds, items : SUBSET Orders, amount : Nat]
    \cup [op : {"archive"}, m : MeasurementIds,
           status : {"DRAFT", "SUBMITTED", "UNDER_REVIEW", "REJECTED"}]
    \cup [op : {"adjust"}, m : MeasurementIds]
    \cup [op : {"approve"}, m : MeasurementIds, measured : Int]

MeasurementsTypeOK ==
  /\ meas \in [MeasurementIds -> Row]
  /\ eligible \subseteq Orders
  /\ measuredValue \in Int
  /\ req \in [Sessions -> Request]

\* An approval in progress is alone on its measurement, which stays under review.
ApprovalsHold ==
  /\ \A s \in Sessions : req[s].op = "approve" => meas[req[s].m].status = "UNDER_REVIEW"
  /\ \A s, t \in Sessions :
       req[s].op = "approve" /\ req[t].op = "approve" /\ req[s].m = req[t].m => s = t

IInv == MeasurementsTypeOK /\ ApprovalsHold

-----------------------------------------------------------------------------
\* The transitions of a measurement.
LEMMA TransitionTable ==
  ASSUME NEW from \in MeasurementStatus \cup {"ABSENT"}, NEW to \in TRANSITIONS[from]
  PROVE  /\ to \in MeasurementStatus
         /\ to = "APPROVED" => from = "UNDER_REVIEW"
         /\ to \in Active => from \in Active \/ from = "REJECTED"
BY DEF TRANSITIONS, MeasurementStatus, Active

\* No measurement is there at first.
LEMMA Begins == ASSUME Init PROVE IInv
BY DEF Init, IInv, MeasurementsTypeOK, ApprovalsHold, Idle, AbsentMeasurement, Row, Request

\* One row is written, which no approval other than s's holds.
LEMMA RowsKeep ==
  ASSUME IInv, NEW s \in Sessions, NEW m \in MeasurementIds, NEW new \in Row,
         meas' = [meas EXCEPT ![m] = new],
         \A t \in Sessions : req[t].op = "approve" /\ req[t].m = m => t = s,
         measuredValue' \in Int, eligible' \subseteq Orders, Finish(s)
  PROVE  IInv'
<1>1. /\ meas' \in [MeasurementIds -> Row] /\ \A n \in MeasurementIds \ {m} : meas'[n] = meas[n]
      /\ req' \in [Sessions -> Request] /\ req'[s] = Idle /\ \A t \in Sessions \ {s} : req'[t] = req[t]
  BY DEF IInv, MeasurementsTypeOK, Finish, Request, Idle
<1>2. \A t \in Sessions : req[t].op = "approve" => req[t].m \in MeasurementIds
  BY DEF IInv, MeasurementsTypeOK, Request
<1> QED  BY <1>1, <1>2 DEF IInv, MeasurementsTypeOK, ApprovalsHold, Idle

\* A request begins; an approval only on a row under review that no other holds.
LEMMA BeginKeeps ==
  ASSUME IInv, NEW s \in Sessions, NEW r \in Request, Begin(s, r),
         r.op = "approve" => meas[r.m].status = "UNDER_REVIEW" /\ ~Locked(r.m)
  PROVE  IInv'
<1>1. /\ UNCHANGED <<meas, eligible, measuredValue>>
      /\ req' \in [Sessions -> Request] /\ req'[s] = r /\ \A t \in Sessions \ {s} : req'[t] = req[t]
  BY DEF Begin, IInv, MeasurementsTypeOK
<1> QED  BY <1>1 DEF IInv, MeasurementsTypeOK, ApprovalsHold, Locked

\* Reads write nothing.
LEMMA ReadsKeep ==
  ASSUME IInv, NEW s \in Sessions, NEW m \in MeasurementIds,
         \/ \E items \in SUBSET Orders, amount \in Amounts : CreateRead(s, m, items, amount)
         \/ ArchiveRead(s, m) \/ AdjustRead(s, m) \/ ApproveStart(s, m)
  PROVE  IInv'
<1>1. ASSUME NEW items \in SUBSET Orders, NEW amount \in Amounts, CreateRead(s, m, items, amount)
      PROVE  IInv'
  <2>1. [op |-> "create", m |-> m, items |-> items, amount |-> amount] \in Request
    BY ValuesAreIntegers DEF Request
  <2> QED  BY <1>1, <2>1, BeginKeeps DEF CreateRead
<1>2. CASE ArchiveRead(s, m)
  <2>1. [op |-> "archive", m |-> m, status |-> meas[m].status] \in Request
    BY <1>2 DEF ArchiveRead, Request
  <2> QED  BY <1>2, <2>1, BeginKeeps DEF ArchiveRead
<1>3. CASE AdjustRead(s, m)
  <2>1. [op |-> "adjust", m |-> m] \in Request
    BY DEF Request
  <2> QED  BY <1>3, <2>1, BeginKeeps DEF AdjustRead
<1>4. CASE ApproveStart(s, m)
  <2>1. [op |-> "approve", m |-> m, measured |-> measuredValue] \in Request
    BY DEF Request, IInv, MeasurementsTypeOK
  <2>2. meas[m].status = "UNDER_REVIEW"
    BY <1>4, TransitionTable DEF ApproveStart, IInv, MeasurementsTypeOK, Row
  <2> QED  BY <1>4, <2>1, <2>2, BeginKeeps DEF ApproveStart
<1> QED  BY <1>1, <1>2, <1>3, <1>4

\* What the end of a request writes.
LEMMA CommitWrites ==
  ASSUME IInv, NEW s \in Sessions,
         CreateCommit(s) \/ ArchiveCommit(s) \/ AdjustCommit(s) \/ ApproveCommit(s)
  PROVE  /\ req[s].m \in MeasurementIds
         /\ meas'[req[s].m] \in Row
         /\ meas' = [meas EXCEPT ![req[s].m] = meas'[req[s].m]]
         /\ \/ CreateCommit(s)
            \/ meas'[req[s].m].items = meas[req[s].m].items
         /\ \/ CreateCommit(s)
            \/ meas'[req[s].m].status \in {"CANCELED", meas[req[s].m].status}
            \/ ApproveCommit(s) /\ meas[req[s].m].status = "UNDER_REVIEW"
<1> DEFINE r == req[s]
<1>0. r \in Request /\ meas \in [MeasurementIds -> Row]
  BY DEF IInv, MeasurementsTypeOK
<1>1. CASE CreateCommit(s)
  <2>1. r.m \in MeasurementIds /\ r.items \in SUBSET Orders /\ r.amount \in Nat
    BY <1>0, <1>1 DEF CreateCommit, Request
  <2>2. meas' = [meas EXCEPT ![r.m] = [status |-> "DRAFT", items |-> r.items,
                                       gross |-> r.amount, net |-> r.amount]]
    BY <1>1 DEF CreateCommit
  <2> HIDE DEF r
  <2>3. [status |-> "DRAFT", items |-> r.items, gross |-> r.amount, net |-> r.amount] \in Row
    BY <2>1 DEF Row, MeasurementStatus
  <2>4. /\ meas'[r.m] \in Row /\ meas' = [meas EXCEPT ![r.m] = meas'[r.m]]
    BY <1>0, <2>1, <2>2, <2>3
  <2> QED  BY <1>1, <2>1, <2>4 DEF r
<1>2. CASE ArchiveCommit(s) \/ AdjustCommit(s) \/ ApproveCommit(s)
  <2>1. r.m \in MeasurementIds
    BY <1>0, <1>2 DEF ArchiveCommit, AdjustCommit, ApproveCommit, Request
  <2>2. meas[r.m] \in Row
    BY <1>0, <2>1
  <2>3. PICK new \in Row :
          /\ meas' = [meas EXCEPT ![r.m] = new] /\ new.items = meas[r.m].items
          /\ \/ new.status \in {"CANCELED", meas[r.m].status}
             \/ ApproveCommit(s) /\ meas[r.m].status = "UNDER_REVIEW"
    <3>1. CASE ArchiveCommit(s)
      <4>1. [meas[r.m] EXCEPT !.status = "CANCELED"] \in Row
        BY <2>2 DEF Row, MeasurementStatus
      <4>2. meas' = [meas EXCEPT ![r.m] = [meas[r.m] EXCEPT !.status = "CANCELED"]]
        BY <1>0, <2>1, <3>1 DEF ArchiveCommit
      <4> QED  BY <2>2, <4>1, <4>2 DEF Row
    <3>2. CASE AdjustCommit(s)
      <4>1. PICK a \in Adjustments : meas' = [meas EXCEPT ![r.m].net = meas[r.m].gross + a]
        BY <3>2 DEF AdjustCommit
      <4>2. [meas[r.m] EXCEPT !.net = meas[r.m].gross + a] \in Row
        BY <2>2, ValuesAreIntegers DEF Row
      <4>3. meas' = [meas EXCEPT ![r.m] = [meas[r.m] EXCEPT !.net = meas[r.m].gross + a]]
        BY <1>0, <2>1, <4>1
      <4> QED  BY <2>2, <4>2, <4>3 DEF Row
    <3>3. CASE ApproveCommit(s)
      <4>1. [meas[r.m] EXCEPT !.status = "APPROVED"] \in Row
        BY <2>2 DEF Row, MeasurementStatus
      <4>2. meas' = [meas EXCEPT ![r.m] = [meas[r.m] EXCEPT !.status = "APPROVED"]]
        BY <1>0, <2>1, <3>3 DEF ApproveCommit
      <4>3. meas[r.m].status = "UNDER_REVIEW"
        BY <3>3 DEF ApproveCommit, IInv, ApprovalsHold
      <4> QED  BY <2>2, <3>3, <4>1, <4>2, <4>3 DEF Row
    <3> QED  BY <1>2, <3>1, <3>2, <3>3
  <2>4. meas'[r.m] = new
    BY <1>0, <2>1, <2>3
  <2> HIDE DEF r
  <2> QED  BY <2>1, <2>3, <2>4 DEF r
<1> QED  BY <1>1, <1>2

\* A commit keeps the invariant.
LEMMA CommitsKeep ==
  ASSUME IInv, NEW s \in Sessions,
         CreateCommit(s) \/ ArchiveCommit(s) \/ AdjustCommit(s) \/ ApproveCommit(s)
  PROVE  IInv'
<1>1. /\ req[s].m \in MeasurementIds /\ meas'[req[s].m] \in Row
      /\ meas' = [meas EXCEPT ![req[s].m] = meas'[req[s].m]]
  BY CommitWrites
<1>2. \A t \in Sessions : req[t].op = "approve" /\ req[t].m = req[s].m => t = s
  BY DEF CreateCommit, ArchiveCommit, AdjustCommit, ApproveCommit, Locked, IInv, ApprovalsHold
<1>3. measuredValue' \in Int
  BY <1>1 DEF CreateCommit, ArchiveCommit, AdjustCommit, ApproveCommit, IInv, MeasurementsTypeOK, Row
<1>4. eligible' \subseteq Orders /\ Finish(s)
  BY DEF CreateCommit, ArchiveCommit, AdjustCommit, ApproveCommit, IInv, MeasurementsTypeOK
<1> QED  BY <1>1, <1>2, <1>3, <1>4, RowsKeep

\* So does a transition.
LEMMA TransitionKeeps ==
  ASSUME IInv, NEW m \in MeasurementIds, NEW to \in MeasurementStatus, Transition(m, to)
  PROVE  IInv'
<1>1. /\ meas' = [meas EXCEPT ![m].status = to] /\ ~Locked(m)
      /\ UNCHANGED <<eligible, measuredValue, req>>
  BY DEF Transition
<1>2. /\ meas' \in [MeasurementIds -> Row] /\ \A n \in MeasurementIds \ {m} : meas'[n] = meas[n]
  BY <1>1 DEF IInv, MeasurementsTypeOK, Row
<1>3. \A t \in Sessions : req[t].op = "approve" => req[t].m \in MeasurementIds
  BY DEF IInv, MeasurementsTypeOK, Request
<1> QED  BY <1>1, <1>2, <1>3 DEF IInv, MeasurementsTypeOK, ApprovalsHold, Locked

\* And every step.
LEMMA NextKeeps ==
  ASSUME IInv, [Next]_vars
  PROVE  IInv'
<1>1. ASSUME NEW s \in Sessions, Abandon(s)
      PROVE  IInv'
  <2>1. /\ UNCHANGED <<meas, eligible, measuredValue>>
        /\ req' \in [Sessions -> Request] /\ req'[s] = Idle /\ \A t \in Sessions \ {s} : req'[t] = req[t]
    BY <1>1 DEF Abandon, Finish, IInv, MeasurementsTypeOK, Request, Idle
  <2> QED  BY <2>1 DEF IInv, MeasurementsTypeOK, ApprovalsHold, Idle
<1>2. ASSUME NEW w \in Orders, Close(w) \/ Reopen(w)
      PROVE  IInv'
  BY <1>2 DEF Close, Reopen, IInv, MeasurementsTypeOK, ApprovalsHold
<1>3. CASE UNCHANGED vars
  BY <1>3 DEF vars, IInv, MeasurementsTypeOK, ApprovalsHold
<1> QED  BY <1>1, <1>2, <1>3, ReadsKeep, CommitsKeep, TransitionKeeps DEF Next, SessionStep

\* The invariant of the measurements.
LEMMA MeasurementsInvariance == Spec => []IInv
<1> QED  BY Begins, NextKeeps, PTL DEF Spec

-----------------------------------------------------------------------------
\* A measurement that a step makes active was created by it, when no other active one
\* had its orders, or was rejected.
LEMMA Activated ==
  ASSUME IInv, [Next]_vars, NEW m \in MeasurementIds,
         meas[m].status \notin Active, meas'[m].status \in Active
  PROVE  \/ meas[m].status = "REJECTED"
         \/ /\ meas'[m].items \cap OrdersIn(Active) = {}
            /\ \A n \in MeasurementIds \ {m} : meas'[n] = meas[n]
<1>0. meas \in [MeasurementIds -> Row]
  BY DEF IInv, MeasurementsTypeOK
<1>1. ASSUME NEW s \in Sessions, CreateCommit(s)
      PROVE  \/ meas[m].status = "REJECTED"
             \/ /\ meas'[m].items \cap OrdersIn(Active) = {}
                /\ \A n \in MeasurementIds \ {m} : meas'[n] = meas[n]
  BY <1>0, <1>1 DEF CreateCommit, NotMeasured
<1>2. ASSUME NEW s \in Sessions, ArchiveCommit(s) \/ AdjustCommit(s) \/ ApproveCommit(s)
      PROVE  FALSE
  <2>1. /\ meas' = [meas EXCEPT ![req[s].m] = meas'[req[s].m]]
        /\ req[s].op # "create"
        /\ \/ CreateCommit(s)
           \/ meas'[req[s].m].status \in {"CANCELED", meas[req[s].m].status}
           \/ ApproveCommit(s) /\ meas[req[s].m].status = "UNDER_REVIEW"
    BY <1>2, CommitWrites DEF ArchiveCommit, AdjustCommit, ApproveCommit
  <2>2. CASE req[s].m = m
    BY <2>1, <2>2 DEF CreateCommit, Active, MeasurementStatus
  <2>3. CASE req[s].m # m
    BY <1>0, <2>1, <2>3
  <2> QED  BY <2>2, <2>3
<1>3. ASSUME NEW n \in MeasurementIds, NEW to \in MeasurementStatus, Transition(n, to)
      PROVE  meas[m].status = "REJECTED"
  <2>1. m = n /\ meas'[m].status = to
    BY <1>0, <1>3 DEF Transition, Row
  <2> QED  BY <1>0, <1>3, <2>1, TransitionTable DEF Transition, Row
<1>4. meas' # meas
  OBVIOUS
<1> QED
  BY <1>1, <1>2, <1>3, <1>4 DEF Next, SessionStep, CreateRead, ArchiveRead, AdjustRead, ApproveStart,
     Begin, Abandon, Close, Reopen, vars

\* A measurement that becomes active beside another on the same order was rejected.
LEMMA OnlyResumed ==
  ASSUME IInv, [Next]_vars, NEW m \in MeasurementIds, NEW n \in MeasurementIds, m # n,
         meas'[m].status \in Active, meas'[n].status \in Active,
         meas'[m].items \cap meas'[n].items # {}, meas[m].status \notin Active
  PROVE  \E r \in {m, n} : meas[r].status = "REJECTED"
<1> SUFFICES ASSUME meas[m].status # "REJECTED"
             PROVE  FALSE
  OBVIOUS
<1>1. /\ meas'[m].items \cap OrdersIn(Active) = {} /\ meas'[n] = meas[n]
  BY Activated
<1>2. meas[n].items \subseteq OrdersIn(Active)
  BY <1>1 DEF OrdersIn, With
<1> QED  BY <1>1, <1>2
-----------------------------------------------------------------------------
\* Two active measurements come to share an order only when one that was rejected is
\* resumed: neither creations that race, nor approvals, archivings and adjustments that
\* write what they read before, do it.
THEOREM OnlyResumptionsShare == Spec => OnlyResumptionsDuplicate
<1>1. ASSUME IInv, [Next]_vars, NEW m \in MeasurementIds, NEW n \in MeasurementIds, m # n,
             meas'[m].status \in Active, meas'[n].status \in Active,
             meas'[m].items \cap meas'[n].items # {},
             meas[m].status \notin Active \/ meas[n].status \notin Active
      PROVE  \E r \in {m, n} : meas[r].status = "REJECTED"
  <2>1. CASE meas[m].status \notin Active
    BY <1>1, <2>1, OnlyResumed
  <2>2. CASE meas[n].status \notin Active
    <3>1. meas'[n].items \cap meas'[m].items # {}
      BY <1>1
    <3>2. \E r \in {n, m} : meas[r].status = "REJECTED"
      BY <1>1, <2>2, <3>1, OnlyResumed
    <3> QED  BY <3>2
  <2> QED  BY <1>1, <2>1, <2>2
<1>2. IInv /\ [Next]_vars => [\A m, n \in MeasurementIds :
        (m # n /\ meas'[m].status \in Active /\ meas'[n].status \in Active
           /\ meas'[m].items \cap meas'[n].items # {}
           /\ (meas[m].status \notin Active \/ meas[n].status \notin Active))
        => \E r \in {m, n} : meas[r].status = "REJECTED"]_vars
  BY <1>1
<1> QED  BY <1>2, MeasurementsInvariance, PTL DEF Spec, OnlyResumptionsDuplicate

-----------------------------------------------------------------------------
(* The totals.                                                             *)

\* What measurement m adds to the total of those whose status is in S.
Share(S, m) == IF meas[m].status \in S THEN meas[m].net ELSE 0

Shares(S) == [m \in MeasurementIds |-> Share(S, m)]

\* A total is a sum of the shares of its measurements.
LEMMA TotalIs == ASSUME NEW S PROVE Total(S) = SumFunction(Shares(S)) /\ Total(S)' = SumFunction(Shares(S)')
BY DEF Total, Shares, Share

\* A total changes by what the share of the written measurement changes.
LEMMA TotalMoves ==
  ASSUME meas \in [MeasurementIds -> Row], meas' \in [MeasurementIds -> Row],
         NEW m \in MeasurementIds, \A n \in MeasurementIds \ {m} : meas'[n] = meas[n], NEW S
  PROVE  Total(S) \in Int /\ Total(S)' = Total(S) - Share(S, m) + Share(S, m)'
<1>1. Shares(S) \in [MeasurementIds -> Int] /\ Shares(S)' \in [MeasurementIds -> Int]
  BY DEF Shares, Share, Row
<1>2. \A n \in MeasurementIds \ {m} : Shares(S)'[n] = Shares(S)[n]
  BY DEF Shares, Share
<1>3. Shares(S)[m] = Share(S, m) /\ Shares(S)'[m] = Share(S, m)'
  BY DEF Shares
<1>4. SumFunction(Shares(S)) \in Int
  BY <1>1, SumFunctionInt, ValuesAreIntegers
<1>5. SumFunction(Shares(S)') = SumFunction(Shares(S)) - Shares(S)[m] + Shares(S)'[m]
  BY <1>1, <1>2, SumFunctionUpdate, ValuesAreIntegers
<1> QED  BY <1>3, <1>4, <1>5, TotalIs

\* A total stays while the measurements do.
LEMMA TotalStays ==
  ASSUME meas' = meas, NEW S
  PROVE  Total(S)' = Total(S)
BY DEF Total

\* To write a row that is official neither before nor after moves no total.
LEMMA UnofficialWrite ==
  ASSUME IInv, IInv', NEW m \in MeasurementIds, \A n \in MeasurementIds \ {m} : meas'[n] = meas[n],
         meas[m].status \notin Official, meas'[m].status \notin Official
  PROVE  Total(Official)' = Total(Official) /\ Total({"PAID"})' = Total({"PAID"})
<1>1. \A S \in {Official, {"PAID"}} : Share(S, m) = 0 /\ Share(S, m)' = 0
  BY DEF Share, Official
<1>2. \A S \in {Official, {"PAID"}} : Total(S) \in Int /\ Total(S)' = Total(S) - Share(S, m) + Share(S, m)'
  BY TotalMoves DEF IInv, MeasurementsTypeOK
<1> QED  BY <1>1, <1>2

\* The end of a request that is no approval, and that has read what is still so, writes
\* a row that is not official.
LEMMA OthersMoveNothing ==
  ASSUME IInv, IInv', NEW s \in Sessions, Fresh(s),
         CreateCommit(s) \/ ArchiveCommit(s) \/ AdjustCommit(s)
  PROVE  /\ Total(Official)' = Total(Official) /\ Total({"PAID"})' = Total({"PAID"})
         /\ UNCHANGED <<measuredValue, paidValue>>
<1> DEFINE r == req[s]
<1>1. /\ r.m \in MeasurementIds
      /\ meas \in [MeasurementIds -> Row] /\ \A n \in MeasurementIds \ {r.m} : meas'[n] = meas[n]
  BY CommitWrites DEF IInv, MeasurementsTypeOK
<1>2. CASE CreateCommit(s)
  BY <1>1, <1>2, UnofficialWrite DEF CreateCommit, Official
<1>3. CASE ArchiveCommit(s)
  <2>1. meas[r.m].status = r.status /\ r \in Request /\ r.op = "archive"
    BY <1>3 DEF ArchiveCommit, Fresh, IInv, MeasurementsTypeOK
  <2>2. meas[r.m].status \notin Official
    BY <2>1 DEF Request, Official
  <2>3. meas'[r.m].status = "CANCELED"
    BY <1>1, <1>3 DEF ArchiveCommit, Row
  <2> QED  BY <1>1, <1>3, <2>2, <2>3, UnofficialWrite DEF ArchiveCommit, Official
<1>4. CASE AdjustCommit(s)
  <2>1. meas[r.m].status = "DRAFT" /\ meas'[r.m].status = meas[r.m].status
    BY <1>1, <1>4 DEF AdjustCommit, Fresh, Row
  <2> QED  BY <1>1, <1>4, <2>1, UnofficialWrite DEF AdjustCommit, Official
<1> QED  BY <1>2, <1>3, <1>4

\* An approval adds its value to what is measured.
LEMMA ApprovalMovesMeasured ==
  ASSUME IInv, IInv', NEW s \in Sessions, ApproveCommit(s)
  PROVE  /\ req[s].m \in MeasurementIds /\ meas[req[s].m].net \in Int
         /\ Total(Official) \in Int /\ Total(Official)' = Total(Official) + meas[req[s].m].net
         /\ Total({"PAID"})' = Total({"PAID"})
         /\ measuredValue' = measuredValue + meas[req[s].m].net /\ paidValue' = paidValue
<1>1. PICK m \in MeasurementIds : m = req[s].m
  BY CommitWrites
<1>2. meas \in [MeasurementIds -> Row] /\ meas' \in [MeasurementIds -> Row]
  BY DEF IInv, MeasurementsTypeOK
<1>3. /\ \A n \in MeasurementIds \ {m} : meas'[n] = meas[n]
      /\ meas[m].status = "UNDER_REVIEW" /\ meas'[m].status = "APPROVED"
      /\ meas'[m].net = meas[m].net /\ meas[m].net \in Int
  BY <1>1, <1>2 DEF ApproveCommit, IInv, ApprovalsHold, Row
<1>4. /\ Share(Official, m) = 0 /\ Share(Official, m)' = meas[m].net
      /\ Share({"PAID"}, m) = 0 /\ Share({"PAID"}, m)' = 0
  BY <1>3 DEF Share, Official
<1>5. \A S \in {Official, {"PAID"}} : Total(S) \in Int /\ Total(S)' = Total(S) - Share(S, m) + Share(S, m)'
  BY <1>3, <1>2, TotalMoves
<1> QED  BY <1>1, <1>3, <1>4, <1>5 DEF ApproveCommit

\* A payment adds its value to what is paid.
LEMMA TransitionMovesPaid ==
  ASSUME IInv, IInv', NEW m \in MeasurementIds, NEW to \in MeasurementStatus, Transition(m, to)
  PROVE  /\ Total(Official)' = Total(Official)
         /\ Total({"PAID"}) = paidValue => Total({"PAID"})' = paidValue'
         /\ measuredValue' = measuredValue
<1>1. meas \in [MeasurementIds -> Row] /\ meas' \in [MeasurementIds -> Row]
  BY DEF IInv, MeasurementsTypeOK
<1>2. /\ \A n \in MeasurementIds \ {m} : meas'[n] = meas[n]
      /\ meas'[m].status = to /\ meas'[m].net = meas[m].net /\ meas[m].net \in Int
      /\ to \in TRANSITIONS[meas[m].status] /\ to # "APPROVED"
      /\ meas[m].status \in MeasurementStatus \cup {"ABSENT"}
  BY <1>1 DEF Transition, Row
<1>3. /\ to \in Official <=> meas[m].status \in Official
      /\ meas[m].status # "PAID"
  BY <1>2 DEF TRANSITIONS, Official, MeasurementStatus
<1>4. /\ Share(Official, m)' = Share(Official, m) /\ Share(Official, m) \in Int
      /\ Share({"PAID"}, m) = 0 /\ Share({"PAID"}, m)' = IF to = "PAID" THEN meas[m].net ELSE 0
  BY <1>1, <1>2, <1>3 DEF Share
<1>5. \A S \in {Official, {"PAID"}} : Total(S) \in Int /\ Total(S)' = Total(S) - Share(S, m) + Share(S, m)'
  BY <1>1, <1>2, TotalMoves
<1> QED  BY <1>2, <1>4, <1>5 DEF Transition

\* A request that ends by a step that is not stale has read what is still so.
LEMMA EndsFresh ==
  ASSUME NEW s \in Sessions, ~StaleRequestEnds, IInv,
         CreateCommit(s) \/ ArchiveCommit(s) \/ AdjustCommit(s) \/ ApproveCommit(s)
  PROVE  Fresh(s)
<1>1. req[s] # Idle
  BY DEF CreateCommit, ArchiveCommit, AdjustCommit, ApproveCommit, Idle
<1>2. req'[s] = Idle
  BY DEF CreateCommit, ArchiveCommit, AdjustCommit, ApproveCommit, Finish, IInv, MeasurementsTypeOK
<1> QED  BY <1>1, <1>2 DEF StaleRequestEnds

\* So no step but a stale one breaks a total.
LEMMA FreshStepsKeepTotals ==
  ASSUME IInv, IInv', [Next]_vars, TotalsMatch, ~StaleRequestEnds
  PROVE  TotalsMatch' /\ (MeasurementsWithinContract => MeasurementsWithinContract')
<1>1. ASSUME UNCHANGED <<meas, measuredValue, paidValue>>
      PROVE  TotalsMatch' /\ (MeasurementsWithinContract => MeasurementsWithinContract')
  BY <1>1, TotalStays DEF TotalsMatch, MeasurementsWithinContract
<1>2. ASSUME NEW s \in Sessions, CreateCommit(s) \/ ArchiveCommit(s) \/ AdjustCommit(s)
      PROVE  TotalsMatch' /\ (MeasurementsWithinContract => MeasurementsWithinContract')
  BY <1>2, EndsFresh, OthersMoveNothing DEF TotalsMatch, MeasurementsWithinContract
<1>3. ASSUME NEW s \in Sessions, ApproveCommit(s)
      PROVE  TotalsMatch' /\ (MeasurementsWithinContract => MeasurementsWithinContract')
  <2>1. req[s].measured = measuredValue /\ BalanceAllows(req[s])
    BY <1>3, EndsFresh DEF Fresh, ApproveCommit
  <2> QED  BY <1>3, <2>1, ApprovalMovesMeasured, ValuesAreIntegers
           DEF TotalsMatch, MeasurementsWithinContract, BalanceAllows
<1>4. ASSUME NEW m \in MeasurementIds, NEW to \in MeasurementStatus, Transition(m, to)
      PROVE  TotalsMatch' /\ (MeasurementsWithinContract => MeasurementsWithinContract')
  BY <1>4, TransitionMovesPaid DEF TotalsMatch, MeasurementsWithinContract
<1>5. \/ UNCHANGED <<meas, measuredValue, paidValue>>
      \/ \E s \in Sessions : CreateCommit(s) \/ ArchiveCommit(s) \/ AdjustCommit(s) \/ ApproveCommit(s)
      \/ \E m \in MeasurementIds, to \in MeasurementStatus : Transition(m, to)
  BY DEF Next, SessionStep, vars, CreateRead, ArchiveRead, AdjustRead, ApproveStart, Begin, Abandon,
         Close, Reopen
<1> QED  BY <1>1, <1>2, <1>3, <1>4, <1>5

\* The two totals of the contract leave its measurements only by the end of a request
\* that decided on reads that are not so any more, whatever the requests interleave: the
\* lock on the row keeps an approval from counting it twice.
THEOREM TotalsLeaveOnlyByStaleReads == Spec => TotalsKeptWhenFresh
<1>1. IInv /\ IInv' /\ [Next]_vars => [TotalsMatch /\ ~TotalsMatch' => StaleRequestEnds]_vars
  BY FreshStepsKeepTotals
<1> QED  BY <1>1, MeasurementsInvariance, PTL DEF Spec, TotalsKeptWhenFresh

\* Nor do the official measurements come to exceed the contract otherwise.
THEOREM MeasurementsOverrunOnlyByStaleReads == Spec => CeilingKeptWhenFresh
<1>1. IInv /\ IInv' /\ [Next]_vars =>
        [TotalsMatch /\ MeasurementsWithinContract /\ ~MeasurementsWithinContract' => StaleRequestEnds]_vars
  BY FreshStepsKeepTotals
<1> QED  BY <1>1, MeasurementsInvariance, PTL DEF Spec, CeilingKeptWhenFresh
=============================================================================

---------------------------- MODULE Measurements ----------------------------
(***************************************************************************)
(* The measurements (medições) of one contract: which concluded orders     *)
(* they pay for, their decisions, and the two totals that the contract row *)
(* keeps of them, measuredValue and paidValue.  From finance.service.ts,   *)
(* the KPI adjustment of kpis.service.ts, and the closing and reopening of *)
(* an order in work-orders.service.ts.                                     *)
(*                                                                         *)
(* transitionMeasurement locks the row of the measurement and decides on a *)
(* snapshot taken under that lock: one step, except the approval, which    *)
(* also reads the contract, a row it has not locked (ApproveStart and      *)
(* ApproveCommit).  Creation, archiving and the adjustment read before     *)
(* they write.  The version a client sends with a decision only refuses    *)
(* decisions: those described here carry the current one.                  *)
(***************************************************************************)
EXTENDS Integers, FiniteSets, Functions

CONSTANTS Orders, MeasurementIds, Sessions,
          ContractValue,   \* currentValue of the contract
          Amounts,         \* gross amounts of a measurement
          Adjustments      \* what its KPIs add to or take from it; {}: no KPIs

ASSUME ValuesAreIntegers ==
  /\ ContractValue \in Nat /\ Amounts \subseteq Nat \ {0} /\ Adjustments \subseteq Int
  /\ IsFiniteSet(MeasurementIds)

VARIABLES
  meas,            \* meas[m]: the Measurement row and the orders of its items
  eligible,        \* orders concluded and eligible for measurement
  measuredValue, paidValue,   \* of the Contract row
  req              \* req[s]: the request of session s, with what it has read

vars == <<meas, eligible, measuredValue, paidValue, req>>

Idle == [op |-> "idle"]
AbsentMeasurement == [status |-> "ABSENT", items |-> {}, gross |-> 0, net |-> 0]

Init ==
  /\ meas = [m \in MeasurementIds |-> AbsentMeasurement]
  /\ eligible = {}
  /\ measuredValue = 0 /\ paidValue = 0
  /\ req = [s \in Sessions |-> Idle]

-----------------------------------------------------------------------------
MeasurementStatus == {"DRAFT", "SUBMITTED", "UNDER_REVIEW", "APPROVED", "REJECTED",
                      "LIQUIDATED", "PAID", "CANCELED"}

TRANSITIONS == [
  DRAFT        |-> {"SUBMITTED", "CANCELED"},
  SUBMITTED    |-> {"UNDER_REVIEW", "CANCELED"},
  UNDER_REVIEW |-> {"APPROVED", "REJECTED"},
  APPROVED     |-> {"LIQUIDATED"},
  REJECTED     |-> {"DRAFT"},
  LIQUIDATED   |-> {"PAID"},
  PAID         |-> {}, CANCELED |-> {}, ABSENT |-> {}]

Official == {"APPROVED", "LIQUIDATED", "PAID"}

With(S) == {m \in MeasurementIds : meas[m].status \in S}
OrdersIn(S) == UNION {meas[m].items : m \in With(S)}
Total(S) == SumFunction([m \in MeasurementIds |-> IF meas[m].status \in S THEN meas[m].net ELSE 0])

\* What creation calls an active measurement, and what closing and reopening
\* an order call one: the latter counts the canceled ones too.
Active == MeasurementStatus \ {"REJECTED", "CANCELED"}
NotRejected == MeasurementStatus \ {"REJECTED"}

\* An approval in progress holds the lock on its measurement.
Locked(m) == \E s \in Sessions : req[s].op = "approve" /\ req[s].m = m

Begin(s, r) ==
  /\ req[s] = Idle
  /\ req' = [req EXCEPT ![s] = r]
  /\ UNCHANGED <<meas, eligible, measuredValue, paidValue>>

Finish(s) == req' = [req EXCEPT ![s] = Idle]

\* A check fails, a transaction is rolled back, or the process dies.
Abandon(s) ==
  /\ req[s] # Idle
  /\ Finish(s)
  /\ UNCHANGED <<meas, eligible, measuredValue, paidValue>>

-----------------------------------------------------------------------------
(* createMeasurement, which consolidateFinalBudgets calls with the orders  *)
(* it selects.  Eligibility is read before the transaction; only the       *)
(* presence in another measurement is read again under the orders' locks.  *)

CreateRead(s, m, items, amount) ==
  /\ meas[m].status = "ABSENT"
  /\ items # {} /\ items \subseteq eligible
  /\ items \cap OrdersIn(Active) = {}
  /\ Begin(s, [op |-> "create", m |-> m, items |-> items, amount |-> amount])

\* Mutant: the orders are not looked up again under their locks.
NeverMeasured(items) == TRUE
NotMeasured(items) == items \cap OrdersIn(Active) = {}

CreateCommit(s) ==
  LET r == req[s] IN
  /\ r.op = "create"
  /\ meas[r.m].status = "ABSENT"
  /\ NotMeasured(r.items)
  /\ meas' = [meas EXCEPT ![r.m] = [status |-> "DRAFT", items |-> r.items,
                                    gross |-> r.amount, net |-> r.amount]]
  /\ Finish(s)
  /\ UNCHANGED <<eligible, measuredValue, paidValue>>

(* archiveMeasurement: the status is read before, the update is blind.     *)

ArchiveRead(s, m) ==
  /\ meas[m].status \in {"DRAFT", "SUBMITTED", "UNDER_REVIEW", "REJECTED"}
  /\ Begin(s, [op |-> "archive", m |-> m, status |-> meas[m].status])

ArchiveCommit(s) ==
  /\ req[s].op = "archive"
  /\ ~Locked(req[s].m)
  /\ meas' = [meas EXCEPT ![req[s].m].status = "CANCELED"]
  /\ Finish(s)
  /\ UNCHANGED <<eligible, measuredValue, paidValue>>

(* applyFinancialAdjustments: the draft is read, the adjustments of its    *)
(* KPIs are computed, and its net amount is written with no check.         *)

AdjustRead(s, m) ==
  /\ Adjustments # {}
  /\ meas[m].status = "DRAFT"
  /\ Begin(s, [op |-> "adjust", m |-> m])

AdjustCommit(s) ==
  LET m == req[s].m IN
  /\ req[s].op = "adjust"
  /\ ~Locked(m)
  /\ \E a \in Adjustments : meas' = [meas EXCEPT ![m].net = meas[m].gross + a]
  /\ Finish(s)
  /\ UNCHANGED <<eligible, measuredValue, paidValue>>

-----------------------------------------------------------------------------
(* transitionMeasurement                                                   *)

\* Mutant: the payment of a measurement that is only approved is accepted.
TransitionUnordered(m, to) ==
  /\ ~Locked(m)
  /\ to \in TRANSITIONS[meas[m].status] \cup (IF meas[m].status = "UNDER_REVIEW" THEN {"PAID"} ELSE {})
  /\ to # "APPROVED"
  /\ meas' = [meas EXCEPT ![m].status = to]
  /\ paidValue' = IF to = "PAID" THEN paidValue + meas[m].net ELSE paidValue
  /\ UNCHANGED <<eligible, measuredValue, req>>

Transition(m, to) ==
  /\ ~Locked(m)
  /\ to \in TRANSITIONS[meas[m].status] \ {"APPROVED"}
  /\ meas' = [meas EXCEPT ![m].status = to]
  /\ paidValue' = IF to = "PAID" THEN paidValue + meas[m].net ELSE paidValue
  /\ UNCHANGED <<eligible, measuredValue, req>>

ApproveStart(s, m) ==
  /\ ~Locked(m)
  /\ "APPROVED" \in TRANSITIONS[meas[m].status]
  /\ Begin(s, [op |-> "approve", m |-> m, measured |-> measuredValue])

\* Mutant: the balance of the contract is compared without the new amount.
AnyBalanceAllows(r) == r.measured <= ContractValue
BalanceAllows(r) == r.measured + meas[r.m].net <= ContractValue

ApproveCommit(s) ==
  LET r == req[s] IN
  /\ r.op = "approve"
  /\ BalanceAllows(r)
  /\ measuredValue' = measuredValue + meas[r.m].net
  /\ meas' = [meas EXCEPT ![r.m].status = "APPROVED"]
  /\ Finish(s)
  /\ UNCHANGED <<eligible, paidValue>>

-----------------------------------------------------------------------------
(* close with eligibility, and reopen, of a work order: each under the     *)
(* lock of the order, with what its measurements are then.                 *)

Close(w) ==
  /\ w \notin eligible \cup OrdersIn(NotRejected)
  /\ eligible' = eligible \cup {w}
  /\ UNCHANGED <<meas, measuredValue, paidValue, req>>

Reopen(w) ==
  /\ w \in eligible \ OrdersIn(NotRejected)
  /\ eligible' = eligible \ {w}
  /\ UNCHANGED <<meas, measuredValue, paidValue, req>>

-----------------------------------------------------------------------------
SessionStep(s) ==
  \/ \E m \in MeasurementIds :
       \/ \E items \in SUBSET Orders, amount \in Amounts : CreateRead(s, m, items, amount)
       \/ ArchiveRead(s, m) \/ AdjustRead(s, m) \/ ApproveStart(s, m)
  \/ CreateCommit(s) \/ ArchiveCommit(s) \/ AdjustCommit(s) \/ ApproveCommit(s) \/ Abandon(s)

Next ==
  \/ \E s \in Sessions : SessionStep(s)
  \/ \E m \in MeasurementIds, to \in MeasurementStatus : Transition(m, to)
  \/ \E w \in Orders : Close(w) \/ Reopen(w)

Spec == Init /\ [][Next]_vars

-----------------------------------------------------------------------------
(* Properties                                                              *)

\* The totals the contract row keeps are those of its official and of its paid
\* measurements, and the official ones fit in the contract: the reconciliation
\* reports each difference as critical.
TotalsMatch == measuredValue = Total(Official) /\ paidValue = Total({"PAID"})

MeasurementsWithinContract == Total(Official) <= ContractValue

\* What request s read, and decides on, is still so.
Fresh(s) ==
  LET r == req[s] IN
  CASE r.op = "approve" -> r.measured = measuredValue
    [] r.op = "archive" -> r.status = meas[r.m].status
    [] r.op = "adjust"  -> meas[r.m].status = "DRAFT"
    [] r.op = "create"  -> r.items \subseteq eligible

StaleRequestEnds ==
  \E s \in Sessions : req[s] # Idle /\ req'[s] = Idle /\ ~Fresh(s)

\* Whatever decisions, approvals, adjustments and archivings interleave, only
\* the end of a request that decided on reads that are not so any more makes
\* the totals of the contract differ from its measurements,
TotalsKeptWhenFresh == [][TotalsMatch /\ ~TotalsMatch' => StaleRequestEnds]_vars

\* or makes the official measurements exceed the contract.
CeilingKeptWhenFresh == [][
  TotalsMatch /\ MeasurementsWithinContract /\ ~MeasurementsWithinContract'
    => StaleRequestEnds]_vars

\* A step can make two active measurements share an order only by resuming a
\* rejected one: two creations can not, however they race.
OnlyResumptionsDuplicate == [][\A m, n \in MeasurementIds :
  (m # n /\ meas'[m].status \in Active /\ meas'[n].status \in Active
     /\ meas'[m].items \cap meas'[n].items # {}
     /\ (meas[m].status \notin Active \/ meas[n].status \notin Active))
  => \E r \in {m, n} : meas[r].status = "REJECTED"]_vars
=============================================================================

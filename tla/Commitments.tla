---------------------------- MODULE Commitments ----------------------------
(***************************************************************************)
(* Budget commitments (empenhos) of apps/api/src/modules/finance: their    *)
(* ledger of movements, the ceiling of the contract they draw on, and the  *)
(* measurements that are liquidated and paid against them.                 *)
(*                                                                         *)
(* The transactions run at InnoDB's default isolation, REPEATABLE READ: a  *)
(* SELECT ... FOR UPDATE locks a row and sees its newest version, while    *)
(* every plain read of a transaction sees the tables as they were at its   *)
(* FIRST plain read.  So an operation is a ...Start step that takes the    *)
(* locks it takes first and keeps what its snapshot shows, and a ...Commit *)
(* step that decides on the snapshot and writes.  Where the checks come    *)
(* before the transaction, the steps are named ...Read and ...Commit.      *)
(*                                                                         *)
(* The code only ever sums the movements of a commitment by type, so its   *)
(* ledger is those five sums.                                              *)
(***************************************************************************)
EXTENDS Integers, FiniteSets, Functions

CONSTANTS CommitmentIds, Contracts, Measurements, Sessions,
          ContractValue,   \* the current value of every contract
          IssuedAmounts,   \* the amounts a commitment is created with or edited to
          MovedAmounts,    \* those of the later movements and of the measurements
          MaxMoved         \* bound: the sum of the later movements of a commitment

ASSUME AmountsArePositive ==
  /\ IsFiniteSet(CommitmentIds)
  /\ "none" \notin Contracts
  /\ IssuedAmounts \cup MovedAmounts \subseteq Nat \ {0}
  /\ ContractValue \in Nat /\ MaxMoved \in Nat

CommitmentMovementType ==
  {"ISSUE", "REINFORCEMENT", "CANCELLATION", "LIQUIDATION", "PAYMENT"}

Later == CommitmentMovementType \ {"ISSUE"}
Ledger == [CommitmentMovementType -> Nat]
Empty == [t \in CommitmentMovementType |-> 0]
None == "none"
NoRequest == [op |-> "idle"]

VARIABLES
  row,     \* row[c]: the Commitment row: its contract (None: no row), canceledAt
  led,     \* led[c]: the sums of its CommitmentMovement rows
  meas,    \* meas[m]: [status, commitment, net] of an approved measurement
  tx       \* tx[s]: the request of session s, with what it has read

vars == <<row, led, meas, tx>>

Unmeasured == [status |-> None, commitment |-> None, net |-> 0]

Init ==
  /\ row = [c \in CommitmentIds |-> [contract |-> None, canceled |-> FALSE]]
  /\ led = [c \in CommitmentIds |-> Empty]
  /\ meas = [m \in Measurements |-> Unmeasured]
  /\ tx = [s \in Sessions |-> NoRequest]

-----------------------------------------------------------------------------
(* Balances.                                                               *)

Live(c) == row[c].contract # None /\ ~row[c].canceled

\* Issued and reinforced, less canceled: what a commitment commits.
Net(l) == l["ISSUE"] + l["REINFORCEMENT"] - l["CANCELLATION"]

\* assertContractCommitmentCeiling's sum over the live commitments of a contract.
Committed(k) ==
  SumFunction([c \in CommitmentIds |-> IF Live(c) /\ row[c].contract = k THEN Net(led[c]) ELSE 0])

FitsCeiling(committed, amount) == committed + amount <= ContractValue

\* Mutants: what was canceled can still be liquidated; what was paid can be
\* paid again.
CanceledStillAvailable(l, type, amount) ==
  /\ type \in {"CANCELLATION", "LIQUIDATION"} =>
       amount <= l["ISSUE"] + l["REINFORCEMENT"] - l["LIQUIDATION"]
  /\ type = "PAYMENT" => amount <= l["LIQUIDATION"] - l["PAYMENT"]

PaidStillPayable(l, type, amount) ==
  /\ type \in {"CANCELLATION", "LIQUIDATION"} => amount <= Net(l) - l["LIQUIDATION"]
  /\ type = "PAYMENT" => amount <= l["LIQUIDATION"]

\* assertCommitmentMovementBalance.
BalanceAllows(l, type, amount) ==
  /\ type \in {"CANCELLATION", "LIQUIDATION"} => amount <= Net(l) - l["LIQUIDATION"]
  /\ type = "PAYMENT" => amount <= l["LIQUIDATION"] - l["PAYMENT"]

Post(c, type, amount) ==
  /\ type \in Later => SumFunctionOnSet(led[c], Later) + amount <= MaxMoved
  /\ led' = [led EXCEPT ![c][type] = @ + amount]

\* The X lock on a Commitment row that addCommitmentMovement holds from its
\* first statement.  An UPDATE of the row, and the foreign key of a movement
\* inserted by another transaction, wait for it.
LockedByOther(s, c) == \E t \in Sessions \ {s} : tx[t].op = "movement" /\ tx[t].c = c

Finish(s) == tx' = [tx EXCEPT ![s] = NoRequest]

\* A check fails, a deadlock or a timeout rolls back, or the process dies.
Abandon(s) == tx[s] # NoRequest /\ Finish(s) /\ UNCHANGED <<row, led, meas>>

-----------------------------------------------------------------------------
(* createCommitment: the lock on the contract comes first, so the snapshot *)
(* its ceiling is checked on is the newest state: one step.                *)

CreateCommitment(s, c, k, amount) ==
  /\ tx[s] = NoRequest
  /\ row[c].contract = None
  /\ FitsCeiling(Committed(k), amount)
  /\ row' = [row EXCEPT ![c].contract = k]
  /\ Post(c, "ISSUE", amount)
  /\ UNCHANGED <<meas, tx>>

(* updateCommitment: the commitment, its movements and its original value  *)
(* are read before the transaction; only the ceiling is read under the     *)
(* contracts' locks.  A request may leave the contract (None) or the       *)
(* amount (0) as they are.                                                 *)

UpdateRead(s, c, to, amount) ==
  /\ tx[s] = NoRequest
  /\ Live(c)
  /\ \A t \in Later : led[c][t] = 0
  /\ tx' = [tx EXCEPT ![s] = [op |-> "update", c |-> c, from |-> row[c].contract,
                              led |-> led[c], to |-> to, amount |-> amount]]
  /\ UNCHANGED <<row, led, meas>>

Target(r) == IF r.to = None THEN r.from ELSE r.to
Proposed(r) == IF r.amount = 0 THEN r.led["ISSUE"] ELSE r.amount
Increase(r) == Proposed(r) - r.led["ISSUE"]

IncreaseFits(r) == Increase(r) > 0 => FitsCeiling(Committed(Target(r)), Increase(r))

\* Mutant: a transfer is checked as an edit in place, by its increase only.
OnlyTheIncreaseFits(r) == IncreaseFits(r)

ProposalFits(r) ==
  IF Target(r) # r.from THEN FitsCeiling(Committed(Target(r)), Proposed(r)) ELSE IncreaseFits(r)

UpdateCommit(s) ==
  LET r == tx[s] IN
  /\ r.op = "update"
  /\ ~LockedByOther(s, r.c)
  /\ ProposalFits(r)
  /\ row' = IF r.to = None THEN row ELSE [row EXCEPT ![r.c].contract = r.to]
  /\ led' = IF r.amount = 0 THEN led ELSE [led EXCEPT ![r.c]["ISSUE"] = r.amount]
  /\ Finish(s)
  /\ UNCHANGED meas

(* archiveCommitment: the balance to cancel is the one read before.        *)

ArchiveRead(s, c) ==
  /\ tx[s] = NoRequest
  /\ Live(c)
  /\ led[c]["LIQUIDATION"] = 0 /\ led[c]["PAYMENT"] = 0
  /\ tx' = [tx EXCEPT ![s] = [op |-> "archive", c |-> c, led |-> led[c]]]
  /\ UNCHANGED <<row, led, meas>>

ArchiveCommit(s) ==
  LET r == tx[s] IN
  /\ r.op = "archive"
  /\ ~LockedByOther(s, r.c)
  /\ IF Net(r.led) > 0 THEN Post(r.c, "CANCELLATION", Net(r.led)) ELSE UNCHANGED led
  /\ row' = [row EXCEPT ![r.c].canceled = TRUE]
  /\ Finish(s)
  /\ UNCHANGED meas

-----------------------------------------------------------------------------
(* addCommitmentMovement.  The snapshot is taken when the commitment is    *)
(* read, BEFORE a reinforcement waits for the lock on the contract.        *)

MovementStart(s, c, type, amount) ==
  /\ tx[s] = NoRequest
  /\ ~LockedByOther(s, c)
  /\ Live(c)
  /\ tx' = [tx EXCEPT ![s] = [op |-> "movement", c |-> c, type |-> type, amount |-> amount,
              led |-> led[c],
              committed |-> IF type = "REINFORCEMENT" THEN Committed(row[c].contract) ELSE 0]]
  /\ UNCHANGED <<row, led, meas>>

MovementCommit(s) ==
  LET r == tx[s] IN
  /\ r.op = "movement"
  /\ r.type = "REINFORCEMENT" => FitsCeiling(r.committed, r.amount)
  /\ BalanceAllows(r.led, r.type, r.amount)
  /\ Post(r.c, r.type, r.amount)
  /\ Finish(s)
  /\ UNCHANGED <<row, meas>>

-----------------------------------------------------------------------------
(* transitionMeasurement to LIQUIDATED and to PAID: the lock is on the     *)
(* measurement, and the movements of the commitment come from a snapshot.  *)
(* How a measurement gets here is the subject of Measurements.             *)

Approve(m, c, net) ==
  /\ meas[m] = Unmeasured
  /\ Live(c)
  /\ meas' = [meas EXCEPT ![m] = [status |-> "APPROVED", commitment |-> c, net |-> net]]
  /\ UNCHANGED <<row, led, tx>>

Settlement == [APPROVED |-> "LIQUIDATION", LIQUIDATED |-> "PAYMENT"]

Settled == [APPROVED |-> "LIQUIDATED", LIQUIDATED |-> "PAID"]

MeasurementLocked(s, m) == \E t \in Sessions \ {s} : tx[t].op = "settle" /\ tx[t].m = m

SettleStart(s, m) ==
  /\ tx[s] = NoRequest
  /\ ~MeasurementLocked(s, m)
  /\ meas[m].status \in DOMAIN Settled
  /\ tx' = [tx EXCEPT ![s] = [op |-> "settle", m |-> m, led |-> led[meas[m].commitment]]]
  /\ UNCHANGED <<row, led, meas>>

SettleCommit(s) ==
  LET m == tx[s].m
      type == Settlement[meas[m].status]
  IN
  /\ tx[s].op = "settle"
  /\ ~LockedByOther(s, meas[m].commitment)
  /\ BalanceAllows(tx[s].led, type, meas[m].net)
  /\ Post(meas[m].commitment, type, meas[m].net)
  /\ meas' = [meas EXCEPT ![m].status = Settled[@]]
  /\ Finish(s)
  /\ UNCHANGED row

-----------------------------------------------------------------------------
SessionStep(s) ==
  \/ \E c \in CommitmentIds :
       \/ \E amount \in IssuedAmounts, k \in Contracts : CreateCommitment(s, c, k, amount)
       \/ \E amount \in MovedAmounts, type \in Later : MovementStart(s, c, type, amount)
       \/ \E to \in Contracts \cup {None}, amount \in IssuedAmounts \cup {0} :
            UpdateRead(s, c, to, amount)
       \/ ArchiveRead(s, c)
  \/ \E m \in Measurements : SettleStart(s, m)
  \/ UpdateCommit(s) \/ ArchiveCommit(s) \/ MovementCommit(s) \/ SettleCommit(s) \/ Abandon(s)

Next ==
  \/ \E s \in Sessions : SessionStep(s)
  \/ \E m \in Measurements, c \in CommitmentIds, net \in MovedAmounts : Approve(m, c, net)

Spec == Init /\ [][Next]_vars

-----------------------------------------------------------------------------
(* Properties.  The reconciliation rules of the finance module report the  *)
(* violation of any of the three balances as critical.                     *)

\* The three balances of a contract and its commitments.
CommitmentsWithinContract == \A k \in Contracts : Committed(k) <= ContractValue

LiquidationWithinCommitted == \A c \in CommitmentIds :
  led[c]["LIQUIDATION"] <= Net(led[c]) \/ row[c].canceled

\* (Refuted.) What is paid on a commitment never exceeds what was liquidated on it.
PaymentWithinLiquidation == \A c \in CommitmentIds :
  led[c]["PAYMENT"] <= led[c]["LIQUIDATION"]

Balanced == CommitmentsWithinContract /\ LiquidationWithinCommitted /\ PaymentWithinLiquidation

\* What request s read, and decides on, is still so.
Fresh(s) ==
  LET r == tx[s] IN
  CASE r.op = "movement" -> r.type = "REINFORCEMENT" => r.committed = Committed(row[r.c].contract)
    [] r.op = "settle"   -> r.led = led[meas[r.m].commitment]
    [] r.op = "update"   -> r.led = led[r.c] /\ r.from = row[r.c].contract
    [] r.op = "archive"  -> r.led = led[r.c]

StaleRequestEnds ==
  \E s \in Sessions : tx[s] # NoRequest /\ tx'[s] = NoRequest /\ ~Fresh(s)

\* Whatever the requests interleave, a step breaks one of three balances that
\* all held only by ending a request that decided on reads that are not so any
\* more: creation, transfer, edition and reinforcement keep the ceiling,
CeilingKeptWhenFresh == [][
  Balanced /\ ~CommitmentsWithinContract' => StaleRequestEnds]_vars

\* cancellation, liquidation and edition the liquidated share,
LiquidationKeptWhenFresh == [][
  Balanced /\ ~LiquidationWithinCommitted' => StaleRequestEnds]_vars

\* and payments, from the ledger or of a measurement, the paid share.
PaymentKeptWhenFresh == [][
  Balanced /\ ~PaymentWithinLiquidation' => StaleRequestEnds]_vars
=============================================================================

----------------------------- MODULE WorkOrders -----------------------------
(***************************************************************************)
(* The work-order aggregate of apps/api/src/modules/work-orders, as the    *)
(* MySQL rows the service reads and writes and the HTTP requests that run  *)
(* against them at the same time.                                          *)
(*                                                                         *)
(* Every operation of the service is one of two shapes.                    *)
(*   - One transaction that first locks the row of the order (SELECT ...   *)
(*     FOR UPDATE) and reads and writes only under that lock: one action.  *)
(*   - A read of the row outside any transaction, checks on what was read, *)
(*     and then such a transaction: a ...Read action that keeps the row in *)
(*     the request of a session, and a ...Commit action that uses it,      *)
(*     with the steps of every other session in between.                   *)
(* A request whose later checks fail, or whose process dies, leaves no     *)
(* trace (Abandon).                                                        *)
(*                                                                         *)
(* updatedAt, the optimistic version, is a counter here: the code compares *)
(* timestamps in milliseconds, and two writes of one row that both wait    *)
(* for its lock within one millisecond are taken to be distinct.           *)
(***************************************************************************)
EXTENDS Naturals, Sequences

CONSTANTS WorkOrderIds,   \* ids of the orders of a tenant
          Sessions,       \* HTTP requests in progress at the same time
          MaxWrites,      \* bound: writes of one order's row
          MaxPendencies   \* bound: pendencies registered on one order

ASSUME BoundsAreNatural == MaxWrites \in Nat /\ MaxPendencies \in Nat

VARIABLES
  wo,         \* wo[w]: the WorkOrder row
  pend,       \* pend[w]: its WorkOrderPendency rows, oldest first
  history,    \* history[w]: its WorkOrderStatusHistory rows, oldest first
  ready,      \* ready[w]: the answers and photographs its category requires,
              \* as it requires them now, are present
  rated,      \* orders with a current SatisfactionResponse
  measured,   \* orders with an item in a measurement that is not REJECTED
  req         \* req[s]: the request session s has read for and not finished

vars == <<wo, pend, history, ready, rated, measured, req>>

-----------------------------------------------------------------------------
(* The state machine of work-order-state-machine.ts, shared with the       *)
(* abstract life cycle that this module implements.                        *)

\* While PENDING, the order continues at the status it was suspended from:
\* the newest history row is the one that entered PENDING.
ResumeAt(w) ==
  IF wo[w].status = "PENDING" THEN history[w][Len(history[w])].from ELSE "ABSENT"

LC == INSTANCE WorkOrderLifecycle
        WITH status <- [w \in WorkOrderIds |-> wo[w].status],
             resume <- [w \in WorkOrderIds |-> ResumeAt(w)]

WorkOrderStatus == LC!WorkOrderStatus
canTransition(from, to) == LC!canTransition(from, to)

\* Mutant: a closed order is forgotten among the terminal ones.
OnlyCanceledIsTerminal == {"CANCELED"}
TERMINAL_WORK_ORDER_STATUSES == {"CLOSED", "CANCELED"}
Concluded == {"COMPLETED", "CLOSED"}

Row == [status : WorkOrderStatus \cup {"ABSENT"},
        deleted : BOOLEAN,              \* deletedAt is set
        hasOpenPendency : BOOLEAN,
        assigned : BOOLEAN,             \* assignedToUserId is set
        solution : BOOLEAN,             \* solution, completedAt are set
        accepted : BOOLEAN,             \* acceptedAt, closedAt are set
        measurementEligible : BOOLEAN,
        updatedAt : 0..MaxWrites]

AbsentRow == [status |-> "ABSENT", deleted |-> FALSE, hasOpenPendency |-> FALSE,
              assigned |-> FALSE, solution |-> FALSE, accepted |-> FALSE,
              measurementEligible |-> FALSE, updatedAt |-> 0]

Pendency == [previousStatus : WorkOrderStatus,
             status : {"OPEN", "RESOLVED", "CANCELED"}]

HistoryRow == [from : WorkOrderStatus \cup {"ABSENT"}, to : WorkOrderStatus,
               by : {"flow", "archive"}]

Request == [op : {"transition", "update", "archive", "reopen", "upload"},
            w : WorkOrderIds, read : Row, to : WorkOrderStatus]

Idle == [op |-> "idle"]

Init ==
  /\ wo = [w \in WorkOrderIds |-> AbsentRow]
  /\ pend = [w \in WorkOrderIds |-> <<>>]
  /\ history = [w \in WorkOrderIds |-> <<>>]
  /\ ready = [w \in WorkOrderIds |-> FALSE]
  /\ rated = {}
  /\ measured = {}
  /\ req = [s \in Sessions |-> Idle]

-----------------------------------------------------------------------------
(* Reads and writes of the rows.                                           *)

Exists(w) == wo[w].status # "ABSENT"
Visible(w) == Exists(w) /\ ~wo[w].deleted      \* getBase finds the order
MayWrite(w) == wo[w].updatedAt < MaxWrites

\* Prisma sets updatedAt on every update of the row.
WriteRow(w, row) ==
  wo' = [wo EXCEPT ![w] = [row EXCEPT !.updatedAt = wo[w].updatedAt + 1]]

\* Mutant: the end of a suspension is not recorded.
RecordExceptResolution(w, from, to, by) ==
  history' = IF from = "PENDING" /\ by = "flow" THEN history ELSE
    [history EXCEPT ![w] = Append(@, [from |-> from, to |-> to, by |-> by])]

Record(w, from, to, by) ==
  history' = [history EXCEPT
                ![w] = Append(@, [from |-> from, to |-> to, by |-> by])]

OpenPendencies(w) == {i \in DOMAIN pend[w] : pend[w][i].status = "OPEN"}

\* Mutant: only the first pendency of the order is canceled with it.
CancelFirstPendency(w) ==
  pend' = [pend EXCEPT ![w] = [i \in DOMAIN @ |->
             IF i = 1 /\ @[i].status = "OPEN" THEN [@[i] EXCEPT !.status = "CANCELED"]
                                              ELSE @[i]]]

\* updateMany of every OPEN pendency to CANCELED.
CancelPendencies(w) ==
  pend' = [pend EXCEPT ![w] = [i \in DOMAIN @ |->
             IF @[i].status = "OPEN" THEN [@[i] EXCEPT !.status = "CANCELED"]
                                     ELSE @[i]]]

Remember(s, op, w, to) ==
  /\ req[s] = Idle
  /\ req' = [req EXCEPT ![s] = [op |-> op, w |-> w, read |-> wo[w], to |-> to]]
  /\ UNCHANGED <<wo, pend, history, ready, rated, measured>>

Finish(s) == req' = [req EXCEPT ![s] = Idle]

\* Mutant: the version of the row is not compared.
SameStatusAsRead(s) == wo[req[s].w].status = req[s].read.status

\* locked.status and locked.updatedAt are those of the row read before.
SameAsRead(s) ==
  /\ wo[req[s].w].status = req[s].read.status
  /\ wo[req[s].w].updatedAt = req[s].read.updatedAt

\* Any failed check, conflict, timeout or dead process: nothing is written.
Abandon(s) ==
  /\ req[s] # Idle
  /\ Finish(s)
  /\ UNCHANGED <<wo, pend, history, ready, rated, measured>>

-----------------------------------------------------------------------------
(* create                                                                  *)

Create(w) ==
  /\ wo[w].status = "ABSENT"
  /\ MayWrite(w)
  /\ \E assigned, noRequirements \in BOOLEAN :
       /\ WriteRow(w, [AbsentRow EXCEPT !.status = "OPEN", !.assigned = assigned])
       /\ ready' = [ready EXCEPT ![w] = noRequirements]
  /\ Record(w, "ABSENT", "OPEN", "flow")
  /\ UNCHANGED <<pend, rated, measured, req>>

(* update: costs, contracts, assignee, category and its checklist.         *)

UpdateRead(s, w) ==
  /\ Visible(w)
  /\ wo[w].status \notin TERMINAL_WORK_ORDER_STATUSES \cup {"COMPLETED"}
  /\ Remember(s, "update", w, wo[w].status)

UpdateCommit(s) ==
  LET w == req[s].w IN
  /\ req[s].op = "update"
  /\ ~wo[w].deleted
  /\ SameAsRead(s)
  /\ wo[w].status \notin TERMINAL_WORK_ORDER_STATUSES \cup {"COMPLETED"}
  /\ MayWrite(w)
  /\ \E assigned \in {wo[w].assigned, TRUE} :
       WriteRow(w, [wo[w] EXCEPT !.assigned = assigned])
  /\ \E requirementsMet \in BOOLEAN : ready' = [ready EXCEPT ![w] = requirementsMet]
  /\ Finish(s)
  /\ UNCHANGED <<pend, history, rated, measured>>

(* transition                                                              *)

TransitionRead(s, w, to) ==
  /\ Visible(w)
  /\ to \notin {"PENDING", "CLOSED"}
  /\ wo[w].hasOpenPendency => to = "CANCELED"
  /\ to = "ASSIGNED" => wo[w].assigned
  /\ canTransition(wo[w].status, to)
  /\ Remember(s, "transition", w, to)

TransitionCommit(s) ==
  LET w == req[s].w
      to == req[s].to
      row == wo[w]
  IN
  /\ req[s].op = "transition"
  /\ ~row.deleted
  /\ SameAsRead(s)
  /\ row.hasOpenPendency => to = "CANCELED"
  /\ to = "COMPLETED" => ready[w]
  /\ MayWrite(w)
  /\ IF to = "CANCELED" /\ row.hasOpenPendency THEN CancelPendencies(w)
                                               ELSE UNCHANGED pend
  /\ WriteRow(w, [row EXCEPT !.status = to,
                             !.hasOpenPendency = (to # "CANCELED" /\ @),
                             !.solution = (to = "COMPLETED" \/ @)])
  /\ Record(w, row.status, to, "flow")
  /\ Finish(s)
  /\ UNCHANGED <<ready, rated, measured>>

(* archive: the status recorded as the origin is the one read before the   *)
(* transaction, and nothing is compared under the lock; the update fails   *)
(* when there is no row.                                                   *)

ArchiveRead(s, w) == Visible(w) /\ Remember(s, "archive", w, wo[w].status)

ArchiveCommit(s) ==
  LET w == req[s].w IN
  /\ req[s].op = "archive"
  /\ Exists(w)
  /\ MayWrite(w)
  /\ WriteRow(w, [wo[w] EXCEPT !.status = "CANCELED", !.deleted = TRUE,
                               !.hasOpenPendency = FALSE,
                               !.measurementEligible = FALSE])
  /\ CancelPendencies(w)
  /\ Record(w, req[s].read.status, "CANCELED", "archive")
  /\ Finish(s)
  /\ UNCHANGED <<ready, rated, measured>>

-----------------------------------------------------------------------------
(* Evidence: respondChecklist and uploadAttachment.                        *)

RespondChecklist(w) ==
  /\ Visible(w)
  /\ wo[w].status \notin TERMINAL_WORK_ORDER_STATUSES \cup {"COMPLETED"}
  /\ \E allChecked \in BOOLEAN : ready' = [ready EXCEPT ![w] = allChecked]
  /\ UNCHANGED <<wo, pend, history, rated, measured, req>>

UploadRead(s, w) ==
  /\ Visible(w)
  /\ wo[w].status \notin TERMINAL_WORK_ORDER_STATUSES
  /\ Remember(s, "upload", w, wo[w].status)

UploadCommit(s) ==
  LET w == req[s].w IN
  /\ req[s].op = "upload"
  /\ Visible(w)
  /\ wo[w].status \notin TERMINAL_WORK_ORDER_STATUSES
  /\ \E complete \in {ready[w], TRUE} : ready' = [ready EXCEPT ![w] = complete]
  /\ Finish(s)
  /\ UNCHANGED <<wo, pend, history, rated, measured>>

(* addPendency and resolvePendency                                         *)

OldestOpen(w) == CHOOSE i \in OpenPendencies(w) : \A j \in OpenPendencies(w) : i <= j

\* Mutants: the status of a second pendency is the current one (PENDING); the
\* status preserved is the origin of the newest history row, not its end.
CurrentStatus(w) == wo[w].status
StatusBeforeLast(w) == history[w][Len(history[w])].from

PreviousStatus(w) ==
  IF wo[w].status # "PENDING" THEN wo[w].status
  ELSE IF OpenPendencies(w) = {} THEN "IN_PROGRESS"
  ELSE pend[w][OldestOpen(w)].previousStatus

AddPendency(w) ==
  /\ Visible(w)
  /\ wo[w].status = "PENDING" \/ canTransition(wo[w].status, "PENDING")
  /\ MayWrite(w)
  /\ Len(pend[w]) < MaxPendencies
  /\ pend' = [pend EXCEPT ![w] = Append(@, [previousStatus |-> PreviousStatus(w),
                                            status |-> "OPEN"])]
  /\ WriteRow(w, [wo[w] EXCEPT !.status = "PENDING", !.hasOpenPendency = TRUE])
  /\ IF wo[w].status # "PENDING" THEN Record(w, wo[w].status, "PENDING", "flow")
                                 ELSE UNCHANGED history
  /\ UNCHANGED <<ready, rated, measured, req>>

\* Mutant: every resolved order goes back to execution.
AlwaysInProgress(previous) == "IN_PROGRESS"

RestoredStatus(previous) == IF previous = "PENDING" THEN "IN_PROGRESS" ELSE previous

ResolvePendency(w, i) ==
  /\ Visible(w)
  /\ i \in OpenPendencies(w)
  /\ pend' = [pend EXCEPT ![w][i].status = "RESOLVED"]
  /\ IF OpenPendencies(w) = {i}
     THEN LET restored == RestoredStatus(pend[w][i].previousStatus) IN
          /\ MayWrite(w)
          /\ WriteRow(w, [wo[w] EXCEPT !.hasOpenPendency = FALSE, !.status = restored])
          /\ Record(w, "PENDING", restored, "flow")
     ELSE UNCHANGED <<wo, history>>
  /\ UNCHANGED <<ready, rated, measured, req>>

-----------------------------------------------------------------------------
(* close, reopen and submitSatisfaction.  The contract and cost conditions *)
(* of an order eligible for measurement are an input here; Measurements    *)
(* has the amounts.                                                        *)

Close(w) ==
  /\ Visible(w)
  /\ wo[w].status = "COMPLETED"
  /\ wo[w].solution
  /\ ~wo[w].hasOpenPendency
  /\ ready[w]
  /\ MayWrite(w)
  /\ \E eligible \in BOOLEAN :
       /\ eligible => w \notin measured
       /\ WriteRow(w, [wo[w] EXCEPT !.status = "CLOSED", !.accepted = TRUE,
                                    !.measurementEligible = eligible])
  /\ Record(w, "COMPLETED", "CLOSED", "flow")
  /\ UNCHANGED <<pend, ready, rated, measured, req>>

ReopenRead(s, w) ==
  /\ Visible(w)
  /\ wo[w].status \in Concluded
  /\ Remember(s, "reopen", w, "IN_PROGRESS")

ReopenCommit(s) ==
  LET w == req[s].w IN
  /\ req[s].op = "reopen"
  /\ ~wo[w].deleted
  /\ SameAsRead(s)
  /\ wo[w].status \in Concluded
  /\ w \notin measured
  /\ MayWrite(w)
  /\ WriteRow(w, [wo[w] EXCEPT !.status = "IN_PROGRESS", !.solution = FALSE,
                               !.accepted = FALSE, !.measurementEligible = FALSE])
  /\ rated' = rated \ {w}
  /\ Record(w, wo[w].status, "IN_PROGRESS", "flow")
  /\ Finish(s)
  /\ UNCHANGED <<pend, ready, measured>>

\* Mutant: the status is not checked again under the lock.
SubmitSatisfactionUnchecked(w) ==
  /\ Visible(w)
  /\ rated' = rated \cup {w}
  /\ UNCHANGED <<wo, pend, history, ready, measured, req>>

SubmitSatisfaction(w) ==
  /\ Visible(w)
  /\ wo[w].status \in Concluded
  /\ rated' = rated \cup {w}
  /\ UNCHANGED <<wo, pend, history, ready, measured, req>>

-----------------------------------------------------------------------------
(* Other modules.  An approved budget and the link to a preventive plan    *)
(* write the row (its costs, its plan); finance links an order to a        *)
(* measurement and rejects the measurement.  Whether the order was         *)
(* concluded is checked by finance before its transaction, so any order    *)
(* that exists may be linked by the time it commits.                       *)

OtherWrite(w) ==
  /\ Exists(w)
  /\ MayWrite(w)
  /\ WriteRow(w, wo[w])
  /\ UNCHANGED <<pend, history, ready, rated, measured, req>>

MeasurementLinks(w) ==
  /\ Exists(w)
  /\ measured' = measured \cup {w}
  /\ UNCHANGED <<wo, pend, history, ready, rated, req>>

MeasurementRejected(w) ==
  /\ w \in measured
  /\ measured' = measured \ {w}
  /\ UNCHANGED <<wo, pend, history, ready, rated, req>>

-----------------------------------------------------------------------------
SessionStep(s) ==
  \/ \E w \in WorkOrderIds :
       \/ UpdateRead(s, w) \/ ArchiveRead(s, w) \/ UploadRead(s, w) \/ ReopenRead(s, w)
       \/ \E to \in WorkOrderStatus : TransitionRead(s, w, to)
  \/ UpdateCommit(s) \/ TransitionCommit(s) \/ ArchiveCommit(s)
  \/ UploadCommit(s) \/ ReopenCommit(s) \/ Abandon(s)

OrderStep(w) ==
  \/ Create(w) \/ RespondChecklist(w) \/ AddPendency(w) \/ Close(w)
  \/ SubmitSatisfaction(w) \/ OtherWrite(w)
  \/ MeasurementLinks(w) \/ MeasurementRejected(w)
  \/ \E i \in DOMAIN pend[w] : ResolvePendency(w, i)

Next == (\E s \in Sessions : SessionStep(s)) \/ (\E w \in WorkOrderIds : OrderStep(w))

Spec == Init /\ [][Next]_vars

-----------------------------------------------------------------------------
(* Properties                                                              *)

TypeOK ==
  /\ wo \in [WorkOrderIds -> Row]
  /\ pend \in [WorkOrderIds -> Seq(Pendency)]
  /\ history \in [WorkOrderIds -> Seq(HistoryRow)]
  /\ ready \in [WorkOrderIds -> BOOLEAN]
  /\ rated \subseteq WorkOrderIds
  /\ measured \subseteq WorkOrderIds
  /\ req \in [Sessions -> Request \cup {Idle}]

\* The status, the flag and the pendency table tell one story: an order is
\* PENDING exactly when hasOpenPendency is set, exactly when some pendency of
\* it is OPEN.  Nine operations write one or more of the three.
PendencyCoherence == \A w \in WorkOrderIds :
  /\ wo[w].hasOpenPendency <=> wo[w].status = "PENDING"
  /\ wo[w].hasOpenPendency <=> OpenPendencies(w) # {}

\* Each open pendency remembers the status the order was suspended from (the
\* origin of the history row that entered PENDING), so whichever of them is
\* resolved last, the order returns to that status.
PendenciesAgree == \A w \in WorkOrderIds : \A i \in OpenPendencies(w) :
  /\ pend[w][i].previousStatus # "PENDING"
  /\ pend[w][i].previousStatus = history[w][Len(history[w])].from

\* The status history is a chain that ends in the current status: each row
\* starts where the row before it ended.  Only the rows written by archive may
\* break the link at their start: they record a status read without the lock.
HistoryIsChain == \A w \in WorkOrderIds :
  /\ Exists(w) <=> history[w] # <<>>
  /\ Exists(w) => history[w][Len(history[w])].to = wo[w].status
  /\ \A i \in 2..Len(history[w]) :
       history[w][i].by = "flow" => history[w][i].from = history[w][i-1].to

\* An order that is concluded keeps what its conclusion required (checklist,
\* photographs, solution, no open pendency) until it is reopened or archived,
\* and only a closed one carries an acceptance or is eligible for measurement.
ConclusionHolds == \A w \in WorkOrderIds :
  /\ wo[w].status \in Concluded => ready[w] /\ OpenPendencies(w) = {}
  /\ ~wo[w].deleted => (wo[w].solution <=> wo[w].status \in Concluded)
  /\ ~wo[w].deleted => (wo[w].accepted <=> wo[w].status = "CLOSED")
  /\ wo[w].measurementEligible => wo[w].status = "CLOSED"

\* A current satisfaction answer belongs to a concluded cycle: a reopened order
\* carries none, whatever answer raced with the reopening.
RatedOnlyConcluded == \A w \in rated :
  wo[w].status \in Concluded \/ wo[w].deleted

\* A transition, update or reopening is decided on the row as it still is when
\* it is written: no column changed between the read of the request and its
\* commit, although only status and updatedAt are compared.
NoLostUpdate == [][\A s \in Sessions :
  (req[s] # Idle /\ req'[s] = Idle /\ wo' # wo /\ req[s].op # "archive")
    => wo[req[s].w] = req[s].read]_vars

\* The order is an implementation of the abstract life cycle: in particular
\* a suspended order continues where it was, a concluded one only closes or
\* reopens, and a canceled one stays canceled.
Lifecycle == LC!LSpec
=============================================================================

------------------------- MODULE WorkOrderLifecycle -------------------------
(***************************************************************************)
(* What the work-order service promises about the life of a work order     *)
(* (ordem de servico, OS), without its rows, its history, its pendency     *)
(* table or its concurrent requests.                                       *)
(*                                                                         *)
(* An order moves along the table of work-order-state-machine.ts, may be   *)
(* suspended by a formal impediment and then continues exactly where it    *)
(* was, is concluded and closed, may be reopened into a new cycle, and is  *)
(* canceled for good.  WorkOrders.tla is shown to implement this module.   *)
(***************************************************************************)

CONSTANT WorkOrderIds

VARIABLES status,   \* status[w]: the status column of order w
          resume    \* resume[w]: where a suspended order continues

lvars == <<status, resume>>

Nowhere == "ABSENT"  \* an order not created yet; no place to continue at

WorkOrderStatus == {"OPEN", "TRIAGED", "ASSIGNED", "IN_PROGRESS", "PENDING",
                    "WAITING_APPROVAL", "COMPLETED", "CLOSED", "CANCELED"}

(***************************************************************************)
(* The transition table.  Closing and reopening have flows of their own,   *)
(* so a concluded order has no successor here.                             *)
(***************************************************************************)
transitions ==
  [OPEN             |-> {"TRIAGED", "ASSIGNED", "IN_PROGRESS", "PENDING", "CANCELED"},
   TRIAGED          |-> {"ASSIGNED", "IN_PROGRESS", "PENDING", "CANCELED"},
   ASSIGNED         |-> {"IN_PROGRESS", "PENDING", "CANCELED"},
   IN_PROGRESS      |-> {"PENDING", "WAITING_APPROVAL", "COMPLETED", "CANCELED"},
   PENDING          |-> {"ASSIGNED", "IN_PROGRESS", "WAITING_APPROVAL", "CANCELED"},
   WAITING_APPROVAL |-> {"IN_PROGRESS", "PENDING", "COMPLETED", "CANCELED"},
   COMPLETED        |-> {},
   CLOSED           |-> {},
   CANCELED         |-> {}]

canTransition(from, to) == to \in transitions[from]

Suspendable == {from \in WorkOrderStatus : canTransition(from, "PENDING")}

Concluded == {"COMPLETED", "CLOSED"}

-----------------------------------------------------------------------------
Init ==
  /\ status = [w \in WorkOrderIds |-> Nowhere]
  /\ resume = [w \in WorkOrderIds |-> Nowhere]

Move(w, to) ==
  /\ status' = [status EXCEPT ![w] = to]
  /\ UNCHANGED resume

Open(w) == status[w] = Nowhere /\ Move(w, "OPEN")

\* Ordinary progress: never out of a suspension, never into one.
Advance(w) ==
  /\ status[w] \in WorkOrderStatus \ {"PENDING"}
  /\ \E to \in transitions[status[w]] \ {"PENDING"} : Move(w, to)

Suspend(w) ==
  /\ status[w] \in Suspendable
  /\ status' = [status EXCEPT ![w] = "PENDING"]
  /\ resume' = [resume EXCEPT ![w] = status[w]]

Continue(w) ==
  /\ status[w] = "PENDING"
  /\ status' = [status EXCEPT ![w] = resume[w]]
  /\ resume' = [resume EXCEPT ![w] = Nowhere]

Close(w) == status[w] = "COMPLETED" /\ Move(w, "CLOSED")

Reopen(w) == status[w] \in Concluded /\ Move(w, "IN_PROGRESS")

\* Cancellation by the state machine, or by archiving from any status.
Cancel(w) ==
  /\ status[w] \in WorkOrderStatus
  /\ status' = [status EXCEPT ![w] = "CANCELED"]
  /\ resume' = [resume EXCEPT ![w] = Nowhere]

LNext == \E w \in WorkOrderIds :
  \/ Open(w) \/ Advance(w) \/ Suspend(w) \/ Continue(w)
  \/ Close(w) \/ Reopen(w) \/ Cancel(w)

LSpec == Init /\ [][LNext]_lvars
=============================================================================

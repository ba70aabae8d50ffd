------------------------- MODULE NotificationOutbox -------------------------
(***************************************************************************)
(* The outbox of apps/api/src/modules/notifications: one row per event and *)
(* recipient, and the workers (one per process of the API) that claim the  *)
(* rows, deliver them to the inbox and by e-mail, and settle them.         *)
(*                                                                         *)
(* A row carries the version its updatedAt stands for.  One Boolean stands *)
(* for its clock: elapsed says that availableAt has come, or, while the    *)
(* row is PROCESSING, that its lease of staleAfterMs is over.              *)
(***************************************************************************)
EXTENDS Naturals, FiniteSets

CONSTANTS Events, Workers,
          maxAttempts,   \* NOTIFICATION_MAX_ATTEMPTS
          MaxWrites,     \* bound: writes of one row
          MaxCrashes     \* bound: crashes of a process

ASSUME ParametersAreValid ==
  maxAttempts \in Nat \ {0} /\ MaxWrites \in Nat /\ MaxCrashes \in Nat

VARIABLES
  row,       \* row[e]: the NotificationOutbox row
  inbox,     \* events with a Notification row (its id is the event's)
  mailed,    \* idempotency keys the e-mail provider has accepted
  excused,   \* events settled with nothing to deliver
  worker,    \* worker[k]: the worker of process k
  crashes

vars == <<row, inbox, mailed, excused, worker, crashes>>

OutboxStatus == {"PENDING", "PROCESSING", "SENT", "FAILED"}

Absent == [status |-> "ABSENT", attempts |-> 0, version |-> 0, elapsed |-> FALSE]
Idle == [at |-> "idle"]

Init ==
  /\ row = [e \in Events |-> Absent]
  /\ inbox = {} /\ mailed = {} /\ excused = {}
  /\ worker = [k \in Workers |-> Idle]
  /\ crashes = 0

-----------------------------------------------------------------------------
Settled(e) == row[e].status = "SENT" \/ (row[e].status = "FAILED" /\ row[e].attempts >= maxAttempts)
InHand == {"claimed", "posted", "answered", "unanswered"}
Handling(k, e) == worker[k].at \in InHand /\ worker[k].e = e

Write(e, status, attempts, elapsed) ==
  /\ row[e].version < MaxWrites
  /\ row' = [row EXCEPT ![e] = [status |-> status, attempts |-> attempts,
                               version |-> @.version + 1, elapsed |-> elapsed]]

Release(k) == worker' = [worker EXCEPT ![k] = Idle]

(* enqueue: an occurrence of the domain that is enqueued again, by a retry *)
(* or by the next scan of deadlines, leaves its row as it is.              *)

Enqueue(e) ==
  /\ row[e].status = "ABSENT"
  /\ Write(e, "PENDING", 0, TRUE)
  /\ UNCHANGED <<inbox, mailed, excused, worker, crashes>>

(* The backoff of a retry runs out, or the lease of a claim, whether or    *)
(* not a worker is still on it.                                            *)

Elapse(e) ==
  /\ ~row[e].elapsed
  /\ row[e].status \in {"FAILED", "PROCESSING"}
  /\ row' = [row EXCEPT ![e].elapsed = TRUE]
  /\ UNCHANGED <<inbox, mailed, excused, worker, crashes>>

-----------------------------------------------------------------------------
(* claimNext: the candidates are read, then one is claimed if its status   *)
(* and updatedAt are still those that were read.                           *)

\* Mutant: an abandoned claim is taken up again no more than any other.
ClaimableWithinLimit(e) ==
  /\ row[e].elapsed
  /\ row[e].status \in {"PENDING", "FAILED", "PROCESSING"} /\ row[e].attempts < maxAttempts

Claimable(e) ==
  /\ row[e].elapsed
  /\ \/ row[e].status \in {"PENDING", "FAILED"} /\ row[e].attempts < maxAttempts
     \/ row[e].status = "PROCESSING" /\ row[e].attempts < maxAttempts + 1

ClaimRead(k, e) ==
  /\ worker[k] = Idle
  /\ Claimable(e)
  /\ worker' = [worker EXCEPT ![k] = [at |-> "candidate", e |-> e, read |-> row[e]]]
  /\ UNCHANGED <<row, inbox, mailed, excused, crashes>>

\* Mutant: the claim compares the status only.
SameStatus(k) == row[worker[k].e].status = worker[k].read.status
Unchanged(k) ==
  /\ row[worker[k].e].status = worker[k].read.status
  /\ row[worker[k].e].version = worker[k].read.version

Claim(k) ==
  LET e == worker[k].e IN
  /\ worker[k].at = "candidate"
  /\ Unchanged(k)
  /\ Write(e, "PROCESSING", row[e].attempts + 1, FALSE)
  /\ worker' = [worker EXCEPT ![k] =
                  [at |-> "claimed", e |-> e, attempts |-> row[e].attempts + 1]]
  /\ UNCHANGED <<inbox, mailed, excused, crashes>>

LoseClaim(k) ==
  /\ worker[k].at = "candidate"
  /\ ~Unchanged(k)
  /\ Release(k)
  /\ UNCHANGED <<row, inbox, mailed, excused, crashes>>

-----------------------------------------------------------------------------
(* processClaimed: first the inbox, then the e-mail, then complete.        *)

\* Mutant: completing or failing a claim does not look at the status.
WhateverItsStatus(e) == TRUE
InProcessing(e) == row[e].status = "PROCESSING"

\* complete and fail are updates of the row WHERE status = PROCESSING: they
\* take whichever claim the row is under, or no effect.
Settle(k, status, attempts, elapsed) ==
  LET e == worker[k].e IN
  /\ IF InProcessing(e) THEN Write(e, status, attempts, elapsed) ELSE UNCHANGED row
  /\ Release(k)

DeliverInApp(k) ==
  /\ worker[k].at = "claimed"
  /\ inbox' = inbox \cup {worker[k].e}
  /\ worker' = [worker EXCEPT ![k].at = "posted"]
  /\ UNCHANGED <<row, mailed, excused, crashes>>

\* The provider accepts a message; its answer may still be lost.
SendMail(k) ==
  /\ worker[k].at \in {"claimed", "posted"}
  /\ mailed' = mailed \cup {worker[k].e}
  /\ \E answer \in {"answered", "unanswered"} : worker' = [worker EXCEPT ![k].at = answer]
  /\ UNCHANGED <<row, inbox, excused, crashes>>

\* Mutant: an event is completed before it is delivered.
CompleteEarly(k) ==
  /\ worker[k].at \in InHand
  /\ Settle(k, "SENT", row[worker[k].e].attempts, FALSE)
  /\ UNCHANGED <<inbox, mailed, excused, crashes>>

Complete(k) ==
  /\ worker[k].at \in {"posted", "answered"}
  /\ Settle(k, "SENT", row[worker[k].e].attempts, FALSE)
  /\ UNCHANGED <<inbox, mailed, excused, crashes>>

\* The recipient is no longer entitled to it, or has turned both channels off.
Skip(k) ==
  /\ worker[k].at = "claimed"
  /\ excused' = excused \cup {worker[k].e}
  /\ Settle(k, "SENT", row[worker[k].e].attempts, FALSE)
  /\ UNCHANGED <<inbox, mailed, crashes>>

\* fail writes the attempts the worker read when it claimed the event.
Fail(k) ==
  /\ worker[k].at \in InHand
  /\ \E retryable \in BOOLEAN :
       LET terminal == ~retryable \/ worker[k].attempts >= maxAttempts
           least == IF terminal THEN maxAttempts ELSE 0
           attempts == IF worker[k].attempts < least THEN least ELSE worker[k].attempts
       IN Settle(k, "FAILED", attempts, terminal)
  /\ UNCHANGED <<inbox, mailed, excused, crashes>>

\* The process dies, or the database refuses the statement that settles the
\* claim and the batch ends.
Crash(k) ==
  /\ worker[k] # Idle
  /\ crashes < MaxCrashes
  /\ crashes' = crashes + 1
  /\ Release(k)
  /\ UNCHANGED <<row, inbox, mailed, excused>>

-----------------------------------------------------------------------------
WorkerStep(k) ==
  \/ \E e \in Events : ClaimRead(k, e)
  \/ Claim(k) \/ LoseClaim(k) \/ DeliverInApp(k) \/ SendMail(k)
  \/ Complete(k) \/ Skip(k) \/ Fail(k)

Next ==
  \/ \E k \in Workers : WorkerStep(k) \/ Crash(k)
  \/ \E e \in Events : Enqueue(e) \/ Elapse(e)

Spec == Init /\ [][Next]_vars

\* Every process polls again after each batch (schedule), a mail request times
\* out, and clocks advance.
FairSpec ==
  /\ Spec
  /\ \A k \in Workers : WF_vars(WorkerStep(k))
  /\ \A e \in Events : WF_vars(Elapse(e))

-----------------------------------------------------------------------------
(* Properties                                                              *)

\* An event that is SENT has reached a channel of its recipient, or there was
\* nothing to deliver, whichever of the workers that held it settled it.
SentMeansDelivered == \A e \in Events :
  row[e].status = "SENT" => e \in inbox \cup mailed \cup excused

\* A settled event stays as it is, even when a worker that lost its lease
\* completes it, or fails it, afterwards.
SettledIsFinal == [][\A e \in Events :
  Settled(e) => row'[e].status = row[e].status /\ row'[e].attempts = row[e].attempts]_vars

\* A worker takes an event in hand only when nobody holds it, or when the lease
\* of its holder is over: candidates read before another claim are not claimed.
LeaseIsRespected == [][\A k \in Workers, e \in Events :
  ~Handling(k, e) /\ Handling(k, e)'
    => row[e].status \in {"PENDING", "FAILED"} \/ row[e].elapsed]_vars

\* Every event is settled in the end: delivered, or given up after the last of
\* its attempts and visible as a terminal failure.
EveryEventSettles == \A e \in Events : row[e].status # "ABSENT" ~> Settled(e)
=============================================================================

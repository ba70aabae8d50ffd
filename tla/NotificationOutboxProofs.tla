---------------------- MODULE NotificationOutboxProofs ----------------------
(***************************************************************************)
(* Proofs about NotificationOutbox: what the workers of any number of      *)
(* processes, crashes and lost leases included, never do to a row.         *)
(***************************************************************************)
EXTENDS NotificationOutbox, TLAPS

Row == [status : OutboxStatus \cup {"ABSENT"}, attempts : Nat, version : Nat, elapsed : BOOLEAN]

Working ==
  [at : {"idle"}]
    \cup [at : {"candidate"}, e : Events, read : Row]
    \cup [at : {"claimed"}, e : Events, attempts : Nat]
    \cup [at : {"posted", "answered", "unanswered"}, e : Events, attempts : Nat]

RowsAndWorkers == row \in [Events -> Row] /\ worker \in [Workers -> Working]

\* A worker that is past a channel has delivered to it.
PastMeansDelivered == \A k \in Workers :
  /\ worker[k].at = "posted" => worker[k].e \in inbox
  /\ worker[k].at \in {"answered", "unanswered"} => worker[k].e \in mailed

\* What a worker read of a candidate is the row for as long as its version is:
\* only the clock of the row can run on.
CandidateIsVersion == \A k \in Workers :
  worker[k].at = "candidate" =>
    LET read == worker[k].read
        now == row[worker[k].e]
    IN
    /\ read.version <= now.version
    /\ read.version = now.version =>
         /\ read.status = now.status /\ read.attempts = now.attempts
         /\ read.elapsed => now.elapsed
    /\ read.elapsed
    /\ \/ read.status \in {"PENDING", "FAILED"} /\ read.attempts < maxAttempts
       \/ read.status = "PROCESSING"

IInv == RowsAndWorkers /\ PastMeansDelivered /\ CandidateIsVersion /\ SentMeansDelivered

-----------------------------------------------------------------------------
LEMMA Begins == ASSUME Init PROVE IInv
<1>1. RowsAndWorkers
  BY DEF Init, RowsAndWorkers, Absent, Idle, Row, Working, OutboxStatus
<1> QED
  BY <1>1 DEF Init, IInv, PastMeansDelivered, CandidateIsVersion, SentMeansDelivered, Absent, Idle

\* A write of the row gives it a version of its own.
LEMMA WriteIsNew ==
  ASSUME RowsAndWorkers, NEW e \in Events, NEW status \in OutboxStatus, NEW attempts \in Nat,
         NEW elapsed \in BOOLEAN, Write(e, status, attempts, elapsed)
  PROVE  /\ row' \in [Events -> Row]
         /\ \A d \in Events \ {e} : row'[d] = row[d]
         /\ row'[e].status = status /\ row'[e].attempts = attempts
         /\ row'[e].version = row[e].version + 1
BY DEF Write, RowsAndWorkers, Row

\* Every step, seen from one row: it is as it was, its clock has run out, or it is a
\* new version.
RowAdvances(e) ==
  \/ row'[e] = row[e]
  \/ /\ row'[e].status = row[e].status /\ row'[e].attempts = row[e].attempts
     /\ row'[e].version = row[e].version /\ row'[e].elapsed
  \/ row'[e].version = row[e].version + 1

LEMMA CandidatesStay ==
  ASSUME IInv, row' \in [Events -> Row], worker' \in [Workers -> Working],
         \A e \in Events : RowAdvances(e),
         \A k \in Workers : worker'[k].at = "candidate" => worker'[k] = worker[k]
  PROVE  CandidateIsVersion'
<1> SUFFICES ASSUME NEW k \in Workers, worker'[k].at = "candidate"
             PROVE  LET read == worker'[k].read
                        now == row'[worker'[k].e]
                    IN
                    /\ read.version <= now.version
                    /\ read.version = now.version =>
                         /\ read.status = now.status /\ read.attempts = now.attempts
                         /\ read.elapsed => now.elapsed
                    /\ read.elapsed
                    /\ \/ read.status \in {"PENDING", "FAILED"} /\ read.attempts < maxAttempts
                       \/ read.status = "PROCESSING"
  BY DEF CandidateIsVersion
<1> DEFINE e == worker[k].e
           read == worker[k].read
<1>1. worker'[k] = worker[k] /\ worker[k].at = "candidate"
  OBVIOUS
<1>2. e \in Events /\ read \in Row
  BY <1>1 DEF IInv, RowsAndWorkers, Working
<1>3. /\ read.version <= row[e].version
      /\ read.version = row[e].version =>
           /\ read.status = row[e].status /\ read.attempts = row[e].attempts
           /\ read.elapsed => row[e].elapsed
      /\ read.elapsed
      /\ \/ read.status \in {"PENDING", "FAILED"} /\ read.attempts < maxAttempts
         \/ read.status = "PROCESSING"
  BY <1>1 DEF IInv, CandidateIsVersion
<1>4. RowAdvances(e) /\ row[e] \in Row
  BY <1>2 DEF IInv, RowsAndWorkers
<1>5. /\ read.version <= row'[e].version
      /\ read.version = row'[e].version =>
           /\ read.status = row'[e].status /\ read.attempts = row'[e].attempts
           /\ read.elapsed => row'[e].elapsed
  <2> HIDE DEF e, read
  <2> QED  BY <1>2, <1>3, <1>4 DEF RowAdvances, Row
<1> QED  BY <1>1, <1>3, <1>5

LEMMA Released ==
  ASSUME IInv, NEW k \in Workers, Release(k)
  PROVE  /\ worker' \in [Workers -> Working]
         /\ \A j \in Workers : worker'[j] = worker[j] \/ worker'[j].at = "idle"
BY DEF Release, Idle, IInv, RowsAndWorkers, Working

\* A worker settles the claim it holds, or finds that it is not there.
LEMMA SettleKeeps ==
  ASSUME IInv, NEW k \in Workers, worker[k].at \in InHand,
         NEW status \in {"SENT", "FAILED"}, NEW attempts \in Nat, NEW elapsed \in BOOLEAN,
         Settle(k, status, attempts, elapsed),
         inbox' = inbox, mailed' = mailed, excused \subseteq excused',
         status = "SENT" => worker[k].e \in inbox \cup mailed \cup excused'
  PROVE  IInv'
<1> DEFINE e == worker[k].e
<1>1. e \in Events
  BY DEF InHand, IInv, RowsAndWorkers, Working
<1>2. row' = row \/ Write(e, status, attempts, elapsed)
  BY DEF Settle
<1>3. /\ row' \in [Events -> Row]
      /\ \A d \in Events :
           \/ row'[d] = row[d]
           \/ d = e /\ row'[d].version = row[d].version + 1 /\ row'[d].status = status
  <2> HIDE DEF e
  <2>1. CASE row' = row
    BY <2>1 DEF IInv, RowsAndWorkers
  <2>2. CASE Write(e, status, attempts, elapsed)
    BY <1>1, <2>2, WriteIsNew DEF OutboxStatus, IInv
  <2> QED  BY <1>2, <2>1, <2>2
<1>4. /\ worker' \in [Workers -> Working]
      /\ \A j \in Workers : worker'[j] = worker[j] \/ worker'[j].at = "idle"
  BY Released DEF Settle
<1>5. CandidateIsVersion'
  BY <1>3, <1>4, CandidatesStay DEF RowAdvances
<1>6. SentMeansDelivered'
  BY <1>3 DEF IInv, SentMeansDelivered
<1> QED  BY <1>3, <1>4, <1>5, <1>6 DEF IInv, RowsAndWorkers, PastMeansDelivered

LEMMA FailKeeps ==
  ASSUME IInv, NEW k \in Workers, Fail(k)
  PROVE  IInv'
<1>1. worker[k].at \in InHand /\ worker[k].attempts \in Nat
  BY DEF Fail, InHand, IInv, RowsAndWorkers, Working
<1>2. PICK retryable \in BOOLEAN :
       LET terminal == ~retryable \/ worker[k].attempts >= maxAttempts
           least == IF terminal THEN maxAttempts ELSE 0
           attempts == IF worker[k].attempts < least THEN least ELSE worker[k].attempts
       IN Settle(k, "FAILED", attempts, terminal)
  BY DEF Fail
<1> DEFINE terminal == ~retryable \/ worker[k].attempts >= maxAttempts
           least == IF terminal THEN maxAttempts ELSE 0
           attempts == IF worker[k].attempts < least THEN least ELSE worker[k].attempts
<1>3. Settle(k, "FAILED", attempts, terminal)
  BY <1>2
<1>4. attempts \in Nat /\ terminal \in BOOLEAN
  BY <1>1, ParametersAreValid
<1>5. UNCHANGED <<inbox, mailed, excused>>
  BY DEF Fail
<1> HIDE DEF attempts, terminal
<1> QED  BY <1>1, <1>3, <1>4, <1>5, SettleKeeps

LEMMA WorkersKeep ==
  ASSUME IInv, NEW k \in Workers, WorkerStep(k) \/ Crash(k)
  PROVE  IInv'
<1>1. ASSUME NEW e \in Events, ClaimRead(k, e)
      PROVE  IInv'
  <2>1. worker' = [worker EXCEPT ![k] = [at |-> "candidate", e |-> e, read |-> row[e]]]
    BY <1>1 DEF ClaimRead
  <2>2. row[e] \in Row /\ worker' \in [Workers -> Working]
    BY <2>1 DEF IInv, RowsAndWorkers, Working
  <2>3. /\ worker'[k] = [at |-> "candidate", e |-> e, read |-> row[e]]
        /\ \A j \in Workers \ {k} : worker'[j] = worker[j]
    BY <2>1 DEF IInv, RowsAndWorkers
  <2>4. UNCHANGED <<row, inbox, mailed, excused>> /\ Claimable(e)
    BY <1>1 DEF ClaimRead
  <2>5. CandidateIsVersion'
    BY <2>2, <2>3, <2>4 DEF IInv, CandidateIsVersion, Claimable, Row
  <2> QED  BY <2>2, <2>3, <2>4, <2>5 DEF IInv, RowsAndWorkers, PastMeansDelivered, SentMeansDelivered
<1>2. CASE Claim(k)
  <2> DEFINE e == worker[k].e
  <2>1. e \in Events /\ worker[k].at = "candidate" /\ row[e].attempts + 1 \in Nat
    BY <1>2 DEF Claim, IInv, RowsAndWorkers, Working, Row
  <2>2. /\ Write(e, "PROCESSING", row[e].attempts + 1, FALSE)
        /\ worker' = [worker EXCEPT ![k] = [at |-> "claimed", e |-> e, attempts |-> row[e].attempts + 1]]
        /\ UNCHANGED <<inbox, mailed, excused>>
    BY <1>2 DEF Claim
  <2> HIDE DEF e
  <2>3. /\ row' \in [Events -> Row] /\ \A d \in Events \ {e} : row'[d] = row[d]
        /\ row'[e].status = "PROCESSING" /\ row'[e].version = row[e].version + 1
    BY <2>1, <2>2, WriteIsNew DEF IInv, OutboxStatus
  <2>4. /\ worker' \in [Workers -> Working] /\ worker'[k].at = "claimed"
        /\ \A j \in Workers \ {k} : worker'[j] = worker[j]
    BY <2>1, <2>2 DEF IInv, RowsAndWorkers, Working
  <2>5. CandidateIsVersion'
    BY <2>3, <2>4, CandidatesStay DEF RowAdvances
  <2> QED  BY <2>2, <2>3, <2>4, <2>5 DEF IInv, RowsAndWorkers, PastMeansDelivered, SentMeansDelivered
<1>3. CASE LoseClaim(k) \/ Crash(k)
  <2>1. UNCHANGED <<row, inbox, mailed, excused>> /\ Release(k)
    BY <1>3 DEF LoseClaim, Crash
  <2>2. /\ worker' \in [Workers -> Working]
        /\ \A j \in Workers : worker'[j] = worker[j] \/ worker'[j].at = "idle"
    BY <2>1, Released
  <2>3. CandidateIsVersion'
    BY <2>1, <2>2, CandidatesStay DEF RowAdvances, IInv, RowsAndWorkers
  <2> QED  BY <2>1, <2>2, <2>3 DEF IInv, RowsAndWorkers, PastMeansDelivered, SentMeansDelivered
<1>4. CASE DeliverInApp(k)
  <2>1. /\ worker' \in [Workers -> Working] /\ worker'[k].at = "posted" /\ worker'[k].e = worker[k].e
        /\ \A j \in Workers \ {k} : worker'[j] = worker[j]
    BY <1>4 DEF DeliverInApp, IInv, RowsAndWorkers, Working
  <2>2. UNCHANGED <<row, mailed, excused>> /\ inbox' = inbox \cup {worker[k].e}
    BY <1>4 DEF DeliverInApp
  <2>3. CandidateIsVersion'
    BY <2>1, <2>2, CandidatesStay DEF RowAdvances, IInv, RowsAndWorkers
  <2> QED  BY <2>1, <2>2, <2>3 DEF IInv, RowsAndWorkers, PastMeansDelivered, SentMeansDelivered
<1>5. CASE SendMail(k)
  <2>1. /\ worker' \in [Workers -> Working] /\ worker'[k].at \in {"answered", "unanswered"}
        /\ worker'[k].e = worker[k].e
        /\ \A j \in Workers \ {k} : worker'[j] = worker[j]
    BY <1>5 DEF SendMail, IInv, RowsAndWorkers, Working
  <2>2. UNCHANGED <<row, inbox, excused>> /\ mailed' = mailed \cup {worker[k].e}
    BY <1>5 DEF SendMail
  <2>3. CandidateIsVersion'
    BY <2>1, <2>2, CandidatesStay DEF RowAdvances, IInv, RowsAndWorkers
  <2> QED  BY <2>1, <2>2, <2>3 DEF IInv, RowsAndWorkers, PastMeansDelivered, SentMeansDelivered
<1>6. CASE Complete(k) \/ Skip(k)
  <2> DEFINE attempts == row[worker[k].e].attempts
  <2>1. worker[k].at \in InHand /\ attempts \in Nat
    BY <1>6 DEF Complete, Skip, InHand, IInv, RowsAndWorkers, Working, Row
  <2>2. Settle(k, "SENT", attempts, FALSE) /\ inbox' = inbox /\ mailed' = mailed
    BY <1>6 DEF Complete, Skip
  <2>3. excused \subseteq excused' /\ worker[k].e \in inbox \cup mailed \cup excused'
    BY <1>6 DEF Complete, Skip, IInv, PastMeansDelivered
  <2> HIDE DEF attempts
  <2> QED  BY <2>1, <2>2, <2>3, SettleKeeps
<1>7. CASE Fail(k)
  BY <1>7, FailKeeps
<1> QED  BY <1>1, <1>2, <1>3, <1>4, <1>5, <1>6, <1>7 DEF WorkerStep

LEMMA NextKeeps ==
  ASSUME IInv, [Next]_vars
  PROVE  IInv'
<1>1. ASSUME NEW e \in Events, Enqueue(e)
      PROVE  IInv'
  <2>1. UNCHANGED <<inbox, mailed, excused, worker>> /\ Write(e, "PENDING", 0, TRUE)
    BY <1>1 DEF Enqueue
  <2>2. /\ row' \in [Events -> Row] /\ \A d \in Events \ {e} : row'[d] = row[d]
        /\ row'[e].status = "PENDING" /\ row'[e].version = row[e].version + 1
    BY <2>1, WriteIsNew DEF IInv, OutboxStatus
  <2>3. CandidateIsVersion'
    BY <2>1, <2>2, CandidatesStay DEF RowAdvances, IInv, RowsAndWorkers
  <2> QED  BY <2>1, <2>2, <2>3 DEF IInv, RowsAndWorkers, PastMeansDelivered, SentMeansDelivered
<1>2. ASSUME NEW e \in Events, Elapse(e)
      PROVE  IInv'
  <2>1. /\ UNCHANGED <<inbox, mailed, excused, worker>>
        /\ row' = [row EXCEPT ![e].elapsed = TRUE]
    BY <1>2 DEF Elapse
  <2>2. /\ row' \in [Events -> Row] /\ \A d \in Events \ {e} : row'[d] = row[d]
        /\ row'[e].status = row[e].status /\ row'[e].attempts = row[e].attempts
        /\ row'[e].version = row[e].version /\ row'[e].elapsed
    BY <2>1 DEF IInv, RowsAndWorkers, Row
  <2>3. CandidateIsVersion'
    BY <2>1, <2>2, CandidatesStay DEF RowAdvances, IInv, RowsAndWorkers
  <2> QED  BY <2>1, <2>2, <2>3 DEF IInv, RowsAndWorkers, PastMeansDelivered, SentMeansDelivered
<1>3. CASE UNCHANGED vars
  BY <1>3 DEF vars, IInv, RowsAndWorkers, PastMeansDelivered, CandidateIsVersion, SentMeansDelivered
<1> QED  BY <1>1, <1>2, <1>3, WorkersKeep DEF Next

LEMMA OutboxInvariance == Spec => []IInv
<1> QED  BY Begins, NextKeeps, PTL DEF Spec

-----------------------------------------------------------------------------
\* What a claim found, it may claim: not a row that is settled, and one whose clock
\* has run out.
LEMMA ClaimIsDue ==
  ASSUME IInv, NEW k \in Workers, Claim(k)
  PROVE  LET e == worker[k].e IN
         /\ e \in Events /\ row[e].elapsed
         /\ \/ row[e].status \in {"PENDING", "FAILED"} /\ row[e].attempts < maxAttempts
            \/ row[e].status = "PROCESSING"
<1>1. /\ worker[k].at = "candidate" /\ worker[k].read.version = row[worker[k].e].version
      /\ worker[k].e \in Events
  BY DEF Claim, Unchanged, IInv, RowsAndWorkers, Working
<1> QED  BY <1>1 DEF IInv, CandidateIsVersion

LEMMA Settles ==
  ASSUME NEW k \in Workers, Complete(k) \/ Skip(k) \/ Fail(k)
  PROVE  \E status, attempts, elapsed : Settle(k, status, attempts, elapsed)
<1>1. CASE Complete(k) \/ Skip(k)
  BY <1>1 DEF Complete, Skip
<1>2. CASE Fail(k)
  BY <1>2 DEF Fail
<1> QED  BY <1>1, <1>2

LEMMA SettledStays ==
  ASSUME IInv, [Next]_vars, NEW e \in Events, Settled(e)
  PROVE  row'[e].status = row[e].status /\ row'[e].attempts = row[e].attempts
<1>0. row \in [Events -> Row] /\ row[e] \in Row /\ maxAttempts \in Nat
  BY ParametersAreValid DEF IInv, RowsAndWorkers
<1>1. row[e].status \in {"SENT", "FAILED"}
  BY DEF Settled
<1>2. CASE row' = row
  BY <1>2
<1>3. CASE \E d \in Events : Enqueue(d)
  BY <1>0, <1>1, <1>3 DEF Enqueue, Write
<1>4. CASE \E d \in Events : Elapse(d)
  BY <1>0, <1>4 DEF Elapse, Row
<1>5. ASSUME NEW k \in Workers, Claim(k)
      PROVE  row'[e] = row[e]
  <2>1. worker[k].e # e
    BY <1>0, <1>5, ClaimIsDue DEF Settled, Row
  <2> QED  BY <1>0, <1>5, <2>1 DEF Claim, Write
<1>6. ASSUME NEW k \in Workers, Complete(k) \/ Skip(k) \/ Fail(k)
      PROVE  row'[e] = row[e]
  <2>1. PICK status, attempts, elapsed : Settle(k, status, attempts, elapsed)
    BY <1>6, Settles
  <2>2. CASE row[worker[k].e].status = "PROCESSING"
    <3>1. worker[k].e # e
      BY <1>1, <2>2
    <3>2. row' = [row EXCEPT ![worker[k].e] = row'[worker[k].e]] \/ row' = row
      BY <1>0, <2>1, <2>2 DEF Settle, InProcessing, Write
    <3> QED  BY <1>0, <3>1, <3>2
  <2>3. CASE row[worker[k].e].status # "PROCESSING"
    BY <2>1, <2>3 DEF Settle, InProcessing
  <2> QED  BY <2>2, <2>3
<1> QED
  BY <1>2, <1>3, <1>4, <1>5, <1>6 DEF Next, WorkerStep, ClaimRead, LoseClaim, DeliverInApp,
     SendMail, Crash, vars

LEMMA HandledWhenDue ==
  ASSUME IInv, [Next]_vars, NEW k \in Workers, NEW e \in Events,
         ~Handling(k, e), Handling(k, e)'
  PROVE  row[e].status \in {"PENDING", "FAILED"} \/ row[e].elapsed
<1>0. worker \in [Workers -> Working]
  BY DEF IInv, RowsAndWorkers
<1>1. CASE Claim(k)
  <2>1. worker'[k].e = worker[k].e
    BY <1>0, <1>1 DEF Claim
  <2> QED  BY <1>1, <2>1, ClaimIsDue DEF Handling
<1>2. CASE worker'[k] = worker[k] \/ worker'[k].at \in {"idle", "candidate"}
  BY <1>2 DEF Handling, InHand
<1>3. CASE DeliverInApp(k) \/ SendMail(k)
  BY <1>0, <1>3 DEF DeliverInApp, SendMail, Handling, InHand, Working
<1>4. CASE (\E d \in Events : ClaimRead(k, d)) \/ LoseClaim(k) \/ Complete(k) \/ Skip(k) \/ Fail(k)
           \/ Crash(k)
  <2>1. CASE \E d \in Events : ClaimRead(k, d)
    BY <1>0, <1>2, <2>1 DEF ClaimRead
  <2>2. CASE LoseClaim(k) \/ Complete(k) \/ Skip(k) \/ Fail(k) \/ Crash(k)
    <3>1. Release(k)
      BY <2>2, Settles DEF LoseClaim, Crash, Settle
    <3> QED  BY <1>0, <1>2, <3>1 DEF Release, Idle
  <2> QED  BY <1>4, <2>1, <2>2
<1>5. ASSUME NEW j \in Workers \ {k}, WorkerStep(j) \/ Crash(j)
      PROVE  worker'[k] = worker[k]
  BY <1>0, <1>5 DEF WorkerStep, ClaimRead, Claim, LoseClaim, DeliverInApp, SendMail, Complete, Skip,
                    Fail, Crash, Settle, Release
<1>6. CASE UNCHANGED vars \/ \E d \in Events : Enqueue(d) \/ Elapse(d)
  BY <1>2, <1>6 DEF vars, Enqueue, Elapse
<1> QED  BY <1>1, <1>2, <1>3, <1>4, <1>5, <1>6 DEF Next, WorkerStep
-----------------------------------------------------------------------------
\* Whichever worker settled it, an event that is SENT was delivered or had nothing to
\* deliver.
THEOREM SentIsDelivered == Spec => []SentMeansDelivered
<1> QED  BY OutboxInvariance, PTL DEF IInv

\* No worker, with or without its lease, changes what is settled.
THEOREM SettledStaysFinal == Spec => SettledIsFinal
<1>1. IInv /\ [Next]_vars => [\A e \in Events :
        Settled(e) => row'[e].status = row[e].status /\ row'[e].attempts = row[e].attempts]_vars
  BY SettledStays
<1> QED  BY <1>1, OutboxInvariance, PTL DEF Spec, SettledIsFinal

\* A claim, however old its candidate, is of a row that nobody holds or whose lease is over.
THEOREM LeasesAreRespected == Spec => LeaseIsRespected
<1>1. IInv /\ [Next]_vars => [\A k \in Workers, e \in Events :
        ~Handling(k, e) /\ Handling(k, e)'
          => row[e].status \in {"PENDING", "FAILED"} \/ row[e].elapsed]_vars
  BY HandledWhenDue
<1> QED  BY <1>1, OutboxInvariance, PTL DEF Spec, LeaseIsRespected
=============================================================================

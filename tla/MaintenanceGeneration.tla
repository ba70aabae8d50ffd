----------------------- MODULE MaintenanceGeneration -----------------------
(***************************************************************************)
(* generate() of apps/api/src/modules/maintenance: the orders of a         *)
(* preventive plan, one per occurrence up to a horizon.  Each occurrence   *)
(* is first reserved by a MaintenancePlanGeneration row, unique per plan   *)
(* and date; then the order is created, in a transaction of its own; then  *)
(* a third transaction links the order, completes the reservation and      *)
(* advances the plan.  Generations are requests, and may run at the same   *)
(* time.  The plans of one generation share no row: here is one of them.   *)
(*                                                                         *)
(* Occurrences are numbered: nextOccurrence is k + 1, and the dates that   *)
(* this stands for are the subject of MaintenanceRecurrence.               *)
(***************************************************************************)
EXTENDS Naturals, FiniteSets, FiniteSetsExt

CONSTANTS Runs,             \* generations in progress at the same time
          MaxOccurrence,    \* bound: the last occurrence within any horizon
          MaxPerRun,        \* occurrences one generation handles (24)
          MaxEdits,         \* bound: edits of the plan
          MaxFailures,      \* bound: failed steps
          MaxCrashes        \* bound: crashes of the process of a generation

Occurrence == 1..MaxOccurrence

ASSUME BoundsAreNatural ==
  {MaxOccurrence, MaxPerRun, MaxEdits, MaxFailures, MaxCrashes} \subseteq Nat

VARIABLES
  plan,      \* nextDueAt of the plan, and whether it is active
  gen,       \* gen[k]: the status of the reservation of occurrence k
  orders,    \* orders[k]: orders created for occurrence k
  linked,    \* linked[k]: those that carry the plan and its date
  run,       \* run[r]: where generation r is
  edits, failures, crashes   \* how many of each there were

generationVars == <<plan, gen, orders, linked, run, edits, failures, crashes>>
counts == <<edits, failures, crashes>>

NotRunning == [at |-> "idle"]

GenerationInit ==
  /\ plan = [nextDueAt |-> 1, active |-> TRUE]
  /\ gen = [k \in Occurrence |-> "ABSENT"]
  /\ orders = [k \in Occurrence |-> 0]
  /\ linked = [k \in Occurrence |-> 0]
  /\ run = [r \in Runs |-> NotRunning]
  /\ edits = 0 /\ failures = 0 /\ crashes = 0

-----------------------------------------------------------------------------
At(r, where) == run[r].at = where
GoTo(r, where) == run' = [run EXCEPT ![r].at = where]

\* scheduledFor = nextDue, and the condition of the loop.
NextOccurrence(r) ==
  run' = [run EXCEPT ![r] =
            IF run[r].k < run[r].horizon /\ run[r].left > 1
            THEN [at |-> "reserve", k |-> run[r].k + 1, horizon |-> run[r].horizon,
                  left |-> run[r].left - 1]
            ELSE NotRunning]

\* The plan is read once, when the generation starts.
Start(r) ==
  /\ run[r] = NotRunning
  /\ plan.active
  /\ MaxPerRun > 0
  /\ \E horizon \in Occurrence :
       /\ plan.nextDueAt <= horizon
       /\ run' = [run EXCEPT ![r] = [at |-> "reserve", k |-> plan.nextDueAt,
                                     horizon |-> horizon, left |-> MaxPerRun]]
  /\ UNCHANGED <<plan, gen, orders, linked, counts>>

\* The INSERT of the reservation; the unique index refuses a second one.
Reserve(r) ==
  /\ At(r, "reserve")
  /\ gen[run[r].k] = "ABSENT"
  /\ gen' = [gen EXCEPT ![run[r].k] = "PENDING"]
  /\ GoTo(r, "create")
  /\ UNCHANGED <<plan, orders, linked, counts>>

\* Mutant: whatever reservation exists is taken as one to retry.
RetryWhateverExists(r) ==
  /\ At(r, "reserve")
  /\ gen[run[r].k] # "ABSENT"
  /\ GoTo(r, "retry")
  /\ UNCHANGED <<plan, gen, orders, linked, counts>>

\* The INSERT fails, and the existing reservation is read.
FindReservation(r) ==
  LET k == run[r].k IN
  /\ At(r, "reserve")
  /\ gen[k] # "ABSENT"
  /\ \/ gen[k] = "FAILED" /\ GoTo(r, "retry")
     \/ gen[k] = "GENERATED" /\ GoTo(r, "advance")
     \/ gen[k] = "PENDING" /\ NextOccurrence(r)
  /\ UNCHANGED <<plan, gen, orders, linked, counts>>

\* The reservation that was read as FAILED is taken again, with no check.
Retry(r) ==
  /\ At(r, "retry")
  /\ gen' = [gen EXCEPT ![run[r].k] = "PENDING"]
  /\ GoTo(r, "create")
  /\ UNCHANGED <<plan, orders, linked, counts>>

Advance(r) ==
  /\ At(r, "advance")
  /\ plan' = [plan EXCEPT !.nextDueAt = IF @ <= run[r].k THEN run[r].k + 1 ELSE @]
  /\ NextOccurrence(r)
  /\ UNCHANGED <<gen, orders, linked, counts>>

CreateOrder(r) ==
  /\ At(r, "create")
  /\ orders' = [orders EXCEPT ![run[r].k] = @ + 1]
  /\ GoTo(r, "link")
  /\ UNCHANGED <<plan, gen, linked, counts>>

\* Mutant: the plan is advanced from the next date instead of this one.
LinkTwoAhead(r) ==
  LET k == run[r].k IN
  /\ At(r, "link")
  /\ linked' = [linked EXCEPT ![k] = @ + 1]
  /\ gen' = [gen EXCEPT ![k] = "GENERATED"]
  /\ plan' = [plan EXCEPT !.nextDueAt = k + 2]
  /\ NextOccurrence(r)
  /\ UNCHANGED <<orders, counts>>

Link(r) ==
  LET k == run[r].k IN
  /\ At(r, "link")
  /\ linked' = [linked EXCEPT ![k] = @ + 1]
  /\ gen' = [gen EXCEPT ![k] = "GENERATED"]
  /\ plan' = [plan EXCEPT !.nextDueAt = k + 1]
  /\ NextOccurrence(r)
  /\ UNCHANGED <<orders, counts>>

\* The creation of the order, or the transaction that links it, throws.
Throw(r) ==
  /\ run[r].at \in {"create", "link"}
  /\ failures < MaxFailures
  /\ failures' = failures + 1
  /\ GoTo(r, "fail")
  /\ UNCHANGED <<plan, gen, orders, linked, edits, crashes>>

\* Mutant: the error is counted but not written.
FailUnrecorded(r) ==
  /\ At(r, "fail")
  /\ NextOccurrence(r)
  /\ UNCHANGED <<plan, gen, orders, linked, counts>>

Fail(r) ==
  /\ At(r, "fail")
  /\ gen' = [gen EXCEPT ![run[r].k] = "FAILED"]
  /\ NextOccurrence(r)
  /\ UNCHANGED <<plan, orders, linked, counts>>

\* The process dies, or a statement outside the loop's try ends the request.
Crash(r) ==
  /\ run[r] # NotRunning
  /\ crashes < MaxCrashes
  /\ crashes' = crashes + 1
  /\ run' = [run EXCEPT ![r] = NotRunning]
  /\ UNCHANGED <<plan, gen, orders, linked, edits, failures>>

\* updatePlan may move the next date (here to another date of the same plan)
\* and suspend or resume the plan; archivePlan, and archiveAsset, suspend it.
UpdatePlan ==
  /\ edits < MaxEdits
  /\ edits' = edits + 1
  /\ \E due \in Occurrence \cup {plan.nextDueAt}, active \in BOOLEAN :
       plan' = [nextDueAt |-> due, active |-> active]
  /\ UNCHANGED <<gen, orders, linked, run, failures, crashes>>

-----------------------------------------------------------------------------
RunStep(r) ==
  \/ Reserve(r) \/ FindReservation(r) \/ Retry(r) \/ Advance(r)
  \/ CreateOrder(r) \/ Link(r) \/ Throw(r) \/ Fail(r)

GenerationNext ==
  \/ \E r \in Runs : Start(r) \/ RunStep(r) \/ Crash(r)
  \/ UpdatePlan

GenerationSpec == GenerationInit /\ [][GenerationNext]_generationVars

-----------------------------------------------------------------------------
(* Properties                                                              *)

\* However many generations race for an occurrence, are repeated, or die on the
\* way, and however the plan is edited, it has one order at most as long as no
\* step failed.
OneOrderUnlessAStepFailed == failures = 0 => \A k \in Occurrence : orders[k] <= 1

\* While nobody edits it, a generation moves the plan only past occurrences
\* that have been reserved: none is left with no trace of its failure.
NothingIsPassedOver == [][edits' = 0 =>
  \A k \in plan.nextDueAt..plan.nextDueAt' - 1 : gen'[k] # "ABSENT"]_generationVars

\* Generation r has the reservation of occurrence k, and will complete it or write FAILED.
Holds(r, k) == run[r].at \in {"create", "link", "fail"} /\ run[r].k = k

\* The PENDING reservations that no generation has: every later one finds them and goes on
\* to the next occurrence, so that they never get an order.
Stranded == {k \in Occurrence : gen[k] = "PENDING" /\ \A r \in Runs : ~Holds(r, k)}

\* Each generation that dies strands one occurrence at most, and nothing else strands any:
\* no failed step, no reservation that two generations retry at once, no edit of the plan.
OnlyCrashesStrand == Cardinality(Stranded) <= crashes
=============================================================================

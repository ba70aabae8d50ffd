--------------------------- MODULE MCMaintenance ---------------------------
(***************************************************************************)
(* The generations and the chain of due dates of a plan on small           *)
(* instances: "part" says which of the two runs, while the other stays in  *)
(* an initial state.                                                       *)
(***************************************************************************)
EXTENDS MaintenanceGeneration, MaintenanceRecurrence, TLC

VARIABLE part

mcVars == <<generationVars, recurrenceVars, part>>

RecurrenceRests ==
  /\ start = [month |-> Max(MonthIndex), day |-> DaysIn(Max(MonthIndex))]
  /\ unit = "DAY" /\ value = Min(Values) /\ current = start /\ n = 0

MCInit ==
  /\ GenerationInit
  /\ \/ part = "generation" /\ RecurrenceRests
     \/ part = "recurrence" /\ RecurrenceInit

MCNext ==
  /\ \/ part = "generation" /\ GenerationNext /\ UNCHANGED recurrenceVars
     \/ part = "recurrence" /\ RecurrenceNext /\ UNCHANGED generationVars
  /\ UNCHANGED part

MCSpec == MCInit /\ [][MCNext]_mcVars

Symmetric == Permutations(Runs)
=============================================================================

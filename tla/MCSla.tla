------------------------------- MODULE MCSla -------------------------------
(***************************************************************************)
(* The policies and the deadlines on small instances: "part" says which of *)
(* the two runs, while the other stays in an initial state.  The zones     *)
(* have no change of offset or one either way, inside and outside working  *)
(* hours.  Priorities are named in no definition, so every identifier of   *)
(* the policies is interchangeable.                                        *)
(***************************************************************************)
EXTENDS SlaPolicies, SlaCalculator, TLC

VARIABLE part

mcVars == <<vars, slaVars, part>>

Week == 1..5

MCZones == {[at |-> a, before |-> -1, after |-> o] : a \in {26, 28, 30, 36}, o \in {-2, -1, 0}}

MCCalendars ==
  {[shifts |-> s, holidays |-> h] :
     s \in {{[days |-> Week, start |-> 1, end |-> 4]},
            {[days |-> Week, start |-> 0, end |-> 1], [days |-> Week, start |-> 3, end |-> 4]},
            {[days |-> {3, 6}, start |-> 1, end |-> 3], [days |-> {3}, start |-> 3, end |-> 4]}},
     h \in {{}, {4, 5}}}

MCPolicies ==
  {[response |-> 1, resolution |-> 1, warning |-> 1], [response |-> 1, resolution |-> 3, warning |-> 0],
   [response |-> 2, resolution |-> 4, warning |-> 3], [response |-> 3, resolution |-> 5, warning |-> 5]}

DeadlinesRest ==
  /\ zone = CHOOSE z \in MCZones : TRUE
  /\ slaCalendar = CHOOSE c \in MCCalendars : TRUE
  /\ slaPolicy = CHOOSE p \in MCPolicies : TRUE
  /\ timeMode = "CALENDAR" /\ startAt = 0 /\ walk = NotWalking
  /\ result = [response |-> slaPolicy.response, resolution |-> slaPolicy.resolution,
               warning |-> slaPolicy.resolution - slaPolicy.warning]

MCInit ==
  /\ Init
  /\ \/ part = "policies" /\ DeadlinesRest
     \/ part = "deadlines" /\ SlaInit

MCNext ==
  /\ \/ part = "policies" /\ Next /\ UNCHANGED slaVars
     \/ part = "deadlines" /\ SlaNext /\ UNCHANGED vars
  /\ UNCHANGED part

MCSpec == MCInit /\ [][MCNext]_mcVars

Symmetric == Permutations(Priorities) \cup Permutations(Calendars) \cup Permutations(Requests)
=============================================================================

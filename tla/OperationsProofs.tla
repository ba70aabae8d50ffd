-------------------------- MODULE OperationsProofs --------------------------
(***************************************************************************)
(* The policies that give an order its deadlines, and the preventive       *)
(* plans that open orders.                                                 *)
(*                                                                         *)
(* Policies, for any number of priorities, policies, calendars, contracts, *)
(* categories and requests: the policy of an order is never ambiguous, a   *)
(* policy for the whole tenant is always left, and only stale validations  *)
(* leave active policies that refer to what is inactive.                   *)
(*                                                                         *)
(* Generation: any number of generations, repeated and interrupted, on one *)
(* plan.                                                                   *)
(*                                                                         *)
(* Recurrence: the dates of any plan, over any years.                      *)
(*                                                                         *)
(* Deadlines: days of any length, any zones, calendars and policies.       *)
(***************************************************************************)
EXTENDS SlaPolicies, MaintenanceGeneration, MaintenanceRecurrence, SlaCalculator,
        SumLemmas, FiniteSetTheorems, TLAPS

-----------------------------------------------------------------------------
(* The policies.                                                           *)

\* No two active policies have the same priority and scope.
ScopesDiffer ==
  \A p, o \in PolicyIds :
    Active(p) /\ Active(o) /\ policy[p].priority = policy[o].priority
      /\ policy[p].scope = policy[o].scope => p = o

PoliciesInv == TypeOK /\ ScopesDiffer /\ FallbackKept

-----------------------------------------------------------------------------

\* The writes of the other requests' versions keep requests well formed.
LEMMA OutdateTyped ==
  ASSUME TypeOK, NEW ps \in SUBSET PolicyIds, NEW cs \in SUBSET Calendars
  PROVE  Outdate(ps, cs) \in [Requests ->
           {Idle}
             \cup [op : {"create"}, p : PolicyIds, fields : Fields]
             \cup [op : {"update"}, p : PolicyIds, fields : Fields, outdated : BOOLEAN]
             \cup [op : {"calendar"}, c : Calendars, active : BOOLEAN, outdated : BOOLEAN]]
<1> SUFFICES ASSUME NEW r \in Requests
             PROVE  Outdate(ps, cs)[r] \in {Idle}
             \cup [op : {"create"}, p : PolicyIds, fields : Fields]
             \cup [op : {"update"}, p : PolicyIds, fields : Fields, outdated : BOOLEAN]
             \cup [op : {"calendar"}, c : Calendars, active : BOOLEAN, outdated : BOOLEAN]
  BY DEF Outdate
<1>1. CASE request[r].op = "update"
  <2>1. request[r] \in [op : {"update"}, p : PolicyIds, fields : Fields, outdated : BOOLEAN]
    BY <1>1 DEF TypeOK, Idle
  <2> QED BY <2>1 DEF Outdate
<1>2. CASE request[r].op = "calendar"
  <2>1. request[r] \in [op : {"calendar"}, c : Calendars, active : BOOLEAN, outdated : BOOLEAN]
    BY <1>2 DEF TypeOK, Idle
  <2> QED BY <2>1 DEF Outdate
<1>3. CASE request[r].op \notin {"update", "calendar"}
  BY <1>3 DEF Outdate, TypeOK
<1> QED BY <1>1, <1>2, <1>3

\* Policies begin as they must be.
LEMMA PoliciesBegin == Init => PoliciesInv
<1> SUFFICES ASSUME Init PROVE PoliciesInv
  OBVIOUS
<1>1. PICK c \in Calendars :
        policy = [p \in PolicyIds |->
                    IF p \in Priorities
                    THEN [priority |-> p, scope |-> <<NoId, NoId>>, calendar |-> c, active |-> TRUE]
                    ELSE Absent]
  BY DEF Init
<1>2. TypeOK
  BY <1>1 DEF Init, TypeOK, Fields, Scopes, PolicyIds
<1>3. ScopesDiffer
  BY <1>1 DEF ScopesDiffer, Active, Absent, PolicyIds
<1>4. FallbackKept
  <2> SUFFICES ASSUME NEW priority \in Priorities
               PROVE  priority \in Answering(priority, <<NoId, NoId>>)
    BY DEF FallbackKept
  <2> QED BY <1>1 DEF Answering, Active, PolicyIds
<1> QED BY <1>2, <1>3, <1>4 DEF PoliciesInv

\* Writing to a policy fields that passed both checks keeps the invariant's two
\* conjuncts about the table of policies.
LEMMA WriteKeeps ==
  ASSUME TypeOK, ScopesDiffer, FallbackKept,
         NEW p \in PolicyIds, NEW f \in Fields,
         ScopeIsFree(p, f),
         removesGlobalFallback(p, f) =>
           Answering(policy[p].priority, <<NoId, NoId>>) \ {p} # {},
         policy' = [policy EXCEPT ![p] = f]
  PROVE  ScopesDiffer' /\ FallbackKept'
<1>1. \A o \in PolicyIds : policy'[o] = IF o = p THEN f ELSE policy[o]
  BY DEF TypeOK
<1>2. ScopesDiffer'
  <2> SUFFICES ASSUME NEW a \in PolicyIds, NEW b \in PolicyIds,
                      Active(a)', Active(b)', policy'[a].priority = policy'[b].priority,
                      policy'[a].scope = policy'[b].scope
               PROVE  a = b
    BY DEF ScopesDiffer
  <2>1. CASE a = p
    BY <1>1, <2>1 DEF ScopeIsFree, Answering, Active
  <2>2. CASE b = p
    BY <1>1, <2>2 DEF ScopeIsFree, Answering, Active
  <2>3. CASE a # p /\ b # p
    BY <1>1, <2>3 DEF ScopesDiffer, Active
  <2> QED BY <2>1, <2>2, <2>3
<1>3. FallbackKept'
  <2> SUFFICES ASSUME NEW priority \in Priorities
               PROVE  \E o \in PolicyIds : /\ Active(o)' /\ policy'[o].priority = priority
                                           /\ policy'[o].scope = <<NoId, NoId>>
    BY DEF FallbackKept, Answering
  <2>1. PICK o \in PolicyIds : /\ Active(o) /\ policy[o].priority = priority
                               /\ policy[o].scope = <<NoId, NoId>>
    BY DEF FallbackKept, Answering
  <2>2. CASE o # p
    BY <1>1, <2>1, <2>2 DEF Active
  <2>3. CASE o = p /\ removesGlobalFallback(p, f)
    <3>1. PICK e \in PolicyIds \ {p} : /\ Active(e) /\ policy[e].priority = priority
                                       /\ policy[e].scope = <<NoId, NoId>>
      BY <2>1, <2>3 DEF Answering
    <3> QED BY <1>1, <3>1 DEF Active
  <2>4. CASE o = p /\ ~removesGlobalFallback(p, f)
    BY <1>1, <2>1, <2>4 DEF removesGlobalFallback, Active
  <2> QED BY <2>2, <2>3, <2>4
<1> QED BY <1>2, <1>3

\* Deactivating the policies of an archived contract or category does too: none of
\* them is for the whole tenant.
LEMMA ArchiveKeeps ==
  ASSUME TypeOK, ScopesDiffer, FallbackKept, NEW x \in live, Archive(x)
  PROVE  policy' \in [PolicyIds -> Fields \cup {Absent}] /\ ScopesDiffer' /\ FallbackKept'
<1> x # NoId
  BY IdentifiersAreDistinct DEF TypeOK
<1>1. \A p \in PolicyIds :
        /\ p \in PoliciesOf(x) => policy[p] \in Fields /\ policy'[p] = [policy[p] EXCEPT !.active = FALSE]
        /\ p \notin PoliciesOf(x) => policy'[p] = policy[p]
  BY DEF Archive, TypeOK, PoliciesOf, Active, Absent
<1>2. policy' \in [PolicyIds -> Fields \cup {Absent}]
  BY <1>1 DEF Archive, TypeOK, Fields
<1>3. \A p \in PolicyIds : Active(p)' => p \notin PoliciesOf(x) /\ Active(p) /\ policy'[p] = policy[p]
  BY <1>1 DEF Active, Fields
<1>4. ScopesDiffer'
  BY <1>3 DEF ScopesDiffer
<1>5. FallbackKept'
  <2> SUFFICES ASSUME NEW priority \in Priorities
               PROVE  \E o \in PolicyIds : /\ Active(o)' /\ policy'[o].priority = priority
                                           /\ policy'[o].scope = <<NoId, NoId>>
    BY DEF FallbackKept, Answering
  <2>1. PICK o \in PolicyIds : /\ Active(o) /\ policy[o].priority = priority
                               /\ policy[o].scope = <<NoId, NoId>>
    BY DEF FallbackKept, Answering
  <2>2. o \notin PoliciesOf(x)
    BY <2>1 DEF PoliciesOf
  <2> QED BY <1>1, <2>1, <2>2 DEF Active
<1> QED BY <1>2, <1>4, <1>5

\* Every step of a request keeps them so.
LEMMA NextIInv == PoliciesInv /\ [Next]_vars => PoliciesInv'
<1> SUFFICES ASSUME PoliciesInv, [Next]_vars PROVE PoliciesInv'
  OBVIOUS
<1> USE DEF PoliciesInv
<1>1. ASSUME NEW r \in Requests, NEW p \in OtherPolicies, NEW f \in Fields, CreatePolicyRead(r, p, f)
      PROVE  PoliciesInv'
  <2>1. TypeOK'
    BY <1>1 DEF CreatePolicyRead, TypeOK, PolicyIds
  <2> QED BY <1>1, <2>1 DEF CreatePolicyRead, ScopesDiffer, FallbackKept, Answering, Active
<1>2. ASSUME NEW r \in Requests, CreatePolicyCommit(r)
      PROVE  PoliciesInv'
  <2>1. request[r] \in [op : {"create"}, p : PolicyIds, fields : Fields]
    BY <1>2 DEF CreatePolicyCommit, TypeOK, Idle
  <2>2. TypeOK'
    BY <1>2, <2>1 DEF CreatePolicyCommit, TypeOK
  <2>3. ~Active(request[r].p)
    BY <1>2 DEF CreatePolicyCommit, Active, Absent
  <2>4. ScopesDiffer' /\ FallbackKept'
    BY <1>2, <2>1, <2>3, WriteKeeps DEF CreatePolicyCommit, removesGlobalFallback
  <2> QED BY <2>2, <2>4
<1>3. ASSUME NEW r \in Requests, NEW p \in PolicyIds, NEW f \in Fields, UpdatePolicyRead(r, p, f)
      PROVE  PoliciesInv'
  <2>1. TypeOK'
    BY <1>3 DEF UpdatePolicyRead, TypeOK
  <2> QED BY <1>3, <2>1 DEF UpdatePolicyRead, ScopesDiffer, FallbackKept, Answering, Active
<1>4. ASSUME NEW r \in Requests, UpdatePolicyCommit(r)
      PROVE  PoliciesInv'
  <2>1. request[r] \in [op : {"update"}, p : PolicyIds, fields : Fields, outdated : BOOLEAN]
    BY <1>4 DEF UpdatePolicyCommit, TypeOK, Idle
  <2>2. TypeOK'
    BY <1>4, <2>1, OutdateTyped DEF UpdatePolicyCommit, TypeOK
  <2>3. ScopesDiffer' /\ FallbackKept'
    BY <1>4, <2>1, WriteKeeps DEF UpdatePolicyCommit
  <2> QED BY <2>2, <2>3
<1>5. ASSUME NEW r \in Requests, NEW c \in Calendars, NEW active \in BOOLEAN,
             UpdateCalendarRead(r, c, active)
      PROVE  PoliciesInv'
  <2>1. TypeOK'
    BY <1>5 DEF UpdateCalendarRead, TypeOK
  <2> QED BY <1>5, <2>1 DEF UpdateCalendarRead, ScopesDiffer, FallbackKept, Answering, Active
<1>6. ASSUME NEW r \in Requests, UpdateCalendarCommit(r)
      PROVE  PoliciesInv'
  <2>1. request[r] \in [op : {"calendar"}, c : Calendars, active : BOOLEAN, outdated : BOOLEAN]
    BY <1>6 DEF UpdateCalendarCommit, TypeOK, Idle
  <2>2. TypeOK'
    BY <1>6, <2>1, OutdateTyped DEF UpdateCalendarCommit, TypeOK
  <2> QED BY <1>6, <2>2 DEF UpdateCalendarCommit, ScopesDiffer, FallbackKept, Answering, Active
<1>7. ASSUME NEW r \in Requests, Abandon(r)
      PROVE  PoliciesInv'
  <2>1. TypeOK'
    BY <1>7 DEF Abandon, TypeOK
  <2> QED BY <1>7, <2>1 DEF Abandon, ScopesDiffer, FallbackKept, Answering, Active
<1>8. ASSUME NEW x \in live, Archive(x)
      PROVE  PoliciesInv'
  <2>1. policy' \in [PolicyIds -> Fields \cup {Absent}] /\ ScopesDiffer' /\ FallbackKept'
    BY <1>8, ArchiveKeeps
  <2>2. PoliciesOf(x) \in SUBSET PolicyIds
    BY DEF PoliciesOf
  <2>3. TypeOK'
    BY <1>8, <2>1, <2>2, OutdateTyped DEF Archive, TypeOK
  <2> QED BY <2>1, <2>3
<1>9. CASE UNCHANGED vars
  BY <1>9 DEF vars, TypeOK, ScopesDiffer, FallbackKept, Answering, Active
<1> QED
  BY <1>1, <1>2, <1>3, <1>4, <1>5, <1>6, <1>7, <1>8, <1>9 DEF Next

\* The inductive invariant of the policies.
THEOREM PoliciesInvariance == Spec => []PoliciesInv
<1> QED BY PoliciesBegin, NextIInv, PTL DEF Spec

\* Every reachable state is well typed.
THEOREM PoliciesTypeCorrect == Spec => []TypeOK
<1>1. PoliciesInv => TypeOK
  BY DEF PoliciesInv
<1> QED BY PoliciesInvariance, <1>1, PTL

\* Every priority keeps an active policy for the whole tenant.
THEOREM FallbackAlwaysKept == Spec => []FallbackKept
<1>1. PoliciesInv => FallbackKept
  BY DEF PoliciesInv
<1> QED BY PoliciesInvariance, <1>1, PTL

-----------------------------------------------------------------------------

\* The specificity of a policy is a number.
LEMMA RankIsNumber ==
  ASSUME NEW p, NEW scope
  PROVE  policyRank(p, scope) \in -1..3
BY DEF policyRank

\* The rank of a candidate for a scope determines the candidate's own scope: both
\* parts of the order's, one of them, or none.
LEMMA RankDeterminesScope ==
  ASSUME NEW p, NEW o, NEW scope \in Scopes,
         policy[p].scope \in Scopes, policy[o].scope \in Scopes,
         policyRank(p, scope) >= 0, policyRank(p, scope) = policyRank(o, scope)
  PROVE  policy[p].scope = policy[o].scope
<1> DEFINE of(x) == policy[x].scope
<1>1. of(p) = <<of(p)[1], of(p)[2]>> /\ of(o) = <<of(o)[1], of(o)[2]>>
  BY DEF Scopes
<1>2. of(p)[1] = of(o)[1] /\ of(p)[2] = of(o)[2]
  BY DEF policyRank
<1> QED BY <1>1, <1>2

\* Policies of the same specificity have different scopes, so that one is the best.
LEMMA BestIsUnique == PoliciesInv => ResolutionIsUnambiguous
<1> SUFFICES ASSUME PoliciesInv, NEW priority \in Priorities, NEW scope \in Scopes
             PROVE  Cardinality(Best(priority, scope)) <= 1
  BY DEF ResolutionIsUnambiguous
<1>1. ASSUME NEW p \in Best(priority, scope), NEW o \in Best(priority, scope)
      PROVE  p = o
  <2>1. /\ p \in PolicyIds /\ Active(p) /\ policy[p].priority = priority /\ policyRank(p, scope) >= 0
        /\ o \in PolicyIds /\ Active(o) /\ policy[o].priority = priority /\ policyRank(o, scope) >= 0
        /\ policyRank(o, scope) <= policyRank(p, scope)
        /\ policyRank(p, scope) <= policyRank(o, scope)
    BY <1>1 DEF Best, Candidates, Resolvable
  <2>2. policyRank(p, scope) = policyRank(o, scope)
    BY <2>1, RankIsNumber
  <2>3. policy[p].scope \in Scopes /\ policy[o].scope \in Scopes
    BY <2>1 DEF PoliciesInv, TypeOK, Fields, Active, Absent
  <2>4. policy[p].scope = policy[o].scope
    BY <2>1, <2>2, <2>3, RankDeterminesScope
  <2> QED BY <2>1, <2>4 DEF PoliciesInv, ScopesDiffer
<1>2. CASE Best(priority, scope) = {}
  BY <1>2, FS_EmptySet
<1>3. CASE Best(priority, scope) # {}
  <2>1. PICK p \in Best(priority, scope) : TRUE
    BY <1>3
  <2>2. Best(priority, scope) = {p}
    BY <1>1, <2>1
  <2>3. Cardinality({p}) = 1
    BY FS_Singleton
  <2> QED BY <2>2, <2>3
<1> QED BY <1>2, <1>3

\* No order is refused because two policies answer it equally well.
THEOREM ResolutionNeverAmbiguous == Spec => []ResolutionIsUnambiguous
<1> QED BY PoliciesInvariance, BestIsUnique, PTL

\* As long as the active policies refer to what is live, every order gets a policy.
THEOREM OrdersResolve == Spec => [](ReferencesHold => EveryOrderResolves)
<1>1. PoliciesInv => (ReferencesHold => EveryOrderResolves)
  <2> SUFFICES ASSUME PoliciesInv, ReferencesHold, NEW priority \in Priorities, NEW scope \in Scopes
               PROVE  Candidates(priority, scope) # {}
    BY DEF EveryOrderResolves
  <2>1. PICK p \in PolicyIds : /\ Active(p) /\ policy[p].priority = priority
                               /\ policy[p].scope = <<NoId, NoId>>
    BY DEF PoliciesInv, FallbackKept, Answering
  <2>2. calendar[policy[p].calendar]
    BY <2>1 DEF ReferencesHold, ReferencesAreValid, Active
  <2>3. policyRank(p, scope) >= 0
    BY <2>1 DEF policyRank
  <2> QED BY <2>1, <2>2, <2>3 DEF Candidates, Resolvable
<1> QED BY PoliciesInvariance, <1>1, PTL

-----------------------------------------------------------------------------

\* Only a request that validated outside of its transaction what no longer holds
\* leaves an active policy that refers to an inactive calendar or an archived scope.
THEOREM FreshReferencesAreKept == Spec => ReferencesKeptWhenFresh
<1>1. PoliciesInv /\ [Next]_vars => [ReferencesHold => ReferencesHold' \/ CommitsStaleReferences]_vars
  <2> SUFFICES ASSUME PoliciesInv, Next, ReferencesHold, ~CommitsStaleReferences
               PROVE  ReferencesHold'
    OBVIOUS
  <2> SUFFICES ASSUME NEW p \in PolicyIds, Active(p)'
               PROVE  ReferencesAreValid(policy[p])'
    BY DEF ReferencesHold
  <2>1. ASSUME policy' = policy, calendar' = calendar, live' = live
        PROVE  ReferencesAreValid(policy[p])'
    BY <2>1 DEF ReferencesHold, ReferencesAreValid, LiveScope, Active
  <2>2. ASSUME NEW r \in Requests, request[r].op \in {"create", "update"}, request'[r] = Idle,
               request[r].p \in PolicyIds,
               policy' = [policy EXCEPT ![request[r].p] = request[r].fields],
               calendar' = calendar, live' = live
        PROVE  ReferencesAreValid(policy[p])'
    <3>1. CASE policy' = policy
      BY <2>1, <2>2, <3>1
    <3>2. CASE policy' # policy
      <4>1. ReferencesAreValid(request[r].fields)
        BY <2>2, <3>2 DEF CommitsStaleReferences
      <4>2. CASE p = request[r].p
        <5>1. policy'[p] = request[r].fields
          BY <2>2, <4>2 DEF PoliciesInv, TypeOK
        <5> QED BY <2>2, <4>1, <5>1 DEF ReferencesAreValid, LiveScope
      <4>3. CASE p # request[r].p
        <5>1. policy'[p] = policy[p]
          BY <2>2, <4>3 DEF PoliciesInv, TypeOK
        <5> QED BY <2>2, <5>1 DEF ReferencesHold, ReferencesAreValid, LiveScope, Active
      <4> QED BY <4>2, <4>3
    <3> QED BY <3>1, <3>2
  <2>3. ASSUME NEW r \in Requests, NEW o \in OtherPolicies, NEW f \in Fields, CreatePolicyRead(r, o, f)
        PROVE  ReferencesAreValid(policy[p])'
    BY <2>1, <2>3 DEF CreatePolicyRead
  <2>4. ASSUME NEW r \in Requests, CreatePolicyCommit(r)
        PROVE  ReferencesAreValid(policy[p])'
    <3>1. request'[r] = Idle /\ request[r].p \in PolicyIds
      BY <2>4 DEF CreatePolicyCommit, PoliciesInv, TypeOK, Idle
    <3> QED BY <2>2, <2>4, <3>1 DEF CreatePolicyCommit
  <2>5. ASSUME NEW r \in Requests, NEW o \in PolicyIds, NEW f \in Fields, UpdatePolicyRead(r, o, f)
        PROVE  ReferencesAreValid(policy[p])'
    BY <2>1, <2>5 DEF UpdatePolicyRead
  <2>6. ASSUME NEW r \in Requests, UpdatePolicyCommit(r)
        PROVE  ReferencesAreValid(policy[p])'
    <3>1. request'[r] = Idle
      BY <2>6 DEF UpdatePolicyCommit, Outdate
    <3>2. request[r].p \in PolicyIds
      BY <2>6 DEF UpdatePolicyCommit, PoliciesInv, TypeOK, Idle
    <3> QED BY <2>2, <2>6, <3>1, <3>2 DEF UpdatePolicyCommit
  <2>7. ASSUME NEW r \in Requests, NEW c \in Calendars, NEW active \in BOOLEAN,
               UpdateCalendarRead(r, c, active)
        PROVE  ReferencesAreValid(policy[p])'
    BY <2>1, <2>7 DEF UpdateCalendarRead
  <2>8. ASSUME NEW r \in Requests, UpdateCalendarCommit(r)
        PROVE  ReferencesAreValid(policy[p])'
    <3>1. policy' = policy /\ live' = live
      BY <2>8 DEF UpdateCalendarCommit
    <3>2. LiveScope(policy[p].scope) /\ calendar[policy[p].calendar]
      BY <3>1 DEF ReferencesHold, ReferencesAreValid, Active
    <3>3. policy[p].calendar \in Calendars
      BY <3>1 DEF PoliciesInv, TypeOK, Active, Absent, Fields
    <3>4. calendar'[policy[p].calendar]
      BY <2>8, <3>1, <3>2, <3>3 DEF UpdateCalendarCommit, PoliciesInv, TypeOK, Active
    <3> QED BY <3>1, <3>2, <3>4 DEF ReferencesAreValid, LiveScope
  <2>9. ASSUME NEW r \in Requests, Abandon(r)
        PROVE  ReferencesAreValid(policy[p])'
    BY <2>1, <2>9 DEF Abandon
  <2>10. ASSUME NEW x \in live, Archive(x)
        PROVE  ReferencesAreValid(policy[p])'
    <3>1. p \notin PoliciesOf(x)
      <4> SUFFICES ASSUME p \in PoliciesOf(x) PROVE FALSE
        OBVIOUS
      <4>1. policy[p] \in Fields
        BY DEF PoliciesOf, Active, Absent, PoliciesInv, TypeOK
      <4> QED BY <2>10, <4>1 DEF Archive, Active, Fields
    <3>2. policy'[p] = policy[p] /\ Active(p)
      BY <2>10, <3>1 DEF Archive, Active
    <3>3. \A i \in {1, 2} : policy[p].scope[i] # x
      BY <3>1, <3>2 DEF PoliciesOf
    <3>4. LiveScope(policy[p].scope)'
      BY <2>10, <3>2, <3>3 DEF Archive, ReferencesHold, ReferencesAreValid, LiveScope
    <3> QED BY <2>10, <3>2, <3>4 DEF Archive, ReferencesHold, ReferencesAreValid, LiveScope
  <2> QED BY <2>3, <2>4, <2>5, <2>6, <2>7, <2>8, <2>9, <2>10 DEF Next
<1> QED BY PoliciesInvariance, <1>1, PTL DEF Spec, ReferencesKeptWhenFresh

-----------------------------------------------------------------------------
(* The generation of orders.                                               *)

Busy == {"reserve", "retry", "advance", "create", "link", "fail"}

\* A run at an occurrence.
Doing == [at : Busy, k : Occurrence, horizon : Occurrence, left : Nat]

RunsTypeOK ==
  /\ plan \in [nextDueAt : Nat \ {0}, active : BOOLEAN]
  /\ gen \in [Occurrence -> {"ABSENT", "PENDING", "GENERATED", "FAILED"}]
  /\ orders \in [Occurrence -> Nat]
  /\ run \in [Runs -> [at : {"idle"}] \cup Doing]
  /\ edits \in Nat /\ failures \in Nat

\* The reservation keeps the others away from an occurrence: as long as no step
\* failed, the run that is between the reservation and the link is alone there.
Reserved ==
  /\ \A k \in Occurrence :
       /\ gen[k] # "FAILED"
       /\ gen[k] = "ABSENT" => orders[k] = 0
       /\ orders[k] <= 1
  /\ \A r \in Runs :
       /\ run[r].at \notin {"retry", "fail"}
       /\ run[r].at = "create" => gen[run[r].k] = "PENDING" /\ orders[run[r].k] = 0
       /\ run[r].at = "link" => gen[run[r].k] = "PENDING"
  /\ \A r, s \in Runs :
       run[r].at \in {"create", "link"} /\ run[s].at \in {"create", "link"} /\ run[r].k = run[s].k
         => r = s

\* Everything before the plan's date, and before a run, has been reserved.
NoGaps ==
  /\ \A j \in Occurrence : j < plan.nextDueAt => gen[j] # "ABSENT"
  /\ \A r \in Runs : run[r].at \in Busy =>
       /\ \A j \in Occurrence : j < run[r].k => gen[j] # "ABSENT"
       /\ run[r].at # "reserve" => gen[run[r].k] # "ABSENT"

GenerationInv == RunsTypeOK /\ (failures = 0 => Reserved) /\ (edits = 0 => NoGaps)

-----------------------------------------------------------------------------
\* No generation runs at first.
LEMMA Begins == ASSUME GenerationInit PROVE GenerationInv
BY BoundsAreNatural DEF GenerationInit, GenerationInv, RunsTypeOK, Reserved, NoGaps, NotRunning, Busy, Doing, Occurrence

\* Where a run goes after its occurrence.
LEMMA GoesOn ==
  ASSUME GenerationInv, NEW r \in Runs, run[r].at \in Busy, NextOccurrence(r)
  PROVE  /\ run' \in [Runs -> [at : {"idle"}] \cup Doing]
         /\ \A s \in Runs \ {r} : run'[s] = run[s]
         /\ \/ run'[r].at = "idle"
            \/ run'[r].at = "reserve" /\ run'[r].k = run[r].k + 1
<1>1. run[r] \in Doing
  BY DEF GenerationInv, RunsTypeOK, Busy, Doing
<1> DEFINE next == [at |-> "reserve", k |-> run[r].k + 1, horizon |-> run[r].horizon,
                    left |-> run[r].left - 1]
<1>2. CASE run[r].k < run[r].horizon /\ run[r].left > 1
  <2>1. next \in Doing
    BY <1>1, <1>2, BoundsAreNatural DEF Doing, Busy, Occurrence
  <2>2. run' = [run EXCEPT ![r] = next]
    BY <1>2 DEF NextOccurrence
  <2>3. next.at = "reserve" /\ next.k = run[r].k + 1
    OBVIOUS
  <2> HIDE DEF next
  <2> QED  BY <2>1, <2>2, <2>3 DEF GenerationInv, RunsTypeOK
<1>3. CASE ~(run[r].k < run[r].horizon /\ run[r].left > 1)
  <2>1. run' = [run EXCEPT ![r] = NotRunning]
    BY <1>3 DEF NextOccurrence
  <2> QED  BY <2>1 DEF GenerationInv, RunsTypeOK, NotRunning
<1> QED  BY <1>2, <1>3

\* Going to another stage moves one generation only.
LEMMA Moves ==
  ASSUME GenerationInv, NEW r \in Runs, run[r].at \in Busy, NEW where \in Busy, GoTo(r, where)
  PROVE  /\ run' \in [Runs -> [at : {"idle"}] \cup Doing]
         /\ \A s \in Runs \ {r} : run'[s] = run[s]
         /\ run'[r].at = where /\ run'[r].k = run[r].k
<1>1. run[r] \in Doing /\ run \in [Runs -> [at : {"idle"}] \cup Doing]
  BY DEF GenerationInv, RunsTypeOK, Busy, Doing
<1> DEFINE next == [run[r] EXCEPT !.at = where]
<1>2. next \in Doing /\ next.at = where /\ next.k = run[r].k
  BY <1>1 DEF Doing
<1>3. run' = [run EXCEPT ![r] = next]
  BY <1>1 DEF GoTo
<1> HIDE DEF next
<1> QED  BY <1>1, <1>2, <1>3

\* The occurrence of a run that is not at rest.
LEMMA OccurrenceOf ==
  ASSUME GenerationInv, NEW r \in Runs, run[r].at \in Busy
  PROVE  run[r].k \in Occurrence /\ run[r].k \in Nat \ {0}
BY BoundsAreNatural DEF GenerationInv, RunsTypeOK, Doing, Occurrence, Busy

\* The steps of a generation keep what it relies on.
LEMMA RunsKeep ==
  ASSUME GenerationInv, NEW r \in Runs, RunStep(r)
  PROVE  GenerationInv'
<1> DEFINE k == run[r].k
<1>0. run[r].at \in Busy /\ k \in Occurrence /\ k \in Nat \ {0}
  <2>1. run[r].at \in Busy
    BY DEF RunStep, Reserve, FindReservation, Retry, Advance, CreateOrder, Link, Throw, Fail, At, Busy
  <2> QED  BY <2>1, OccurrenceOf
<1>1. CASE Reserve(r)
  <2>1. /\ run[r].at = "reserve" /\ gen[k] = "ABSENT" /\ GoTo(r, "create")
        /\ gen' = [gen EXCEPT ![k] = "PENDING"]
        /\ UNCHANGED <<plan, orders, edits, failures>>
    BY <1>1 DEF Reserve, At, counts
  <2>2. /\ run' \in [Runs -> [at : {"idle"}] \cup Doing]
        /\ \A s \in Runs \ {r} : run'[s] = run[s]
        /\ run'[r].at = "create" /\ run'[r].k = k
    BY <2>1, <1>0, Moves DEF Busy
  <2> HIDE DEF k
  <2>3. /\ gen' \in [Occurrence -> {"ABSENT", "PENDING", "GENERATED", "FAILED"}]
        /\ gen'[k] = "PENDING" /\ \A j \in Occurrence \ {k} : gen'[j] = gen[j]
    BY <2>1, <1>0 DEF GenerationInv, RunsTypeOK
  <2>4. RunsTypeOK'
    BY <2>1, <2>2, <2>3 DEF GenerationInv, RunsTypeOK
  <2>5. failures' = 0 => Reserved'
    BY <1>0, <2>1, <2>2, <2>3 DEF GenerationInv, RunsTypeOK, Reserved, Doing, Busy, k
  <2>6. edits' = 0 => NoGaps'
    BY <1>0, <2>1, <2>2, <2>3 DEF GenerationInv, RunsTypeOK, NoGaps, Doing, Busy, k
  <2> QED  BY <2>4, <2>5, <2>6 DEF GenerationInv
<1>2. CASE FindReservation(r)
  <2>1. /\ run[r].at = "reserve" /\ gen[k] # "ABSENT"
        /\ \/ gen[k] = "FAILED" /\ GoTo(r, "retry")
           \/ gen[k] = "GENERATED" /\ GoTo(r, "advance")
           \/ gen[k] = "PENDING" /\ NextOccurrence(r)
        /\ UNCHANGED <<plan, gen, orders, edits, failures>>
    BY <1>2 DEF FindReservation, At, counts
  <2>2. /\ run' \in [Runs -> [at : {"idle"}] \cup Doing]
        /\ \A s \in Runs \ {r} : run'[s] = run[s]
        /\ \/ run'[r].at = "retry" /\ gen[k] = "FAILED" /\ run'[r].k = k
           \/ run'[r].at = "advance" /\ run'[r].k = k
           \/ run'[r].at = "idle"
           \/ run'[r].at = "reserve" /\ run'[r].k = k + 1
    BY <2>1, <1>0, Moves, GoesOn DEF Busy
  <2> HIDE DEF k
  <2>3. RunsTypeOK'
    BY <2>1, <2>2 DEF GenerationInv, RunsTypeOK
  <2>4. failures' = 0 => Reserved'
    BY <1>0, <2>1, <2>2 DEF GenerationInv, RunsTypeOK, Reserved
  <2>5. edits' = 0 => NoGaps'
    BY <1>0, <2>1, <2>2, BoundsAreNatural DEF GenerationInv, RunsTypeOK, NoGaps, Busy, Occurrence, k
  <2> QED  BY <2>3, <2>4, <2>5 DEF GenerationInv
<1>3. CASE Retry(r)
  <2>1. /\ run[r].at = "retry" /\ GoTo(r, "create")
        /\ gen' = [gen EXCEPT ![k] = "PENDING"]
        /\ UNCHANGED <<plan, orders, edits, failures>>
    BY <1>3 DEF Retry, At, counts
  <2>2. /\ run' \in [Runs -> [at : {"idle"}] \cup Doing]
        /\ \A s \in Runs \ {r} : run'[s] = run[s]
        /\ run'[r].at = "create" /\ run'[r].k = k
    BY <2>1, <1>0, Moves DEF Busy
  <2> HIDE DEF k
  <2>3. /\ gen' \in [Occurrence -> {"ABSENT", "PENDING", "GENERATED", "FAILED"}]
        /\ gen'[k] = "PENDING" /\ \A j \in Occurrence \ {k} : gen'[j] = gen[j]
    BY <2>1, <1>0 DEF GenerationInv, RunsTypeOK
  <2>4. failures' = 0 => Reserved'
    BY <2>1 DEF GenerationInv, Reserved
  <2>5. edits' = 0 => NoGaps'
    BY <1>0, <2>1, <2>2, <2>3 DEF GenerationInv, RunsTypeOK, NoGaps, Doing, Busy, k
  <2> QED  BY <2>1, <2>2, <2>3, <2>4, <2>5 DEF GenerationInv, RunsTypeOK
<1>4. CASE Advance(r) \/ Link(r) \/ Fail(r)
  <2>1. /\ run[r].at \in {"advance", "link", "fail"} /\ NextOccurrence(r)
        /\ UNCHANGED <<orders, edits, failures>>
        /\ plan' \in [nextDueAt : Nat \ {0}, active : BOOLEAN]
        /\ plan'.nextDueAt \in {plan.nextDueAt, k + 1}
    BY <1>0, <1>4 DEF Advance, Link, Fail, At, counts, GenerationInv, RunsTypeOK
  <2>2. /\ run' \in [Runs -> [at : {"idle"}] \cup Doing]
        /\ \A s \in Runs \ {r} : run'[s] = run[s]
        /\ \/ run'[r].at = "idle"
           \/ run'[r].at = "reserve" /\ run'[r].k = k + 1
    BY <2>1, <1>0, GoesOn
  <2>3. /\ gen' \in [Occurrence -> {"ABSENT", "PENDING", "GENERATED", "FAILED"}]
        /\ \A j \in Occurrence \ {k} : gen'[j] = gen[j]
        /\ \/ gen'[k] = gen[k] /\ run[r].at = "advance"
           \/ gen'[k] = "GENERATED" /\ run[r].at = "link"
           \/ gen'[k] = "FAILED" /\ run[r].at = "fail"
    BY <1>0, <1>4 DEF Advance, Link, Fail, At, GenerationInv, RunsTypeOK
  <2> HIDE DEF k
  <2>4. failures' = 0 => Reserved'
    BY <1>0, <2>1, <2>2, <2>3 DEF GenerationInv, RunsTypeOK, Reserved, Doing, Busy, k
  <2>5. edits' = 0 => NoGaps'
    <3> SUFFICES ASSUME edits = 0
                 PROVE  NoGaps'
      BY <2>1
    <3>1. gen'[k] # "ABSENT" /\ \A j \in Occurrence : j <= k => gen'[j] # "ABSENT"
      <4>1. gen[k] # "ABSENT" /\ \A j \in Occurrence : j < k => gen[j] # "ABSENT"
        BY <1>0, <2>1 DEF GenerationInv, NoGaps, Busy, k
      <4> QED  BY <1>0, <2>3, <4>1, BoundsAreNatural DEF Occurrence
    <3>2. \A j \in Occurrence : gen[j] # "ABSENT" => gen'[j] # "ABSENT"
      BY <2>3, <3>1
    <3>3. \A j \in Occurrence : j < k + 1 => gen'[j] # "ABSENT"
      BY <1>0, <3>1, BoundsAreNatural DEF Occurrence
    <3>4. \A j \in Occurrence : j < plan'.nextDueAt => gen'[j] # "ABSENT"
      BY <2>1, <3>2, <3>3 DEF GenerationInv, NoGaps
    <3>5. \A s \in Runs \ {r} : run'[s].at \in Busy =>
            /\ \A j \in Occurrence : j < run'[s].k => gen'[j] # "ABSENT"
            /\ run'[s].at # "reserve" => gen'[run'[s].k] # "ABSENT"
      BY <2>2, <3>2, OccurrenceOf DEF GenerationInv, NoGaps
    <3> QED  BY <2>2, <3>3, <3>4, <3>5 DEF NoGaps, Busy
  <2> QED  BY <2>1, <2>2, <2>3, <2>4, <2>5 DEF GenerationInv, RunsTypeOK
<1>5. CASE CreateOrder(r)
  <2>1. /\ run[r].at = "create" /\ GoTo(r, "link")
        /\ orders' = [orders EXCEPT ![k] = @ + 1]
        /\ UNCHANGED <<plan, gen, edits, failures>>
    BY <1>5 DEF CreateOrder, At, counts
  <2>2. /\ run' \in [Runs -> [at : {"idle"}] \cup Doing]
        /\ \A s \in Runs \ {r} : run'[s] = run[s]
        /\ run'[r].at = "link" /\ run'[r].k = k
    BY <2>1, <1>0, Moves DEF Busy
  <2> HIDE DEF k
  <2>3. /\ orders' \in [Occurrence -> Nat] /\ orders'[k] = orders[k] + 1
        /\ \A j \in Occurrence \ {k} : orders'[j] = orders[j]
    BY <2>1, <1>0 DEF GenerationInv, RunsTypeOK
  <2>4. failures' = 0 => Reserved'
    BY <1>0, <2>1, <2>2, <2>3 DEF GenerationInv, RunsTypeOK, Reserved, Doing, Busy, k
  <2>5. edits' = 0 => NoGaps'
    BY <1>0, <2>1, <2>2 DEF GenerationInv, RunsTypeOK, NoGaps, Busy, k
  <2> QED  BY <2>1, <2>2, <2>3, <2>4, <2>5 DEF GenerationInv, RunsTypeOK
<1>6. CASE Throw(r)
  <2>1. /\ run[r].at \in {"create", "link"} /\ GoTo(r, "fail") /\ failures' = failures + 1
        /\ UNCHANGED <<plan, gen, orders, edits>>
    BY <1>6 DEF Throw
  <2>2. /\ run' \in [Runs -> [at : {"idle"}] \cup Doing]
        /\ \A s \in Runs \ {r} : run'[s] = run[s]
        /\ run'[r].at = "fail" /\ run'[r].k = k
    BY <2>1, <1>0, Moves DEF Busy
  <2>3. failures' \in Nat /\ failures' # 0
    BY <2>1 DEF GenerationInv, RunsTypeOK
  <2> HIDE DEF k
  <2>4. edits' = 0 => NoGaps'
    BY <1>0, <2>1, <2>2 DEF GenerationInv, RunsTypeOK, NoGaps, Busy, k
  <2> QED  BY <2>1, <2>2, <2>3, <2>4 DEF GenerationInv, RunsTypeOK
<1> QED  BY <1>1, <1>2, <1>3, <1>4, <1>5, <1>6 DEF RunStep

\* So does every step.
LEMMA NextKeeps ==
  ASSUME GenerationInv, [GenerationNext]_generationVars
  PROVE  GenerationInv'
<1>1. ASSUME NEW r \in Runs, Start(r)
      PROVE  GenerationInv'
  <2>1. PICK horizon \in Occurrence :
          /\ plan.nextDueAt <= horizon
          /\ run' = [run EXCEPT ![r] = [at |-> "reserve", k |-> plan.nextDueAt,
                                        horizon |-> horizon, left |-> MaxPerRun]]
    BY <1>1 DEF Start
  <2>2. UNCHANGED <<plan, gen, orders, edits, failures>>
    BY <1>1 DEF Start, counts
  <2>3. /\ \A s \in Runs \ {r} : run'[s] = run[s]
        /\ run'[r] = [at |-> "reserve", k |-> plan.nextDueAt, horizon |-> horizon, left |-> MaxPerRun]
    BY <2>1 DEF GenerationInv, RunsTypeOK
  <2>4. plan.nextDueAt \in Occurrence /\ MaxPerRun \in Nat
    BY <2>1, BoundsAreNatural DEF GenerationInv, RunsTypeOK, Occurrence
  <2>5. run' \in [Runs -> [at : {"idle"}] \cup Doing]
    BY <2>1, <2>4 DEF GenerationInv, RunsTypeOK, Doing, Busy
  <2>6. failures' = 0 => Reserved'
    BY <2>2, <2>3 DEF GenerationInv, Reserved
  <2>7. edits' = 0 => NoGaps'
    BY <2>2, <2>3 DEF GenerationInv, NoGaps, Busy
  <2> QED  BY <2>2, <2>5, <2>6, <2>7 DEF GenerationInv, RunsTypeOK
<1>2. ASSUME NEW r \in Runs, Crash(r)
      PROVE  GenerationInv'
  <2>1. /\ run' = [run EXCEPT ![r] = NotRunning]
        /\ UNCHANGED <<plan, gen, orders, edits, failures>>
    BY <1>2 DEF Crash
  <2>2. /\ run' \in [Runs -> [at : {"idle"}] \cup Doing]
        /\ \A s \in Runs \ {r} : run'[s] = run[s]
        /\ run'[r].at = "idle"
    BY <2>1 DEF GenerationInv, RunsTypeOK, NotRunning
  <2> QED  BY <2>1, <2>2 DEF GenerationInv, RunsTypeOK, Reserved, NoGaps, Busy
<1>3. CASE UpdatePlan
  BY <1>3, BoundsAreNatural DEF UpdatePlan, GenerationInv, RunsTypeOK, Reserved, Occurrence
<1>4. CASE UNCHANGED generationVars
  BY <1>4 DEF generationVars, counts, GenerationInv, RunsTypeOK, Reserved, NoGaps
<1> QED  BY <1>1, <1>2, <1>3, <1>4, RunsKeep DEF GenerationNext

\* The invariant of the generation.
LEMMA GenerationInvariance == GenerationSpec => []GenerationInv
<1> QED  BY Begins, NextKeeps, PTL DEF GenerationSpec

\* No due date is passed over without its order.
LEMMA NothingPassed ==
  ASSUME GenerationInv, GenerationInv', [GenerationNext]_generationVars, edits' = 0,
         NEW k \in plan.nextDueAt..plan.nextDueAt' - 1
  PROVE  gen'[k] # "ABSENT"
<1>1. CASE plan' = plan
  BY <1>1 DEF GenerationInv, RunsTypeOK
<1>2. CASE UpdatePlan
  BY <1>2 DEF UpdatePlan, GenerationInv, RunsTypeOK
<1>3. ASSUME NEW r \in Runs, Advance(r) \/ Link(r)
      PROVE  gen'[k] # "ABSENT"
  <2>1. run[r].k \in Occurrence /\ plan'.nextDueAt \in {plan.nextDueAt, run[r].k + 1} /\ run[r].k \in Nat
    BY <1>3, OccurrenceOf DEF Advance, Link, At, GenerationInv, RunsTypeOK, Busy
  <2>2. k \in Occurrence /\ k \in Nat /\ k < plan'.nextDueAt
    BY <2>1, BoundsAreNatural DEF Occurrence, GenerationInv, RunsTypeOK
  <2> QED  BY <2>2 DEF GenerationInv, NoGaps
<1> QED
  BY <1>1, <1>2, <1>3 DEF GenerationNext, RunStep, Start, Reserve, FindReservation, Retry, CreateOrder, Throw,
     Fail, Crash, generationVars
-----------------------------------------------------------------------------
\* However many generations there are, no occurrence has two orders while no step
\* failed: the reservation lets one run pass, and a crash lets none.
THEOREM OneOrderEach == GenerationSpec => []OneOrderUnlessAStepFailed
<1>1. GenerationInv => OneOrderUnlessAStepFailed
  BY DEF GenerationInv, Reserved, OneOrderUnlessAStepFailed
<1> QED  BY <1>1, GenerationInvariance, PTL

\* The plan is moved only past what was reserved, also by a run that an other one
\* has overtaken.
THEOREM NothingEverPassedOver == GenerationSpec => NothingIsPassedOver
<1>1. GenerationInv /\ GenerationInv' /\ [GenerationNext]_generationVars => [edits' = 0 =>
        \A k \in plan.nextDueAt..plan.nextDueAt' - 1 : gen'[k] # "ABSENT"]_generationVars
  BY NothingPassed
<1> QED  BY <1>1, GenerationInvariance, PTL DEF GenerationSpec, NothingIsPassedOver

-----------------------------------------------------------------------------
(* Reservations that no generation has.                                    *)

StrandedInv == GenerationInv /\ crashes \in Nat /\ OnlyCrashesStrand

\* A step of a generation strands nothing: what it makes PENDING it holds, and what it no
\* longer holds it has made GENERATED or FAILED.
LEMMA RunsStrandNothing ==
  ASSUME GenerationInv, NEW r \in Runs, RunStep(r)
  PROVE  Stranded' \subseteq Stranded
<1> SUFFICES ASSUME NEW j \in Occurrence, gen'[j] = "PENDING", \A s \in Runs : ~Holds(s, j)'
             PROVE  gen[j] = "PENDING" /\ \A s \in Runs : ~Holds(s, j)
  BY DEF Stranded
<1>0. PICK k : k = run[r].k
  OBVIOUS
<1>1. gen \in [Occurrence -> {"ABSENT", "PENDING", "GENERATED", "FAILED"}]
  BY DEF GenerationInv, RunsTypeOK
<1>2. \A s \in Runs \ {r} : run'[s] = run[s] => ~Holds(s, j)
  BY DEF Holds
<1>3. CASE Reserve(r) \/ Retry(r)
  <2>1. run[r].at \in {"reserve", "retry"} /\ GoTo(r, "create") /\ gen' = [gen EXCEPT ![k] = "PENDING"]
    BY <1>0, <1>3 DEF Reserve, Retry, At
  <2>2. /\ \A s \in Runs \ {r} : run'[s] = run[s]
        /\ run'[r].at = "create" /\ run'[r].k = k
    BY <1>0, <2>1, Moves DEF Busy
  <2>3. j # k
    BY <2>2 DEF Holds
  <2> QED BY <1>1, <1>2, <2>1, <2>2, <2>3 DEF Holds
<1>4. CASE FindReservation(r) \/ Advance(r)
  <2>1. run[r].at \in {"reserve", "advance"} /\ gen' = gen
    BY <1>4 DEF FindReservation, Advance, At
  <2>2. \A s \in Runs \ {r} : run'[s] = run[s]
    BY <1>4, <2>1, Moves, GoesOn DEF FindReservation, Advance, Busy
  <2> QED BY <1>2, <2>1, <2>2 DEF Holds
<1>5. CASE CreateOrder(r) \/ Throw(r)
  <2>1. run[r].at \in {"create", "link"} /\ gen' = gen /\ (GoTo(r, "link") \/ GoTo(r, "fail"))
    BY <1>5 DEF CreateOrder, Throw, At
  <2>2. /\ \A s \in Runs \ {r} : run'[s] = run[s]
        /\ run'[r].at \in {"link", "fail"} /\ run'[r].k = k
    BY <1>0, <2>1, Moves DEF Busy
  <2> QED BY <1>0, <1>2, <2>1, <2>2 DEF Holds
<1>6. CASE Link(r) \/ Fail(r)
  <2>1. /\ run[r].at \in {"link", "fail"} /\ NextOccurrence(r)
        /\ \/ gen' = [gen EXCEPT ![k] = "GENERATED"]
           \/ gen' = [gen EXCEPT ![k] = "FAILED"]
    BY <1>0, <1>6 DEF Link, Fail, At
  <2>2. \A s \in Runs \ {r} : run'[s] = run[s]
    BY <2>1, GoesOn DEF Busy
  <2>3. j # k /\ gen[j] = "PENDING"
    BY <1>1, <2>1
  <2> QED BY <1>0, <1>2, <2>2, <2>3 DEF Holds
<1> QED BY <1>3, <1>4, <1>5, <1>6 DEF RunStep

\* The crash of a generation strands the occurrence it was at, or none.
LEMMA CrashStrandsOne ==
  ASSUME GenerationInv, NEW r \in Runs, Crash(r)
  PROVE  Stranded' \subseteq Stranded \cup {run[r].k}
<1> SUFFICES ASSUME NEW j \in Occurrence, gen'[j] = "PENDING", \A s \in Runs : ~Holds(s, j)', j # run[r].k
             PROVE  gen[j] = "PENDING" /\ \A s \in Runs : ~Holds(s, j)
  BY DEF Stranded
<1>1. gen' = gen /\ \A s \in Runs \ {r} : run'[s] = run[s]
  BY DEF Crash, GenerationInv, RunsTypeOK
<1> QED BY <1>1 DEF Holds

\* What a step strands, and what it counts.
LEMMA StrandedKeeps == StrandedInv /\ [GenerationNext]_generationVars => StrandedInv'
<1> SUFFICES ASSUME StrandedInv, [GenerationNext]_generationVars PROVE StrandedInv'
  OBVIOUS
<1>1. GenerationInv /\ GenerationInv' /\ crashes \in Nat /\ Cardinality(Stranded) <= crashes
  BY NextKeeps DEF StrandedInv, OnlyCrashesStrand
<1>2. PICK S, T : S = Stranded /\ T = Stranded'
  OBVIOUS
<1>3. IsFiniteSet(S) /\ IsFiniteSet(T) /\ Cardinality(S) \in Nat /\ Cardinality(T) \in Nat
  <2>1. IsFiniteSet(Occurrence)
    BY BoundsAreNatural, FS_Interval DEF Occurrence
  <2>2. S \in SUBSET Occurrence /\ T \in SUBSET Occurrence
    BY <1>2 DEF Stranded
  <2> QED BY <2>1, <2>2, FS_Subset, FS_CardinalityType
<1>4. ASSUME T \subseteq S, crashes' = crashes PROVE StrandedInv'
  <2>1. Cardinality(T) <= Cardinality(S)
    BY <1>3, <1>4, FS_Subset
  <2> QED BY <1>1, <1>2, <1>3, <1>4, <2>1 DEF StrandedInv, OnlyCrashesStrand
<1>5. ASSUME NEW r \in Runs, Start(r) PROVE StrandedInv'
  <2>1. PICK horizon : run' = [run EXCEPT ![r] = [at |-> "reserve", k |-> plan.nextDueAt,
                                                  horizon |-> horizon, left |-> MaxPerRun]]
    BY <1>5 DEF Start
  <2>2. \A s \in Runs \ {r} : run'[s] = run[s]
    BY <2>1, <1>1 DEF GenerationInv, RunsTypeOK
  <2>3. gen' = gen /\ crashes' = crashes /\ run[r].at = "idle"
    BY <1>5 DEF Start, counts, NotRunning
  <2>4. T \subseteq S
    BY <1>2, <2>2, <2>3 DEF Stranded, Holds
  <2> QED BY <1>4, <2>3, <2>4
<1>6. ASSUME NEW r \in Runs, RunStep(r) PROVE StrandedInv'
  <2>1. crashes' = crashes
    BY <1>6 DEF RunStep, Reserve, FindReservation, Retry, Advance, CreateOrder, Link, Throw, Fail, counts
  <2> QED BY <1>1, <1>2, <1>4, <1>6, <2>1, RunsStrandNothing
<1>7. ASSUME NEW r \in Runs, Crash(r) PROVE StrandedInv'
  <2>1. PICK k : k = run[r].k
    OBVIOUS
  <2>2. T \subseteq S \cup {k}
    BY <1>1, <1>2, <1>7, <2>1, CrashStrandsOne
  <2>3. IsFiniteSet(S \cup {k}) /\ Cardinality(S \cup {k}) <= Cardinality(S) + 1
    <3>1. /\ IsFiniteSet(S \cup {k})
          /\ Cardinality(S \cup {k}) = IF k \in S THEN Cardinality(S) ELSE Cardinality(S) + 1
      BY <1>3, FS_AddElement
    <3> QED BY <1>3, <3>1
  <2>4. Cardinality(T) <= Cardinality(S \cup {k}) /\ Cardinality(S \cup {k}) \in Nat
    BY <2>2, <2>3, FS_Subset, FS_CardinalityType
  <2>5. crashes' = crashes + 1
    BY <1>7 DEF Crash
  <2>6. Cardinality(T) <= crashes'
    BY <1>1, <1>2, <1>3, <2>3, <2>4, <2>5
  <2> QED BY <1>1, <1>2, <2>5, <2>6 DEF StrandedInv, OnlyCrashesStrand
<1>8. CASE UpdatePlan \/ UNCHANGED generationVars
  <2>1. gen' = gen /\ run' = run /\ crashes' = crashes
    BY <1>8 DEF UpdatePlan, generationVars, counts
  <2>2. T \subseteq S
    BY <1>2, <2>1 DEF Stranded, Holds
  <2> QED BY <1>4, <2>1, <2>2
<1> QED BY <1>5, <1>6, <1>7, <1>8 DEF GenerationNext

\* Only generations that die leave occurrences that no later one takes up, each of them one
\* at most, for any number of generations, failures and edits.
THEOREM OnlyCrashesEverStrand == GenerationSpec => []OnlyCrashesStrand
<1>1. GenerationInit => StrandedInv
  <2> SUFFICES ASSUME GenerationInit PROVE StrandedInv
    OBVIOUS
  <2>1. Stranded = {} /\ crashes = 0
    BY DEF GenerationInit, Stranded
  <2> QED BY <2>1, Begins, FS_EmptySet DEF StrandedInv, OnlyCrashesStrand
<1>2. StrandedInv => OnlyCrashesStrand
  BY DEF StrandedInv
<1> QED BY <1>1, <1>2, StrandedKeeps, PTL DEF GenerationSpec

-----------------------------------------------------------------------------
(* The calendar, and the dates of a plan.                                  *)

LastMonth == 12 * (LastYear - FirstYear + 1) - 1

\* The months of the calendar, and their days.
LEMMA MonthsAre ==
  /\ LastMonth \in Nat /\ LastMonth >= 11 /\ MonthIndex = 0..LastMonth /\ Max(MonthIndex) = LastMonth
  /\ \A i \in Nat : DaysIn(i) \in 28..31
<1>1. LastMonth \in Nat /\ LastMonth >= 11 /\ MonthIndex = 0..LastMonth
  BY CalendarIsValid DEF LastMonth, MonthIndex
<1>2. Max(0..LastMonth) = LastMonth
  <2>1. LastMonth \in 0..LastMonth /\ \A y \in 0..LastMonth : LastMonth >= y
    BY <1>1
  <2>2. \A x \in 0..LastMonth : x >= LastMonth => x = LastMonth
    BY <1>1
  <2> QED BY <2>1, <2>2 DEF Max
<1>3. ASSUME NEW i \in Nat PROVE DaysIn(i) \in 28..31
  BY DEF DaysIn
<1> QED BY <1>1, <1>2, <1>3

\* One unfolding of DaysBefore.
After(g, i) == IF i = 0 THEN 0 ELSE g[i - 1] + DaysIn(i - 1)

DaysUpTo(k) == \E g : g = [i \in 0..k |-> After(g, i)]

\* The days of the months add up, for every number of months.
LEMMA DaysUpToAll == ASSUME NEW k \in Nat PROVE DaysUpTo(k)
<1> DEFINE T == {m \in Nat : ~DaysUpTo(m)}
<1> SUFFICES ASSUME T # {} PROVE FALSE
  OBVIOUS
<1>1. PICK m \in T : \A o \in T : m <= o
  <2>1. T \subseteq Nat
    OBVIOUS
  <2> HIDE DEF T
  <2> QED BY <2>1, Least
<1>2. CASE m = 0
  <2>1. [i \in 0..0 |-> 0] = [i \in 0..0 |-> After([j \in 0..0 |-> 0], i)]
    BY DEF After
  <2> QED BY <1>1, <1>2, <2>1 DEF DaysUpTo
<1>3. CASE m > 0
  <2>1. m - 1 \in Nat /\ DaysUpTo(m - 1)
    BY <1>1, <1>3
  <2>2. PICK g : g = [i \in 0..(m - 1) |-> After(g, i)]
    BY <2>1 DEF DaysUpTo
  <2> DEFINE h == [i \in 0..m |-> After(g, i)]
  <2>3. \A i \in 0..(m - 1) : i \in 0..m /\ h[i] = g[i]
    BY <1>1, <2>2
  <2>4. \A i \in 0..m : i # 0 => i - 1 \in 0..(m - 1)
    BY <1>1
  <2>5. \A i \in 0..m : After(g, i) = After(h, i)
    BY <2>3, <2>4 DEF After
  <2>6. h = [i \in 0..m |-> After(h, i)]
    BY <2>5
  <2> HIDE DEF h
  <2> QED BY <1>1, <2>6 DEF DaysUpTo
<1> QED BY <1>1, <1>2, <1>3

\* The days before a month are those before the month before it and its own.
LEMMA DaysBeforeIs ==
  /\ DaysBefore[0] = 0
  /\ \A i \in MonthIndex : i # 0 => DaysBefore[i] = DaysBefore[i - 1] + DaysIn(i - 1)
<1>1. PICK g : g = [i \in MonthIndex |-> After(g, i)]
  BY MonthsAre, DaysUpToAll DEF DaysUpTo
<1>2. DaysBefore = CHOOSE f : f = [i \in MonthIndex |-> IF i = 0 THEN 0 ELSE f[i - 1] + DaysIn(i - 1)]
  BY DEF DaysBefore
<1>3. DaysBefore = [i \in MonthIndex |-> IF i = 0 THEN 0 ELSE DaysBefore[i - 1] + DaysIn(i - 1)]
  BY <1>1, <1>2 DEF After
<1> QED BY <1>3, MonthsAre

\* Each month ends before the next begins.
LEMMA MonthsFollow ==
  ASSUME NEW j \in MonthIndex
  PROVE  /\ DaysBefore[j] \in Nat
         /\ \A i \in MonthIndex : i < j => DaysBefore[i] \in Nat /\ DaysBefore[i] + DaysIn(i) <= DaysBefore[j]
<1> DEFINE Follows(m) == /\ DaysBefore[m] \in Nat
                         /\ \A i \in MonthIndex : i < m => DaysBefore[i] \in Nat /\ DaysBefore[i] + DaysIn(i) <= DaysBefore[m]
           T == {m \in MonthIndex : ~Follows(m)}
<1> SUFFICES ASSUME T # {} PROVE FALSE
  OBVIOUS
<1>1. PICK m \in T : \A o \in T : m <= o
  <2>1. T \subseteq Nat
    BY MonthsAre
  <2> HIDE DEF T
  <2> QED BY <2>1, Least
<1>2. m \in MonthIndex /\ m \in Nat /\ ~Follows(m)
  BY MonthsAre
<1>3. CASE m = 0
  <2>1. \A i \in MonthIndex : ~(i < 0)
    BY MonthsAre
  <2> QED BY <1>2, <1>3, <2>1, DaysBeforeIs
<1>4. CASE m > 0
  <2>1. m - 1 \in MonthIndex /\ m - 1 < m
    BY <1>2, <1>4, MonthsAre
  <2>2. Follows(m - 1)
    BY <1>1, <1>2, <2>1
  <2>3. DaysBefore[m] = DaysBefore[m - 1] + DaysIn(m - 1) /\ DaysIn(m - 1) \in 28..31
    BY <1>2, <1>4, <2>1, DaysBeforeIs, MonthsAre
  <2>4. ASSUME NEW i \in MonthIndex, i < m
        PROVE  DaysBefore[i] \in Nat /\ DaysBefore[i] + DaysIn(i) <= DaysBefore[m]
    <3>1. CASE i = m - 1
      BY <2>2, <2>3, <3>1
    <3>2. CASE i < m - 1
      <4>1. DaysBefore[i] \in Nat /\ DaysBefore[i] + DaysIn(i) <= DaysBefore[m - 1] /\ DaysBefore[m - 1] \in Nat
        BY <2>2, <3>2
      <4>2. DaysIn(i) \in 28..31
        BY MonthsAre
      <4> QED BY <2>3, <4>1, <4>2
    <3> QED BY <1>2, <2>4, <3>1, <3>2, MonthsAre
  <2>5. DaysBefore[m] \in Nat
    BY <2>2, <2>3
  <2> QED BY <1>2, <2>4, <2>5
<1> QED BY <1>2, <1>3, <1>4

\* The dates of the calendar.
Real(date) == date \in Date /\ date.day <= DaysIn(date.month)

Days == 1..DaysBefore[LastMonth] + DaysIn(LastMonth)

\* The date that many days later is a date, and is that many days later.
LEMMA DateAtIs ==
  ASSUME NEW o \in Days
  PROVE  Real(DateAt(o)) /\ Ordinal(DateAt(o)) = o
<1> DEFINE T == {i \in MonthIndex : o <= DaysBefore[i] + DaysIn(i)}
           Has(i) == DaysBefore[i] < o /\ o <= DaysBefore[i] + DaysIn(i)
<1>1. LastMonth \in T
  BY MonthsAre, MonthsFollow DEF Days
<1>2. PICK i \in T : \A j \in T : i <= j
  <2>1. T \subseteq Nat
    BY MonthsAre
  <2> HIDE DEF T
  <2> QED BY <1>1, <2>1, Least
<1>3. i \in MonthIndex /\ i \in Nat /\ o \in Int /\ o >= 1
  BY MonthsAre, MonthsFollow DEF Days
<1>4. Has(i)
  <2>1. CASE i = 0
    BY <1>2, <1>3, <2>1, DaysBeforeIs
  <2>2. CASE i # 0
    <3>1. i - 1 \in MonthIndex /\ ~(i <= i - 1)
      BY <1>3, <2>2, MonthsAre
    <3>2. ~(o <= DaysBefore[i - 1] + DaysIn(i - 1))
      BY <1>2, <3>1
    <3>3. DaysBefore[i] = DaysBefore[i - 1] + DaysIn(i - 1) /\ DaysBefore[i] \in Nat
      BY <1>3, <2>2, DaysBeforeIs, MonthsFollow
    <3> QED BY <1>2, <1>3, <3>2, <3>3
  <2> QED BY <2>1, <2>2
<1>5. PICK m : m = CHOOSE x \in MonthIndex : Has(x)
  OBVIOUS
<1>6. m \in MonthIndex /\ Has(m)
  BY <1>3, <1>4, <1>5
<1>7. DaysBefore[m] \in Nat /\ DaysIn(m) \in 28..31
  BY <1>6, MonthsAre, MonthsFollow
<1>8. DateAt(o) = [month |-> m, day |-> o - DaysBefore[m]]
  BY <1>5 DEF DateAt
<1>9. o - DaysBefore[m] \in 1..31 /\ o - DaysBefore[m] <= DaysIn(m)
  BY <1>3, <1>6, <1>7
<1> QED BY <1>3, <1>6, <1>7, <1>8, <1>9 DEF Real, Date, Ordinal

\* The number of a date is an integer.
LEMMA OrdinalIs ==
  ASSUME NEW date, Real(date)
  PROVE  Ordinal(date) \in Nat /\ Ordinal(date) >= 1
<1>1. date.month \in MonthIndex /\ date.day \in 1..31
  BY DEF Real, Date
<1> QED BY <1>1, MonthsFollow DEF Ordinal

\* What Min chooses.
LEMMA MinIs ==
  ASSUME NEW S, S \subseteq Int, NEW x \in S, \A y \in S : x <= y
  PROVE  Min(S) = x
<1>1. \A z \in S : (\A y \in S : z <= y) => z = x
  OBVIOUS
<1> QED BY <1>1 DEF Min

Step == MonthsPerUnit[unit] * value

\* The day is that of the start, cut by the shortest of the months passed.
DayIsCut ==
  /\ current.day = start.day \/ \E i \in 0..n : current.day = DaysIn(start.month + i * Step)
  /\ current.day <= start.day
  /\ \A i \in 0..n : current.day <= DaysIn(start.month + i * Step)

RecurrenceInv ==
  /\ start \in Date /\ value \in Nat \ {0} /\ n \in Nat /\ Real(current)
  /\ unit \in DOMAIN DaysPerUnit \cup DOMAIN MonthsPerUnit
  /\ IF unit \in DOMAIN DaysPerUnit
     THEN Ordinal(current) = Ordinal(start) + n * DaysPerUnit[unit] * value
     ELSE current.month = start.month + n * Step /\ DayIsCut

\* What the recurrences count.
LEMMA UnitsAre ==
  /\ DOMAIN DaysPerUnit = {"DAY", "WEEK"}
  /\ DOMAIN MonthsPerUnit = {"MONTH", "BIMONTH", "QUARTER", "SEMESTER", "YEAR"}
  /\ \A u \in DOMAIN DaysPerUnit : DaysPerUnit[u] \in Nat
  /\ \A u \in DOMAIN MonthsPerUnit : MonthsPerUnit[u] \in Nat \ {0}
  BY DEF DaysPerUnit, MonthsPerUnit

\* A plan begins on its own date.
LEMMA RecurrenceBegins == RecurrenceInit => RecurrenceInv
<1> SUFFICES ASSUME RecurrenceInit PROVE RecurrenceInv
  OBVIOUS
<1>1. /\ start.month \in 0..11 /\ start.day \in StartDays /\ start.day <= DaysIn(start.month)
      /\ start = [month |-> start.month, day |-> start.day]
      /\ unit \in DOMAIN DaysPerUnit \cup DOMAIN MonthsPerUnit /\ value \in Values /\ current = start /\ n = 0
  BY DEF RecurrenceInit
<1>2. start.month \in MonthIndex /\ start.day \in 1..31 /\ value \in Nat \ {0}
  BY <1>1, MonthsAre, CalendarIsValid
<1>3. start \in Date /\ Real(current)
  BY <1>1, <1>2 DEF Date, Real
<1>4. Ordinal(start) \in Nat
  BY <1>1, <1>3, OrdinalIs
<1>5. CASE unit \in DOMAIN DaysPerUnit
  <2>1. n * DaysPerUnit[unit] * value = 0
    BY <1>1, <1>2, <1>5, UnitsAre
  <2> QED BY <1>1, <1>2, <1>3, <1>4, <1>5, <2>1 DEF RecurrenceInv
<1>6. CASE unit \notin DOMAIN DaysPerUnit
  <2>1. Step \in Nat
    BY <1>1, <1>2, <1>6, UnitsAre DEF Step
  <2>2. 0 * Step = 0 /\ start.month + 0 * Step = start.month
    BY <1>2, <2>1, MonthsAre
  <2>3. DayIsCut
    BY <1>1, <1>2, <2>2 DEF DayIsCut
  <2> QED BY <1>1, <1>2, <1>3, <1>6, <2>2, <2>3 DEF RecurrenceInv
<1> QED BY <1>5, <1>6

\* Every advance of a plan keeps its date that of the closed form.
LEMMA RecurrenceKept == RecurrenceInv /\ [RecurrenceNext]_recurrenceVars => RecurrenceInv'
<1> SUFFICES ASSUME RecurrenceInv, [RecurrenceNext]_recurrenceVars PROVE RecurrenceInv'
  OBVIOUS
<1>1. CASE UNCHANGED recurrenceVars
  BY <1>1 DEF recurrenceVars, RecurrenceInv, DayIsCut, Step, Ordinal, Real
<1>2. CASE FollowDate
  <2>1. /\ current' = nextOccurrence(current, unit, value) /\ n' = n + 1
        /\ start' = start /\ unit' = unit /\ value' = value /\ WithinCalendar
    BY <1>2 DEF FollowDate
  <2>2. /\ start \in Date /\ value \in Nat \ {0} /\ n \in Nat /\ Real(current)
        /\ unit \in DOMAIN DaysPerUnit \cup DOMAIN MonthsPerUnit
    BY DEF RecurrenceInv
  <2>3. CASE unit \in DOMAIN DaysPerUnit
    <3>1. PICK d : d = DaysPerUnit[unit] * value
      OBVIOUS
    <3>2. d \in Nat
      BY <2>2, <2>3, <3>1, UnitsAre
    <3>3. Ordinal(current) \in Nat /\ Ordinal(current) >= 1
      BY <2>2, OrdinalIs
    <3>4. Ordinal(current) + d \in Days
      <4>1. Ordinal(current) + d <= DaysBefore[LastMonth] + DaysIn(LastMonth)
        BY <2>1, <2>3, <3>1, MonthsAre DEF WithinCalendar
      <4>2. DaysBefore[LastMonth] \in Nat /\ DaysIn(LastMonth) \in 28..31
        BY MonthsAre, MonthsFollow
      <4> QED BY <3>2, <3>3, <4>1, <4>2 DEF Days
    <3>5. current' = DateAt(Ordinal(current) + d)
      BY <2>1, <2>3, <3>1 DEF nextOccurrence
    <3>6. Real(current') /\ Ordinal(current') = Ordinal(current) + d
      BY <3>4, <3>5, DateAtIs
    <3>7. Ordinal(current) = Ordinal(start) + n * DaysPerUnit[unit] * value
      BY <2>3 DEF RecurrenceInv
    <3>8. (n + 1) * DaysPerUnit[unit] * value = n * DaysPerUnit[unit] * value + d
      <4>1. PICK p \in Nat : p = DaysPerUnit[unit]
        BY <2>3, UnitsAre
      <4>2. PICK q \in Nat : q = n * p
        BY <2>2, <4>1
      <4>3. (n + 1) * p = q + p
        BY <2>2, <4>1, <4>2
      <4>4. (q + p) * value = q * value + p * value
        BY <2>2, <4>1, <4>2
      <4> QED BY <3>1, <4>1, <4>2, <4>3, <4>4
    <3>9. Ordinal(start) \in Int /\ n * DaysPerUnit[unit] * value \in Int
      <4>1. start.month \in MonthIndex /\ start.day \in 1..31
        BY <2>2 DEF Date
      <4>2. Ordinal(start) \in Int
        BY <4>1, MonthsFollow DEF Ordinal
      <4> QED BY <2>2, <2>3, <4>2, UnitsAre
    <3>10. Ordinal(current') = Ordinal(start) + (n + 1) * DaysPerUnit[unit] * value
      BY <3>2, <3>6, <3>7, <3>8, <3>9
    <3>11. Real(current)' /\ Ordinal(current)' = Ordinal(start)' + n' * DaysPerUnit[unit'] * value'
      BY <2>1, <3>6, <3>10 DEF Real, Ordinal
    <3> QED BY <2>1, <2>2, <2>3, <3>11 DEF RecurrenceInv
  <2>4. CASE unit \notin DOMAIN DaysPerUnit
    <3>1. PICK s : s = Step
      OBVIOUS
    <3>2. PICK month, day : month = current.month + s /\ day = Min({current.day, DaysIn(month)})
      OBVIOUS
    <3>3. s \in Nat \ {0} /\ s = MonthsPerUnit[unit] * value
      BY <2>2, <2>4, <3>1, UnitsAre DEF Step
    <3>4. current.month \in MonthIndex /\ current.month \in Nat /\ current.day \in 1..31
      BY <2>2, MonthsAre DEF Real, Date
    <3>5. month \in MonthIndex /\ month \in Nat /\ DaysIn(month) \in 28..31
      BY <2>1, <2>4, <3>2, <3>3, MonthsAre DEF WithinCalendar
    <3>6. current' = [month |-> month, day |-> day]
      BY <2>1, <2>4, <3>2, <3>3 DEF nextOccurrence, addMonths
    <3>7. day = IF current.day <= DaysIn(month) THEN current.day ELSE DaysIn(month)
      <4>1. {current.day, DaysIn(month)} \subseteq Int
        BY <3>4, <3>5
      <4>2. CASE current.day <= DaysIn(month)
        BY <3>2, <3>4, <3>5, <4>1, <4>2, MinIs
      <4>3. CASE ~(current.day <= DaysIn(month))
        <5>1. \A y \in {current.day, DaysIn(month)} : DaysIn(month) <= y
          BY <3>4, <3>5, <4>3
        <5> QED BY <3>2, <4>1, <4>3, <5>1, MinIs
      <4> QED BY <4>2, <4>3
    <3>8. Real(current)'
      BY <3>4, <3>5, <3>6, <3>7 DEF Real, Date
    <3>9. current.month = start.month + n * s /\ DayIsCut
      BY <2>4, <3>1 DEF RecurrenceInv
    <3>10. month = start.month + (n + 1) * s
      <4>1. start.month \in Int
        BY <2>2, MonthsAre DEF Date
      <4>2. (n + 1) * s = n * s + s /\ n * s \in Int
        BY <2>2, <3>3
      <4> QED BY <3>2, <3>3, <3>9, <4>1, <4>2
    <3>11. start.day \in 1..31 /\ 0..(n + 1) = 0..n \cup {n + 1}
      BY <2>2 DEF Date
    <3>12. \A i \in 0..n : DaysIn(start.month + i * s) \in Int
      <4> SUFFICES ASSUME NEW i \in 0..n PROVE DaysIn(start.month + i * s) \in Int
        OBVIOUS
      <4>1. start.month + i * s \in Nat
        BY <2>2, <3>3, MonthsAre DEF Date
      <4> QED BY <4>1, MonthsAre
    <3>13. /\ day = start.day \/ \E i \in 0..(n + 1) : day = DaysIn(start.month + i * s)
           /\ day <= start.day
           /\ \A i \in 0..(n + 1) : day <= DaysIn(start.month + i * s)
      <4>1. /\ current.day = start.day \/ \E i \in 0..n : current.day = DaysIn(start.month + i * s)
            /\ current.day <= start.day
            /\ \A i \in 0..n : current.day <= DaysIn(start.month + i * s)
        BY <3>1, <3>9 DEF DayIsCut
      <4>2. day \in Int /\ day <= current.day /\ day <= DaysIn(month) /\ (day = current.day \/ day = DaysIn(month))
        BY <3>4, <3>5, <3>7
      <4>3. day = start.day \/ \E i \in 0..(n + 1) : day = DaysIn(start.month + i * s)
        BY <3>10, <3>11, <4>1, <4>2
      <4>4. \A i \in 0..n : day <= DaysIn(start.month + i * s)
        BY <3>4, <3>12, <4>1, <4>2
      <4>5. \A i \in 0..(n + 1) : day <= DaysIn(start.month + i * s)
        BY <3>10, <3>11, <4>2, <4>4
      <4> QED BY <3>4, <3>11, <4>1, <4>2, <4>3, <4>5
    <3>14. current'.month = month /\ current'.day = day /\ Step' = s
      BY <2>1, <3>1, <3>6 DEF Step
    <3>15. DayIsCut' /\ current'.month = start'.month + n' * Step'
      BY <2>1, <3>10, <3>13, <3>14 DEF DayIsCut
    <3> QED BY <2>1, <2>2, <2>4, <3>8, <3>15 DEF RecurrenceInv
  <2> QED BY <2>3, <2>4
<1> QED BY <1>1, <1>2 DEF RecurrenceNext

\* For any calendar, starting day, unit and value: no month is skipped, none overflows to
\* the next, and the day is cut by the shortest month passed so far.
THEOREM DatesAlwaysMatchClosedForm == RecurrenceSpec => []MatchesClosedForm
<1>1. RecurrenceInv => MatchesClosedForm
  <2> SUFFICES ASSUME RecurrenceInv PROVE MatchesClosedForm
    OBVIOUS
  <2>1. /\ start \in Date /\ value \in Nat \ {0} /\ n \in Nat /\ Real(current)
        /\ unit \in DOMAIN DaysPerUnit \cup DOMAIN MonthsPerUnit
    BY DEF RecurrenceInv
  <2>2. current \in Date /\ current.day <= DaysIn(current.month)
    BY <2>1 DEF Real
  <2>3. CASE unit \in DOMAIN DaysPerUnit
    BY <2>2, <2>3 DEF RecurrenceInv, MatchesClosedForm
  <2>4. CASE unit \notin DOMAIN DaysPerUnit
    <3>1. PICK s : s = Step /\ s = MonthsPerUnit[unit] * value
      BY DEF Step
    <3>2. current.month = start.month + n * s /\ DayIsCut
      BY <2>4, <3>1 DEF RecurrenceInv
    <3>3. PICK passed : passed = {start.month + i * s : i \in 0..n}
      OBVIOUS
    <3>4. PICK S : S = {start.day} \cup {DaysIn(i) : i \in passed}
      OBVIOUS
    <3>5. /\ current.day = start.day \/ \E i \in 0..n : current.day = DaysIn(start.month + i * s)
          /\ current.day <= start.day
          /\ \A i \in 0..n : current.day <= DaysIn(start.month + i * s)
      BY <3>1, <3>2 DEF DayIsCut
    <3>6. S \subseteq Int
      <4>1. s \in Nat
        BY <2>1, <2>4, <3>1, UnitsAre
      <4>2. start.month \in Nat /\ start.day \in 1..31
        BY <2>1, MonthsAre DEF Date
      <4>3. \A i \in 0..n : start.month + i * s \in Nat
        BY <2>1, <4>1, <4>2
      <4>4. \A i \in passed : DaysIn(i) \in Int
        BY <3>3, <4>3, MonthsAre
      <4> QED BY <3>4, <4>2, <4>4
    <3>7. current.day \in S /\ \A y \in S : current.day <= y
      BY <3>3, <3>4, <3>5
    <3>8. current.day = Min(S)
      BY <3>6, <3>7, MinIs
    <3> QED BY <2>2, <2>4, <3>1, <3>2, <3>3, <3>4, <3>8 DEF MatchesClosedForm
  <2> QED BY <2>3, <2>4
<1> QED BY <1>1, RecurrenceBegins, RecurrenceKept, PTL DEF RecurrenceSpec

-----------------------------------------------------------------------------
(* Dates and instants.                                                     *)

\* A local time is a tick of its date.
LEMMA TickOfDate ==
  ASSUME NEW l \in Int
  PROVE  /\ l \div DayLength \in Int /\ l % DayLength \in 0..DayLength - 1
         /\ l = (l \div DayLength) * DayLength + (l % DayLength)
  BY CalendarsAreValid

\* Dates in a row.
LEMMA DatesFollow ==
  ASSUME NEW d \in Int, NEW e \in Int, d < e
  PROVE  /\ d * DayLength \in Int /\ e * DayLength \in Int
         /\ d * DayLength + DayLength <= e * DayLength
<1>1. PICK len \in Nat : len = DayLength
  BY CalendarsAreValid
<1>2. PICK k \in Nat : e = d + 1 + k
  OBVIOUS
<1>3. (d + 1 + k) * len = d * len + len + k * len
  BY <1>1
<1>4. k * len >= 0 /\ k * len \in Int /\ d * len \in Int
  BY <1>1
<1> QED BY <1>1, <1>2, <1>3, <1>4

\* The ticks of a date.
LEMMA DateOfTick ==
  ASSUME NEW l \in Int, NEW d \in Int
  PROVE  /\ d * DayLength \in Int
         /\ l \div DayLength < d <=> l < d * DayLength
         /\ l \div DayLength > d <=> l >= d * DayLength + DayLength
         /\ l \div DayLength = d => l = d * DayLength + (l % DayLength)
<1>1. PICK e, x : e = l \div DayLength /\ x = l % DayLength
  OBVIOUS
<1>2. e \in Int /\ x \in 0..DayLength - 1 /\ l = e * DayLength + x /\ DayLength \in Nat
  BY <1>1, TickOfDate, CalendarsAreValid
<1>3. CASE e < d
  BY <1>1, <1>2, <1>3, DatesFollow
<1>4. CASE e > d
  BY <1>1, <1>2, <1>4, DatesFollow
<1>5. CASE e = d
  <2>1. d * DayLength \in Int
    BY <1>2
  <2> QED BY <1>1, <1>2, <1>5, <2>1
<1> QED BY <1>2, <1>3, <1>4, <1>5

\* The edges of the date of a tick.
LEMMA DateEdges ==
  ASSUME NEW l \in Int, NEW e, e = l \div DayLength
  PROVE  e \in Int /\ e * DayLength \in Int /\ e * DayLength <= l /\ l < e * DayLength + DayLength
<1>1. e \in Int /\ l % DayLength \in 0..DayLength - 1 /\ DayLength \in Nat
  BY TickOfDate, CalendarsAreValid
<1>2. e * DayLength \in Int /\ l = e * DayLength + (l % DayLength)
  BY <1>1, DateOfTick
<1> QED BY <1>1, <1>2

-----------------------------------------------------------------------------
(* The zone.                                                               *)

ZoneIs ==
  /\ zone.at \in Int /\ zone.before \in Int /\ zone.after \in Int
  /\ zone.before - zone.after <= DayLength
  /\ zone.before < zone.after => (zone.at + zone.before) \div DayLength = (zone.at + zone.after - 1) \div DayLength

\* Six corrections leave the desired time less the offset at the fifth candidate; an offset
\* that is its own is found.
Candidate(c, l) == [i \in 0..6 |-> IF i = 0 THEN l ELSE l - Offset(c[i - 1])]

\* The function of the candidates exists.
LEMMA CandidatesExist ==
  ASSUME ZoneIs, NEW l \in Int
  PROVE  \E c : c = Candidate(c, l)
<1> DEFINE f1 == l - Offset(l)
           f2 == l - Offset(f1)
           f3 == l - Offset(f2)
           f4 == l - Offset(f3)
           f5 == l - Offset(f4)
           f6 == l - Offset(f5)
           c == [i \in 0..6 |-> IF i = 0 THEN l ELSE IF i = 1 THEN f1 ELSE IF i = 2 THEN f2 ELSE
                                IF i = 3 THEN f3 ELSE IF i = 4 THEN f4 ELSE IF i = 5 THEN f5 ELSE f6]
<1>1. 0..6 = {0, 1, 2, 3, 4, 5, 6}
  OBVIOUS
<1>2. /\ c[0] = l /\ c[1] = f1 /\ c[2] = f2 /\ c[3] = f3 /\ c[4] = f4 /\ c[5] = f5 /\ c[6] = f6
  OBVIOUS
<1>3. \A i \in 0..6 : c[i] = IF i = 0 THEN l ELSE l - Offset(c[i - 1])
  BY <1>1, <1>2
<1>4. c = Candidate(c, l)
  BY <1>3 DEF Candidate
<1> QED BY <1>4

\* The answer of zonedDateTimeToUtc, for a local time on one side of the change of the zone.
LEMMA ToUtcIs ==
  ASSUME ZoneIs, NEW date, NEW clock, NEW l \in Int, l = date * DayLength + clock
  PROVE  /\ ToUtc(date, clock) \in Int
         /\ ToUtc(date, clock) \in {l - zone.before, l - zone.after}
         /\ l < zone.at + zone.before /\ l < zone.at + zone.after => ToUtc(date, clock) = l - zone.before
         /\ l >= zone.at + zone.before /\ l >= zone.at + zone.after => ToUtc(date, clock) = l - zone.after
<1>1. PICK c : c = Candidate(c, l) /\ ToUtc(date, clock) = c[6]
  <2>1. ToUtc(date, clock) = (CHOOSE c : c = Candidate(c, l))[6]
    BY DEF ToUtc, Candidate
  <2> QED BY <2>1, CandidatesExist
<1>2. c[0] = l
  BY <1>1 DEF Candidate
<1>3. \A i \in 1..6 : c[i] = l - Offset(c[i - 1])
  BY <1>1 DEF Candidate
<1>4. /\ c[1] = l - Offset(l) /\ c[2] = l - Offset(c[1]) /\ c[3] = l - Offset(c[2])
      /\ c[4] = l - Offset(c[3]) /\ c[5] = l - Offset(c[4]) /\ c[6] = l - Offset(c[5])
  BY <1>2, <1>3
<1>5. PICK before, after : before = l - zone.before /\ after = l - zone.after
  OBVIOUS
<1>6. before \in Int /\ after \in Int
  BY <1>5 DEF ZoneIs
<1>7. /\ \A i \in Int : l - Offset(i) = IF i < zone.at THEN before ELSE after
      /\ c[1] \in {before, after} /\ c[2] \in {before, after} /\ c[3] \in {before, after}
      /\ c[4] \in {before, after} /\ c[5] \in {before, after} /\ c[6] \in {before, after}
  BY <1>4, <1>5 DEF Offset
<1>8. ASSUME l < zone.at + zone.before, l < zone.at + zone.after PROVE c[6] = before
  <2>1. before < zone.at /\ after < zone.at
    BY <1>5, <1>8 DEF ZoneIs
  <2> QED BY <1>4, <1>6, <1>7, <2>1
<1>9. ASSUME l >= zone.at + zone.before, l >= zone.at + zone.after PROVE c[6] = after
  <2>1. ~(before < zone.at) /\ ~(after < zone.at)
    BY <1>5, <1>9 DEF ZoneIs
  <2> QED BY <1>4, <1>6, <1>7, <2>1
<1> QED BY <1>1, <1>5, <1>6, <1>7, <1>8, <1>9

\* A local time is the instant and the offset of its side of the change.
LEMMA LocalIs ==
  ASSUME ZoneIs, NEW i \in Int
  PROVE  /\ Local(i) \in Int
         /\ Local(i) = IF i < zone.at THEN i + zone.before ELSE i + zone.after
  BY DEF Local, Offset, ZoneIs

\* Types of the conversions.
LEMMA AnyInstant ==
  ASSUME ZoneIs, NEW d \in Int
  PROVE  ToUtc(d, 0) \in Int /\ ToUtc(d, DayLength - 1) \in Int
<1>1. PICK p : p = d * DayLength
  OBVIOUS
<1>2. p \in Int /\ DayLength \in Nat
  BY <1>1, DateOfTick, CalendarsAreValid, 0 \in Int
<1>3. ToUtc(d, 0) \in Int
  <2>1. p = d * DayLength + 0
    BY <1>1, <1>2
  <2> QED BY <1>2, <2>1, ToUtcIs
<1>4. ToUtc(d, DayLength - 1) \in Int
  <2>1. PICK k : k = p + (DayLength - 1)
    OBVIOUS
  <2>2. k \in Int /\ k = d * DayLength + (DayLength - 1)
    BY <1>1, <1>2, <2>1
  <2> QED BY <2>2, ToUtcIs
<1> QED BY <1>3, <1>4

\* A local date is an integer.
LEMMA LocalDateIs ==
  ASSUME ZoneIs, NEW i \in Int
  PROVE  LocalDate(i) \in Int
BY LocalIs, TickOfDate DEF LocalDate

\* Where the change of the offset is.
LEMMA ChangeIsWithin ==
  ASSUME ZoneIs, NEW date, date = LocalDate(zone.at)
  PROVE  /\ date \in Int /\ date * DayLength \in Int
         /\ date * DayLength <= zone.at + zone.after /\ zone.at + zone.after < date * DayLength + DayLength
         /\ zone.at + zone.before <= date * DayLength + DayLength + DayLength
         /\ zone.at + zone.before >= date * DayLength - DayLength
<1>1. PICK l : l = zone.at + zone.after
  OBVIOUS
<1>2. l \in Int /\ Local(zone.at) = l
  BY <1>1, LocalIs DEF ZoneIs
<1>3. /\ date = l \div DayLength /\ date \in Int
  BY <1>2, TickOfDate DEF LocalDate
<1>4. date * DayLength \in Int /\ date * DayLength <= l /\ l < date * DayLength + DayLength
  BY <1>2, <1>3, DateEdges
<1>5. DayLength \in Nat
  BY CalendarsAreValid
<1>6. zone.at + zone.before <= date * DayLength + DayLength + DayLength
  BY <1>1, <1>4, <1>5 DEF ZoneIs
<1>7. zone.at + zone.before >= date * DayLength - DayLength
  <2>1. CASE zone.before >= zone.after
    BY <1>1, <1>4, <1>5, <2>1 DEF ZoneIs
  <2>2. CASE zone.before < zone.after
    <3>1. PICK g, h : g = zone.at + zone.before /\ h = zone.at + zone.after - 1
      OBVIOUS
    <3>2. g \in Int /\ h \in Int /\ g \div DayLength = h \div DayLength
      BY <2>2, <3>1 DEF ZoneIs
    <3>3. PICK e : e = g \div DayLength /\ e = h \div DayLength
      BY <3>2
    <3>4. e \in Int /\ e * DayLength \in Int /\ e * DayLength <= g /\ h < e * DayLength + DayLength
      BY <3>2, <3>3, DateEdges
    <3>5. PICK p, q : p = e * DayLength /\ q = date * DayLength
      OBVIOUS
    <3>6. /\ p \in Int /\ q \in Int /\ p <= g /\ h < p + DayLength /\ q <= l /\ l = h + 1
      BY <1>1, <1>4, <3>1, <3>2, <3>4, <3>5 DEF ZoneIs
    <3>7. g >= q - DayLength
      BY <1>5, <3>2, <3>6
    <3> QED BY <3>1, <3>5, <3>7
  <2> QED BY <2>1, <2>2 DEF ZoneIs
<1> QED BY <1>1, <1>3, <1>4, <1>6, <1>7

-----------------------------------------------------------------------------
(* Shifts as instants.                                                     *)

\* The instant of a local time that exists once.
Instant(l) == IF l < zone.at + zone.before THEN l - zone.before ELSE l - zone.after

Begin(d, s) == Instant(d * DayLength + s.start)
End(d, s) == Instant(d * DayLength + s.end)

BoundsHold ==
  /\ ZoneIs
  /\ slaCalendar \in SlaCalendars
  /\ BoundsExistOnce

\* The instants from a local time on that exists once are those that come after it, and
\* zonedDateTimeToUtc finds the first of them.
LEMMA InstantIs ==
  ASSUME ZoneIs, NEW l \in Int, ExistsOnce(l)
  PROVE  /\ Instant(l) \in Int /\ Local(Instant(l)) = l
         /\ \A i \in Int : Local(i) >= l <=> i >= Instant(l)
         /\ \A date, clock : l = date * DayLength + clock => ToUtc(date, clock) = Instant(l)
<1>1. CASE l < zone.at + zone.before
  <2>1. l < zone.at + zone.after
    BY <1>1 DEF ExistsOnce, ZoneIs
  <2>2. Instant(l) = l - zone.before
    BY <1>1 DEF Instant
  <2>3. \A date, clock : l = date * DayLength + clock => ToUtc(date, clock) = l - zone.before
    BY <1>1, <2>1, ToUtcIs
  <2> QED BY <1>1, <2>1, <2>2, <2>3, LocalIs DEF ZoneIs
<1>2. CASE ~(l < zone.at + zone.before)
  <2>1. l >= zone.at + zone.before /\ l >= zone.at + zone.after
    BY <1>2 DEF ExistsOnce, ZoneIs
  <2>2. Instant(l) = l - zone.after
    BY <1>2 DEF Instant
  <2>3. \A date, clock : l = date * DayLength + clock => ToUtc(date, clock) = l - zone.after
    BY <2>1, ToUtcIs
  <2> QED BY <2>1, <2>2, <2>3, LocalIs DEF ZoneIs
<1> QED BY <1>1, <1>2

\* A shift is within a day.
LEMMA ShiftIs ==
  ASSUME slaCalendar \in SlaCalendars, NEW s \in slaCalendar.shifts
  PROVE  /\ s.start \in 0..DayLength - 2 /\ s.end \in 0..DayLength - 2 /\ s.start < s.end
         /\ s.days \subseteq 0..6 /\ DayLength \in Nat /\ DayLength > 2
BY CalendarsAreValid DEF Shift, WellFormed

\* Away from the change of the offset, every local time exists once.
LEMMA FarTimesExistOnce ==
  ASSUME ZoneIs, NEW d \in Int, NEW date, date = LocalDate(zone.at), d < date - 1 \/ d > date + 1,
         NEW x \in 0..DayLength - 1, NEW l, l = d * DayLength + x
  PROVE  ExistsOnce(l)
<1>1. PICK p, q, len : p = d * DayLength /\ q = date * DayLength /\ len = DayLength
  OBVIOUS
<1>2. PICK u, v : u = zone.at + zone.before /\ v = zone.at + zone.after
  OBVIOUS
<1>3. /\ date \in Int /\ q \in Int /\ len \in Nat /\ u \in Int /\ v \in Int
      /\ q <= v /\ v < q + len /\ u <= q + len + len /\ u >= q - len
  BY <1>1, <1>2, ChangeIsWithin, CalendarsAreValid DEF ZoneIs
<1>4. p \in Int /\ x \in Int /\ 0 <= x /\ x < len
  BY <1>1, <1>3, CalendarsAreValid
<1>5. CASE d < date - 1
  <2>1. PICK r : r = (d + 1) * DayLength
    OBVIOUS
  <2>2. p + len <= r /\ r + len <= q /\ r \in Int
    BY <1>1, <1>3, <1>5, <2>1, DatesFollow, d + 1 \in Int, d < d + 1, d + 1 < date
  <2>3. l < u /\ l < v
    BY <1>1, <1>3, <1>4, <2>2
  <2> QED BY <1>2, <2>3, <1>1, <1>3, <1>4 DEF ExistsOnce
<1>6. CASE d > date + 1
  <2>1. PICK r : r = (date + 1) * DayLength
    OBVIOUS
  <2>2. q + len <= r /\ r + len <= p /\ r \in Int
    BY <1>1, <1>3, <1>6, <2>1, DatesFollow, date + 1 \in Int, date < date + 1, date + 1 < d
  <2>3. ~(l < u) /\ l >= v
    BY <1>1, <1>3, <1>4, <2>2
  <2> QED BY <1>2, <2>3 DEF ExistsOnce
<1> QED BY <1>5, <1>6

\* The bounds of the shifts exist once on every date, once they do around the change.
LEMMA AllBoundsExistOnce ==
  ASSUME BoundsHold, NEW s \in slaCalendar.shifts, NEW d \in Int
  PROVE  ExistsOnce(d * DayLength + s.start) /\ ExistsOnce(d * DayLength + s.end)
<1>1. PICK date : date = LocalDate(zone.at)
  OBVIOUS
<1>2. date \in Int
  BY <1>1, ChangeIsWithin DEF BoundsHold
<1>3. CASE d \in date - 1..date + 1
  BY <1>1, <1>3 DEF BoundsHold, BoundsExistOnce
<1>4. CASE d < date - 1 \/ d > date + 1
  <2>1. s.start \in 0..DayLength - 1 /\ s.end \in 0..DayLength - 1
    BY ShiftIs DEF BoundsHold
  <2> QED BY <1>1, <1>4, <2>1, FarTimesExistOnce DEF BoundsHold
<1> QED BY <1>2, <1>3, <1>4

\* The bounds of a shift on a date, as local times and as instants.
LEMMA BoundsAre ==
  ASSUME BoundsHold, NEW s \in slaCalendar.shifts, NEW d \in Int
  PROVE  /\ d * DayLength \in Int /\ s.start \in Int /\ s.end \in Int
         /\ Begin(d, s) \in Int /\ End(d, s) \in Int
         /\ Local(Begin(d, s)) = d * DayLength + s.start /\ Local(End(d, s)) = d * DayLength + s.end
         /\ \A i \in Int : Local(i) >= d * DayLength + s.start <=> i >= Begin(d, s)
         /\ \A i \in Int : Local(i) >= d * DayLength + s.end <=> i >= End(d, s)
         /\ ToUtc(d, s.start) = Begin(d, s) /\ ToUtc(d, s.end) = End(d, s)
         /\ Begin(d, s) < End(d, s)
<1>1. s.start \in Int /\ s.end \in Int /\ s.start < s.end /\ DayLength \in Nat /\ ZoneIs
  BY ShiftIs DEF BoundsHold
<1>2. d * DayLength \in Int
  BY <1>1
<1>3. PICK l, m : l = d * DayLength + s.start /\ m = d * DayLength + s.end
  OBVIOUS
<1>4. l \in Int /\ m \in Int /\ l < m /\ ExistsOnce(l) /\ ExistsOnce(m)
  BY <1>1, <1>2, <1>3, AllBoundsExistOnce
<1>5. Begin(d, s) = Instant(l) /\ End(d, s) = Instant(m)
  BY <1>3 DEF Begin, End
<1>6. /\ Instant(l) \in Int /\ Local(Instant(l)) = l /\ \A i \in Int : Local(i) >= l <=> i >= Instant(l)
      /\ ToUtc(d, s.start) = Instant(l)
  BY <1>1, <1>3, <1>4, InstantIs
<1>7. /\ Instant(m) \in Int /\ Local(Instant(m)) = m /\ \A i \in Int : Local(i) >= m <=> i >= Instant(m)
      /\ ToUtc(d, s.end) = Instant(m)
  BY <1>1, <1>3, <1>4, InstantIs
<1>8. Instant(l) < Instant(m)
  BY <1>4, <1>6, <1>7
<1> QED BY <1>1, <1>2, <1>3, <1>5, <1>6, <1>7, <1>8

\* A shift lies within its date: before it, the dates before; after it, the dates after.
LEMMA ShiftWithinDate ==
  ASSUME BoundsHold, NEW s \in slaCalendar.shifts, NEW d \in Int, NEW i \in Int
  PROVE  /\ LocalDate(i) < d => i < Begin(d, s)
         /\ LocalDate(i) > d => End(d, s) <= i
<1>1. PICK p, len : p = d * DayLength /\ len = DayLength
  OBVIOUS
<1>2. /\ p \in Int /\ s.start \in 0..len - 2 /\ s.end \in 0..len - 2 /\ len \in Nat
      /\ Begin(d, s) \in Int /\ End(d, s) \in Int
      /\ Local(i) >= p + s.start <=> i >= Begin(d, s)
      /\ Local(i) >= p + s.end <=> i >= End(d, s)
  BY <1>1, BoundsAre, ShiftIs DEF BoundsHold
<1>3. Local(i) \in Int
  BY LocalIs DEF BoundsHold
<1>4. LocalDate(i) < d <=> Local(i) < p
  BY <1>1, <1>3, DateOfTick DEF LocalDate
<1>5. LocalDate(i) > d <=> Local(i) >= p + len
  BY <1>1, <1>3, DateOfTick DEF LocalDate
<1> QED BY <1>2, <1>3, <1>4, <1>5

\* Shifts in a row.
LEMMA ShiftsFollow ==
  ASSUME BoundsHold, NEW s \in slaCalendar.shifts, NEW t \in slaCalendar.shifts, NEW d \in Int, NEW e \in Int
  PROVE  /\ d < e => End(d, s) <= Begin(e, t)
         /\ s.end <= t.start => End(d, s) <= Begin(d, t)
         /\ s.start <= t.start => Begin(d, s) <= Begin(d, t)
         /\ s.end <= t.end => End(d, s) <= End(d, t)
<1>1. PICK p, q, len : p = d * DayLength /\ q = e * DayLength /\ len = DayLength
  OBVIOUS
<1>2. /\ p \in Int /\ s.start \in 0..len - 2 /\ s.end \in 0..len - 2 /\ len \in Nat
      /\ Begin(d, s) \in Int /\ End(d, s) \in Int
      /\ \A i \in Int : Local(i) >= p + s.start <=> i >= Begin(d, s)
      /\ \A i \in Int : Local(i) >= p + s.end <=> i >= End(d, s)
  BY <1>1, BoundsAre, ShiftIs DEF BoundsHold
<1>3. /\ t.start \in 0..len - 2 /\ t.end \in 0..len - 2
      /\ Begin(d, t) \in Int /\ End(d, t) \in Int
      /\ Local(Begin(d, t)) = p + t.start /\ Local(End(d, t)) = p + t.end
  BY <1>1, BoundsAre, ShiftIs DEF BoundsHold
<1>4. q \in Int /\ Begin(e, t) \in Int /\ Local(Begin(e, t)) = q + t.start
  BY <1>1, BoundsAre
<1>5. d < e => p + len <= q
  BY <1>1, DatesFollow
<1>6. d < e => End(d, s) <= Begin(e, t)
  BY <1>2, <1>3, <1>4, <1>5
<1>7. s.end <= t.start => End(d, s) <= Begin(d, t)
  BY <1>2, <1>3
<1>8. s.start <= t.start => Begin(d, s) <= Begin(d, t)
  BY <1>2, <1>3
<1>9. s.end <= t.end => End(d, s) <= End(d, t)
  BY <1>2, <1>3
<1> QED BY <1>6, <1>7, <1>8, <1>9

\* Two shifts of a date are apart.
LEMMA ShiftsApart ==
  ASSUME BoundsHold, NEW d \in Int, NEW s \in ShiftsOf(d), NEW t \in ShiftsOf(d), s # t
  PROVE  End(d, s) <= Begin(d, t) \/ End(d, t) <= Begin(d, s)
<1>1. s \in slaCalendar.shifts /\ t \in slaCalendar.shifts /\ s.days \cap t.days # {}
  BY DEF ShiftsOf
<1>2. s.end <= t.start \/ t.end <= s.start
  BY <1>1, CalendarsAreValid DEF WellFormed, BoundsHold
<1> QED BY <1>1, <1>2, ShiftsFollow

\* Working time is that of the shifts.
LEMMA WorkedIs ==
  ASSUME BoundsHold, timeMode # "CALENDAR", NEW i \in Int
  PROVE  /\ \A d \in Int : \A s \in ShiftsOf(d) : Begin(d, s) <= i /\ i < End(d, s) => Worked(i)
         /\ Worked(i) => \E d \in Int : \E s \in ShiftsOf(d) : Begin(d, s) <= i /\ i < End(d, s)
<1>1. PICK l, e, x : l = Local(i) /\ e = LocalDate(i) /\ x = Local(i) % DayLength
  OBVIOUS
<1>2. l \in Int /\ e = l \div DayLength /\ e \in Int
  BY <1>1, LocalIs, TickOfDate DEF BoundsHold, LocalDate
<1>3. x \in Int /\ e * DayLength \in Int /\ l = e * DayLength + x
  <2>1. x = l % DayLength
    BY <1>1
  <2>2. l % DayLength \in 0..DayLength - 1 /\ DayLength \in Int
    BY <1>2, TickOfDate, CalendarsAreValid
  <2>3. e * DayLength \in Int /\ l = e * DayLength + (l % DayLength)
    BY <1>2, DateOfTick
  <2> QED BY <2>1, <2>2, <2>3
<1>4. \A s \in slaCalendar.shifts :
        (s.start <= x /\ x < s.end) <=> (Begin(e, s) <= i /\ i < End(e, s))
  <2> SUFFICES ASSUME NEW s \in slaCalendar.shifts
               PROVE  (s.start <= x /\ x < s.end) <=> (Begin(e, s) <= i /\ i < End(e, s))
    OBVIOUS
  <2>1. /\ s.start \in Int /\ s.end \in Int /\ Begin(e, s) \in Int /\ End(e, s) \in Int
        /\ Local(i) >= e * DayLength + s.start <=> i >= Begin(e, s)
        /\ Local(i) >= e * DayLength + s.end <=> i >= End(e, s)
    BY <1>2, BoundsAre
  <2> QED BY <1>1, <1>3, <2>1
<1>5. Worked(i) <=> \E s \in ShiftsOf(e) : s.start <= x /\ x < s.end
  BY <1>1 DEF Worked, ShiftsOf
<1>6. \A s \in ShiftsOf(e) : s \in slaCalendar.shifts
  BY DEF ShiftsOf
<1>7. ASSUME NEW d \in Int, NEW s \in ShiftsOf(d), Begin(d, s) <= i, i < End(d, s)
      PROVE  Worked(i)
  <2>1. s \in slaCalendar.shifts
    BY DEF ShiftsOf
  <2>2. Begin(d, s) \in Int /\ End(d, s) \in Int
    BY <2>1, BoundsAre
  <2>3. ~(e < d) /\ ~(e > d)
    BY <1>1, <1>7, <2>1, <2>2, ShiftWithinDate
  <2>4. e = d
    BY <1>2, <2>3
  <2> QED BY <1>4, <1>5, <1>7, <2>1, <2>4
<1>8. ASSUME Worked(i)
      PROVE  \E d \in Int : \E s \in ShiftsOf(d) : Begin(d, s) <= i /\ i < End(d, s)
  BY <1>2, <1>4, <1>5, <1>6, <1>8
<1> QED BY <1>7, <1>8

\* The edge of a date that a walk enters it by is outside its shifts.
LEMMA EdgesOfDate ==
  ASSUME BoundsHold, NEW s \in slaCalendar.shifts, NEW d \in Int
  PROVE  /\ ToUtc(d, 0) \in Int /\ ToUtc(d, 0) <= Begin(d, s)
         /\ ToUtc(d, DayLength - 1) \in Int /\ End(d, s) <= ToUtc(d, DayLength - 1)
<1>1. PICK p, len : p = d * DayLength /\ len = DayLength
  OBVIOUS
<1>2. PICK u, v : u = zone.at + zone.before /\ v = zone.at + zone.after
  OBVIOUS
<1>3. /\ ZoneIs /\ p \in Int /\ len \in Nat /\ len > 2 /\ u \in Int /\ v \in Int
      /\ zone.at \in Int /\ zone.before \in Int /\ zone.after \in Int
      /\ s.start \in 0..len - 2 /\ s.end \in 0..len - 2
  <2>1. p \in Int
    BY <1>1, BoundsAre
  <2>2. len \in Nat /\ len > 2 /\ s.start \in 0..len - 2 /\ s.end \in 0..len - 2
    BY <1>1, ShiftIs DEF BoundsHold
  <2>3. /\ ZoneIs /\ zone.at \in Int /\ zone.before \in Int /\ zone.after \in Int
    BY DEF BoundsHold, ZoneIs
  <2> QED BY <1>2, <2>1, <2>2, <2>3
<1>4. PICK l, m, k : l = p + s.start /\ m = p + s.end /\ k = p + (len - 1)
  OBVIOUS
<1>5. l \in Int /\ m \in Int /\ k \in Int /\ p <= l /\ m < k
  BY <1>3, <1>4
<1>6. ExistsOnce(l) /\ ExistsOnce(m)
  BY <1>1, <1>4, AllBoundsExistOnce
<1>7. Begin(d, s) = Instant(l) /\ End(d, s) = Instant(m)
  BY <1>1, <1>4 DEF Begin, End
<1>8. u < v => \A i \in Int : u <= i /\ i < v => i \div DayLength = u \div DayLength /\ i \div DayLength = (v - 1) \div DayLength
  <2> SUFFICES ASSUME u < v, NEW i \in Int, u <= i, i < v
               PROVE  i \div DayLength = u \div DayLength /\ i \div DayLength = (v - 1) \div DayLength
    OBVIOUS
  <2>1. PICK a, b, c : a = u \div DayLength /\ b = i \div DayLength /\ c = (v - 1) \div DayLength
    OBVIOUS
  <2>2. a = c
    BY <1>2, <1>3, <2>1 DEF ZoneIs
  <2>3. /\ a \in Int /\ a * DayLength \in Int /\ a * DayLength <= u
        /\ c \in Int /\ v - 1 < c * DayLength + DayLength
    BY <1>3, <2>1, DateEdges, v - 1 \in Int
  <2>4. i >= a * DayLength /\ i < a * DayLength + DayLength
    BY <1>1, <1>3, <2>2, <2>3
  <2>5. ~(b < a) /\ ~(b > a)
    <3>1. /\ i \div DayLength < a <=> i < a * DayLength
          /\ i \div DayLength > a <=> i >= a * DayLength + DayLength
      BY <2>3, DateOfTick
    <3>2. PICK q : q = a * DayLength
      OBVIOUS
    <3>3. q \in Int /\ ~(i < q) /\ ~(i >= q + len)
      BY <1>1, <1>3, <2>3, <2>4, <3>2
    <3> QED BY <1>1, <2>1, <3>1, <3>2, <3>3
  <2>6. b \in Int
    BY <2>1, TickOfDate
  <2> QED BY <2>1, <2>2, <2>3, <2>5, <2>6
<1>9. ToUtc(d, 0) \in Int /\ ToUtc(d, 0) <= Begin(d, s)
  <2>1. p = d * DayLength + 0
    BY <1>1, <1>3
  <2>2. /\ ToUtc(d, 0) \in Int /\ ToUtc(d, 0) \in {p - zone.before, p - zone.after}
        /\ p < u /\ p < v => ToUtc(d, 0) = p - zone.before
        /\ p >= u /\ p >= v => ToUtc(d, 0) = p - zone.after
    BY <1>2, <1>3, <2>1, ToUtcIs
  <2>3. p >= u /\ p < v => p = u
    <3> SUFFICES ASSUME p >= u, p < v PROVE p = u
      OBVIOUS
    <3>1. p \div DayLength = u \div DayLength
      BY <1>3, <1>8
    <3>2. PICK a : a = u \div DayLength /\ a = p \div DayLength
      BY <3>1
    <3>3. a \in Int /\ a * DayLength \in Int /\ a * DayLength <= u
      BY <1>3, <3>2, DateEdges
    <3>4. ~(p \div DayLength < d) /\ ~(p \div DayLength > d)
      <4>1. /\ p \div DayLength < d <=> p < d * DayLength
            /\ p \div DayLength > d <=> p >= d * DayLength + DayLength
        BY <1>3, DateOfTick
      <4>2. ~(p < p) /\ ~(p >= p + len)
        BY <1>3
      <4> QED BY <1>1, <4>1, <4>2
    <3>5. a = d
      BY <3>2, <3>3, <3>4
    <3> QED BY <1>1, <1>3, <3>3, <3>5
  <2>4. l < u <=> l < v
    BY <1>2, <1>3, <1>5, <1>6 DEF ExistsOnce
  <2>5. Instant(l) = IF l < u THEN l - zone.before ELSE l - zone.after
    BY <1>2 DEF Instant
  <2>6. CASE l < u
    BY <1>2, <1>3, <1>5, <1>7, <2>2, <2>4, <2>5, <2>6
  <2>7. CASE ~(l < u)
    BY <1>2, <1>3, <1>5, <1>7, <2>2, <2>3, <2>4, <2>5, <2>7
  <2> QED BY <2>2, <2>6, <2>7
<1>10. ToUtc(d, DayLength - 1) \in Int /\ End(d, s) <= ToUtc(d, DayLength - 1)
  <2>1. k = d * DayLength + (DayLength - 1)
    BY <1>1, <1>4
  <2>2. /\ ToUtc(d, DayLength - 1) \in Int /\ ToUtc(d, DayLength - 1) \in {k - zone.before, k - zone.after}
        /\ k < u /\ k < v => ToUtc(d, DayLength - 1) = k - zone.before
        /\ k >= u /\ k >= v => ToUtc(d, DayLength - 1) = k - zone.after
    BY <1>2, <1>3, <1>5, <2>1, ToUtcIs
  <2>3. k >= u /\ k < v => k = v - 1
    <3> SUFFICES ASSUME k >= u, k < v PROVE k = v - 1
      OBVIOUS
    <3>1. k \div DayLength = (v - 1) \div DayLength
      BY <1>3, <1>5, <1>8
    <3>2. PICK a : a = (v - 1) \div DayLength /\ a = k \div DayLength
      BY <3>1
    <3>3. a \in Int /\ a * DayLength \in Int /\ v - 1 < a * DayLength + DayLength
      BY <1>3, <3>2, DateEdges, v - 1 \in Int
    <3>4. ~(k \div DayLength < d) /\ ~(k \div DayLength > d)
      <4>1. /\ k \div DayLength < d <=> k < d * DayLength
            /\ k \div DayLength > d <=> k >= d * DayLength + DayLength
        BY <1>5, DateOfTick
      <4>2. ~(k < p) /\ ~(k >= p + len)
        BY <1>3, <1>4
      <4> QED BY <1>1, <4>1, <4>2
    <3>5. a = d
      BY <3>2, <3>3, <3>4
    <3> QED BY <1>1, <1>3, <1>4, <1>5, <3>3, <3>5
  <2>4. m < u <=> m < v
    BY <1>2, <1>3, <1>5, <1>6 DEF ExistsOnce
  <2>5. Instant(m) = IF m < u THEN m - zone.before ELSE m - zone.after
    BY <1>2 DEF Instant
  <2>6. CASE m < u
    BY <1>2, <1>3, <1>5, <1>7, <2>2, <2>3, <2>4, <2>5, <2>6
  <2>7. CASE ~(m < u)
    BY <1>2, <1>3, <1>5, <1>7, <2>2, <2>4, <2>5, <2>7
  <2> QED BY <2>2, <2>6, <2>7
<1> QED BY <1>9, <1>10

-----------------------------------------------------------------------------
(* Worked time, counted.                                                   *)

WorkedOf(a, e) == {i \in a..e - 1 : Worked(i)}

\* Worked time is counted.
LEMMA WorkedIsFinite ==
  ASSUME NEW a \in Int, NEW e \in Int
  PROVE  /\ IsFiniteSet(WorkedOf(a, e)) /\ WorkedBetween(a, e) \in Nat
         /\ WorkedBetween(a, e) = Cardinality(WorkedOf(a, e))
<1>1. IsFiniteSet(a..e - 1)
  BY FS_Interval
<1>2. WorkedOf(a, e) \subseteq a..e - 1
  BY DEF WorkedOf
<1>3. IsFiniteSet(WorkedOf(a, e))
  BY <1>1, <1>2, FS_Subset
<1>4. WorkedBetween(a, e) = Cardinality(WorkedOf(a, e))
  BY DEF WorkedOf, WorkedBetween
<1> QED BY <1>3, <1>4, FS_CardinalityType

\* The ticks of an interval.
LEMMA IntervalCounts ==
  ASSUME NEW u \in Int, NEW v \in Int, u <= v
  PROVE  IsFiniteSet(u..v - 1) /\ Cardinality(u..v - 1) = v - u
<1>1. PICK w : w = v - 1
  OBVIOUS
<1>2. IsFiniteSet(u..w) /\ Cardinality(u..w) = IF u > w THEN 0 ELSE w - u + 1
  BY <1>1, FS_Interval
<1>3. (IF u > w THEN 0 ELSE w - u + 1) = v - u
  BY <1>1
<1> QED BY <1>1, <1>2, <1>3

\* No time is worked between an instant and itself.
LEMMA NothingBetween ==
  ASSUME NEW a \in Int
  PROVE  WorkedBetween(a, a) = 0
<1>1. WorkedOf(a, a) = {}
  BY DEF WorkedOf
<1> QED BY <1>1, WorkedIsFinite, FS_EmptySet

\* Worked time that is put together of two parts, one of them worked throughout.
LEMMA WorkedAddsUp ==
  ASSUME NEW a \in Int, NEW e \in Int, NEW b \in Int, NEW c \in Int, NEW u \in Int, NEW v \in Int, u <= v,
         WorkedOf(a, e) = WorkedOf(b, c) \cup (u..v - 1), WorkedOf(b, c) \cap (u..v - 1) = {}
  PROVE  WorkedBetween(a, e) = WorkedBetween(b, c) + (v - u)
<1>1. IsFiniteSet(u..v - 1) /\ Cardinality(u..v - 1) = v - u
  BY IntervalCounts
<1>2. PICK S, I : S = WorkedOf(b, c) /\ I = u..v - 1
  OBVIOUS
<1>3. Cardinality(S \cup I) = Cardinality(S) + Cardinality(I) - Cardinality(S \cap I)
  BY <1>1, <1>2, WorkedIsFinite, FS_Union
<1>4. Cardinality(S \cap I) = 0
  BY <1>2, FS_EmptySet
<1>5. Cardinality(S) \in Nat /\ Cardinality(S) = WorkedBetween(b, c)
  BY <1>2, WorkedIsFinite
<1>6. WorkedBetween(a, e) = Cardinality(S \cup I)
  BY <1>2, WorkedIsFinite
<1>7. Cardinality(I) = v - u
  BY <1>1, <1>2
<1> QED BY <1>3, <1>4, <1>5, <1>6, <1>7

\* Worked time grows by what is worked after it.
LEMMA WorkedAfter ==
  ASSUME NEW a \in Int, NEW p \in Int, NEW u \in Int, NEW e \in Int, a <= p, p <= u, u <= e,
         \A i \in p..u - 1 : ~Worked(i), \A i \in u..e - 1 : Worked(i)
  PROVE  WorkedBetween(a, e) = WorkedBetween(a, p) + (e - u)
<1>1. ASSUME NEW i \in a..e - 1, Worked(i) PROVE i \in WorkedOf(a, p) \cup (u..e - 1)
  <2>1. i \notin p..u - 1
    BY <1>1
  <2>2. i \in a..p - 1 \/ i \in u..e - 1
    BY <2>1
  <2> QED BY <1>1, <2>2 DEF WorkedOf
<1>2. WorkedOf(a, p) \subseteq WorkedOf(a, e)
  BY DEF WorkedOf
<1>3. u..e - 1 \subseteq WorkedOf(a, e)
  BY DEF WorkedOf
<1>4. WorkedOf(a, e) = WorkedOf(a, p) \cup (u..e - 1)
  BY <1>1, <1>2, <1>3 DEF WorkedOf
<1>5. WorkedOf(a, p) \cap (u..e - 1) = {}
  BY DEF WorkedOf
<1> QED BY <1>4, <1>5, WorkedAddsUp

\* Worked time grows by what is worked before it.
LEMMA WorkedBefore ==
  ASSUME NEW b \in Int, NEW u \in Int, NEW p \in Int, NEW f \in Int, b <= u, u <= p, p <= f,
         \A i \in u..p - 1 : ~Worked(i), \A i \in b..u - 1 : Worked(i)
  PROVE  WorkedBetween(b, f) = WorkedBetween(p, f) + (u - b)
<1>1. ASSUME NEW i \in b..f - 1, Worked(i) PROVE i \in WorkedOf(p, f) \cup (b..u - 1)
  <2>1. i \notin u..p - 1
    BY <1>1
  <2>2. i \in p..f - 1 \/ i \in b..u - 1
    BY <2>1
  <2> QED BY <1>1, <2>2 DEF WorkedOf
<1>2. WorkedOf(p, f) \subseteq WorkedOf(b, f)
  BY DEF WorkedOf
<1>3. b..u - 1 \subseteq WorkedOf(b, f)
  BY DEF WorkedOf
<1>4. WorkedOf(b, f) = WorkedOf(p, f) \cup (b..u - 1)
  BY <1>1, <1>2, <1>3 DEF WorkedOf
<1>5. WorkedOf(p, f) \cap (b..u - 1) = {}
  BY DEF WorkedOf
<1> QED BY <1>4, <1>5, WorkedAddsUp

\* From an instant that is worked and comes earlier, more is worked.
LEMMA EarlierWorksMore ==
  ASSUME NEW t \in Int, NEW a \in Int, NEW e \in Int, t < a, a <= e, Worked(t)
  PROVE  WorkedBetween(t, e) > WorkedBetween(a, e)
<1>1. PICK S : S = WorkedOf(a, e) \cup {t}
  OBVIOUS
<1>2. S \subseteq WorkedOf(t, e)
  BY <1>1 DEF WorkedOf
<1>3. t \notin WorkedOf(a, e)
  BY DEF WorkedOf
<1>4. IsFiniteSet(S) /\ Cardinality(S) = Cardinality(WorkedOf(a, e)) + 1
  BY <1>1, <1>3, WorkedIsFinite, FS_AddElement
<1>5. Cardinality(S) <= Cardinality(WorkedOf(t, e))
  BY <1>2, WorkedIsFinite, FS_Subset
<1>6. /\ WorkedBetween(a, e) \in Nat /\ WorkedBetween(a, e) = Cardinality(WorkedOf(a, e))
      /\ WorkedBetween(t, e) \in Nat /\ WorkedBetween(t, e) = Cardinality(WorkedOf(t, e))
  BY WorkedIsFinite
<1> QED BY <1>4, <1>5, <1>6

\* Around the clock, every tick is worked.
LEMMA WorkedAroundTheClock ==
  ASSUME timeMode = "CALENDAR", NEW a \in Int, NEW e \in Int, a <= e
  PROVE  WorkedBetween(a, e) = e - a /\ Worked(a) /\ Worked(e - 1)
<1>1. \A i \in Int : Worked(i)
  BY DEF Worked
<1>2. WorkedOf(a, e) = a..e - 1
  BY <1>1 DEF WorkedOf
<1>3. Cardinality(a..e - 1) = e - a
  BY IntervalCounts
<1> QED BY <1>1, <1>2, <1>3, WorkedIsFinite

-----------------------------------------------------------------------------
(* A walk forward.                                                         *)

\* A duration in progress, and the shifts before the walk and ahead of it.
Walking(w) ==
  /\ w \in [for : DeadlineNames, direction : {1, -1}, remaining : Nat \ {0}, cursor : Int,
            date : Int, shifts : SUBSET slaCalendar.shifts]
  /\ w.shifts \subseteq ShiftsOf(w.date)

AheadOf(w, d, s) == d > w.date \/ (d = w.date /\ s \in w.shifts)

\* The walk has come to p: it has counted what was worked since f, the shifts taken are
\* over, and those to come begin later.
ForwardTo(w, f, T, p) ==
  /\ p \in Int /\ f <= p
  /\ WorkedBetween(f, p) + w.remaining = T
  /\ \A d \in Int : \A s \in ShiftsOf(d) :
       IF AheadOf(w, d, s) THEN p <= Largest(f, Begin(d, s)) ELSE End(d, s) <= p

Forward(w, f, T) ==
  /\ Walking(w) /\ w.direction = 1 /\ LocalDate(f) <= w.date
  /\ \A s \in w.shifts : Largest(w.cursor, Begin(w.date, s)) = Largest(f, Begin(w.date, s))
  /\ \E p : ForwardTo(w, f, T, p)

\* What the walk takes of the next shift is the first to be worked since p.
LEMMA NextShiftForward ==
  ASSUME BoundsHold, timeMode # "CALENDAR", NEW f \in Int, NEW T, NEW w, Forward(w, f, T), NEW p, ForwardTo(w, f, T, p),
         NEW s \in w.shifts, ComesFirst(s, w.shifts, w.direction),
         NEW g, g = Largest(f, Begin(w.date, s)), NEW b, b = End(w.date, s)
  PROVE  /\ Usable(w, s) = [start |-> g, end |-> b]
         /\ p \in Int /\ g \in Int /\ b \in Int /\ p <= g /\ f <= p
         /\ \A i \in p..g - 1 : ~Worked(i)
         /\ \A i \in g..b - 1 : Worked(i)
<1>1. /\ w.date \in Int /\ s \in ShiftsOf(w.date) /\ s \in slaCalendar.shifts /\ w.direction = 1
      /\ w.shifts \subseteq ShiftsOf(w.date)
  BY DEF Forward, Walking, ShiftsOf
<1>2. PICK d, o : d = w.date /\ o = Begin(w.date, s)
  OBVIOUS
<1>3. d \in Int /\ o \in Int /\ b \in Int /\ o < b /\ g \in Int /\ o <= g /\ f <= g /\ (g = f \/ g = o)
  <2>1. d \in Int /\ o \in Int /\ b \in Int /\ o < b
    BY <1>1, <1>2, BoundsAre
  <2>2. g = IF f >= o THEN f ELSE o
    BY <1>2 DEF Largest
  <2> QED BY <2>1, <2>2
<1>4. p \in Int /\ f <= p /\ p <= g
  BY <1>1, <1>2 DEF ForwardTo, AheadOf
<1>5. Usable(w, s) = [start |-> g, end |-> b]
  <2>1. ToUtc(w.date, s.start) = o /\ ToUtc(w.date, s.end) = b
    BY <1>1, <1>2, BoundsAre
  <2>2. Largest(w.cursor, o) = g
    BY <1>2 DEF Forward
  <2> QED BY <1>1, <2>1, <2>2 DEF Usable
<1>6. ASSUME NEW i \in p..g - 1 PROVE ~Worked(i)
  <2>1. i \in Int /\ p <= i /\ i < g /\ f <= i
    BY <1>3, <1>4
  <2>2. g = o
    BY <1>3, <2>1
  <2>3. SUFFICES ASSUME NEW e \in Int, NEW t \in ShiftsOf(e), Begin(e, t) <= i, i < End(e, t) PROVE FALSE
    BY <2>1, WorkedIs
  <2>4. t \in slaCalendar.shifts
    BY DEF ShiftsOf
  <2>5. Begin(e, t) \in Int /\ End(e, t) \in Int
    BY <2>4, BoundsAre
  <2>6. CASE ~AheadOf(w, e, t)
    <3>1. End(e, t) <= p
      BY <2>6 DEF ForwardTo
    <3> QED BY <1>4, <2>1, <2>3, <2>5, <3>1
  <2>7. CASE e > d
    <3>1. b <= Begin(e, t)
      BY <1>1, <1>2, <2>4, <2>7, ShiftsFollow
    <3> QED BY <1>3, <2>1, <2>2, <2>3, <2>5, <3>1
  <2>8. CASE e = d /\ t \in w.shifts
    <3>1. s.start <= t.start
      BY <1>1, <2>8 DEF ComesFirst
    <3>2. o <= Begin(e, t)
      BY <1>1, <1>2, <2>4, <2>8, <3>1, ShiftsFollow
    <3> QED BY <1>3, <2>1, <2>2, <2>3, <2>5, <3>2
  <2> QED BY <1>2, <2>6, <2>7, <2>8 DEF AheadOf
<1>7. ASSUME NEW i \in g..b - 1 PROVE Worked(i)
  <2>1. i \in Int /\ o <= i /\ i < b
    BY <1>3
  <2> QED BY <1>1, <1>2, <2>1, WorkedIs
<1> QED BY <1>3, <1>4, <1>5, <1>6, <1>7

\* The duration ends within the shift: the answer is its deadline.
LEMMA AnswerForward ==
  ASSUME BoundsHold, timeMode # "CALENDAR", NEW f \in Int, NEW T, NEW w, Forward(w, f, T),
         NEW s \in w.shifts, ComesFirst(s, w.shifts, w.direction), NEW u, u = Usable(w, s),
         w.remaining <= Available(u), NEW t, t = u.start + w.remaining
  PROVE  t \in Int /\ f <= t /\ IsDeadline(t, f, T)
<1>1. PICK p : ForwardTo(w, f, T, p)
  BY DEF Forward
<1>2. PICK g, b : g = Largest(f, Begin(w.date, s)) /\ b = End(w.date, s)
  OBVIOUS
<1>3. /\ u = [start |-> g, end |-> b]
      /\ p \in Int /\ g \in Int /\ b \in Int /\ p <= g /\ f <= p
      /\ \A i \in p..g - 1 : ~Worked(i)
      /\ \A i \in g..b - 1 : Worked(i)
  BY <1>1, <1>2, NextShiftForward
<1>4. PICK r : r = w.remaining
  OBVIOUS
<1>5. r \in Nat \ {0} /\ u.start = g /\ u.end = b /\ t = g + r
  BY <1>3, <1>4 DEF Forward, Walking
<1>6. t <= b
  <2>1. r <= Largest(0, b - g)
    BY <1>4, <1>5 DEF Available
  <2> QED BY <1>3, <1>5, <2>1 DEF Largest
<1>7. t \in Int /\ f <= t /\ g <= t /\ t - 1 \in g..b - 1 /\ t - g = r
  BY <1>3, <1>5, <1>6
<1>8. \A i \in g..t - 1 : Worked(i)
  BY <1>3, <1>6, <1>7
<1>9. WorkedBetween(f, t) = WorkedBetween(f, p) + r
  <2>1. WorkedBetween(f, t) = WorkedBetween(f, p) + (t - g)
    <3>1. PICK e : e = t
      OBVIOUS
    <3>2. p \in Int /\ g \in Int /\ e \in Int /\ f <= p /\ p <= g /\ g <= e
      BY <1>3, <1>7, <3>1
    <3>3. \A i \in p..g - 1 : ~Worked(i)
      BY <1>3
    <3>4. \A i \in g..e - 1 : Worked(i)
      BY <1>8, <3>1
    <3>5. WorkedBetween(f, e) = WorkedBetween(f, p) + (e - g)
      BY <3>2, <3>3, <3>4, WorkedAfter, SMTT(30)
    <3> QED BY <3>1, <3>5
  <2> QED BY <1>7, <2>1
<1>10. WorkedBetween(f, p) + r = T /\ WorkedBetween(f, p) \in Nat
  BY <1>1, <1>3, <1>4, WorkedIsFinite DEF ForwardTo
<1>11. T # 0 /\ Worked(t - 1)
  BY <1>3, <1>5, <1>7, <1>10
<1> QED BY <1>7, <1>9, <1>10, <1>11 DEF IsDeadline

\* It does not: the walk goes on after the shift.
LEMMA ShiftTakenForward ==
  ASSUME BoundsHold, timeMode # "CALENDAR", NEW f \in Int, NEW T, NEW w, Forward(w, f, T),
         NEW s \in w.shifts, ComesFirst(s, w.shifts, w.direction), NEW u, u = Usable(w, s),
         w.remaining > Available(u),
         NEW v, v = [w EXCEPT !.remaining = @ - Available(u), !.shifts = @ \ {s}]
  PROVE  Forward(v, f, T)
<1>1. PICK p : ForwardTo(w, f, T, p)
  BY DEF Forward
<1>2. PICK g, b : g = Largest(f, Begin(w.date, s)) /\ b = End(w.date, s)
  OBVIOUS
<1>3. /\ u = [start |-> g, end |-> b]
      /\ p \in Int /\ g \in Int /\ b \in Int /\ p <= g /\ f <= p
      /\ \A i \in p..g - 1 : ~Worked(i)
      /\ \A i \in g..b - 1 : Worked(i)
  BY <1>1, <1>2, NextShiftForward
<1>4. PICK r, a : r = w.remaining /\ a = Available(u)
  OBVIOUS
<1>5. r \in Nat \ {0} /\ a \in Nat /\ a = Largest(0, b - g) /\ a < r
  <2>1. a = Largest(0, b - g)
    BY <1>3, <1>4 DEF Available
  <2>2. r \in Nat \ {0} /\ r > a
    BY <1>4 DEF Forward, Walking
  <2> QED BY <1>3, <2>1, <2>2 DEF Largest
<1>6. /\ v \in [for : DeadlineNames, direction : {1, -1}, remaining : Nat \ {0}, cursor : Int,
                date : Int, shifts : SUBSET slaCalendar.shifts]
      /\ v.date = w.date /\ v.direction = w.direction /\ v.cursor = w.cursor
      /\ v.remaining = r - a /\ v.shifts = w.shifts \ {s}
  <2>1. r - a \in Nat \ {0}
    BY <1>5
  <2>2. w \in [for : DeadlineNames, direction : {1, -1}, remaining : Nat \ {0}, cursor : Int,
               date : Int, shifts : SUBSET slaCalendar.shifts]
    BY DEF Forward, Walking
  <2>3. v = [w EXCEPT !.remaining = r - a, !.shifts = w.shifts \ {s}]
    BY <1>4, <2>2
  <2> QED BY <2>1, <2>2, <2>3
<1>7. /\ w.date \in Int /\ s \in ShiftsOf(w.date) /\ s \in slaCalendar.shifts /\ w.direction = 1
      /\ w.shifts \subseteq ShiftsOf(w.date)
  BY DEF Forward, Walking, ShiftsOf
<1>8. \A d, t : AheadOf(v, d, t) <=> AheadOf(w, d, t) /\ ~(d = w.date /\ t = s)
  BY <1>6, <1>7 DEF AheadOf
<1>9. WorkedBetween(f, p) \in Nat /\ WorkedBetween(f, p) + r = T
  BY <1>1, <1>3, <1>4, WorkedIsFinite DEF ForwardTo
<1>10. \E q : ForwardTo(v, f, T, q)
  <2>1. CASE b <= g
    <3>1. a = 0
      BY <1>3, <1>5, <2>1 DEF Largest
    <3>2. b <= p
      <4>1. Begin(w.date, s) \in Int /\ Begin(w.date, s) < b
        BY <1>2, <1>7, BoundsAre
      <4>2. g = f
        BY <1>2, <1>3, <2>1, <4>1 DEF Largest
      <4> QED BY <1>3, <2>1, <4>2
    <3>3. WorkedBetween(f, p) + v.remaining = T
      BY <1>5, <1>6, <1>9, <3>1
    <3>4. ASSUME NEW d \in Int, NEW t \in ShiftsOf(d)
          PROVE  IF AheadOf(v, d, t) THEN p <= Largest(f, Begin(d, t)) ELSE End(d, t) <= p
      BY <1>1, <1>2, <1>8, <3>2 DEF ForwardTo
    <3>5. ForwardTo(v, f, T, p)
      BY <1>3, <3>3, <3>4 DEF ForwardTo
    <3> QED BY <3>5
  <2>2. CASE g < b
    <3>1. a = b - g
      BY <1>3, <1>5, <2>2 DEF Largest
    <3>2. WorkedBetween(f, b) = WorkedBetween(f, p) + (b - g)
      BY <1>3, <2>2, WorkedAfter
    <3>3. WorkedBetween(f, b) + v.remaining = T
      BY <1>3, <1>5, <1>6, <1>9, <3>1, <3>2
    <3>4. ASSUME NEW d \in Int, NEW t \in ShiftsOf(d)
          PROVE  IF AheadOf(v, d, t) THEN b <= Largest(f, Begin(d, t)) ELSE End(d, t) <= b
      <4>1. t \in slaCalendar.shifts
        BY DEF ShiftsOf
      <4>2. Begin(d, t) \in Int /\ End(d, t) \in Int /\ Begin(d, t) < End(d, t)
        BY <4>1, BoundsAre
      <4>3. Begin(d, t) <= Largest(f, Begin(d, t))
        BY <4>2 DEF Largest
      <4>4. CASE ~AheadOf(w, d, t)
        <5>1. End(d, t) <= p
          BY <1>1, <4>4 DEF ForwardTo
        <5> QED BY <1>3, <1>8, <2>2, <4>2, <4>4, <5>1
      <4>5. CASE d = w.date /\ t = s
        BY <1>2, <1>3, <1>8, <4>5
      <4>6. CASE d > w.date
        <5>1. b <= Begin(d, t)
          BY <1>2, <1>7, <4>1, <4>6, ShiftsFollow
        <5>2. AheadOf(v, d, t)
          BY <1>6, <4>6 DEF AheadOf
        <5>3. b <= Largest(f, Begin(d, t))
          BY <1>3, <4>2, <5>1 DEF Largest
        <5> QED BY <5>2, <5>3
      <4>7. CASE d = w.date /\ t \in w.shifts /\ t # s
        <5>1. s.start <= t.start
          BY <1>7, <4>7 DEF ComesFirst
        <5>2. Begin(d, s) <= Begin(d, t)
          BY <1>7, <4>1, <4>7, <5>1, ShiftsFollow
        <5>3. b <= Begin(d, t) \/ End(d, t) <= Begin(d, s)
          BY <1>2, <1>7, <4>7, ShiftsApart
        <5>4. Begin(d, s) \in Int
          BY <1>7, <4>7, BoundsAre
        <5>5. b <= Begin(d, t)
          BY <1>3, <4>2, <5>2, <5>3, <5>4
        <5>6. AheadOf(v, d, t)
          BY <1>6, <4>7 DEF AheadOf
        <5>7. b <= Largest(f, Begin(d, t))
          BY <1>3, <4>2, <5>5 DEF Largest
        <5> QED BY <5>6, <5>7
      <4> QED BY <4>4, <4>5, <4>6, <4>7 DEF AheadOf
    <3>5. ForwardTo(v, f, T, b)
      BY <1>3, <2>2, <3>3, <3>4 DEF ForwardTo
    <3> QED BY <3>5
  <2> QED BY <1>3, <2>1, <2>2
<1>11. \A t \in v.shifts : Largest(v.cursor, Begin(v.date, t)) = Largest(f, Begin(v.date, t))
  BY <1>6 DEF Forward
<1>12. v.shifts \subseteq ShiftsOf(v.date) /\ LocalDate(f) <= v.date /\ v.direction = 1
  BY <1>6, <1>7 DEF Forward
<1> QED BY <1>6, <1>10, <1>11, <1>12 DEF Forward, Walking

\* The walk goes on the next day.
LEMMA DayEndsForward ==
  ASSUME BoundsHold, NEW f \in Int, NEW T, NEW w, Forward(w, f, T), w.shifts = {},
         NEW date, date = w.date + w.direction,
         NEW v, v = [w EXCEPT !.date = date, !.shifts = ShiftsOf(date), !.cursor = EdgeOf(w, date)]
  PROVE  Forward(v, f, T)
<1>1. /\ w.date \in Int /\ w.direction = 1 /\ date \in Int /\ date = w.date + 1 /\ LocalDate(f) <= w.date
      /\ w \in [for : DeadlineNames, direction : {1, -1}, remaining : Nat \ {0}, cursor : Int,
                date : Int, shifts : SUBSET slaCalendar.shifts]
  BY DEF Forward, Walking
<1>2. ShiftsOf(date) \subseteq slaCalendar.shifts
  BY DEF ShiftsOf
<1>3. PICK c : c = EdgeOf(w, date)
  OBVIOUS
<1>4. c = ToUtc(date, 0) /\ c \in Int
  <2>1. c = ToUtc(date, 0)
    BY <1>1, <1>3 DEF EdgeOf
  <2>2. ToUtc(date, 0) \in Int
    BY <1>1, AnyInstant DEF BoundsHold
  <2> QED BY <2>1, <2>2
<1>5. /\ v \in [for : DeadlineNames, direction : {1, -1}, remaining : Nat \ {0}, cursor : Int,
                date : Int, shifts : SUBSET slaCalendar.shifts]
      /\ v.date = date /\ v.direction = w.direction /\ v.cursor = c
      /\ v.remaining = w.remaining /\ v.shifts = ShiftsOf(date)
  BY <1>1, <1>2, <1>3, <1>4
<1>6. ASSUME NEW s \in v.shifts PROVE Largest(v.cursor, Begin(v.date, s)) = Largest(f, Begin(v.date, s))
  <2>1. s \in slaCalendar.shifts
    BY <1>2, <1>5
  <2>2. c <= Begin(date, s) /\ Begin(date, s) \in Int
    BY <1>1, <1>4, <2>1, EdgesOfDate, BoundsAre
  <2>3. LocalDate(f) < date
    BY <1>1, LocalDateIs DEF BoundsHold
  <2>4. f < Begin(date, s)
    BY <1>1, <2>1, <2>3, ShiftWithinDate
  <2> QED BY <1>4, <1>5, <2>2, <2>4 DEF Largest
<1>7. PICK p : ForwardTo(w, f, T, p)
  BY DEF Forward
<1>8. \A d \in Int : \A s \in ShiftsOf(d) : AheadOf(v, d, s) <=> AheadOf(w, d, s)
  BY <1>1, <1>5 DEF AheadOf
<1>9. ForwardTo(v, f, T, p)
  BY <1>5, <1>7, <1>8 DEF ForwardTo
<1>10. LocalDate(f) <= v.date
  BY <1>1, <1>5, LocalDateIs DEF BoundsHold
<1> QED BY <1>1, <1>5, <1>6, <1>9, <1>10 DEF Forward, Walking

\* A walk begins at its own instant, with the shifts of its date.
LEMMA WalkBeginsForward ==
  ASSUME BoundsHold, NEW f \in Int, NEW T \in Nat \ {0}, NEW for \in DeadlineNames
  PROVE  Forward(Walk(for, 1, f, T), f, T)
<1>1. PICK w, date : w = Walk(for, 1, f, T) /\ date = LocalDate(f)
  OBVIOUS
<1>2. date \in Int /\ ShiftsOf(date) \subseteq slaCalendar.shifts
  BY <1>1, LocalDateIs DEF ShiftsOf, BoundsHold
<1>3. /\ w \in [for : DeadlineNames, direction : {1, -1}, remaining : Nat \ {0}, cursor : Int,
                date : Int, shifts : SUBSET slaCalendar.shifts]
      /\ w.date = date /\ w.direction = 1 /\ w.cursor = f /\ w.remaining = T /\ w.shifts = ShiftsOf(date)
  BY <1>1, <1>2 DEF Walk
<1>4. WorkedBetween(f, f) + T = T
  BY NothingBetween
<1>5. ASSUME NEW d \in Int, NEW s \in ShiftsOf(d)
      PROVE  IF AheadOf(w, d, s) THEN f <= Largest(f, Begin(d, s)) ELSE End(d, s) <= f
  <2>1. s \in slaCalendar.shifts
    BY DEF ShiftsOf
  <2>2. Begin(d, s) \in Int /\ End(d, s) \in Int
    BY <2>1, BoundsAre
  <2>3. f <= Largest(f, Begin(d, s))
    BY <2>2 DEF Largest
  <2>4. ~AheadOf(w, d, s) => d < date
    BY <1>2, <1>3 DEF AheadOf
  <2>5. d < date => End(d, s) <= f
    BY <1>1, <1>2, <2>1, ShiftWithinDate
  <2> QED BY <2>3, <2>4, <2>5
<1>6. ForwardTo(w, f, T, f)
  BY <1>3, <1>4, <1>5 DEF ForwardTo
<1> QED BY <1>1, <1>2, <1>3, <1>6 DEF Forward, Walking

-----------------------------------------------------------------------------
(* A walk backward.                                                        *)

BehindOf(w, d, s) == d < w.date \/ (d = w.date /\ s \in w.shifts)

\* The walk has come back to p: it has counted what is worked from there until f, the
\* shifts taken are not yet begun, and those to come end earlier.
BackwardTo(w, f, T, p) ==
  /\ p \in Int /\ p <= f
  /\ WorkedBetween(p, f) + w.remaining = T
  /\ \A d \in Int : \A s \in ShiftsOf(d) :
       IF BehindOf(w, d, s) THEN Smallest(f, End(d, s)) <= p ELSE p <= Begin(d, s)

Backward(w, f, T) ==
  /\ Walking(w) /\ w.direction = -1 /\ w.date <= LocalDate(f)
  /\ \A s \in w.shifts : Smallest(w.cursor, End(w.date, s)) = Smallest(f, End(w.date, s))
  /\ \E p : BackwardTo(w, f, T, p)

\* What the walk takes of the next shift is the last to be worked before p.
LEMMA NextShiftBackward ==
  ASSUME BoundsHold, timeMode # "CALENDAR", NEW f \in Int, NEW T, NEW w, Backward(w, f, T), NEW p, BackwardTo(w, f, T, p),
         NEW s \in w.shifts, ComesFirst(s, w.shifts, w.direction),
         NEW g, g = Smallest(f, End(w.date, s)), NEW o, o = Begin(w.date, s)
  PROVE  /\ Usable(w, s) = [start |-> o, end |-> g]
         /\ p \in Int /\ g \in Int /\ o \in Int /\ g <= p /\ p <= f
         /\ \A i \in g..p - 1 : ~Worked(i)
         /\ \A i \in o..g - 1 : Worked(i)
<1>1. /\ w.date \in Int /\ s \in ShiftsOf(w.date) /\ s \in slaCalendar.shifts /\ w.direction = -1
      /\ w.shifts \subseteq ShiftsOf(w.date)
  BY DEF Backward, Walking, ShiftsOf
<1>2. PICK d, b : d = w.date /\ b = End(w.date, s)
  OBVIOUS
<1>3. d \in Int /\ o \in Int /\ b \in Int /\ o < b /\ g \in Int /\ g <= b /\ g <= f /\ (g = f \/ g = b)
  <2>1. d \in Int /\ o \in Int /\ b \in Int /\ o < b
    BY <1>1, <1>2, BoundsAre
  <2>2. g = IF f <= b THEN f ELSE b
    BY <1>2 DEF Smallest
  <2> QED BY <2>1, <2>2
<1>4. p \in Int /\ p <= f /\ g <= p
  BY <1>1, <1>2 DEF BackwardTo, BehindOf
<1>5. Usable(w, s) = [start |-> o, end |-> g]
  <2>1. ToUtc(w.date, s.start) = o /\ ToUtc(w.date, s.end) = b
    BY <1>1, <1>2, BoundsAre
  <2>2. Smallest(w.cursor, b) = g
    BY <1>2 DEF Backward
  <2> QED BY <1>1, <2>1, <2>2 DEF Usable
<1>6. ASSUME NEW i \in g..p - 1 PROVE ~Worked(i)
  <2>1. i \in Int /\ g <= i /\ i < p /\ i < f
    BY <1>3, <1>4
  <2>2. g = b
    BY <1>3, <2>1
  <2>3. SUFFICES ASSUME NEW e \in Int, NEW t \in ShiftsOf(e), Begin(e, t) <= i, i < End(e, t) PROVE FALSE
    BY <2>1, WorkedIs
  <2>4. t \in slaCalendar.shifts
    BY DEF ShiftsOf
  <2>5. Begin(e, t) \in Int /\ End(e, t) \in Int
    BY <2>4, BoundsAre
  <2>6. CASE ~BehindOf(w, e, t)
    <3>1. p <= Begin(e, t)
      BY <2>6 DEF BackwardTo
    <3> QED BY <1>4, <2>1, <2>3, <2>5, <3>1
  <2>7. CASE e < d
    <3>1. End(e, t) <= o
      BY <1>1, <1>2, <2>4, <2>7, ShiftsFollow
    <3> QED BY <1>3, <2>1, <2>2, <2>3, <2>5, <3>1
  <2>8. CASE e = d /\ t \in w.shifts
    <3>1. t.start <= s.start
      <4>1. s.start >= t.start
        BY <1>1, <2>8 DEF ComesFirst
      <4>2. s.start \in Int /\ t.start \in Int
        BY <1>1, <1>2, <2>4, BoundsAre
      <4> QED BY <4>1, <4>2
    <3>2. Begin(e, t) <= o
      BY <1>1, <1>2, <2>4, <2>8, <3>1, ShiftsFollow
    <3>3. CASE t = s
      BY <1>2, <2>1, <2>2, <2>3, <2>8, <3>3, <1>3
    <3>4. CASE t # s
      <4>1. End(d, s) <= Begin(d, t) \/ End(d, t) <= Begin(d, s)
        BY <1>1, <1>2, <2>8, <3>4, ShiftsApart
      <4> QED BY <1>2, <1>3, <2>1, <2>2, <2>3, <2>5, <2>8, <3>2, <4>1
    <3> QED BY <3>3, <3>4
  <2> QED BY <1>2, <2>6, <2>7, <2>8 DEF BehindOf
<1>7. ASSUME NEW i \in o..g - 1 PROVE Worked(i)
  <2>1. i \in Int /\ o <= i /\ i < b
    BY <1>3
  <2> QED BY <1>1, <1>2, <2>1, WorkedIs
<1> QED BY <1>3, <1>4, <1>5, <1>6, <1>7

\* The duration ends within the shift: the answer leaves it to be worked.
LEMMA AnswerBackward ==
  ASSUME BoundsHold, timeMode # "CALENDAR", NEW f \in Int, NEW T, NEW w, Backward(w, f, T),
         NEW s \in w.shifts, ComesFirst(s, w.shifts, w.direction), NEW u, u = Usable(w, s),
         w.remaining <= Available(u), NEW t, t = u.end - w.remaining
  PROVE  t \in Int /\ t <= f /\ IsWarning(t, f, T)
<1>1. PICK p : BackwardTo(w, f, T, p)
  BY DEF Backward
<1>2. PICK g, o : g = Smallest(f, End(w.date, s)) /\ o = Begin(w.date, s)
  OBVIOUS
<1>3. /\ u = [start |-> o, end |-> g]
      /\ p \in Int /\ g \in Int /\ o \in Int /\ g <= p /\ p <= f
      /\ \A i \in g..p - 1 : ~Worked(i)
      /\ \A i \in o..g - 1 : Worked(i)
  BY <1>1, <1>2, NextShiftBackward
<1>4. PICK r, e : r = w.remaining /\ e = t
  OBVIOUS
<1>5. r \in Nat \ {0} /\ u.start = o /\ u.end = g /\ e = g - r
  <2>1. u.start = o /\ u.end = g
    BY <1>3
  <2>2. e = g - r
    BY <1>4, <2>1
  <2>3. r \in Nat \ {0}
    BY <1>4 DEF Backward, Walking
  <2> QED BY <2>1, <2>2, <2>3
<1>6. o <= e
  <2>1. r <= Largest(0, g - o)
    BY <1>4, <1>5 DEF Available
  <2> QED BY <1>3, <1>5, <2>1 DEF Largest
<1>7. e \in Int /\ e <= f /\ e <= g /\ e \in o..g - 1 /\ g - e = r
  BY <1>3, <1>5, <1>6
<1>8. \A i \in e..g - 1 : Worked(i)
  BY <1>3, <1>6, <1>7
<1>9. WorkedBetween(e, f) = WorkedBetween(p, f) + r
  <2>1. \A i \in g..p - 1 : ~Worked(i)
    BY <1>3
  <2>2. p \in Int /\ g \in Int /\ g <= p /\ p <= f /\ e <= g /\ e \in Int
    BY <1>3, <1>7
  <2>3. WorkedBetween(e, f) = WorkedBetween(p, f) + (g - e)
    BY <1>8, <2>1, <2>2, WorkedBefore
  <2> QED BY <1>7, <2>3
<1>10. WorkedBetween(p, f) + r = T /\ WorkedBetween(p, f) \in Nat
  BY <1>1, <1>3, <1>4, WorkedIsFinite DEF BackwardTo
<1>11. T # 0 /\ Worked(e)
  BY <1>3, <1>5, <1>7, <1>10
<1> QED BY <1>4, <1>7, <1>9, <1>10, <1>11 DEF IsWarning

\* It does not: the walk goes on before the shift.
LEMMA ShiftTakenBackward ==
  ASSUME BoundsHold, timeMode # "CALENDAR", NEW f \in Int, NEW T, NEW w, Backward(w, f, T),
         NEW s \in w.shifts, ComesFirst(s, w.shifts, w.direction), NEW u, u = Usable(w, s),
         w.remaining > Available(u),
         NEW v, v = [w EXCEPT !.remaining = @ - Available(u), !.shifts = @ \ {s}]
  PROVE  Backward(v, f, T)
<1>1. PICK p : BackwardTo(w, f, T, p)
  BY DEF Backward
<1>2. PICK g, o : g = Smallest(f, End(w.date, s)) /\ o = Begin(w.date, s)
  OBVIOUS
<1>3. /\ u = [start |-> o, end |-> g]
      /\ p \in Int /\ g \in Int /\ o \in Int /\ g <= p /\ p <= f
      /\ \A i \in g..p - 1 : ~Worked(i)
      /\ \A i \in o..g - 1 : Worked(i)
  BY <1>1, <1>2, NextShiftBackward
<1>4. PICK r, a : r = w.remaining /\ a = Available(u)
  OBVIOUS
<1>5. r \in Nat \ {0} /\ a \in Nat /\ a = Largest(0, g - o) /\ a < r
  <2>1. a = Largest(0, g - o)
    BY <1>3, <1>4 DEF Available
  <2>2. r \in Nat \ {0} /\ r > a
    BY <1>4 DEF Backward, Walking
  <2> QED BY <1>3, <2>1, <2>2 DEF Largest
<1>6. /\ v \in [for : DeadlineNames, direction : {1, -1}, remaining : Nat \ {0}, cursor : Int,
                date : Int, shifts : SUBSET slaCalendar.shifts]
      /\ v.date = w.date /\ v.direction = w.direction /\ v.cursor = w.cursor
      /\ v.remaining = r - a /\ v.shifts = w.shifts \ {s}
  <2>1. r - a \in Nat \ {0}
    BY <1>5
  <2>2. w \in [for : DeadlineNames, direction : {1, -1}, remaining : Nat \ {0}, cursor : Int,
               date : Int, shifts : SUBSET slaCalendar.shifts]
    BY DEF Backward, Walking
  <2>3. v = [w EXCEPT !.remaining = r - a, !.shifts = w.shifts \ {s}]
    BY <1>4, <2>2
  <2> QED BY <2>1, <2>2, <2>3
<1>7. /\ w.date \in Int /\ s \in ShiftsOf(w.date) /\ s \in slaCalendar.shifts /\ w.direction = -1
      /\ w.shifts \subseteq ShiftsOf(w.date)
  BY DEF Backward, Walking, ShiftsOf
<1>8. \A d, t : BehindOf(v, d, t) <=> BehindOf(w, d, t) /\ ~(d = w.date /\ t = s)
  BY <1>6, <1>7 DEF BehindOf
<1>9. WorkedBetween(p, f) \in Nat /\ WorkedBetween(p, f) + r = T
  BY <1>1, <1>3, <1>4, WorkedIsFinite DEF BackwardTo
<1>10. \E q : BackwardTo(v, f, T, q)
  <2>1. CASE g <= o
    <3>1. a = 0
      BY <1>3, <1>5, <2>1 DEF Largest
    <3>2. p <= o
      <4>1. End(w.date, s) \in Int /\ o < End(w.date, s)
        BY <1>2, <1>7, BoundsAre
      <4>2. g = f
        BY <1>2, <1>3, <2>1, <4>1 DEF Smallest
      <4> QED BY <1>3, <2>1, <4>2
    <3>3. WorkedBetween(p, f) + v.remaining = T
      BY <1>5, <1>6, <1>9, <3>1
    <3>4. ASSUME NEW d \in Int, NEW t \in ShiftsOf(d)
          PROVE  IF BehindOf(v, d, t) THEN Smallest(f, End(d, t)) <= p ELSE p <= Begin(d, t)
      BY <1>1, <1>2, <1>8, <3>2 DEF BackwardTo
    <3>5. BackwardTo(v, f, T, p)
      BY <1>3, <3>3, <3>4 DEF BackwardTo
    <3> QED BY <3>5
  <2>2. CASE o < g
    <3>1. a = g - o
      BY <1>3, <1>5, <2>2 DEF Largest
    <3>2. WorkedBetween(o, f) = WorkedBetween(p, f) + (g - o)
      <4>1. \A i \in g..p - 1 : ~Worked(i)
        BY <1>3
      <4>2. \A i \in o..g - 1 : Worked(i)
        BY <1>3
      <4>3. p \in Int /\ g \in Int /\ g <= p /\ p <= f /\ o <= g /\ o \in Int
        BY <1>3, <2>2
      <4> QED BY <4>1, <4>2, <4>3, WorkedBefore, SMTT(30)
    <3>3. WorkedBetween(o, f) + v.remaining = T
      BY <1>3, <1>5, <1>6, <1>9, <3>1, <3>2
    <3>4. ASSUME NEW d \in Int, NEW t \in ShiftsOf(d)
          PROVE  IF BehindOf(v, d, t) THEN Smallest(f, End(d, t)) <= o ELSE o <= Begin(d, t)
      <4>1. t \in slaCalendar.shifts
        BY DEF ShiftsOf
      <4>2. Begin(d, t) \in Int /\ End(d, t) \in Int /\ Begin(d, t) < End(d, t)
        BY <4>1, BoundsAre
      <4>3. CASE ~BehindOf(w, d, t)
        <5>1. p <= Begin(d, t)
          BY <1>1, <4>3 DEF BackwardTo
        <5> QED BY <1>3, <1>8, <2>2, <4>2, <4>3, <5>1
      <4>4. CASE d = w.date /\ t = s
        BY <1>2, <1>3, <1>8, <4>4
      <4>5. CASE d < w.date
        <5>1. End(d, t) <= o
          BY <1>2, <1>7, <4>1, <4>5, ShiftsFollow
        <5>2. BehindOf(v, d, t)
          BY <1>6, <4>5 DEF BehindOf
        <5>3. Smallest(f, End(d, t)) <= o
          BY <1>3, <4>2, <5>1 DEF Smallest
        <5> QED BY <5>2, <5>3
      <4>6. CASE d = w.date /\ t \in w.shifts /\ t # s
        <5>1. t.start <= s.start
          <6>1. s.start >= t.start
            BY <1>7, <4>6 DEF ComesFirst
          <6>2. s.start \in Int /\ t.start \in Int
            BY <1>7, <4>1, <4>6, BoundsAre
          <6> QED BY <6>1, <6>2
        <5>2. Begin(d, t) <= Begin(d, s)
          BY <1>7, <4>1, <4>6, <5>1, ShiftsFollow
        <5>3. End(d, s) <= Begin(d, t) \/ End(d, t) <= Begin(d, s)
          BY <1>7, <4>6, ShiftsApart
        <5>4. Begin(d, s) \in Int /\ End(d, s) \in Int /\ Begin(d, s) < End(d, s) /\ Begin(d, s) = o
          BY <1>2, <1>7, <4>6, BoundsAre
        <5>5. End(d, t) <= o
          BY <4>2, <5>2, <5>3, <5>4
        <5>6. BehindOf(v, d, t)
          BY <1>6, <4>6 DEF BehindOf
        <5>7. Smallest(f, End(d, t)) <= o
          BY <1>3, <4>2, <5>5 DEF Smallest
        <5> QED BY <5>6, <5>7
      <4> QED BY <4>3, <4>4, <4>5, <4>6 DEF BehindOf
    <3>5. BackwardTo(v, f, T, o)
      BY <1>3, <2>2, <3>3, <3>4 DEF BackwardTo
    <3> QED BY <3>5
  <2> QED BY <1>3, <2>1, <2>2
<1>11. \A t \in v.shifts : Smallest(v.cursor, End(v.date, t)) = Smallest(f, End(v.date, t))
  BY <1>6 DEF Backward
<1>12. v.shifts \subseteq ShiftsOf(v.date) /\ v.date <= LocalDate(f) /\ v.direction = -1
  BY <1>6, <1>7 DEF Backward
<1> QED BY <1>6, <1>10, <1>11, <1>12 DEF Backward, Walking

\* The walk goes on the day before.
LEMMA DayEndsBackward ==
  ASSUME BoundsHold, NEW f \in Int, NEW T, NEW w, Backward(w, f, T), w.shifts = {},
         NEW date, date = w.date + w.direction,
         NEW v, v = [w EXCEPT !.date = date, !.shifts = ShiftsOf(date), !.cursor = EdgeOf(w, date)]
  PROVE  Backward(v, f, T)
<1>1. /\ w.date \in Int /\ w.direction = -1 /\ date \in Int /\ date = w.date - 1 /\ w.date <= LocalDate(f)
      /\ w \in [for : DeadlineNames, direction : {1, -1}, remaining : Nat \ {0}, cursor : Int,
                date : Int, shifts : SUBSET slaCalendar.shifts]
  BY DEF Backward, Walking
<1>2. ShiftsOf(date) \subseteq slaCalendar.shifts
  BY DEF ShiftsOf
<1>3. PICK c : c = EdgeOf(w, date)
  OBVIOUS
<1>4. c = ToUtc(date, DayLength - 1) /\ c \in Int
  <2>1. c = ToUtc(date, DayLength - 1)
    BY <1>1, <1>3 DEF EdgeOf
  <2>2. ToUtc(date, DayLength - 1) \in Int
    BY <1>1, AnyInstant DEF BoundsHold
  <2> QED BY <2>1, <2>2
<1>5. /\ v \in [for : DeadlineNames, direction : {1, -1}, remaining : Nat \ {0}, cursor : Int,
                date : Int, shifts : SUBSET slaCalendar.shifts]
      /\ v.date = date /\ v.direction = w.direction /\ v.cursor = c
      /\ v.remaining = w.remaining /\ v.shifts = ShiftsOf(date)
  BY <1>1, <1>2, <1>3, <1>4
<1>6. ASSUME NEW s \in v.shifts PROVE Smallest(v.cursor, End(v.date, s)) = Smallest(f, End(v.date, s))
  <2>1. s \in slaCalendar.shifts
    BY <1>2, <1>5
  <2>2. End(date, s) <= c /\ End(date, s) \in Int
    BY <1>1, <1>4, <2>1, EdgesOfDate, BoundsAre
  <2>3. LocalDate(f) > date
    BY <1>1, LocalDateIs DEF BoundsHold
  <2>4. End(date, s) <= f
    BY <1>1, <2>1, <2>3, ShiftWithinDate
  <2> QED BY <1>4, <1>5, <2>2, <2>4 DEF Smallest
<1>7. PICK p : BackwardTo(w, f, T, p)
  BY DEF Backward
<1>8. \A d \in Int : \A s \in ShiftsOf(d) : BehindOf(v, d, s) <=> BehindOf(w, d, s)
  BY <1>1, <1>5 DEF BehindOf
<1>9. BackwardTo(v, f, T, p)
  BY <1>5, <1>7, <1>8 DEF BackwardTo
<1>10. v.date <= LocalDate(f)
  BY <1>1, <1>5, LocalDateIs DEF BoundsHold
<1> QED BY <1>1, <1>5, <1>6, <1>9, <1>10 DEF Backward, Walking

\* A walk begins at its own instant, with the shifts of its date.
LEMMA WalkBeginsBackward ==
  ASSUME BoundsHold, NEW f \in Int, NEW T \in Nat \ {0}, NEW for \in DeadlineNames
  PROVE  Backward(Walk(for, -1, f, T), f, T)
<1>1. PICK w, date : w = Walk(for, -1, f, T) /\ date = LocalDate(f)
  OBVIOUS
<1>2. date \in Int /\ ShiftsOf(date) \subseteq slaCalendar.shifts
  BY <1>1, LocalDateIs DEF ShiftsOf, BoundsHold
<1>3. /\ w \in [for : DeadlineNames, direction : {1, -1}, remaining : Nat \ {0}, cursor : Int,
                date : Int, shifts : SUBSET slaCalendar.shifts]
      /\ w.date = date /\ w.direction = -1 /\ w.cursor = f /\ w.remaining = T /\ w.shifts = ShiftsOf(date)
  BY <1>1, <1>2 DEF Walk
<1>4. WorkedBetween(f, f) + T = T
  BY NothingBetween
<1>5. ASSUME NEW d \in Int, NEW s \in ShiftsOf(d)
      PROVE  IF BehindOf(w, d, s) THEN Smallest(f, End(d, s)) <= f ELSE f <= Begin(d, s)
  <2>1. s \in slaCalendar.shifts
    BY DEF ShiftsOf
  <2>2. Begin(d, s) \in Int /\ End(d, s) \in Int
    BY <2>1, BoundsAre
  <2>3. Smallest(f, End(d, s)) <= f
    BY <2>2 DEF Smallest
  <2>4. ~BehindOf(w, d, s) => date < d
    BY <1>2, <1>3 DEF BehindOf
  <2>5. date < d => f < Begin(d, s)
    BY <1>1, <1>2, <2>1, ShiftWithinDate
  <2> QED BY <2>2, <2>3, <2>4, <2>5
<1>6. BackwardTo(w, f, T, f)
  BY <1>3, <1>4, <1>5 DEF BackwardTo
<1> QED BY <1>1, <1>2, <1>3, <1>6 DEF Backward, Walking

-----------------------------------------------------------------------------
(* The deadlines.                                                          *)

\* The deadlines found, r, are those of the definition.
Found(r, since, pol) ==
  /\ \A d \in {"response", "resolution"} :
       r[d] # Unknown => r[d] \in Int /\ since <= r[d] /\ IsDeadline(r[d], since, pol[d])
  /\ r["warning"] # Unknown =>
       /\ r["resolution"] # Unknown /\ r["warning"] \in Int
       /\ since <= r["warning"] /\ r["warning"] <= r["resolution"]
       /\ IsWarning(r["warning"], r["resolution"], pol["warning"])

\* The walk w counts the time of a deadline not found yet.
UnderWay(r, w, since, pol) ==
  \/ w = NotWalking
  \/ /\ timeMode # "CALENDAR" /\ r[w.for] = Unknown
     /\ \/ w.for \in {"response", "resolution"} /\ Forward(w, since, pol[w.for])
        \/ w.for = "warning" /\ r["resolution"] # Unknown /\ Backward(w, r["resolution"], pol["warning"])

CalendarApplies == timeMode = "CALENDAR" \/ BoundsExistOnce

SlaTypes ==
  /\ zone \in Zones /\ slaCalendar \in SlaCalendars /\ timeMode \in {"CALENDAR", "BUSINESS"}
  /\ startAt \in StartAts /\ slaPolicy \in Policies
  /\ result = [d \in DeadlineNames |-> result[d]]

\* Every invariant of the calculator.
SlaInv ==
  /\ SlaTypes
  /\ CalendarApplies => Found(result, startAt, slaPolicy) /\ UnderWay(result, walk, startAt, slaPolicy)

\* The calendar and the zone of a calculation do not change.
LEMMA CalendarStays ==
  ASSUME UNCHANGED <<zone, slaCalendar, timeMode>>
  PROVE  /\ \A i : LocalDate(i)' = LocalDate(i)
         /\ \A d : ShiftsOf(d)' = ShiftsOf(d)
         /\ \A d, s : Begin(d, s)' = Begin(d, s) /\ End(d, s)' = End(d, s)
         /\ \A i : Worked(i)' <=> Worked(i)
         /\ \A a, e : WorkedBetween(a, e)' = WorkedBetween(a, e)
         /\ CalendarApplies' <=> CalendarApplies
<1>1. \A i : Local(i)' = Local(i)
  BY DEF Local, Offset
<1>2. \A i : LocalDate(i)' = LocalDate(i)
  BY <1>1 DEF LocalDate
<1>3. \A d : ShiftsOf(d)' = ShiftsOf(d)
  BY DEF ShiftsOf, Weekday
<1>4. \A d, s : Begin(d, s)' = Begin(d, s) /\ End(d, s)' = End(d, s)
  BY DEF Begin, End, Instant
<1>5. \A i : Worked(i)' <=> Worked(i)
  BY <1>1, <1>2 DEF Worked, Weekday
<1>6. ASSUME NEW a, NEW e PROVE WorkedBetween(a, e)' = WorkedBetween(a, e)
  <2>1. {i \in a..e - 1 : Worked(i)}' = {i \in a..e - 1 : Worked(i)}
    BY <1>5
  <2> QED BY <2>1 DEF WorkedBetween
<1>7. BoundsExistOnce' <=> BoundsExistOnce
  <2>1. \A l : ExistsOnce(l)' <=> ExistsOnce(l)
    BY DEF ExistsOnce
  <2>2. PICK date : date = LocalDate(zone.at) /\ date = LocalDate(zone.at)'
    BY <1>1 DEF LocalDate
  <2> QED BY <2>1, <2>2 DEF BoundsExistOnce
<1> QED BY <1>2, <1>3, <1>4, <1>5, <1>6, <1>7 DEF CalendarApplies

\* Neither does what a walk has done.
LEMMA WalkStays ==
  ASSUME UNCHANGED <<zone, slaCalendar, timeMode>>, NEW w, NEW f, NEW T
  PROVE  /\ Forward(w, f, T)' <=> Forward(w, f, T)
         /\ Backward(w, f, T)' <=> Backward(w, f, T)
<1>1. Walking(w)' <=> Walking(w)
  BY CalendarStays DEF Walking
<1>2. \A p : ForwardTo(w, f, T, p)' <=> ForwardTo(w, f, T, p)
  BY CalendarStays DEF ForwardTo, AheadOf, Largest
<1>3. \A p : BackwardTo(w, f, T, p)' <=> BackwardTo(w, f, T, p)
  BY CalendarStays DEF BackwardTo, BehindOf, Smallest
<1>4. Forward(w, f, T)' <=> Forward(w, f, T)
  BY <1>1, <1>2, CalendarStays DEF Forward, Largest
<1>5. Backward(w, f, T)' <=> Backward(w, f, T)
  BY <1>1, <1>3, CalendarStays DEF Backward, Smallest
<1> QED BY <1>4, <1>5

\* Nor what the calculation has found.
LEMMA SoundStays ==
  ASSUME UNCHANGED <<zone, slaCalendar, timeMode>>, NEW r, NEW w, NEW since, NEW pol
  PROVE  /\ Found(r, since, pol)' <=> Found(r, since, pol)
         /\ UnderWay(r, w, since, pol)' <=> UnderWay(r, w, since, pol)
<1>1. \A t, f, T : IsDeadline(t, f, T)' <=> IsDeadline(t, f, T)
  BY CalendarStays DEF IsDeadline
<1>2. \A t, f, T : IsWarning(t, f, T)' <=> IsWarning(t, f, T)
  BY CalendarStays DEF IsWarning
<1>3. Found(r, since, pol)' <=> Found(r, since, pol)
  BY <1>1, <1>2 DEF Found
<1>4. UnderWay(r, w, since, pol)' <=> UnderWay(r, w, since, pol)
  BY WalkStays DEF UnderWay
<1> QED BY <1>3, <1>4

\* What a policy asks for.
LEMMA PolicyIs ==
  ASSUME SlaTypes
  PROVE  /\ startAt \in Nat /\ Unknown = -1
         /\ slaPolicy["response"] \in Nat \ {0} /\ slaPolicy["resolution"] \in Nat \ {0} /\ slaPolicy["warning"] \in Nat
         /\ slaPolicy["warning"] <= slaPolicy["resolution"] /\ warningOffset = slaPolicy["warning"]
<1>1. /\ slaPolicy \in [response : Nat \ {0}, resolution : Nat, warning : Nat]
      /\ slaPolicy.response <= slaPolicy.resolution /\ slaPolicy.warning <= slaPolicy.resolution
      /\ startAt \in Nat
  BY CalendarsAreValid DEF SlaTypes
<1>2. warningOffset = slaPolicy["warning"]
  BY <1>1 DEF warningOffset, Smallest
<1> QED BY <1>1, <1>2 DEF Unknown

\* A deadline is found.
LEMMA DeadlineFound ==
  ASSUME SlaTypes, Found(result, startAt, slaPolicy), NEW d \in {"response", "resolution"}, result[d] = Unknown,
         NEW t \in Int, startAt <= t, IsDeadline(t, startAt, slaPolicy[d]),
         NEW r, r = [result EXCEPT ![d] = t]
  PROVE  Found(r, startAt, slaPolicy)
<1>1. /\ r[d] = t /\ \A e \in DeadlineNames \ {d} : r[e] = result[e]
  BY DEF SlaTypes, DeadlineNames
<1>2. ASSUME NEW e \in {"response", "resolution"}, r[e] # Unknown
      PROVE  r[e] \in Int /\ startAt <= r[e] /\ IsDeadline(r[e], startAt, slaPolicy[e])
  <2>1. CASE e = d
    BY <1>1, <2>1
  <2>2. CASE e # d
    <3>1. r[e] = result[e]
      BY <1>1, <2>2 DEF DeadlineNames
    <3> QED BY <1>2, <3>1 DEF Found
  <2> QED BY <2>1, <2>2
<1>3. ASSUME r["warning"] # Unknown
      PROVE  /\ r["resolution"] # Unknown /\ r["warning"] \in Int
             /\ startAt <= r["warning"] /\ r["warning"] <= r["resolution"]
             /\ IsWarning(r["warning"], r["resolution"], slaPolicy["warning"])
  <2>1. r["warning"] = result["warning"]
    BY <1>1 DEF DeadlineNames
  <2>2. result["resolution"] # Unknown
    BY <1>3, <2>1 DEF Found
  <2>3. r["resolution"] = result["resolution"]
    BY <1>1, <2>2 DEF DeadlineNames
  <2> QED BY <1>3, <2>1, <2>3 DEF Found
<1> QED BY <1>2, <1>3 DEF Found

\* The warning is found: earlier than the order, more time than the order has would be left.
LEMMA WarningFound ==
  ASSUME SlaTypes, Found(result, startAt, slaPolicy), result["warning"] = Unknown, result["resolution"] # Unknown,
         NEW t \in Int, t <= result["resolution"], IsWarning(t, result["resolution"], slaPolicy["warning"]),
         NEW r, r = [result EXCEPT !["warning"] = t]
  PROVE  Found(r, startAt, slaPolicy)
<1>1. r["warning"] = t /\ r["response"] = result["response"] /\ r["resolution"] = result["resolution"]
  BY DEF SlaTypes, DeadlineNames
<1>2. PICK e : e = result["resolution"]
  OBVIOUS
<1>3. e \in Int /\ startAt <= e /\ IsDeadline(e, startAt, slaPolicy["resolution"])
  BY <1>2 DEF Found
<1>4. WorkedBetween(startAt, e) = slaPolicy["resolution"] /\ WorkedBetween(t, e) = slaPolicy["warning"]
  BY <1>2, <1>3 DEF IsDeadline, IsWarning
<1>5. startAt <= t
  <2>1. CASE slaPolicy["warning"] = 0
    BY <1>2, <1>3, <2>1 DEF IsWarning
  <2>2. CASE slaPolicy["warning"] # 0
    <3>1. Worked(t)
      BY <2>2 DEF IsWarning
    <3>2. t < startAt => WorkedBetween(t, e) > WorkedBetween(startAt, e)
      BY <1>3, <3>1, EarlierWorksMore, PolicyIs
    <3> QED BY <1>4, <3>2, PolicyIs
  <2> QED BY <2>1, <2>2
<1> QED BY <1>1, <1>2, <1>5 DEF Found

\* What the walks assume of the calendar and its zone.
LEMMA BoundsHoldInBusiness ==
  ASSUME SlaTypes, CalendarApplies, timeMode # "CALENDAR"
  PROVE  BoundsHold
BY ZonesAreValid DEF SlaTypes, CalendarApplies, BoundsHold, ZoneIs

\* The response and the resolution: at once around the clock, by a walk forward otherwise.
LEMMA DeadlineMoves ==
  ASSUME SlaTypes, CalendarApplies, Found(result, startAt, slaPolicy), walk = NotWalking,
         NEW d \in {"response", "resolution"}, result[d] = Unknown, Move(d, 1, startAt, slaPolicy[d]),
         NEW r, r = result', NEW w, w = walk'
  PROVE  Found(r, startAt, slaPolicy) /\ UnderWay(r, w, startAt, slaPolicy)
<1>1. PICK T : T = slaPolicy[d]
  OBVIOUS
<1>2. T \in Nat \ {0} /\ startAt \in Int
  BY <1>1, PolicyIs
<1>3. CASE timeMode = "CALENDAR"
  <2>1. PICK t : t = startAt + 1 * T
    OBVIOUS
  <2>2. r = [result EXCEPT ![d] = t] /\ w = NotWalking
    BY <1>1, <1>3, <2>1 DEF Move
  <2>3. t \in Int /\ startAt <= t /\ t - startAt = T
    BY <1>2, <2>1
  <2>4. WorkedBetween(startAt, t) = T /\ Worked(t - 1)
    BY <1>2, <1>3, <2>3, WorkedAroundTheClock
  <2>5. IsDeadline(t, startAt, T)
    BY <1>2, <2>4 DEF IsDeadline
  <2> QED BY <1>1, <2>2, <2>3, <2>5, DeadlineFound DEF UnderWay
<1>4. CASE timeMode # "CALENDAR"
  <2>1. r = result /\ w = Walk(d, 1, startAt, T)
    BY <1>1, <1>2, <1>4 DEF Move
  <2>2. Forward(w, startAt, T)
    BY <1>2, <1>4, <2>1, BoundsHoldInBusiness, WalkBeginsForward DEF DeadlineNames
  <2>3. w.for = d
    BY <2>1 DEF Walk
  <2> QED BY <1>1, <1>4, <2>1, <2>2, <2>3 DEF UnderWay
<1> QED BY <1>3, <1>4

\* The warning: at once around the clock or for no time, by a walk backward otherwise.
LEMMA WarningMoves ==
  ASSUME SlaTypes, CalendarApplies, Found(result, startAt, slaPolicy), walk = NotWalking,
         result["warning"] = Unknown, result["resolution"] # Unknown,
         Move("warning", -1, result["resolution"], warningOffset),
         NEW r, r = result', NEW w, w = walk'
  PROVE  Found(r, startAt, slaPolicy) /\ UnderWay(r, w, startAt, slaPolicy)
<1>1. PICK T, f : T = slaPolicy["warning"] /\ T = warningOffset /\ f = result["resolution"]
  BY PolicyIs
<1>2. T \in Nat /\ f \in Int
  BY <1>1, PolicyIs DEF Found
<1>3. ASSUME timeMode = "CALENDAR" \/ T = 0
      PROVE  Found(r, startAt, slaPolicy) /\ UnderWay(r, w, startAt, slaPolicy)
  <2>1. PICK t : t = f + (-1) * T
    OBVIOUS
  <2>2. r = [result EXCEPT !["warning"] = t] /\ w = NotWalking
    BY <1>1, <1>3, <2>1 DEF Move
  <2>3. t \in Int /\ t <= f /\ f - t = T /\ (T = 0 => t = f)
    BY <1>2, <2>1
  <2>4. IsWarning(t, f, T)
    <3>1. CASE T = 0
      BY <1>2, <2>3, <3>1, NothingBetween DEF IsWarning
    <3>2. CASE T # 0
      BY <1>2, <1>3, <2>3, <3>2, WorkedAroundTheClock DEF IsWarning
    <3> QED BY <3>1, <3>2
  <2> QED BY <1>1, <2>2, <2>3, <2>4, WarningFound DEF UnderWay
<1>4. ASSUME timeMode # "CALENDAR", T # 0
      PROVE  Found(r, startAt, slaPolicy) /\ UnderWay(r, w, startAt, slaPolicy)
  <2>1. r = result /\ w = Walk("warning", -1, f, T)
    BY <1>1, <1>4 DEF Move
  <2>2. Backward(w, f, T)
    BY <1>2, <1>4, <2>1, BoundsHoldInBusiness, WalkBeginsBackward DEF DeadlineNames
  <2>3. w.for = "warning"
    BY <2>1 DEF Walk
  <2> QED BY <1>1, <1>4, <2>1, <2>2, <2>3 DEF UnderWay
<1> QED BY <1>3, <1>4

\* A shift is taken.
LEMMA ShiftsAreTaken ==
  ASSUME SlaTypes, CalendarApplies, Found(result, startAt, slaPolicy),
         UnderWay(result, walk, startAt, slaPolicy), TakeShift,
         NEW r, r = result', NEW w, w = walk'
  PROVE  Found(r, startAt, slaPolicy) /\ UnderWay(r, w, startAt, slaPolicy)
<1>1. PICK s \in walk.shifts : \E u :
        /\ u = Usable(walk, s)
        /\ ComesFirst(s, walk.shifts, walk.direction)
        /\ \/ /\ walk.remaining <= Available(u)
              /\ Answer(walk, IF walk.direction = 1 THEN u.start + walk.remaining
                                                    ELSE u.end - walk.remaining)
           \/ /\ walk.remaining > Available(u)
              /\ walk' = [walk EXCEPT !.remaining = @ - Available(u), !.shifts = @ \ {s}]
              /\ UNCHANGED result
  BY DEF TakeShift
<1>2. PICK u : 
        /\ u = Usable(walk, s)
        /\ ComesFirst(s, walk.shifts, walk.direction)
        /\ \/ /\ walk.remaining <= Available(u)
              /\ Answer(walk, IF walk.direction = 1 THEN u.start + walk.remaining
                                                    ELSE u.end - walk.remaining)
           \/ /\ walk.remaining > Available(u)
              /\ walk' = [walk EXCEPT !.remaining = @ - Available(u), !.shifts = @ \ {s}]
              /\ UNCHANGED result
  BY <1>1
<1>3. walk # NotWalking
  BY DEF TakeShift
<1>4. PICK v, d : v = walk /\ d = v.for
  OBVIOUS
<1>5. /\ timeMode # "CALENDAR" /\ result[d] = Unknown
      /\ \/ d \in {"response", "resolution"} /\ Forward(v, startAt, slaPolicy[d])
         \/ d = "warning" /\ result["resolution"] # Unknown /\ Backward(v, result["resolution"], slaPolicy["warning"])
  BY <1>3, <1>4 DEF UnderWay
<1>6. BoundsHold /\ startAt \in Int
  BY <1>5, BoundsHoldInBusiness, PolicyIs
<1>7. CASE /\ walk.remaining <= Available(u)
           /\ Answer(walk, IF walk.direction = 1 THEN u.start + walk.remaining
                                                 ELSE u.end - walk.remaining)
  <2>1. w = NotWalking
    BY <1>7 DEF Answer
  <2>2. CASE d \in {"response", "resolution"} /\ Forward(v, startAt, slaPolicy[d])
    <3>1. PICK t : t = u.start + v.remaining
      OBVIOUS
    <3>2. v.direction = 1
      BY <2>2 DEF Forward
    <3>3. r = [result EXCEPT ![d] = t]
      BY <1>4, <1>7, <3>1, <3>2 DEF Answer
    <3>4. t \in Int /\ startAt <= t /\ IsDeadline(t, startAt, slaPolicy[d])
      BY <1>2, <1>4, <1>5, <1>6, <1>7, <2>2, <3>1, AnswerForward
    <3>5. Found(r, startAt, slaPolicy)
      BY <1>5, <2>2, <3>3, <3>4, DeadlineFound
    <3> QED BY <2>1, <3>5 DEF UnderWay
  <2>3. CASE d = "warning" /\ result["resolution"] # Unknown /\ Backward(v, result["resolution"], slaPolicy["warning"])
    <3>1. PICK t, f : t = u.end - v.remaining /\ f = result["resolution"]
      OBVIOUS
    <3>2. v.direction # 1
      BY <2>3 DEF Backward
    <3>3. r = [result EXCEPT !["warning"] = t]
      BY <1>4, <1>7, <2>3, <3>1, <3>2 DEF Answer
    <3>4. f \in Int
      BY <2>3, <3>1 DEF Found
    <3>5. t \in Int /\ t <= f /\ IsWarning(t, f, slaPolicy["warning"])
      BY <1>2, <1>4, <1>5, <1>6, <1>7, <2>3, <3>1, <3>4, AnswerBackward
    <3>6. Found(r, startAt, slaPolicy)
      BY <1>5, <2>3, <3>1, <3>3, <3>5, WarningFound
    <3> QED BY <2>1, <3>6 DEF UnderWay
  <2> QED BY <1>5, <2>2, <2>3
<1>8. CASE /\ walk.remaining > Available(u)
           /\ walk' = [walk EXCEPT !.remaining = @ - Available(u), !.shifts = @ \ {s}]
           /\ UNCHANGED result
  <2>1. r = result /\ w = [v EXCEPT !.remaining = @ - Available(u), !.shifts = @ \ {s}]
    BY <1>4, <1>8
  <2>2. CASE d \in {"response", "resolution"} /\ Forward(v, startAt, slaPolicy[d])
    <3>1. Forward(w, startAt, slaPolicy[d])
      BY <1>2, <1>4, <1>5, <1>6, <1>8, <2>1, <2>2, ShiftTakenForward
    <3>2. w.for = d
      BY <1>4, <2>1, <2>2 DEF Forward, Walking
    <3> QED BY <1>5, <2>1, <2>2, <3>1, <3>2 DEF UnderWay
  <2>3. CASE d = "warning" /\ result["resolution"] # Unknown /\ Backward(v, result["resolution"], slaPolicy["warning"])
    <3>1. PICK f : f = result["resolution"]
      OBVIOUS
    <3>2. f \in Int
      BY <2>3, <3>1 DEF Found
    <3>3. Backward(w, f, slaPolicy["warning"])
      BY <1>2, <1>4, <1>5, <1>6, <1>8, <2>1, <2>3, <3>1, <3>2, ShiftTakenBackward
    <3>4. w.for = d
      BY <1>4, <2>1, <2>3 DEF Backward, Walking
    <3> QED BY <1>5, <2>1, <2>3, <3>1, <3>3, <3>4 DEF UnderWay
  <2> QED BY <1>5, <2>2, <2>3
<1> QED BY <1>2, <1>7, <1>8

\* A day ends.
LEMMA DaysEnd ==
  ASSUME SlaTypes, CalendarApplies, Found(result, startAt, slaPolicy),
         UnderWay(result, walk, startAt, slaPolicy), NextDay,
         NEW r, r = result', NEW w, w = walk'
  PROVE  Found(r, startAt, slaPolicy) /\ UnderWay(r, w, startAt, slaPolicy)
<1>1. PICK v, d : v = walk /\ d = v.for
  OBVIOUS
<1>2. PICK date : date = v.date + v.direction
  OBVIOUS
<1>3. /\ v # NotWalking /\ v.shifts = {} /\ r = result
      /\ w = [v EXCEPT !.date = date, !.shifts = ShiftsOf(date), !.cursor = EdgeOf(v, date)]
  BY <1>1, <1>2 DEF NextDay
<1>4. /\ timeMode # "CALENDAR" /\ result[d] = Unknown
      /\ \/ d \in {"response", "resolution"} /\ Forward(v, startAt, slaPolicy[d])
         \/ d = "warning" /\ result["resolution"] # Unknown /\ Backward(v, result["resolution"], slaPolicy["warning"])
  BY <1>1, <1>3 DEF UnderWay
<1>5. BoundsHold /\ startAt \in Int
  BY <1>4, BoundsHoldInBusiness, PolicyIs
<1>6. CASE d \in {"response", "resolution"} /\ Forward(v, startAt, slaPolicy[d])
  <2>1. Forward(w, startAt, slaPolicy[d])
    BY <1>2, <1>3, <1>5, <1>6, DayEndsForward
  <2>2. w.for = d
    BY <1>1, <1>3, <1>6 DEF Forward, Walking
  <2> QED BY <1>3, <1>4, <1>6, <2>1, <2>2 DEF UnderWay
<1>7. CASE d = "warning" /\ result["resolution"] # Unknown /\ Backward(v, result["resolution"], slaPolicy["warning"])
  <2>1. PICK f : f = result["resolution"]
    OBVIOUS
  <2>2. f \in Int
    BY <1>7, <2>1 DEF Found
  <2>3. Backward(w, f, slaPolicy["warning"])
    BY <1>2, <1>3, <1>5, <1>7, <2>1, <2>2, DayEndsBackward
  <2>4. w.for = d
    BY <1>1, <1>3, <1>7 DEF Backward, Walking
  <2> QED BY <1>3, <1>4, <1>7, <2>1, <2>3, <2>4 DEF UnderWay
<1> QED BY <1>4, <1>6, <1>7

\* Nothing is found at first.
LEMMA SlaBegins == SlaInit => SlaInv
<1> SUFFICES ASSUME SlaInit PROVE SlaInv
  OBVIOUS
<1>1. SlaTypes
  BY DEF SlaInit, SlaTypes
<1>2. result["response"] = Unknown /\ result["resolution"] = Unknown /\ result["warning"] = Unknown /\ walk = NotWalking
  BY DEF SlaInit, DeadlineNames
<1> QED BY <1>1, <1>2 DEF SlaInv, Found, UnderWay

\* Every step of the calculation keeps what it has found.
LEMMA SlaKept == SlaInv /\ [SlaNext]_slaVars => SlaInv'
<1> SUFFICES ASSUME SlaInv, [SlaNext]_slaVars PROVE SlaInv'
  OBVIOUS
<1>1. UNCHANGED <<zone, slaCalendar, timeMode, startAt, slaPolicy>>
  BY DEF SlaNext, slaVars, responseDeadline, resolutionDeadline, resolutionWarningAt, TakeShift, NextDay
<1>2. SlaTypes
  BY DEF SlaInv
<1>3. SlaTypes'
  <2>1. \A x, v : [result EXCEPT ![x] = v] = [d \in DeadlineNames |-> [result EXCEPT ![x] = v][d]]
    BY <1>2 DEF SlaTypes
  <2>2. result' = result \/ \E x, v : result' = [result EXCEPT ![x] = v]
    BY DEF SlaNext, slaVars, responseDeadline, resolutionDeadline, resolutionWarningAt, TakeShift, NextDay, Move, Answer
  <2>3. result' = [d \in DeadlineNames |-> result'[d]]
    BY <1>2, <2>1, <2>2 DEF SlaTypes
  <2> QED BY <1>1, <1>2, <2>3 DEF SlaTypes
<1>4. PICK r, w : r = result' /\ w = walk'
  OBVIOUS
<1>5. CalendarApplies => Found(r, startAt, slaPolicy) /\ UnderWay(r, w, startAt, slaPolicy)
  <2> SUFFICES ASSUME CalendarApplies PROVE Found(r, startAt, slaPolicy) /\ UnderWay(r, w, startAt, slaPolicy)
    OBVIOUS
  <2>1. Found(result, startAt, slaPolicy) /\ UnderWay(result, walk, startAt, slaPolicy)
    BY DEF SlaInv
  <2>2. CASE responseDeadline
    <3>1. walk = NotWalking /\ result["response"] = Unknown /\ Move("response", 1, startAt, slaPolicy["response"])
      BY <2>2 DEF responseDeadline, Ready
    <3> QED BY <1>2, <1>4, <2>1, <3>1, DeadlineMoves
  <2>3. CASE resolutionDeadline
    <3>1. walk = NotWalking /\ result["resolution"] = Unknown /\ Move("resolution", 1, startAt, slaPolicy["resolution"])
      BY <2>3 DEF resolutionDeadline, Ready
    <3> QED BY <1>2, <1>4, <2>1, <3>1, DeadlineMoves
  <2>4. CASE resolutionWarningAt
    <3>1. /\ walk = NotWalking /\ result["warning"] = Unknown /\ result["resolution"] # Unknown
          /\ Move("warning", -1, result["resolution"], warningOffset)
      BY <2>4 DEF resolutionWarningAt, Ready
    <3> QED BY <1>2, <1>4, <2>1, <3>1, WarningMoves
  <2>5. CASE TakeShift
    BY <1>2, <1>4, <2>1, <2>5, ShiftsAreTaken
  <2>6. CASE NextDay
    BY <1>2, <1>4, <2>1, <2>6, DaysEnd
  <2>7. CASE UNCHANGED slaVars
    BY <1>4, <2>1, <2>7 DEF slaVars
  <2> QED BY <2>2, <2>3, <2>4, <2>5, <2>6, <2>7 DEF SlaNext
<1>6. PICK since, pol : since = startAt /\ pol = slaPolicy /\ since = startAt' /\ pol = slaPolicy'
  BY <1>1
<1>7. CalendarApplies' => Found(r, since, pol)' /\ UnderWay(r, w, since, pol)'
  BY <1>1, <1>5, <1>6, CalendarStays, SoundStays
<1>8. CalendarApplies' => (Found(result, startAt, slaPolicy) /\ UnderWay(result, walk, startAt, slaPolicy))'
  BY <1>4, <1>6, <1>7
<1> QED BY <1>3, <1>8 DEF SlaInv

\* However many weekends, holidays, shifts and changes of the clock a duration crosses, the
\* deadlines that the walk of moveThroughBusinessTime finds are those of the definition.
THEOREM DeadlinesAlwaysWorkedTime == SlaSpec => []DeadlinesAreWorkedTime
<1>1. SlaInv => DeadlinesAreWorkedTime
  <2> SUFFICES ASSUME SlaInv, CalendarApplies PROVE Found(result, startAt, slaPolicy) => 
        /\ result["response"] # Unknown => IsDeadline(result["response"], startAt, slaPolicy.response)
        /\ result["resolution"] # Unknown => IsDeadline(result["resolution"], startAt, slaPolicy.resolution)
    BY DEF SlaInv, DeadlinesAreWorkedTime, CalendarApplies
  <2> QED BY DEF Found
<1> QED BY <1>1, SlaBegins, SlaKept, PTL DEF SlaSpec

\* And the warning leaves exactly its worked time, within the time of the order.
THEOREM WarningAlwaysLeavesItsTime == SlaSpec => []WarningLeavesItsTime
<1>1. SlaInv => WarningLeavesItsTime
  BY DEF SlaInv, Found, WarningLeavesItsTime, CalendarApplies
<1> QED BY <1>1, SlaBegins, SlaKept, PTL DEF SlaSpec
=============================================================================

---------------------------- MODULE SlaPolicies ----------------------------
(***************************************************************************)
(* The SLA policies of a tenant (operations.service.ts): which policy      *)
(* gives a work order its deadlines, from the order's priority, contract   *)
(* and category.                                                           *)
(*                                                                         *)
(* A request reads and validates before its transaction (a ...Read step).  *)
(* The transactions on policies and calendars are SERIALIZABLE and lock    *)
(* the tenant first, so each is one ...Commit step.  The version they      *)
(* compare is updatedAt: a request keeps in "outdated" whether its row was *)
(* written since it was read.  The archiving of a contract or a category   *)
(* takes no lock of the tenant, but is one transaction.                    *)
(***************************************************************************)
EXTENDS Integers, FiniteSets

CONSTANTS Priorities,
          OtherPolicies,  \* identifiers of the policies of the users
          Calendars, Contracts, Categories, Requests,
          NoId            \* null

ASSUME IdentifiersAreDistinct ==
  /\ Priorities \cap OtherPolicies = {}
  /\ NoId \notin Priorities \cup OtherPolicies \cup Calendars \cup Contracts \cup Categories

\* The default policy of a priority, PADRAO_<priority>, is named by the priority.
PolicyIds == Priorities \cup OtherPolicies

Scopes == (Contracts \cup {NoId}) \X (Categories \cup {NoId})

Fields == [priority : Priorities, scope : Scopes, calendar : Calendars, active : BOOLEAN]

Absent == [priority |-> NoId, scope |-> <<NoId, NoId>>, calendar |-> NoId, active |-> FALSE]
Idle == [op |-> "idle"]

VARIABLES
  policy,    \* policy[p]: the SlaPolicy row, or Absent
  calendar,  \* calendar[c]: the SlaCalendar row is active
  live,      \* the contracts and categories not archived
  request    \* request[r]: what request r has read and is about to write

vars == <<policy, calendar, live, request>>

TypeOK ==
  /\ policy \in [PolicyIds -> Fields \cup {Absent}]
  /\ calendar \in [Calendars -> BOOLEAN]
  /\ live \subseteq Contracts \cup Categories
  /\ request \in [Requests ->
       {Idle}
         \cup [op : {"create"}, p : PolicyIds, fields : Fields]
         \cup [op : {"update"}, p : PolicyIds, fields : Fields, outdated : BOOLEAN]
         \cup [op : {"calendar"}, c : Calendars, active : BOOLEAN, outdated : BOOLEAN]]

-----------------------------------------------------------------------------
(* provisionTenantDefaults, when the tenant is created.                    *)

Init ==
  /\ \E c \in Calendars :
       policy = [p \in PolicyIds |->
                   IF p \in Priorities
                   THEN [priority |-> p, scope |-> <<NoId, NoId>>, calendar |-> c, active |-> TRUE]
                   ELSE Absent]
  /\ calendar = [c \in Calendars |-> TRUE]
  /\ live = Contracts \cup Categories
  /\ request = [r \in Requests |-> Idle]

Active(p) == policy[p].active

\* The active policies with exactly this scope and priority.
Answering(priority, scope) ==
  {p \in PolicyIds : Active(p) /\ policy[p].priority = priority /\ policy[p].scope = scope}

LiveScope(scope) == \A i \in {1, 2} : scope[i] \in live \cup {NoId}

\* validateSlaPolicyReferences, outside the transaction.
ReferencesAreValid(f) == LiveScope(f.scope) /\ (f.active => calendar[f.calendar])

\* The other requests on the rows that a step writes find their version changed.
Outdate(policies, calendars) ==
  [r \in Requests |->
     IF \/ request[r].op = "update" /\ request[r].p \in policies
        \/ request[r].op = "calendar" /\ request[r].c \in calendars
     THEN [request[r] EXCEPT !.outdated = TRUE] ELSE request[r]]

Abandon(r) ==
  /\ request[r] # Idle
  /\ request' = [request EXCEPT ![r] = Idle]
  /\ UNCHANGED <<policy, calendar, live>>

-----------------------------------------------------------------------------
(* createSlaPolicy, updateSlaPolicy                                        *)

CreatePolicyRead(r, p, f) ==
  /\ request[r] = Idle
  /\ ReferencesAreValid(f)
  /\ request' = [request EXCEPT ![r] = [op |-> "create", p |-> p, fields |-> f]]
  /\ UNCHANGED <<policy, calendar, live>>

\* Mutant: a policy with no contract is no duplicate of another.
ContractScopeIsFree(p, f) ==
  f.active /\ f.scope[1] # NoId => Answering(f.priority, f.scope) \subseteq {p}

\* duplicateScope: only an active policy looks for another.
ScopeIsFree(p, f) == f.active => Answering(f.priority, f.scope) \subseteq {p}

CreatePolicyCommit(r) ==
  LET q == request[r] IN
  /\ q.op = "create"
  /\ policy[q.p] = Absent
  /\ ScopeIsFree(q.p, q.fields)
  /\ policy' = [policy EXCEPT ![q.p] = q.fields]
  /\ request' = [request EXCEPT ![r] = Idle]
  /\ UNCHANGED <<calendar, live>>

UpdatePolicyRead(r, p, f) ==
  /\ request[r] = Idle
  /\ policy[p] # Absent
  /\ ReferencesAreValid(f)
  /\ request' = [request EXCEPT ![r] = [op |-> "update", p |-> p, fields |-> f, outdated |-> FALSE]]
  /\ UNCHANGED <<policy, calendar, live>>

\* Mutant: giving the policy a contract or a category is not taken for a removal.
RemovesInPlace(p, f) ==
  /\ Active(p) /\ policy[p].scope = <<NoId, NoId>>
  /\ ~f.active \/ f.priority # policy[p].priority

removesGlobalFallback(p, f) ==
  /\ Active(p) /\ policy[p].scope = <<NoId, NoId>>
  /\ ~f.active \/ f.scope # <<NoId, NoId>> \/ f.priority # policy[p].priority

UpdatePolicyCommit(r) ==
  LET q == request[r] IN
  /\ q.op = "update"
  /\ ~q.outdated
  /\ ScopeIsFree(q.p, q.fields)
  /\ removesGlobalFallback(q.p, q.fields) =>
       Answering(policy[q.p].priority, <<NoId, NoId>>) \ {q.p} # {}
  /\ policy' = [policy EXCEPT ![q.p] = q.fields]
  /\ request' = [Outdate({q.p}, {}) EXCEPT ![r] = Idle]
  /\ UNCHANGED <<calendar, live>>

-----------------------------------------------------------------------------
(* updateSlaCalendar: an edit, with or without a change of "active".       *)

UpdateCalendarRead(r, c, active) ==
  /\ request[r] = Idle
  /\ request' = [request EXCEPT ![r] = [op |-> "calendar", c |-> c, active |-> active,
                                        outdated |-> FALSE]]
  /\ UNCHANGED <<policy, calendar, live>>

UpdateCalendarCommit(r) ==
  LET q == request[r] IN
  /\ q.op = "calendar"
  /\ ~q.outdated
  /\ ~q.active => \A p \in PolicyIds : Active(p) => policy[p].calendar # q.c
  /\ calendar' = [calendar EXCEPT ![q.c] = q.active]
  /\ request' = [Outdate({}, {q.c}) EXCEPT ![r] = Idle]
  /\ UNCHANGED <<policy, live>>

(* archiveCatalogItem of a category, archive of a contract.                *)

\* Mutant: what an archived contract or category leaves is still active.
NoneOf(x) == {}

\* The active policies about x, that the archiving deactivates.
PoliciesOf(x) == {p \in PolicyIds : Active(p) /\ \E i \in {1, 2} : policy[p].scope[i] = x}

Archive(x) ==
  /\ x \in live
  /\ live' = live \ {x}
  /\ policy' = [p \in PolicyIds |-> IF p \in PoliciesOf(x) THEN [policy[p] EXCEPT !.active = FALSE]
                                                            ELSE policy[p]]
  /\ request' = Outdate(PoliciesOf(x), {})
  /\ UNCHANGED calendar

Next ==
  \/ \E r \in Requests :
       \/ \E p \in OtherPolicies, f \in Fields : CreatePolicyRead(r, p, f)
       \/ CreatePolicyCommit(r)
       \/ \E p \in PolicyIds, f \in Fields : UpdatePolicyRead(r, p, f)
       \/ UpdatePolicyCommit(r)
       \/ \E c \in Calendars, active \in BOOLEAN : UpdateCalendarRead(r, c, active)
       \/ UpdateCalendarCommit(r)
       \/ Abandon(r)
  \/ \E x \in live : Archive(x)

Spec == Init /\ [][Next]_vars

-----------------------------------------------------------------------------
(* selectSlaPolicy, for an order's priority and scope.                     *)

\* What resolveSlaPolicy reads.
Resolvable(priority) ==
  {p \in PolicyIds : Active(p) /\ policy[p].priority = priority /\ calendar[policy[p].calendar]}

policyRank(p, scope) ==
  LET own == policy[p].scope
      exactContract == scope[1] # NoId /\ own[1] = scope[1]
      exactCategory == scope[2] # NoId /\ own[2] = scope[2]
  IN IF exactContract /\ exactCategory THEN 3
     ELSE IF exactContract /\ own[2] = NoId THEN 2
     ELSE IF exactCategory /\ own[1] = NoId THEN 1
     ELSE IF own[1] = NoId /\ own[2] = NoId THEN 0
     ELSE -1

Candidates(priority, scope) == {p \in Resolvable(priority) : policyRank(p, scope) >= 0}

\* The policies selectSlaPolicy is left with: the order gets the one there is, and
\* is refused when there is none or more than one.
Best(priority, scope) ==
  {p \in Candidates(priority, scope) :
     \A o \in Candidates(priority, scope) : policyRank(o, scope) <= policyRank(p, scope)}

-----------------------------------------------------------------------------
(* Properties                                                              *)

\* No order is refused because two policies answer its scope equally well,
\* whatever requests create, move and activate policies at the same time.
ResolutionIsUnambiguous ==
  \A priority \in Priorities, scope \in Scopes : Cardinality(Best(priority, scope)) <= 1

\* Every priority keeps an active policy for the whole tenant, whoever moves,
\* deactivates or reprioritises the one there was.
FallbackKept == \A priority \in Priorities : Answering(priority, <<NoId, NoId>>) # {}

\* The active policies have an active calendar, a contract and a category that are
\* not archived: with FallbackKept, every order gets a policy.
ReferencesHold == \A p \in PolicyIds : Active(p) => ReferencesAreValid(policy[p])

EveryOrderResolves ==
  \A priority \in Priorities, scope \in Scopes : Candidates(priority, scope) # {}

\* The request that this step commits validated references that hold no more: they
\* are read before the transaction and not again under the lock of the tenant.
CommitsStaleReferences ==
  \E r \in Requests : /\ request[r].op \in {"create", "update"} /\ request'[r] = Idle
                      /\ policy' # policy
                      /\ ~ReferencesAreValid(request[r].fields)

\* Only such a request makes an active policy refer to an inactive calendar or to an
\* archived contract or category; deactivating a calendar and archiving never do.
ReferencesKeptWhenFresh ==
  [][ReferencesHold => ReferencesHold' \/ CommitsStaleReferences]_vars
=============================================================================

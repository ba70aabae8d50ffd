--------------------------- MODULE TenantBilling ---------------------------
(***************************************************************************)
(* The subscription of one organisation to the maintenance program         *)
(* (billing.service.ts).  processWebhook handles an event in statements    *)
(* that commit one by one, with no lock, from the status that the event    *)
(* carries.                                                                *)
(*                                                                         *)
(* Left out: the status "unpaid", that leaves the tenant as it is, the     *)
(* periods and the plan.                                                   *)
(***************************************************************************)
EXTENDS Stripe

CONSTANTS Plans,     \* the subscriptions the organisation may buy, some of Subscriptions
          Handlers,  \* requests of the provider being processed
          Trial      \* stands for the null stripeSubscriptionId of the registration

ASSUME PlansAreSubscriptions == Plans \subseteq Subscriptions

VARIABLES
  tenant,      \* Tenant.status
  row,         \* row[s]: status of the TenantSubscription with that (unique) id, or "none"
  done,        \* StripeWebhookEvent rows with processedAt
  handler,     \* handler[h]: the event that h processes, and the step it is at
  disordered   \* history: the provider, or a retry, broke the order of the events

tenantVars == <<tenant, row, done, handler, disordered>>

Resting == [at |-> "idle"]

mapSubscriptionStatus ==
  [incomplete |-> "PAST_DUE", active |-> "ACTIVE", past_due |-> "PAST_DUE", canceled |-> "CANCELED",
   incomplete_expired |-> "CANCELED"]

\* registerTenant
TenantInit ==
  /\ tenant = "TRIAL"
  /\ row = [s \in Plans \cup {Trial} |-> IF s = Trial THEN "TRIALING" ELSE "none"]
  /\ done = {}
  /\ handler = [h \in Handlers |-> Resting]
  /\ disordered = FALSE

EventOf(h) == log[handler[h].event[1]][handler[h].event[2]]

AtStep(h, step) == handler[h].at = step

Goto(h, step) == handler' = [handler EXCEPT ![h].at = step]

-----------------------------------------------------------------------------
(* processWebhook                                                          *)

Early(event) == {i \in 1..(event[2] - 1) : <<event[1], i>> \notin done}
Late(event) == {e \in done : e[1] = event[1] /\ e[2] > event[2]}

ReceiveNew(h, event) ==
  /\ AtStep(h, "idle") /\ event \in pending
  /\ event \notin done
  /\ handler' = [handler EXCEPT ![h] = [event |-> event, at |-> log[event[1]][event[2]].kind]]
  /\ disordered' = (\/ disordered \/ Early(event) # {} \/ Late(event) # {}
                    \/ \E o \in Handlers : ~AtStep(o, "idle"))
  /\ UNCHANGED <<tenant, row, done, stripeVars>>

ReceiveDuplicate(event) ==
  /\ event \in pending \cap done
  /\ Answered(event)
  /\ UNCHANGED tenantVars

MarkProcessed(h) ==
  /\ AtStep(h, "mark")
  /\ done' = done \cup {handler[h].event}
  /\ Answered(handler[h].event)
  /\ handler' = [handler EXCEPT ![h] = Resting]
  /\ UNCHANGED <<tenant, row, disordered>>

\* An error, or a crash: the provider delivers the event again.
Stop(h) ==
  /\ ~AtStep(h, "idle")
  /\ handler' = [handler EXCEPT ![h] = Resting]
  /\ UNCHANGED <<tenant, row, done, disordered, stripeVars>>

-----------------------------------------------------------------------------
(* routeEvent                                                              *)

\* The row that the checkout turns into its own.
Usable == {x \in DOMAIN row : row[x] \in {"TRIALING", "ACTIVE"}}

\* checkout.session.completed, one transaction; it fails if another row has the id.
CompleteCheckout(h) ==
  LET s == handler[h].event[1] IN
  /\ AtStep(h, "checkout")
  /\ tenant' = "ACTIVE"
  /\ \/ \E x \in Usable :
          /\ x # s => row[s] = "none"
          /\ row' = [row EXCEPT ![x] = "none", ![s] = "ACTIVE"]
     \/ /\ Usable = {} /\ row[s] = "none"
        /\ row' = [row EXCEPT ![s] = "ACTIVE"]
  /\ Goto(h, "mark")
  /\ UNCHANGED <<done, disordered, stripeVars>>

\* customer.subscription.*: the row, if there is one, and then the tenant.
UpdateSubscription(h) ==
  LET s == handler[h].event[1] IN
  /\ AtStep(h, "subscription")
  /\ row' = IF row[s] = "none" THEN row
            ELSE [row EXCEPT ![s] = mapSubscriptionStatus[EventOf(h).status]]
  /\ Goto(h, "tenant")
  /\ UNCHANGED <<tenant, done, disordered, stripeVars>>

\* Mutant: a subscription that was never paid leaves the tenant as it is.
TenantStatusOnceActive(status) == IF status = "incomplete_expired" THEN tenant ELSE mapSubscriptionStatus[status]

TenantStatus(status) == mapSubscriptionStatus[status]

UpdateTenant(h) ==
  /\ AtStep(h, "tenant")
  /\ tenant' = TenantStatus(EventOf(h).status)
  /\ Goto(h, "mark")
  /\ UNCHANGED <<row, done, disordered, stripeVars>>

TenantNext ==
  \/ \E s \in Plans : (Subscribe(s) \/ ChangeStatus(s)) /\ UNCHANGED tenantVars
  \/ \E event \in pending : ReceiveDuplicate(event) \/ \E h \in Handlers : ReceiveNew(h, event)
  \/ \E h \in Handlers :
       CompleteCheckout(h) \/ UpdateSubscription(h) \/ UpdateTenant(h) \/ MarkProcessed(h) \/ Stop(h)

TenantSpec == StripeInit /\ TenantInit /\ [][TenantNext]_<<tenantVars, stripeVars>>

-----------------------------------------------------------------------------
(* Properties                                                              *)

\* Nothing is being processed, and nothing is left to process about the only
\* subscription of the organisation.
Settled(s) ==
  /\ remote[s] # "none" /\ \A o \in Plans \ {s} : remote[o] = "none"
  /\ NothingPending(s) /\ \A h \in Handlers : AtStep(h, "idle")

FollowsProvider(s) ==
  tenant = mapSubscriptionStatus[remote[s]] /\ row[s] = mapSubscriptionStatus[remote[s]]

\* Once all its events are processed, the organisation has the status of its subscription
\* when they were processed one at a time and in order, whatever fails half-way and is
\* delivered again in its turn.
TenantFollowsInOrder ==
  ~disordered => \A s \in Plans : Settled(s) => FollowsProvider(s)
=============================================================================

--------------------------- MODULE OrcaproBilling ---------------------------
(***************************************************************************)
(* The OrçaPro licence of one user (orcapro-stripe.service.ts, and the     *)
(* manual control of orcapro-saas.service.ts).                             *)
(*                                                                         *)
(* Every transaction on the licence locks its row first, and some call the *)
(* provider while they hold it: what the provider answered may be old when *)
(* they commit.  Those have a Start and a Commit step.                     *)
(*                                                                         *)
(* The version of the row is compared only with the one that a checkout    *)
(* wrote into its subscription (activationVersion): "fresh" is the         *)
(* subscription for which they are still equal.  Left out: the periods,    *)
(* the plans and their prices, and the invoice events, that refresh a      *)
(* linked licence as the others do.                                        *)
(***************************************************************************)
EXTENDS Stripe

CONSTANT NoSubscription

ASSUME NoSubscriptionIsNone == NoSubscription \notin Subscriptions

VARIABLES
  licence,    \* the OrcaproSubscription row
  purchase,   \* purchase[s]: the checkout session, at the provider, that may become s
  processed,  \* OrcaproStripeEvent rows
  work,       \* the transaction that holds the row
  manual      \* history: an administrator decided after the last checkout or SYNC

licenceVars == <<licence, purchase, processed, work, manual>>

Free == [op |-> "free"]

LicenceStatus ==
  [incomplete |-> "PAST_DUE", active |-> "ACTIVE", past_due |-> "PAST_DUE", canceled |-> "CANCELED",
   incomplete_expired |-> "CANCELED"]

\* The row of an account that an administrator or an organisation creates, or of one
\* that registers itself for a plan.
LicenceInit ==
  /\ \E origin \in {<<"MANUAL", "TRIALING">>, <<"STRIPE", "UNPAID">>} :
       licence = [sub |-> NoSubscription, stripeStatus |-> "none", source |-> origin[1],
                  status |-> origin[2], checkout |-> NoSubscription, fresh |-> NoSubscription]
  /\ purchase = [s \in Subscriptions |-> "none"]
  /\ processed = {}
  /\ work = Free
  /\ manual = FALSE

-----------------------------------------------------------------------------
(* checkout, and what the customer and time do with the session            *)

\* The checkout is refused while there is a charge.
MayContract == licence.sub = NoSubscription \/ licence.stripeStatus \in {"canceled", "incomplete_expired"}

\* An open session is used again, or expired when another plan is asked for; a completed
\* one is to be waited for.
Checkout(s) ==
  /\ work = Free
  /\ MayContract
  /\ purchase[s] = "none"
  /\ licence.checkout # NoSubscription => purchase[licence.checkout] # "complete"
  /\ licence' = [licence EXCEPT !.checkout = s, !.fresh = s]
  /\ purchase' = [o \in Subscriptions |-> IF o = s THEN "open"
                                          ELSE IF o = licence.checkout THEN "expired" ELSE purchase[o]]
  /\ manual' = FALSE
  /\ UNCHANGED <<processed, work, stripeVars>>

Complete(s) ==
  /\ purchase[s] = "open"
  /\ Subscribe(s)
  /\ purchase' = [purchase EXCEPT ![s] = "complete"]
  /\ UNCHANGED <<licence, processed, work, manual>>

SessionExpires(s) ==
  /\ purchase[s] = "open"
  /\ purchase' = [purchase EXCEPT ![s] = "expired"]
  /\ UNCHANGED <<licence, processed, work, manual, stripeVars>>

-----------------------------------------------------------------------------
(* handleEvent                                                             *)

\* Mutant: the status is the one the event carries.
StatusInEvent(event) == log[event[1]][event[2]].status

\* The subscription is retrieved under the lock of the row.
Retrieved(event) == remote[event[1]]

\* Mutant: a subscription that is new to the licence takes it over.
AnotherSubscription(s) == licence.sub # s

firstStripe(s) == licence.sub # s /\ licence.fresh = s

\* An event about another subscription is recorded and ignored while the linked one is
\* not canceled.
IsAboutAnother(s) == licence.sub \notin {NoSubscription, s} /\ licence.stripeStatus # "canceled"

DeliverDuplicate(event) ==
  /\ work = Free /\ event \in pending
  /\ event \in processed
  /\ Answered(event)
  /\ UNCHANGED licenceVars

DeliverIgnored(event) ==
  /\ work = Free /\ event \in pending \ processed
  /\ IsAboutAnother(event[1])
  /\ processed' = processed \cup {event}
  /\ Answered(event)
  /\ UNCHANGED <<licence, purchase, work, manual>>

DeliverStart(event) ==
  /\ work = Free /\ event \in pending \ processed
  /\ ~IsAboutAnother(event[1])
  /\ work' = [op |-> "deliver", event |-> event, s |-> event[1], status |-> Retrieved(event),
              resumeStripe |-> firstStripe(event[1])]
  /\ UNCHANGED <<licence, purchase, processed, manual, stripeVars>>

\* apply: an access decided by an administrator is not overwritten.
Apply(resumeStripe) ==
  LET source == IF resumeStripe THEN "STRIPE" ELSE licence.source IN
  [licence EXCEPT !.sub = work.s, !.stripeStatus = work.status, !.source = source,
                  !.status = IF source = "STRIPE" THEN LicenceStatus[work.status] ELSE @,
                  !.fresh = NoSubscription]

DeliverCommit ==
  /\ work.op = "deliver"
  /\ licence' = [Apply(work.resumeStripe) EXCEPT
                   !.checkout = IF work.resumeStripe THEN NoSubscription ELSE @]
  /\ processed' = processed \cup {work.event}
  /\ Answered(work.event)
  /\ work' = Free
  /\ UNCHANGED <<purchase, manual>>

-----------------------------------------------------------------------------
(* action (SYNC, CANCEL_AT_PERIOD_END, RESUME), and the manual control     *)

ActionStart(sync) ==
  /\ work = Free
  /\ licence.sub # NoSubscription
  /\ work' = [op |-> "action", s |-> licence.sub, status |-> remote[licence.sub], resumeStripe |-> sync]
  /\ UNCHANGED <<licence, purchase, processed, manual, stripeVars>>

ActionCommit ==
  /\ work.op = "action"
  /\ licence' = Apply(work.resumeStripe)
  /\ work' = Free
  /\ manual' = (manual /\ ~work.resumeStripe)
  /\ UNCHANGED <<purchase, processed, stripeVars>>

\* subscription of orcapro-saas.service.ts
DecideManually(status) ==
  /\ work = Free
  /\ licence' = [licence EXCEPT !.status = status, !.source = "MANUAL", !.fresh = NoSubscription]
  /\ manual' = TRUE
  /\ UNCHANGED <<purchase, processed, work, stripeVars>>

\* A call of the provider or the database fails, or the process stops: the provider
\* delivers the event again.
Rollback ==
  /\ work # Free
  /\ work' = Free
  /\ UNCHANGED <<licence, purchase, processed, manual, stripeVars>>

LicenceNext ==
  \/ \E s \in Subscriptions : Checkout(s) \/ Complete(s) \/ SessionExpires(s)
  \/ \E s \in Subscriptions : ChangeStatus(s) /\ UNCHANGED licenceVars
  \/ \E event \in pending : DeliverDuplicate(event) \/ DeliverIgnored(event) \/ DeliverStart(event)
  \/ DeliverCommit
  \/ \E sync \in BOOLEAN : ActionStart(sync)
  \/ ActionCommit
  \/ \E status \in {"MANUAL_CONTRACT", "CANCELED"} : DecideManually(status)
  \/ Rollback

LicenceSpec == StripeInit /\ LicenceInit /\ [][LicenceNext]_<<licenceVars, stripeVars>>

-----------------------------------------------------------------------------
(* Properties                                                              *)

\* Duplicated and out-of-order deliveries do not leave an obsolete status: once the
\* events about the linked subscription are answered, the licence has its status.
LicenceFollowsProvider ==
  LET s == licence.sub IN
  s # NoSubscription /\ work = Free /\ NothingPending(s) =>
    /\ licence.stripeStatus = remote[s]
    /\ licence.source = "STRIPE" => licence.status = LicenceStatus[remote[s]]

\* What an administrator decided stands until a SYNC, or a checkout opened after it: no
\* event of an earlier checkout takes the licence back.
ManualDecisionStands == manual => licence.source = "MANUAL"
=============================================================================

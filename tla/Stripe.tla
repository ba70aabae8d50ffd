------------------------------ MODULE Stripe ------------------------------
(***************************************************************************)
(* The payment provider, as the billing code uses it (external): it keeps  *)
(* the subscriptions, and tells each change by an event that carries the   *)
(* status at that time.  An event is delivered, in any order, until its    *)
(* answer arrives; the answer may be lost, and the event sent again.       *)
(***************************************************************************)
EXTENDS Integers, Sequences

CONSTANTS Subscriptions,
          MaxEvents   \* bound: events about one subscription

\* What the provider turns a status into.  "none": not subscribed yet.
Successors ==
  [none |-> {}, incomplete |-> {"active", "incomplete_expired"}, active |-> {"past_due", "canceled"},
   past_due |-> {"active", "canceled"}, canceled |-> {}, incomplete_expired |-> {}]

VARIABLES
  remote,   \* remote[s]: the status of subscription s at the provider
  log,      \* log[s]: the events about s, oldest first
  pending   \* <<s, i>>: event i about s is still to be delivered, or again

stripeVars == <<remote, log, pending>>

StripeInit ==
  /\ remote = [s \in Subscriptions |-> "none"]
  /\ log = [s \in Subscriptions |-> <<>>]
  /\ pending = {}

Change(s, status, kinds) ==
  LET n == Len(log[s]) IN
  /\ n + Len(kinds) <= MaxEvents
  /\ remote' = [remote EXCEPT ![s] = status]
  /\ log' = [log EXCEPT ![s] = @ \o [k \in 1..Len(kinds) |-> [kind |-> kinds[k], status |-> status]]]
  /\ pending' = pending \cup {<<s, n + k>> : k \in 1..Len(kinds)}

\* The customer completes a checkout.
Subscribe(s) ==
  /\ remote[s] = "none"
  /\ \E status \in {"incomplete", "active"} : Change(s, status, <<"checkout", "subscription">>)

\* A payment arrives, fails or expires; the subscription is canceled.
ChangeStatus(s) == \E status \in Successors[remote[s]] : Change(s, status, <<"subscription">>)

Answered(event) ==
  /\ pending' \in {pending, pending \ {event}}
  /\ UNCHANGED <<remote, log>>

NothingPending(s) == \A event \in pending : event[1] # s
=============================================================================

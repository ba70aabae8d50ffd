----------------------------- MODULE MCBilling -----------------------------
(***************************************************************************)
(* OrcaproBilling and TenantBilling, two users of one provider, on small   *)
(* instances.  They share no row, so "part" says which of the two runs.    *)
(***************************************************************************)
EXTENDS OrcaproBilling, TenantBilling

CONSTANT LicenceEvents  \* bound: events about one subscription of a licence

VARIABLE part

mcVars == <<licenceVars, tenantVars, stripeVars, part>>

MCInit == StripeInit /\ LicenceInit /\ TenantInit /\ part \in {"licence", "tenant"}

MCNext ==
  /\ \/ /\ part = "licence" /\ LicenceNext /\ UNCHANGED tenantVars
        /\ \A s \in Plans : remote'[s] = "none"
        /\ \A s \in Subscriptions : Len(log'[s]) <= LicenceEvents
     \/ part = "tenant" /\ TenantNext /\ UNCHANGED licenceVars
  /\ UNCHANGED part

MCSpec == MCInit /\ [][MCNext]_mcVars
=============================================================================

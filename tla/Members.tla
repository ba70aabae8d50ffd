------------------------------ MODULE Members ------------------------------
(***************************************************************************)
(* The membership of one person in one organisation, its invitation, and   *)
(* the refresh sessions of the person (auth.service.ts,                    *)
(* members.service.ts).                                                    *)
(*                                                                         *)
(* A request reads before its transaction and writes in it, and "req" has  *)
(* what it read.  A refresh is three steps: it reads the session, revokes  *)
(* it if nobody did, and inserts the next one.                             *)
(*                                                                         *)
(* Left out: roles, the tenant, the dates at which a session or an access  *)
(* ends, the recovery tokens, and passwords: what changes one revokes all  *)
(* sessions, as RevokeSessions does.                                       *)
(***************************************************************************)
CONSTANTS Requests,  \* concurrent requests
          Tokens,    \* bound: refresh tokens ever issued
          NoToken

ASSUME NoTokenIsNone == NoToken \notin Tokens

VARIABLES
  user,        \* User.status, or "none"
  member,      \* TenantMembership.status, or "none"
  invitation,  \* the TenantInvitation row: [exists, accepted, expired]
  session,     \* session[t]: the RefreshSession row with that token
  req          \* req[r]: what request r has read

vars == <<user, member, invitation, session, req>>

Idle == [at |-> "idle"]
Unissued == [state |-> "none", login |-> NoToken]

\* A person without an account, or with one of another organisation.
Init ==
  /\ user \in {"none", "ACTIVE"}
  /\ member = "none"
  /\ invitation = [exists |-> FALSE, accepted |-> FALSE, expired |-> FALSE]
  /\ session = [t \in Tokens |-> Unissued]
  /\ req = [r \in Requests |-> Idle]

Live == {t \in Tokens : session[t].state = "live"}

Receive(r, read) == req[r] = Idle /\ req' = [req EXCEPT ![r] = read]

Finish(r) == req' = [req EXCEPT ![r] = Idle]

\* updateMany of the sessions that are not revoked.
Revoke(tokens) ==
  session' = [t \in Tokens |-> IF t \in tokens \cap Live THEN [session[t] EXCEPT !.state = "revoked"]
                               ELSE session[t]]

-----------------------------------------------------------------------------
(* Invitations                                                             *)

\* An administrator creates the account with its password.
Create ==
  /\ user = "none"
  /\ user' = "ACTIVE" /\ member' = "ACTIVE"
  /\ UNCHANGED <<invitation, session, req>>

\* Mutant: an active member is invited again.
CanInviteActive == member # "SUSPENDED"

CanInvite == member \notin {"ACTIVE", "SUSPENDED"}

InviteRead(r) ==
  /\ CanInvite
  /\ Receive(r, [at |-> "invite", user |-> user, member |-> member])
  /\ UNCHANGED <<user, member, invitation, session>>

\* Mutant: a renewed invitation keeps its acceptance.
RenewedKept == [invitation EXCEPT !.exists = TRUE, !.expired = FALSE]

Renewed == [exists |-> TRUE, accepted |-> FALSE, expired |-> FALSE]

\* Two upserts, whatever the membership has become; the e-mail of an account is unique.
InviteCommit(r) ==
  /\ req[r].at = "invite"
  /\ req[r].user = "none" => user = "none"
  /\ user' = IF req[r].user = "none" THEN "INVITED" ELSE user
  /\ member' = "INVITED"
  /\ invitation' = Renewed
  /\ Finish(r)
  /\ UNCHANGED session

InvitationExpires ==
  /\ invitation.exists /\ ~invitation.expired
  /\ invitation' = [invitation EXCEPT !.expired = TRUE]
  /\ UNCHANGED <<user, member, session, req>>

Acceptable == invitation.exists /\ ~invitation.accepted /\ ~invitation.expired /\ member = "INVITED"

AcceptRead(r) ==
  /\ Acceptable
  /\ Receive(r, [at |-> "accept"])
  /\ UNCHANGED <<user, member, invitation, session>>

\* The clock of the first read is the one compared with the expiry.
AcceptCommit(r) ==
  /\ req[r].at = "accept"
  /\ ~invitation.accepted /\ member = "INVITED"
  /\ invitation' = [invitation EXCEPT !.accepted = TRUE]
  /\ member' = "ACTIVE" /\ user' = "ACTIVE"
  /\ Finish(r)
  /\ UNCHANGED session

-----------------------------------------------------------------------------
(* Administration of the membership                                        *)

\* update: whatever the status was, an invitation that is open included.
Update(status) ==
  /\ member # "none"
  /\ member' = status
  /\ Revoke(Tokens)
  /\ UNCHANGED <<user, invitation, req>>

RevokeSessions ==
  /\ member # "none"
  /\ Revoke(Tokens)
  /\ UNCHANGED <<user, member, invitation, req>>

-----------------------------------------------------------------------------
(* Sessions                                                                *)

HasAccess == user = "ACTIVE" /\ member = "ACTIVE"

Login(r) ==
  /\ HasAccess
  /\ Receive(r, [at |-> "issue", login |-> NoToken])
  /\ UNCHANGED <<user, member, invitation, session>>

RefreshRead(r, t) ==
  /\ HasAccess /\ t \in Live
  /\ Receive(r, [at |-> "rotate", token |-> t, login |-> session[t].login])
  /\ UNCHANGED <<user, member, invitation, session>>

\* Mutant: the session is taken as it was read.
StillLiveAsRead(t) == TRUE

StillLive(t) == t \in Live

Rotate(r) ==
  /\ req[r].at = "rotate"
  /\ StillLive(req[r].token)
  /\ Revoke({req[r].token})
  /\ req' = [req EXCEPT ![r] = [at |-> "issue", login |-> req[r].login]]
  /\ UNCHANGED <<user, member, invitation>>

\* A login starts a chain of sessions, named after its first token.
IssueSession(r, t) ==
  /\ req[r].at = "issue" /\ session[t].state = "none"
  /\ session' = [session EXCEPT ![t] =
       [state |-> "live", login |-> IF req[r].login = NoToken THEN t ELSE req[r].login]]
  /\ Finish(r)
  /\ UNCHANGED <<user, member, invitation>>

Logout(t) ==
  /\ t \in Live
  /\ Revoke({t})
  /\ UNCHANGED <<user, member, invitation, req>>

\* A refused check, an error, a crash.
Abandon(r) == req[r] # Idle /\ Finish(r) /\ UNCHANGED <<user, member, invitation, session>>

-----------------------------------------------------------------------------
Next ==
  \/ Create \/ InvitationExpires \/ RevokeSessions
  \/ \E status \in {"ACTIVE", "SUSPENDED"} : Update(status)
  \/ \E t \in Tokens : Logout(t)
  \/ \E r \in Requests :
       \/ InviteRead(r) \/ InviteCommit(r) \/ AcceptRead(r) \/ AcceptCommit(r)
       \/ Login(r) \/ Rotate(r) \/ Abandon(r)
       \/ \E t \in Tokens : RefreshRead(r, t) \/ IssueSession(r, t)

Spec == Init /\ [][Next]_vars

-----------------------------------------------------------------------------
(* Properties                                                              *)

Issuing(r) == req[r].at = "issue" /\ req[r].login # NoToken

\* However many tabs refresh one session at a time, a login has one session that can be
\* refreshed, or one request about to insert it.
RotatedOnce ==
  /\ \A t, u \in Live : session[t].login = session[u].login => t = u
  /\ \A r, s \in Requests : Issuing(r) /\ Issuing(s) /\ req[r].login = req[s].login => r = s
  /\ \A r \in Requests, t \in Live : Issuing(r) => req[r].login # session[t].login

\* Who is INVITED holds an invitation that was not accepted yet, good until it expires,
\* whatever acceptances and renewals crossed.
InvitedCanAccept == member = "INVITED" => invitation.exists /\ ~invitation.accepted

\* A member goes back to INVITED only by an invitation that was decided before the
\* membership changed.
MemberStaysWhenFresh == [][member' = "INVITED" /\ member \in {"ACTIVE", "SUSPENDED"} =>
  \E r \in Requests : req[r].at = "invite" /\ req'[r] = Idle /\ req[r].member # member]_vars
=============================================================================

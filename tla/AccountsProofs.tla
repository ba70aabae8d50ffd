--------------------------- MODULE AccountsProofs ---------------------------
(***************************************************************************)
(* The accounts of an organisation, for any number of requests, sessions,  *)
(* subscriptions and events.                                               *)
(*                                                                         *)
(* Members: a login never has two sessions that can be refreshed, who is   *)
(* invited can accept, and a member goes back to INVITED only by an        *)
(* invitation decided on a stale membership.                               *)
(*                                                                         *)
(* Billing: the provider tells each change of a subscription by an event   *)
(* about it, and an event that is not answered comes again.  A licence     *)
(* either has the provider's status or an event is still to tell it; the   *)
(* rows of the organisation are as the last of its events left them, as    *)
(* long as they are processed one at a time and in order.                  *)
(***************************************************************************)
EXTENDS Members, OrcaproBilling, TenantBilling, SequenceTheorems, TLAPS

-----------------------------------------------------------------------------
(* Members and their sessions.                                             *)

UserStatus == {"none", "INVITED", "ACTIVE"}
MemberStatus == {"none", "INVITED", "ACTIVE", "SUSPENDED"}

Reading ==
  {Idle}
    \cup [at : {"invite"}, user : UserStatus, member : MemberStatus \ {"ACTIVE", "SUSPENDED"}]
    \cup [at : {"accept"}]
    \cup [at : {"rotate"}, token : Tokens, login : Tokens]
    \cup [at : {"issue"}, login : Tokens \cup {NoToken}]

TypeOK ==
  /\ user \in UserStatus /\ member \in MemberStatus
  /\ invitation \in [exists : BOOLEAN, accepted : BOOLEAN, expired : BOOLEAN]
  /\ session \in [Tokens -> [state : {"none", "live", "revoked"}, login : Tokens \cup {NoToken}]]
  /\ req \in [Requests -> Reading]

Issued(t) == session[t].state # "none"

\* A chain of sessions is named after a token that was issued.
LoginsStarted ==
  /\ \A t \in Tokens : Issued(t) => session[t].login \in Tokens /\ Issued(session[t].login)
  /\ \A r \in Requests : req[r].at = "rotate" =>
       Issued(req[r].token) /\ req[r].login = session[req[r].token].login
  /\ \A r \in Requests : Issuing(r) => Issued(req[r].login)

MembersInv == TypeOK /\ LoginsStarted /\ RotatedOnce /\ InvitedCanAccept

-----------------------------------------------------------------------------

\* No member, invitation or token is there at first.
LEMMA MembersBegin == Init => MembersInv
BY NoTokenIsNone DEF Init, MembersInv, TypeOK, LoginsStarted, RotatedOnce, InvitedCanAccept, Idle, Unissued,
  Live, Issued, Issuing, UserStatus, MemberStatus, Reading

\* Revoking tokens leaves tokens.
LEMMA RevokeTyped ==
  ASSUME TypeOK, NEW tokens \in SUBSET Tokens, Revoke(tokens)
  PROVE  /\ session' \in [Tokens -> [state : {"none", "live", "revoked"}, login : Tokens \cup {NoToken}]]
         /\ \A t \in Tokens : session'[t].login = session[t].login
         /\ \A t \in Tokens : Issued(t)' <=> Issued(t)
         /\ Live' = Live \ tokens
BY DEF TypeOK, Revoke, Live, Issued

\* A request that ends takes nothing from the sessions' invariants.
LEMMA FinishKeeps ==
  ASSUME MembersInv, NEW r \in Requests, Finish(r), UNCHANGED session
  PROVE  (LoginsStarted /\ RotatedOnce)' /\ req' \in [Requests -> Reading]
BY DEF MembersInv, TypeOK, Finish, LoginsStarted, RotatedOnce, Issued, Issuing, Live, Idle, Reading

\* Nor does one that begins with no login in hand.
LEMMA ReceiveKeeps ==
  ASSUME MembersInv, NEW r \in Requests, NEW read \in Reading, Receive(r, read), UNCHANGED session,
         read.at = "issue" => read.login = NoToken,
         read.at = "rotate" => Issued(read.token) /\ read.login = session[read.token].login
  PROVE  (LoginsStarted /\ RotatedOnce)' /\ req' \in [Requests -> Reading]
BY DEF MembersInv, TypeOK, Receive, LoginsStarted, RotatedOnce, Issued, Issuing, Live

\* Revoking a token breaks nothing.
LEMMA RevokeKeeps ==
  ASSUME MembersInv, NEW tokens \in SUBSET Tokens, Revoke(tokens), UNCHANGED req
  PROVE  (LoginsStarted /\ RotatedOnce)'
<1>1. TypeOK
  BY DEF MembersInv
<1>2. /\ \A t \in Tokens : session'[t].login = session[t].login
      /\ \A t \in Tokens : Issued(t)' <=> Issued(t)
      /\ Live' = Live \ tokens
  BY <1>1, RevokeTyped
<1>3. LoginsStarted'
  <2>1. \A t \in Tokens : Issued(t)' => session'[t].login \in Tokens /\ Issued(session[t].login)'
    BY <1>2 DEF MembersInv, LoginsStarted, Issued
  <2>2. \A r \in Requests : req'[r].at = "rotate" =>
          Issued(req[r].token)' /\ req'[r].login = session'[req'[r].token].login
    BY <1>1, <1>2 DEF MembersInv, LoginsStarted, Issued, TypeOK, Reading, Idle
  <2>3. \A r \in Requests : Issuing(r)' => Issued(req[r].login)'
    BY <1>1, <1>2 DEF MembersInv, LoginsStarted, Issued, Issuing, TypeOK, Reading, Idle
  <2> QED BY <2>1, <2>2, <2>3 DEF LoginsStarted
<1>4. RotatedOnce'
  BY <1>2 DEF MembersInv, RotatedOnce, Issuing, Live
<1> QED BY <1>3, <1>4

\* Neither does exchanging one for its successor.
LEMMA RotateKeeps ==
  ASSUME MembersInv, NEW r \in Requests, Rotate(r)
  PROVE  MembersInv'
<1> DEFINE t == req[r].token
           login == req[r].login
<1>1. TypeOK /\ RotatedOnce /\ LoginsStarted /\ InvitedCanAccept
  BY DEF MembersInv
<1>2. /\ req[r] \in [at : {"rotate"}, token : Tokens, login : Tokens]
      /\ t \in Live /\ login = session[t].login /\ Issued(t) /\ Issued(login)
      /\ login # NoToken
  BY <1>1, NoTokenIsNone DEF TypeOK, LoginsStarted, Rotate, StillLive, Idle, Reading, Live
<1>3. /\ session' \in [Tokens -> [state : {"none", "live", "revoked"}, login : Tokens \cup {NoToken}]]
      /\ \A o \in Tokens : session'[o].login = session[o].login
      /\ \A o \in Tokens : Issued(o)' <=> Issued(o)
      /\ Live' = Live \ {t}
  BY <1>1, <1>2, RevokeTyped DEF Rotate
<1>4. /\ req' = [req EXCEPT ![r] = [at |-> "issue", login |-> login]]
      /\ UNCHANGED <<user, member, invitation>>
  BY DEF Rotate
<1>5. TypeOK'
  BY <1>1, <1>2, <1>3, <1>4 DEF TypeOK, Reading
<1>6. LoginsStarted'
  <2>1. \A o \in Tokens : Issued(o)' => session'[o].login \in Tokens /\ Issued(session[o].login)'
    BY <1>1, <1>3 DEF LoginsStarted
  <2>2. \A s \in Requests : req'[s].at = "rotate" =>
          Issued(req[s].token) /\ req'[s] = req[s] /\ req[s].token \in Tokens
    BY <1>1, <1>4 DEF LoginsStarted, TypeOK, Reading, Idle
  <2>3. \A s \in Requests : Issuing(s)' => Issued(req'[s].login) /\ req'[s].login \in Tokens
    BY <1>1, <1>2, <1>4, NoTokenIsNone DEF LoginsStarted, TypeOK, Reading, Idle, Issuing
  <2> QED BY <1>1, <1>3, <2>1, <2>2, <2>3 DEF LoginsStarted
<1>7. RotatedOnce'
  <2>1. \A o \in Live' : session'[o].login # login
    BY <1>1, <1>2, <1>3 DEF RotatedOnce, Live
  <2>2. \A s \in Requests : Issuing(s) => req[s].login # login
    BY <1>1, <1>2 DEF RotatedOnce
  <2>3. \A s \in Requests : s # r => (Issuing(s)' <=> Issuing(s)) /\ req'[s] = req[s]
    BY <1>4 DEF Issuing
  <2>4. req'[r].login = login
    BY <1>1, <1>4 DEF TypeOK
  <2>5. \A o, u \in Live' : session'[o].login = session'[u].login => o = u
    BY <1>1, <1>3 DEF RotatedOnce, Live
  <2>6. \A s, u \in Requests : Issuing(s)' /\ Issuing(u)' /\ req'[s].login = req'[u].login => s = u
    BY <1>1, <2>2, <2>3, <2>4 DEF RotatedOnce
  <2>7. \A s \in Requests, o \in Live' : Issuing(s)' => req'[s].login # session'[o].login
    BY <1>1, <1>3, <2>1, <2>3, <2>4 DEF RotatedOnce, Live
  <2> QED BY <2>5, <2>6, <2>7 DEF RotatedOnce
<1>8. InvitedCanAccept'
  BY <1>1, <1>4 DEF InvitedCanAccept
<1> QED BY <1>5, <1>6, <1>7, <1>8 DEF MembersInv

\* Nor issuing a new one.
LEMMA IssueKeeps ==
  ASSUME MembersInv, NEW r \in Requests, NEW t \in Tokens, IssueSession(r, t)
  PROVE  MembersInv'
<1> DEFINE login == IF req[r].login = NoToken THEN t ELSE req[r].login
<1>1. TypeOK /\ RotatedOnce /\ LoginsStarted /\ InvitedCanAccept
  BY DEF MembersInv
<1>2. /\ req[r] \in [at : {"issue"}, login : Tokens \cup {NoToken}]
      /\ login \in Tokens /\ ~Issued(t)
  BY <1>1 DEF TypeOK, IssueSession, Idle, Reading, Issued
<1>3. /\ session' = [session EXCEPT ![t] = [state |-> "live", login |-> login]]
      /\ req' = [req EXCEPT ![r] = Idle]
      /\ UNCHANGED <<user, member, invitation>>
  BY DEF IssueSession, Finish
<1>4. TypeOK'
  BY <1>1, <1>2, <1>3 DEF TypeOK, Reading
<1>5. /\ \A o \in Tokens : Issued(o)' <=> Issued(o) \/ o = t
      /\ \A o \in Tokens \ {t} : session'[o] = session[o]
      /\ session'[t].login = login
      /\ Live' = Live \cup {t}
  BY <1>1, <1>3 DEF TypeOK, Issued, Live
<1>6. /\ \A s \in Requests \ {r} : req'[s] = req[s] /\ (Issuing(s)' <=> Issuing(s))
      /\ ~Issuing(r)' /\ req'[r].at # "rotate"
  BY <1>1, <1>3 DEF TypeOK, Issuing, Idle
<1>7. login # t => Issued(login) /\ Issuing(r) /\ login = req[r].login
  BY <1>1, <1>2 DEF LoginsStarted, Issuing
<1>8. LoginsStarted'
  <2>1. \A o \in Tokens : Issued(o)' => session'[o].login \in Tokens /\ Issued(session[o].login)'
    <3> SUFFICES ASSUME NEW o \in Tokens, Issued(o)'
                 PROVE  session'[o].login \in Tokens /\ Issued(session[o].login)'
      OBVIOUS
    <3>1. CASE o = t
      <4>1. PICK l \in Tokens : l = login /\ Issued(l)'
        BY <1>2, <1>5, <1>7
      <4> QED BY <1>5, <3>1, <4>1 DEF Issued
    <3>2. CASE o # t
      <4>1. session'[o] = session[o] /\ session[o].login \in Tokens /\ Issued(session[o].login)
        BY <1>1, <1>5, <3>2 DEF LoginsStarted
      <4>2. PICK l \in Tokens : l = session[o].login /\ Issued(l)'
        BY <1>5, <4>1
      <4> QED BY <4>1, <4>2 DEF Issued
    <3> QED BY <3>1, <3>2
  <2>2. \A s \in Requests : req'[s].at = "rotate" =>
          /\ req'[s] = req[s] /\ req[s].token \in Tokens \ {t}
          /\ Issued(req[s].token)' /\ req[s].login = session'[req[s].token].login
    BY <1>1, <1>2, <1>5, <1>6 DEF LoginsStarted, TypeOK, Reading, Idle
  <2>3. \A s \in Requests : Issuing(s)' => Issued(req[s].login)'
    <3> SUFFICES ASSUME NEW s \in Requests, Issuing(s)' PROVE Issued(req[s].login)'
      OBVIOUS
    <3>1. req'[s] = req[s] /\ req[s].login \in Tokens /\ Issued(req[s].login)
      BY <1>1, <1>6 DEF LoginsStarted, TypeOK, Reading, Idle, Issuing
    <3>2. PICK l \in Tokens : l = req[s].login /\ Issued(l)'
      BY <1>5, <3>1
    <3> QED BY <3>1, <3>2 DEF Issued
  <2> QED BY <2>1, <2>2, <2>3 DEF LoginsStarted, Issued
<1>9. RotatedOnce'
  <2>1. \A o \in Live : o # t /\ session[o].login # login
    BY <1>1, <1>2, <1>7 DEF Live, Issued, LoginsStarted, RotatedOnce
  <2>2. \A s \in Requests \ {r} : Issuing(s) => req[s].login # login
    BY <1>1, <1>2, <1>7 DEF LoginsStarted, RotatedOnce
  <2>3. \A o, u \in Live' : session'[o].login = session'[u].login => o = u
    BY <1>1, <1>5, <2>1 DEF RotatedOnce, Live
  <2>4. \A s, u \in Requests : Issuing(s)' /\ Issuing(u)' /\ req'[s].login = req'[u].login => s = u
    BY <1>1, <1>6 DEF RotatedOnce
  <2>5. \A s \in Requests, o \in Live' : Issuing(s)' => req'[s].login # session'[o].login
    BY <1>1, <1>5, <1>6, <2>1, <2>2 DEF RotatedOnce, Live
  <2> QED BY <2>3, <2>4, <2>5 DEF RotatedOnce
<1>10. InvitedCanAccept'
  BY <1>1, <1>3 DEF InvitedCanAccept
<1> QED BY <1>4, <1>8, <1>9, <1>10 DEF MembersInv

\* Nor doing nothing.
LEMMA StutterKeeps == MembersInv /\ UNCHANGED vars => MembersInv'
BY DEF vars, MembersInv, TypeOK, LoginsStarted, RotatedOnce, InvitedCanAccept, Issued, Issuing, Live

\* Every step keeps the invariant of the members.
LEMMA Inductive == MembersInv /\ [Next]_vars => MembersInv'
<1> SUFFICES ASSUME MembersInv, Next PROVE MembersInv'
  BY StutterKeeps
<1>1. TypeOK /\ LoginsStarted /\ RotatedOnce /\ InvitedCanAccept
  BY DEF MembersInv
<1>2. CASE Create
  BY <1>1, <1>2 DEF Create, MembersInv, TypeOK, LoginsStarted, RotatedOnce, InvitedCanAccept, Issued, Issuing,
    Live, UserStatus, MemberStatus
<1>3. CASE InvitationExpires
  BY <1>1, <1>3 DEF InvitationExpires, MembersInv, TypeOK, LoginsStarted, RotatedOnce, InvitedCanAccept, Issued,
    Issuing, Live
<1>4. CASE RevokeSessions
  <2>1. (LoginsStarted /\ RotatedOnce)'
    BY <1>4, RevokeKeeps DEF RevokeSessions
  <2> QED BY <1>1, <1>4, <2>1, RevokeTyped DEF RevokeSessions, MembersInv, TypeOK, InvitedCanAccept
<1>5. ASSUME NEW status \in {"ACTIVE", "SUSPENDED"}, Update(status) PROVE MembersInv'
  <2>1. (LoginsStarted /\ RotatedOnce)'
    BY <1>5, RevokeKeeps DEF Update
  <2> QED BY <1>1, <1>5, <2>1, RevokeTyped DEF Update, MembersInv, TypeOK, InvitedCanAccept, MemberStatus
<1>6. ASSUME NEW t \in Tokens, Logout(t) PROVE MembersInv'
  <2>1. (LoginsStarted /\ RotatedOnce)'
    BY <1>6, RevokeKeeps DEF Logout
  <2> QED BY <1>1, <1>6, <2>1, RevokeTyped DEF Logout, MembersInv, TypeOK, InvitedCanAccept
<1>7. ASSUME NEW r \in Requests, InviteRead(r) PROVE MembersInv'
  <2> DEFINE read == [at |-> "invite", user |-> user, member |-> member]
  <2>1. read \in Reading /\ Receive(r, read) /\ UNCHANGED <<user, member, invitation, session>>
    BY <1>1, <1>7 DEF InviteRead, CanInvite, TypeOK, Reading
  <2>2. (LoginsStarted /\ RotatedOnce)' /\ req' \in [Requests -> Reading]
    BY <2>1, ReceiveKeeps
  <2> QED BY <1>1, <2>1, <2>2 DEF MembersInv, TypeOK, InvitedCanAccept
<1>8. ASSUME NEW r \in Requests, InviteCommit(r) PROVE MembersInv'
  <2>1. (LoginsStarted /\ RotatedOnce)' /\ req' \in [Requests -> Reading]
    BY <1>8, FinishKeeps DEF InviteCommit
  <2> QED BY <1>1, <1>8, <2>1 DEF InviteCommit, Renewed, MembersInv, TypeOK, InvitedCanAccept, UserStatus, MemberStatus
<1>9. ASSUME NEW r \in Requests, AcceptRead(r) PROVE MembersInv'
  <2> DEFINE read == [at |-> "accept"]
  <2>1. read \in Reading /\ Receive(r, read) /\ UNCHANGED <<user, member, invitation, session>>
    BY <1>1, <1>9 DEF AcceptRead, Reading
  <2>2. (LoginsStarted /\ RotatedOnce)' /\ req' \in [Requests -> Reading]
    BY <2>1, ReceiveKeeps
  <2> QED BY <1>1, <2>1, <2>2 DEF MembersInv, TypeOK, InvitedCanAccept
<1>10. ASSUME NEW r \in Requests, AcceptCommit(r) PROVE MembersInv'
  <2>1. (LoginsStarted /\ RotatedOnce)' /\ req' \in [Requests -> Reading]
    BY <1>10, FinishKeeps DEF AcceptCommit
  <2> QED BY <1>1, <1>10, <2>1 DEF AcceptCommit, MembersInv, TypeOK, InvitedCanAccept, UserStatus, MemberStatus
<1>11. ASSUME NEW r \in Requests, Login(r) PROVE MembersInv'
  <2> DEFINE read == [at |-> "issue", login |-> NoToken]
  <2>1. read \in Reading /\ Receive(r, read) /\ UNCHANGED <<user, member, invitation, session>>
    BY <1>1, <1>11 DEF Login, Reading
  <2>2. (LoginsStarted /\ RotatedOnce)' /\ req' \in [Requests -> Reading]
    BY <2>1, ReceiveKeeps
  <2> QED BY <1>1, <2>1, <2>2 DEF MembersInv, TypeOK, InvitedCanAccept
<1>12. ASSUME NEW r \in Requests, NEW t \in Tokens, RefreshRead(r, t) PROVE MembersInv'
  <2> DEFINE read == [at |-> "rotate", token |-> t, login |-> session[t].login]
  <2>1. /\ Receive(r, read) /\ UNCHANGED <<user, member, invitation, session>>
        /\ Issued(t) /\ session[t].login \in Tokens
    BY <1>1, <1>12 DEF RefreshRead, Live, Issued, LoginsStarted
  <2>2. read \in Reading
    BY <2>1 DEF Reading
  <2>3. (LoginsStarted /\ RotatedOnce)' /\ req' \in [Requests -> Reading]
    BY <2>1, <2>2, ReceiveKeeps
  <2> QED BY <1>1, <2>1, <2>3 DEF MembersInv, TypeOK, InvitedCanAccept
<1>13. ASSUME NEW r \in Requests, Abandon(r) PROVE MembersInv'
  <2>1. (LoginsStarted /\ RotatedOnce)' /\ req' \in [Requests -> Reading]
    BY <1>13, FinishKeeps DEF Abandon
  <2> QED BY <1>1, <1>13, <2>1 DEF Abandon, MembersInv, TypeOK, InvitedCanAccept
<1> QED BY <1>2, <1>3, <1>4, <1>5, <1>6, <1>7, <1>8, <1>9, <1>10, <1>11, <1>12, <1>13,
          RotateKeeps, IssueKeeps DEF Next

-----------------------------------------------------------------------------

\* The inductive invariant of memberships and sessions.
THEOREM MembersInvariance == Spec => []MembersInv
<1>1. Init => MembersInv
  BY MembersBegin
<1>2. MembersInv /\ [Next]_vars => MembersInv'
  BY Inductive
<1> QED BY <1>1, <1>2, PTL DEF Spec

\* However many refreshes race, a login has one session, or one about to be inserted.
THEOREM SessionsRotateOnce == Spec => []RotatedOnce
<1>1. MembersInv => RotatedOnce
  BY DEF MembersInv
<1> QED BY <1>1, MembersInvariance, PTL

\* Who is INVITED holds an invitation that was not accepted.
THEOREM InvitedAlwaysCanAccept == Spec => []InvitedCanAccept
<1>1. MembersInv => InvitedCanAccept
  BY DEF MembersInv
<1> QED BY <1>1, MembersInvariance, PTL

\* Only an invitation decided before the membership changed takes a member back to INVITED.
THEOREM MembersStay == Spec => MemberStaysWhenFresh
<1> DEFINE Stays == member' = "INVITED" /\ member \in {"ACTIVE", "SUSPENDED"} =>
             \E r \in Requests : req[r].at = "invite" /\ req'[r] = Idle /\ req[r].member # member
<1>1. MembersInv /\ [Next]_vars => [Stays]_vars
  <2> SUFFICES ASSUME MembersInv, Next, member' = "INVITED", member \in {"ACTIVE", "SUSPENDED"}
               PROVE  Stays
    BY DEF vars
  <2>1. PICK r \in Requests : InviteCommit(r)
    BY DEF Next, Create, InvitationExpires, RevokeSessions, Update, Logout, InviteRead, AcceptRead,
      AcceptCommit, Login, Rotate, Abandon, RefreshRead, IssueSession
  <2>2. req[r] \in [at : {"invite"}, user : UserStatus, member : MemberStatus \ {"ACTIVE", "SUSPENDED"}]
    BY <2>1 DEF MembersInv, TypeOK, Reading, Idle, InviteCommit
  <2>3. req'[r] = Idle
    BY <2>1 DEF MembersInv, TypeOK, InviteCommit, Finish
  <2> QED BY <2>2, <2>3
<1> QED BY <1>1, MembersInvariance, PTL DEF Spec, MemberStaysWhenFresh

-----------------------------------------------------------------------------
(* The provider.                                                           *)

EventStatus == {"incomplete", "active", "past_due", "canceled", "incomplete_expired"}

Notice == [kind : {"checkout", "subscription"}, status : EventStatus]

\* The events that were logged.
Logged(event) == /\ event = <<event[1], event[2]>>
                 /\ event[1] \in Subscriptions /\ event[2] \in 1..Len(log[event[1]])

\* The log of a subscription: its checkout, its creation, and what followed; the last is
\* its status now.
LogIs(s) ==
  /\ log[s] \in Seq(Notice)
  /\ IF remote[s] = "none" THEN Len(log[s]) = 0
     ELSE /\ Len(log[s]) >= 2 /\ log[s][Len(log[s])].status = remote[s]
          /\ \A i \in 1..Len(log[s]) : log[s][i].kind = "checkout" <=> i = 1

StripeInv ==
  /\ remote \in [Subscriptions -> EventStatus \cup {"none"}]
  /\ log = [s \in Subscriptions |-> log[s]]
  /\ \A s \in Subscriptions : LogIs(s)
  /\ \A event \in pending : Logged(event)

\* The provider adds to the log of s, and will tell what it adds.
Tells(s) ==
  /\ \A o \in Subscriptions \ {s} : log'[o] = log[o] /\ remote'[o] = remote[o]
  /\ Len(log'[s]) > Len(log[s]) /\ \A i \in 1..Len(log[s]) : log'[s][i] = log[s][i]
  /\ pending' = pending \cup {<<s, i>> : i \in (Len(log[s]) + 1)..Len(log'[s])}
  /\ remote'[s] # "none"

\* Nothing has been sent at first.
LEMMA StripeBegins == StripeInit => StripeInv
<1> SUFFICES ASSUME StripeInit PROVE StripeInv
  OBVIOUS
<1>1. \A s \in Subscriptions : log[s] = <<>> /\ <<>> \in Seq(Notice) /\ Len(<<>>) = 0
  BY EmptySeq DEF StripeInit
<1> QED BY <1>1 DEF StripeInit, StripeInv, LogIs

\* What it means to append.
LEMMA Appended ==
  ASSUME NEW S, NEW l \in Seq(S), NEW t \in Seq(S), NEW m \in Nat, Len(t) = m
  PROVE  /\ l \o t \in Seq(S) /\ Len(l) \in Nat /\ Len(l \o t) = Len(l) + m
         /\ \A i \in 1..Len(l) : (l \o t)[i] = l[i]
         /\ \A k \in 1..m : (l \o t)[Len(l) + k] = t[k]
<1>1. Len(l) \in Nat
  BY LenProperties
<1>2. /\ l \o t \in Seq(S) /\ Len(l \o t) = Len(l) + m
      /\ \A i \in 1..(Len(l) + m) : (l \o t)[i] = IF i <= Len(l) THEN l[i] ELSE t[i - Len(l)]
  BY ConcatProperties
<1>3. \A k \in 1..m : Len(l) + k \in 1..(Len(l) + m) /\ ~(Len(l) + k <= Len(l)) /\ Len(l) + k - Len(l) = k
  BY <1>1
<1>4. \A i \in 1..Len(l) : i \in 1..(Len(l) + m) /\ i <= Len(l)
  BY <1>1
<1> QED BY <1>1, <1>2, <1>3, <1>4

\* A change of a subscription is told in an event of its own.
LEMMA ChangeTells ==
  ASSUME StripeInv, NEW s \in Subscriptions, NEW status \in EventStatus, NEW kinds, Change(s, status, kinds),
         \/ remote[s] = "none" /\ kinds = <<"checkout", "subscription">>
         \/ remote[s] # "none" /\ kinds = <<"subscription">>
  PROVE  StripeInv' /\ Tells(s)
<1>1. PICK l, n : l = log[s] /\ n = Len(l)
  OBVIOUS
<1>2. PICK m \in {1, 2} : m = Len(kinds)
  OBVIOUS
<1>3. PICK new : new = [k \in 1..m |-> [kind |-> kinds[k], status |-> status]]
  OBVIOUS
<1>4. PICK long : long = l \o new
  OBVIOUS
<1>5. /\ LogIs(s) /\ l \in Seq(Notice) /\ n \in Nat
      /\ remote[s] = "none" => n = 0 /\ m = 2
      /\ remote[s] # "none" => n >= 2 /\ m = 1
      /\ \A k \in 1..m : kinds[k] = "checkout" <=> n + k = 1
      /\ \A k \in 1..m : kinds[k] \in {"checkout", "subscription"}
  <2>1. LogIs(s) /\ l \in Seq(Notice) /\ n \in Nat
    BY <1>1, LenProperties DEF StripeInv, LogIs
  <2>2. CASE remote[s] = "none"
    <3>1. n = 0 /\ m = 2 /\ kinds[1] = "checkout" /\ kinds[2] = "subscription"
      BY <1>1, <1>2, <2>1, <2>2 DEF LogIs
    <3> QED BY <2>1, <2>2, <3>1
  <2>3. CASE remote[s] # "none"
    <3>1. kinds = <<"subscription">>
      BY <2>3
    <3>2. m = 1 /\ kinds[1] = "subscription"
      BY <1>2, <3>1
    <3>3. n >= 2
      BY <1>1, <2>1, <2>3 DEF LogIs
    <3> QED BY <2>1, <2>3, <3>2, <3>3
  <2> QED BY <2>2, <2>3
<1>6. new \in [1..m -> Notice] /\ new \in Seq(Notice) /\ Len(new) = m
  <2>1. new \in [1..m -> Notice]
    BY <1>3, <1>5 DEF Notice
  <2> QED BY <2>1
<1>7. /\ long \in Seq(Notice) /\ Len(long) = n + m
      /\ \A i \in 1..n : long[i] = l[i]
      /\ \A k \in 1..m : long[n + k] = new[k]
  <2>1. /\ l \o new \in Seq(Notice) /\ Len(l \o new) = Len(l) + m
        /\ \A i \in 1..Len(l) : (l \o new)[i] = l[i]
        /\ \A k \in 1..m : (l \o new)[Len(l) + k] = new[k]
    <3>1. m \in Nat /\ l \in Seq(Notice) /\ new \in Seq(Notice) /\ Len(new) = m
      BY <1>5, <1>6
    <3> HIDE <1>1, <1>3, <1>4
    <3> QED BY <3>1, Appended
  <2> QED BY <1>1, <1>4, <2>1
<1>8. /\ remote' = [remote EXCEPT ![s] = status] /\ log' = [log EXCEPT ![s] = long]
      /\ pending' = pending \cup {<<s, n + k>> : k \in 1..m}
  BY <1>1, <1>2, <1>3, <1>4 DEF Change
<1>9. /\ remote'[s] = status /\ log'[s] = long
      /\ \A o \in Subscriptions \ {s} : log'[o] = log[o] /\ remote'[o] = remote[o]
  BY <1>8 DEF StripeInv
<1>10. /\ \A k \in 1..m : n + k \in (n + 1)..Len(long)
       /\ \A i \in (n + 1)..Len(long) : i - n \in 1..m /\ i = n + (i - n)
  BY <1>5, <1>7
<1>11. Tells(s)
  <2>1. {<<s, n + k>> : k \in 1..m} = {<<s, i>> : i \in (n + 1)..Len(long)}
    BY <1>10
  <2>2. status # "none" /\ Len(long) > n
    BY <1>5, <1>7 DEF EventStatus
  <2> QED BY <1>1, <1>7, <1>8, <1>9, <2>1, <2>2 DEF Tells
<1>12. LogIs(s)'
  <2>1. Len(long) >= 2 /\ long[Len(long)].status = status
    BY <1>3, <1>5, <1>7
  <2>2. ASSUME NEW i \in 1..Len(long) PROVE long[i].kind = "checkout" <=> i = 1
    <3>1. CASE i <= n
      <4>1. i \in 1..n /\ remote[s] # "none"
        BY <1>5, <1>7, <3>1
      <4> QED BY <1>1, <1>5, <1>7, <4>1 DEF LogIs
    <3>2. CASE i > n
      <4>1. PICK k \in 1..m : i = n + k
        BY <1>5, <1>7, <1>10, <3>2
      <4>2. long[i].kind = kinds[k]
        BY <1>3, <1>7, <4>1
      <4> QED BY <1>5, <4>1, <4>2
    <3> QED BY <1>5, <1>7, <3>1, <3>2
  <2>3. status # "none"
    BY DEF EventStatus
  <2> QED BY <1>7, <1>9, <2>1, <2>2, <2>3 DEF LogIs
<1>13. ASSUME NEW event \in pending' PROVE Logged(event)'
  <2>1. CASE event \in pending
    <3>1. Logged(event)
      BY <2>1 DEF StripeInv
    <3>2. event[2] \in 1..n => event[2] \in 1..Len(long)
      BY <1>5, <1>7
    <3> QED BY <1>1, <1>9, <3>1, <3>2 DEF Logged
  <2>2. CASE event \notin pending
    <3>1. PICK k \in 1..m : event = <<s, n + k>>
      BY <1>8, <2>2
    <3>2. n + k \in 1..Len(long)
      BY <1>5, <1>7
    <3> QED BY <1>9, <3>1, <3>2 DEF Logged
  <2> QED BY <2>1, <2>2
<1>14. /\ remote' \in [Subscriptions -> EventStatus \cup {"none"}]
       /\ log' = [o \in Subscriptions |-> log'[o]]
  BY <1>8 DEF StripeInv
<1>15. \A o \in Subscriptions : LogIs(o)'
  BY <1>9, <1>12 DEF StripeInv, LogIs
<1> QED BY <1>11, <1>13, <1>14, <1>15 DEF StripeInv

\* The provider keeps its events and its subscriptions in step.
LEMMA ProviderTells ==
  ASSUME StripeInv, NEW s \in Subscriptions, Subscribe(s) \/ ChangeStatus(s)
  PROVE  StripeInv' /\ Tells(s)
<1>1. CASE Subscribe(s)
  <2>1. PICK status \in {"incomplete", "active"} : Change(s, status, <<"checkout", "subscription">>)
    BY <1>1 DEF Subscribe
  <2> QED BY <1>1, <2>1, ChangeTells DEF Subscribe, EventStatus
<1>2. CASE ChangeStatus(s)
  <2>1. PICK status \in Successors[remote[s]] : Change(s, status, <<"subscription">>)
    BY <1>2 DEF ChangeStatus
  <2>2. remote[s] \in EventStatus \cup {"none"}
    BY DEF StripeInv
  <2>3. remote[s] # "none" /\ status \in EventStatus
    BY <2>2 DEF Successors, EventStatus
  <2> QED BY <2>1, <2>3, ChangeTells
<1> QED BY <1>1, <1>2

-----------------------------------------------------------------------------
(* The licence.                                                            *)

NoEvent == <<NoSubscription, 0>>

\* An event about s, other than "but", has not been processed: it will be delivered.
StillToTell(s, but) == \E event \in pending \ (processed \cup {but}) : event[1] = s

LicenceRow ==
  [sub : Subscriptions \cup {NoSubscription}, stripeStatus : EventStatus \cup {"none"},
   source : {"MANUAL", "STRIPE"},
   status : {"TRIALING", "UNPAID", "PAST_DUE", "ACTIVE", "CANCELED", "MANUAL_CONTRACT"},
   checkout : Subscriptions \cup {NoSubscription}, fresh : Subscriptions \cup {NoSubscription}]

\* A transaction holds the status of the subscription, or another event is to come that
\* will tell it again.
WorkInv ==
  /\ work.op = "deliver" =>
       /\ work.event \in pending \ processed /\ work.s = work.event[1]
       /\ work.status = remote[work.s] \/ StillToTell(work.s, work.event)
       /\ work.resumeStripe => ~manual
  /\ work.op = "action" =>
       /\ work.s \in Subscriptions
       /\ work.status = remote[work.s] \/ StillToTell(work.s, NoEvent)
  /\ work.op \in {"deliver", "action"} =>
       work.status \in EventStatus /\ remote[work.s] # "none" /\ work.resumeStripe \in BOOLEAN

\* So does the row.
RowInv ==
  licence.sub # NoSubscription =>
    /\ remote[licence.sub] # "none"
    /\ licence.stripeStatus = remote[licence.sub] \/ StillToTell(licence.sub, NoEvent)
    /\ licence.source = "STRIPE" => licence.status = LicenceStatus[licence.stripeStatus]

ManualInv == manual => licence.source = "MANUAL" /\ licence.fresh = NoSubscription

LicenceInv ==
  /\ StripeInv
  /\ licence \in LicenceRow
  /\ manual \in BOOLEAN
  /\ \A event \in processed : Logged(event)
  /\ WorkInv
  /\ RowInv
  /\ ManualInv

\* No licence is there at first.
LEMMA LicenceBegins == StripeInit /\ LicenceInit => LicenceInv
<1> SUFFICES ASSUME StripeInit, LicenceInit PROVE LicenceInv
  OBVIOUS
<1>1. StripeInv
  BY StripeBegins
<1>2. licence \in LicenceRow /\ licence.sub = NoSubscription
  BY DEF LicenceInit, LicenceRow
<1>3. manual = FALSE /\ processed = {} /\ work.op = "free"
  BY DEF LicenceInit, Free
<1> QED BY <1>1, <1>2, <1>3 DEF LicenceInv, WorkInv, RowInv, ManualInv

\* The subscription of a logged event exists, and has a status.
LEMMA LoggedExists ==
  ASSUME StripeInv, NEW event, Logged(event)
  PROVE  event[1] \in Subscriptions /\ remote[event[1]] \in EventStatus /\ remote[event[1]] # "none"
<1>1. event[1] \in Subscriptions /\ event[2] \in 1..Len(log[event[1]])
  BY DEF Logged
<1>2. LogIs(event[1]) /\ remote[event[1]] \in EventStatus \cup {"none"}
  BY <1>1 DEF StripeInv
<1>3. remote[event[1]] # "none"
  BY <1>1, <1>2 DEF LogIs
<1> QED BY <1>1, <1>2, <1>3

\* A change at the provider is told by an event that no transaction has processed.
LEMMA ChangeIsTold ==
  ASSUME StripeInv, StripeInv', NEW s \in Subscriptions, Tells(s), processed' = processed,
         \A event \in processed : Logged(event),
         NEW o \in Subscriptions, NEW but, but = NoEvent \/ Logged(but)
  PROVE  /\ StillToTell(o, but) \/ o = s => StillToTell(o, but)'
         /\ o # s => remote'[o] = remote[o]
         /\ remote[o] # "none" => remote'[o] # "none"
<1>1. PICK n, m : n = Len(log[s]) /\ m = Len(log'[s])
  OBVIOUS
<1>2. n \in Nat /\ m \in Nat
  BY <1>1, LenProperties DEF StripeInv, LogIs
<1>3. /\ \A x \in Subscriptions \ {s} : remote'[x] = remote[x]
      /\ pending' = pending \cup {<<s, i>> : i \in (n + 1)..m} /\ m > n /\ remote'[s] # "none"
  BY <1>1 DEF Tells
<1>4. StillToTell(o, but) => StillToTell(o, but)'
  BY <1>3 DEF StillToTell
<1>5. ASSUME o = s PROVE StillToTell(o, but)'
  <2>1. <<s, n + 1>> \in pending'
    <3>1. n + 1 \in (n + 1)..m
      BY <1>2, <1>3
    <3> QED BY <1>3, <3>1
  <2>2. \A event : Logged(event) /\ event[1] = s => event[2] # n + 1
    BY <1>1, <1>2 DEF Logged
  <2>3. <<s, n + 1>> # but /\ <<s, n + 1>> \notin processed
    BY <2>2, NoSubscriptionIsNone DEF NoEvent
  <2> QED BY <1>5, <2>1, <2>3 DEF StillToTell
<1> QED BY <1>3, <1>4, <1>5

\* Complete, and ChangeStatus.
LEMMA ProviderKeepsLicence ==
  ASSUME LicenceInv, NEW s \in Subscriptions, Subscribe(s) \/ ChangeStatus(s),
         UNCHANGED <<licence, processed, work, manual>>
  PROVE  LicenceInv'
<1>1. StripeInv' /\ Tells(s) /\ StripeInv
  BY ProviderTells DEF LicenceInv
<1>2. PICK r, w : r = licence /\ w = work
  OBVIOUS
<1>3. licence' = r /\ work' = w /\ processed' = processed /\ manual' = manual
  BY <1>2
<1>4. /\ r \in LicenceRow /\ manual \in BOOLEAN /\ \A event \in processed : Logged(event)
      /\ WorkInv /\ RowInv /\ ManualInv
  BY <1>2 DEF LicenceInv
<1>5. \A event : Logged(event) => Logged(event)'
  <2>1. \A o \in Subscriptions : Len(log[o]) \in Nat /\ Len(log'[o]) \in Nat /\ Len(log'[o]) >= Len(log[o])
    <3>1. \A o \in Subscriptions : Len(log[o]) \in Nat /\ Len(log'[o]) \in Nat
      BY <1>1, LenProperties DEF StripeInv, LogIs
    <3> QED BY <1>1, <3>1 DEF Tells
  <2> QED BY <2>1 DEF Logged
<1>6. ASSUME NEW o \in Subscriptions, NEW but, but = NoEvent \/ Logged(but)
      PROVE  /\ StillToTell(o, but) \/ o = s => StillToTell(o, but)'
             /\ o # s => remote'[o] = remote[o]
             /\ remote[o] # "none" => remote'[o] # "none"
  BY <1>1, <1>3, <1>4, <1>6, ChangeIsTold
<1>7. WorkInv'
  <2>1. ASSUME w.op = "deliver"
        PROVE  /\ w.event \in pending' \ processed /\ w.s = w.event[1]
               /\ w.status = remote'[w.s] \/ StillToTell(w.s, w.event)'
               /\ w.resumeStripe => ~manual
    <3>1. /\ w.event \in pending \ processed /\ w.s = w.event[1]
          /\ w.status = remote[w.s] \/ StillToTell(w.s, w.event)
          /\ w.resumeStripe => ~manual
      BY <1>2, <1>4, <2>1 DEF WorkInv
    <3>2. Logged(w.event) /\ w.s \in Subscriptions /\ w.event \in pending'
      BY <1>1, <3>1 DEF StripeInv, Logged, Tells
    <3> QED BY <1>6, <3>1, <3>2
  <2>2. ASSUME w.op = "action"
        PROVE  w.s \in Subscriptions /\ (w.status = remote'[w.s] \/ StillToTell(w.s, NoEvent)')
    <3>1. w.s \in Subscriptions /\ (w.status = remote[w.s] \/ StillToTell(w.s, NoEvent))
      BY <1>2, <1>4, <2>2 DEF WorkInv
    <3> QED BY <1>6, <3>1
  <2>3. ASSUME w.op \in {"deliver", "action"}
        PROVE  w.status \in EventStatus /\ remote'[w.s] # "none" /\ w.resumeStripe \in BOOLEAN
    <3>1. w.status \in EventStatus /\ remote[w.s] # "none" /\ w.resumeStripe \in BOOLEAN
      BY <1>2, <1>4, <2>3 DEF WorkInv
    <3>2. w.s \in Subscriptions
      BY <1>1, <1>2, <1>4, <2>3 DEF WorkInv, StripeInv, Logged
    <3> QED BY <1>6, <3>1, <3>2
  <2> QED BY <1>3, <2>1, <2>2, <2>3 DEF WorkInv
<1>8. RowInv'
  <2>1. ASSUME r.sub # NoSubscription
        PROVE  /\ remote'[r.sub] # "none"
               /\ r.stripeStatus = remote'[r.sub] \/ StillToTell(r.sub, NoEvent)'
               /\ r.source = "STRIPE" => r.status = LicenceStatus[r.stripeStatus]
    <3>1. /\ remote[r.sub] # "none"
          /\ r.stripeStatus = remote[r.sub] \/ StillToTell(r.sub, NoEvent)
          /\ r.source = "STRIPE" => r.status = LicenceStatus[r.stripeStatus]
      BY <1>2, <1>4, <2>1 DEF RowInv
    <3>2. r.sub \in Subscriptions
      BY <1>4, <2>1 DEF LicenceRow
    <3> QED BY <1>6, <3>1, <3>2
  <2> QED BY <1>3, <2>1 DEF RowInv
<1>9. ManualInv'
  BY <1>2, <1>3, <1>4 DEF ManualInv
<1> QED BY <1>1, <1>3, <1>4, <1>5, <1>7, <1>8, <1>9 DEF LicenceInv

\* An answer takes at most its own event from those to come.
LEMMA AnswerKeeps ==
  ASSUME StripeInv, NEW event \in pending, Answered(event)
  PROVE  /\ StripeInv' /\ \A e : Logged(e) => Logged(e)'
         /\ remote' = remote /\ pending' \subseteq pending
         /\ \A e \in pending : e # event => e \in pending'
<1>1. remote' = remote /\ log' = log /\ pending' \subseteq pending
  BY DEF Answered
<1>2. \A e \in pending : e # event => e \in pending'
  BY DEF Answered
<1>3. \A e : Logged(e) <=> Logged(e)'
  BY <1>1 DEF Logged
<1>4. \A s \in Subscriptions : LogIs(s)'
  BY <1>1 DEF StripeInv, LogIs
<1>5. StripeInv'
  <2>1. log' = [s \in Subscriptions |-> log'[s]]
    BY <1>1 DEF StripeInv
  <2> QED BY <1>1, <1>3, <1>4, <2>1 DEF StripeInv
<1> QED BY <1>1, <1>2, <1>3, <1>5

\* The provider does not move.
LEMMA ProviderRests ==
  ASSUME StripeInv, UNCHANGED stripeVars
  PROVE  /\ StripeInv' /\ remote' = remote /\ pending' = pending /\ \A e : Logged(e) <=> Logged(e)'
<1>1. remote' = remote /\ log' = log /\ pending' = pending
  BY DEF stripeVars
<1>2. \A e : Logged(e) <=> Logged(e)'
  BY <1>1 DEF Logged
<1>3. \A s \in Subscriptions : LogIs(s)'
  BY <1>1 DEF StripeInv, LogIs
<1>4. log' = [s \in Subscriptions |-> log'[s]]
  BY <1>1 DEF StripeInv
<1> QED BY <1>1, <1>2, <1>3, <1>4 DEF StripeInv

\* The steps that only read the provider keep what concerns it.
LEMMA LicenceRests ==
  ASSUME LicenceInv, UNCHANGED <<stripeVars, processed>>, licence' \in LicenceRow, manual' \in BOOLEAN,
         licence'.sub = licence.sub, licence'.stripeStatus = licence.stripeStatus,
         licence'.source = "STRIPE" => licence.source = "STRIPE" /\ licence'.status = licence.status,
         ManualInv', WorkInv'
  PROVE  LicenceInv'
<1>1. /\ StripeInv' /\ remote' = remote /\ pending' = pending /\ processed' = processed
      /\ \A e : Logged(e) <=> Logged(e)'
  BY ProviderRests DEF LicenceInv
<1>2. /\ RowInv /\ \A event \in processed : Logged(event)
  BY DEF LicenceInv
<1>3. PICK s : s = licence.sub /\ s = licence'.sub
  OBVIOUS
<1>4. StillToTell(s, NoEvent) => StillToTell(s, NoEvent)'
  BY <1>1 DEF StillToTell
<1>5. RowInv'
  BY <1>1, <1>2, <1>3, <1>4 DEF RowInv
<1> QED BY <1>1, <1>2, <1>5 DEF LicenceInv

\* A free handler has nothing to keep.
LEMMA FreeWork == ASSUME work' = Free PROVE WorkInv'
  BY DEF WorkInv, Free

\* Every step but a commit keeps the invariant of the licence.
LEMMA LocalStepsKeepLicence ==
  ASSUME LicenceInv,
         \/ \E s \in Subscriptions : Checkout(s) \/ SessionExpires(s)
         \/ \E event \in pending : DeliverStart(event)
         \/ \E sync \in BOOLEAN : ActionStart(sync)
         \/ \E status \in {"MANUAL_CONTRACT", "CANCELED"} : DecideManually(status)
         \/ Rollback
         \/ UNCHANGED <<licenceVars, stripeVars>>
  PROVE  LicenceInv'
<1>1. /\ licence \in LicenceRow /\ manual \in BOOLEAN /\ StripeInv
      /\ \A event \in processed : Logged(event)
      /\ WorkInv /\ RowInv /\ ManualInv
  BY DEF LicenceInv
<1>2. UNCHANGED stripeVars =>
        /\ remote' = remote /\ pending' = pending
        /\ \A s, but : UNCHANGED processed => (StillToTell(s, but) <=> StillToTell(s, but)')
  BY DEF stripeVars, StillToTell
<1>3. CASE \E s \in Subscriptions : Checkout(s)
  <2>1. PICK s \in Subscriptions : Checkout(s)
    BY <1>3
  <2>2. /\ licence' = [licence EXCEPT !.checkout = s, !.fresh = s] /\ work' = Free /\ manual' = FALSE
        /\ UNCHANGED <<stripeVars, processed>>
    BY <2>1 DEF Checkout
  <2>3. licence' \in LicenceRow /\ licence'.sub = licence.sub /\ licence'.stripeStatus = licence.stripeStatus
        /\ licence'.source = licence.source /\ licence'.status = licence.status
    BY <1>1, <2>2 DEF LicenceRow
  <2>4. ManualInv' /\ WorkInv'
    BY <2>2, FreeWork DEF ManualInv
  <2> QED BY <2>2, <2>3, <2>4, LicenceRests
<1>4. CASE \/ \E s \in Subscriptions : SessionExpires(s)
           \/ UNCHANGED <<licenceVars, stripeVars>>
  <2>1. UNCHANGED <<licence, work, manual, processed, stripeVars>>
    BY <1>4 DEF SessionExpires, licenceVars
  <2>2. PICK w : w = work
    OBVIOUS
  <2>3. work' = w /\ processed' = processed /\ manual' = manual /\ remote' = remote /\ pending' = pending
        /\ \A s, but : StillToTell(s, but) <=> StillToTell(s, but)'
    BY <1>2, <2>1, <2>2
  <2>4. WorkInv'
    BY <1>1, <2>2, <2>3 DEF WorkInv
  <2>5. ManualInv'
    BY <1>1, <2>1 DEF ManualInv
  <2> QED BY <1>1, <2>1, <2>4, <2>5, LicenceRests
<1>5. CASE \E event \in pending : DeliverStart(event)
  <2>1. PICK event \in pending : DeliverStart(event)
    BY <1>5
  <2>2. PICK s, status, resume :
          /\ s = event[1] /\ status = remote[s] /\ resume = firstStripe(s)
          /\ work' = [op |-> "deliver", event |-> event, s |-> s, status |-> status, resumeStripe |-> resume]
    BY <2>1 DEF DeliverStart, Retrieved
  <2>3. UNCHANGED <<licence, manual, processed, stripeVars>> /\ event \in pending \ processed
    BY <2>1 DEF DeliverStart
  <2>4. s \in Subscriptions /\ status \in EventStatus /\ status # "none"
    BY <1>1, <2>2, LoggedExists DEF StripeInv
  <2>5. resume \in BOOLEAN /\ (resume => ~manual)
    BY <1>1, <2>2, <2>4, NoSubscriptionIsNone DEF firstStripe, ManualInv
  <2>6. WorkInv'
    <3>1. /\ work'.op = "deliver" /\ work'.event = event /\ work'.s = s /\ work'.status = status
          /\ work'.resumeStripe = resume
      BY <2>2
    <3> QED BY <1>2, <2>2, <2>3, <2>4, <2>5, <3>1 DEF WorkInv
  <2>7. ManualInv'
    BY <1>1, <2>3 DEF ManualInv
  <2> QED BY <1>1, <2>3, <2>6, <2>7, LicenceRests
<1>6. CASE \E sync \in BOOLEAN : ActionStart(sync)
  <2>1. PICK sync \in BOOLEAN : ActionStart(sync)
    BY <1>6
  <2>2. PICK s, status :
          /\ s = licence.sub /\ status = remote[s]
          /\ work' = [op |-> "action", s |-> s, status |-> status, resumeStripe |-> sync]
    BY <2>1 DEF ActionStart
  <2>3. UNCHANGED <<licence, manual, processed, stripeVars>> /\ s # NoSubscription
    BY <2>1, <2>2 DEF ActionStart
  <2>4. s \in Subscriptions
    BY <1>1, <2>2, <2>3 DEF LicenceRow
  <2>5. status \in EventStatus /\ status # "none"
    BY <1>1, <2>2, <2>3, <2>4 DEF RowInv, StripeInv
  <2>6. WorkInv'
    <3>1. work'.op = "action" /\ work'.s = s /\ work'.status = status /\ work'.resumeStripe = sync
      BY <2>2
    <3> QED BY <1>2, <2>2, <2>3, <2>4, <2>5, <3>1 DEF WorkInv
  <2>7. ManualInv'
    BY <1>1, <2>3 DEF ManualInv
  <2> QED BY <1>1, <2>3, <2>6, <2>7, LicenceRests
<1>7. CASE \E status \in {"MANUAL_CONTRACT", "CANCELED"} : DecideManually(status)
  <2>1. PICK status \in {"MANUAL_CONTRACT", "CANCELED"} : DecideManually(status)
    BY <1>7
  <2>2. /\ licence' = [licence EXCEPT !.status = status, !.source = "MANUAL", !.fresh = NoSubscription]
        /\ work' = Free /\ manual' = TRUE /\ UNCHANGED <<stripeVars, processed>>
    BY <2>1 DEF DecideManually
  <2>3. /\ licence' \in LicenceRow /\ licence'.sub = licence.sub /\ licence'.stripeStatus = licence.stripeStatus
        /\ licence'.source = "MANUAL" /\ licence'.fresh = NoSubscription
    BY <1>1, <2>2 DEF LicenceRow
  <2>4. ManualInv' /\ WorkInv'
    BY <2>2, <2>3, FreeWork DEF ManualInv
  <2> QED BY <2>2, <2>3, <2>4, LicenceRests
<1>8. CASE Rollback
  <2>1. work' = Free /\ UNCHANGED <<licence, manual, processed, stripeVars>>
    BY <1>8 DEF Rollback
  <2>2. ManualInv' /\ WorkInv'
    BY <1>1, <2>1, FreeWork DEF ManualInv
  <2> QED BY <1>1, <2>1, <2>2, LicenceRests
<1> QED BY <1>3, <1>4, <1>5, <1>6, <1>7, <1>8

\* An event that changes nothing, because it was processed or is about another subscription.
LEMMA AnswersKeepLicence ==
  ASSUME LicenceInv, NEW event \in pending, DeliverDuplicate(event) \/ DeliverIgnored(event)
  PROVE  LicenceInv'
<1>1. /\ licence \in LicenceRow /\ manual \in BOOLEAN /\ StripeInv
      /\ \A e \in processed : Logged(e)
      /\ RowInv /\ ManualInv
  BY DEF LicenceInv
<1>2. /\ work' = Free /\ licence' = licence /\ manual' = manual /\ Answered(event)
      /\ processed' \in {processed, processed \cup {event}}
      /\ event \in processed \/ (event[1] # licence.sub)
      /\ event \notin processed => licence.sub # NoSubscription
      /\ event \in processed => processed' = processed
  BY DEF DeliverDuplicate, DeliverIgnored, IsAboutAnother, licenceVars
<1>3. /\ StripeInv' /\ \A e : Logged(e) => Logged(e)'
      /\ remote' = remote /\ \A e \in pending : e # event => e \in pending'
  BY <1>1, <1>2, AnswerKeeps
<1>4. \A e \in processed' : Logged(e)'
  BY <1>1, <1>2, <1>3 DEF StripeInv
<1>5. PICK s : s = licence.sub /\ s = licence'.sub
  BY <1>2
<1>6. StillToTell(s, NoEvent) => StillToTell(s, NoEvent)'
  BY <1>2, <1>3, <1>5 DEF StillToTell
<1>7. RowInv'
  BY <1>1, <1>2, <1>3, <1>5, <1>6 DEF RowInv
<1>8. WorkInv' /\ ManualInv'
  BY <1>1, <1>2, FreeWork DEF ManualInv
<1> QED BY <1>1, <1>2, <1>3, <1>4, <1>7, <1>8 DEF LicenceInv

\* What a transaction writes.
LEMMA AppliedRow ==
  ASSUME licence \in LicenceRow, NEW resume \in BOOLEAN, work.s \in Subscriptions, work.status \in EventStatus
  PROVE  /\ Apply(resume) \in LicenceRow
         /\ Apply(resume).sub = work.s /\ Apply(resume).stripeStatus = work.status
         /\ Apply(resume).source = (IF resume THEN "STRIPE" ELSE licence.source)
         /\ Apply(resume).source = "STRIPE" => Apply(resume).status = LicenceStatus[work.status]
         /\ Apply(resume).fresh = NoSubscription
<1>1. LicenceStatus[work.status] \in {"PAST_DUE", "ACTIVE", "CANCELED"}
  BY DEF LicenceStatus, EventStatus
<1> QED BY <1>1 DEF LicenceRow, Apply

\* So does a commit, which applies or refuses what was delivered.
LEMMA CommitsKeepLicence ==
  ASSUME LicenceInv, DeliverCommit \/ ActionCommit
  PROVE  LicenceInv'
<1>1. /\ licence \in LicenceRow /\ manual \in BOOLEAN /\ StripeInv
      /\ \A e \in processed : Logged(e)
      /\ WorkInv /\ RowInv /\ ManualInv
  BY DEF LicenceInv
<1>2. PICK s, status, resume : s = work.s /\ status = work.status /\ resume = work.resumeStripe
  OBVIOUS
<1>3. /\ s \in Subscriptions /\ status \in EventStatus /\ remote[s] # "none" /\ resume \in BOOLEAN
  <2>1. work.op \in {"deliver", "action"}
    BY DEF DeliverCommit, ActionCommit
  <2>2. work.op = "deliver" => Logged(work.event) /\ work.s = work.event[1]
    BY <1>1 DEF WorkInv, StripeInv
  <2> QED BY <1>1, <1>2, <2>1, <2>2 DEF WorkInv, Logged
<1>4. PICK new : new = Apply(resume)
  OBVIOUS
<1>5. /\ new \in LicenceRow /\ new.sub = s /\ new.stripeStatus = status
      /\ new.source = (IF resume THEN "STRIPE" ELSE licence.source)
      /\ new.source = "STRIPE" => new.status = LicenceStatus[status]
      /\ new.fresh = NoSubscription
  BY <1>1, <1>2, <1>3, <1>4, AppliedRow
<1>6. CASE DeliverCommit
  <2>1. PICK event : event = work.event
    OBVIOUS
  <2>2. /\ event \in pending \ processed
        /\ status = remote[s] \/ StillToTell(s, event)
        /\ resume => ~manual
    BY <1>1, <1>2, <1>6, <2>1 DEF WorkInv, DeliverCommit
  <2>3. /\ licence' = [new EXCEPT !.checkout = IF resume THEN NoSubscription ELSE @]
        /\ processed' = processed \cup {event} /\ Answered(event) /\ work' = Free /\ manual' = manual
    BY <1>2, <1>4, <1>6, <2>1 DEF DeliverCommit
  <2>4. /\ licence' \in LicenceRow /\ licence'.sub = s /\ licence'.stripeStatus = status
        /\ licence'.source = new.source /\ licence'.status = new.status /\ licence'.fresh = NoSubscription
    BY <1>5, <2>3 DEF LicenceRow
  <2>5. /\ StripeInv' /\ \A e : Logged(e) => Logged(e)'
        /\ remote' = remote /\ \A e \in pending : e # event => e \in pending'
    BY <1>1, <2>2, <2>3, AnswerKeeps
  <2>6. \A e \in processed' : Logged(e)'
    BY <1>1, <2>2, <2>3, <2>5 DEF StripeInv
  <2>7. StillToTell(s, event) => StillToTell(s, NoEvent)'
    BY <1>3, <2>3, <2>5, NoSubscriptionIsNone DEF StillToTell, NoEvent
  <2>8. RowInv'
    BY <1>3, <1>5, <2>2, <2>4, <2>5, <2>7 DEF RowInv
  <2>9. WorkInv' /\ ManualInv'
    BY <1>1, <1>5, <2>2, <2>3, <2>4, FreeWork DEF ManualInv
  <2> QED BY <1>1, <2>3, <2>4, <2>5, <2>6, <2>8, <2>9 DEF LicenceInv
<1>7. CASE ActionCommit
  <2>1. status = remote[s] \/ StillToTell(s, NoEvent)
    BY <1>1, <1>2, <1>7 DEF WorkInv, ActionCommit
  <2>2. /\ licence' = new /\ work' = Free /\ manual' = (manual /\ ~resume)
        /\ processed' = processed /\ UNCHANGED stripeVars
    BY <1>2, <1>4, <1>7 DEF ActionCommit
  <2>3. /\ StripeInv' /\ remote' = remote /\ pending' = pending /\ \A e : Logged(e) <=> Logged(e)'
    BY <1>1, <2>2, ProviderRests
  <2>4. StillToTell(s, NoEvent) => StillToTell(s, NoEvent)'
    BY <2>2, <2>3 DEF StillToTell
  <2>5. RowInv'
    BY <1>3, <1>5, <2>1, <2>2, <2>3, <2>4 DEF RowInv
  <2>6. WorkInv' /\ ManualInv' /\ manual' \in BOOLEAN
    BY <1>1, <1>3, <1>5, <2>2, FreeWork DEF ManualInv
  <2> QED BY <1>1, <1>5, <2>2, <2>3, <2>5, <2>6 DEF LicenceInv
<1> QED BY <1>6, <1>7

\* And so every step.
LEMMA LicenceKept == LicenceInv /\ [LicenceNext]_<<licenceVars, stripeVars>> => LicenceInv'
<1> SUFFICES ASSUME LicenceInv, [LicenceNext]_<<licenceVars, stripeVars>> PROVE LicenceInv'
  OBVIOUS
<1>1. CASE \E s \in Subscriptions : Complete(s) \/ (ChangeStatus(s) /\ UNCHANGED licenceVars)
  BY <1>1, ProviderKeepsLicence DEF Complete, licenceVars
<1>2. CASE \E event \in pending : DeliverDuplicate(event) \/ DeliverIgnored(event)
  BY <1>2, AnswersKeepLicence
<1>3. CASE DeliverCommit \/ ActionCommit
  BY <1>3, CommitsKeepLicence
<1>4. CASE \/ \E s \in Subscriptions : Checkout(s) \/ SessionExpires(s)
           \/ \E event \in pending : DeliverStart(event)
           \/ \E sync \in BOOLEAN : ActionStart(sync)
           \/ \E status \in {"MANUAL_CONTRACT", "CANCELED"} : DecideManually(status)
           \/ Rollback
           \/ UNCHANGED <<licenceVars, stripeVars>>
  BY <1>4, LocalStepsKeepLicence
<1> QED BY <1>1, <1>2, <1>3, <1>4 DEF LicenceNext

\* The invariant of the licence.
LEMMA LicenceInvariance == LicenceSpec => []LicenceInv
  BY LicenceBegins, LicenceKept, PTL DEF LicenceSpec

\* Whatever is delivered twice, late, out of order or not at all, and whatever fails while
\* the row is locked: a licence whose events are answered has the provider's status.
THEOREM LicenceAlwaysFollows == LicenceSpec => []LicenceFollowsProvider
<1>1. LicenceInv => LicenceFollowsProvider
  <2> SUFFICES ASSUME LicenceInv, licence.sub # NoSubscription, work = Free, NothingPending(licence.sub)
               PROVE  /\ licence.stripeStatus = remote[licence.sub]
                      /\ licence.source = "STRIPE" => licence.status = LicenceStatus[remote[licence.sub]]
    BY DEF LicenceFollowsProvider
  <2>1. ~StillToTell(licence.sub, NoEvent)
    BY DEF NothingPending, StillToTell
  <2> QED BY <2>1 DEF LicenceInv, RowInv
<1> QED BY <1>1, LicenceInvariance, PTL

\* No event and no answer that was on its way takes back what an administrator decided.
THEOREM ManualDecisionAlwaysStands == LicenceSpec => []ManualDecisionStands
<1>1. LicenceInv => ManualDecisionStands
  BY DEF LicenceInv, ManualInv, ManualDecisionStands
<1> QED BY <1>1, LicenceInvariance, PTL

-----------------------------------------------------------------------------
(* The organisation.                                                       *)

Busy(h) == ~AtStep(h, "idle")

\* h processes event i about s.
Processes(h, s, i) == Busy(h) /\ handler[h].event = <<s, i>>

OnlySubscription(s) == \A o \in Plans \ {s} : remote[o] = "none"

\* The row has the status that event i carries.
RowHas(s, i) == row[s] = mapSubscriptionStatus[log[s][i].status]

HandlerInv ==
  /\ handler = [h \in Handlers |-> handler[h]]
  /\ \A h \in Handlers : Busy(h) =>
       /\ handler[h] = [event |-> handler[h].event, at |-> handler[h].at]
       /\ Logged(handler[h].event)
       /\ handler[h].at \in {"checkout", "subscription", "tenant", "mark"}
       /\ AtStep(h, "checkout") => handler[h].event[2] = 1
       /\ AtStep(h, "subscription") \/ AtStep(h, "tenant") => handler[h].event[2] # 1

\* In order, one request at a time processes the event that follows the processed ones.
OneAtATime ==
  /\ \A h, o \in Handlers : Busy(h) /\ Busy(o) => h = o
  /\ \A h \in Handlers : \A s \in Plans : \A i \in Nat :
       Processes(h, s, i) => \A j \in 1..Len(log[s]) : <<s, j>> \in done <=> j < i

\* The rows of the only subscription are as the last processed event left them, or as the
\* request that processes the next one has got to.
RowFollows(s) ==
  /\ <<s, 1>> \in done => row[s] # "none"
  /\ <<s, Len(log[s])>> \in done => RowHas(s, Len(log[s])) /\ tenant = row[s]
  /\ \A h \in Handlers : \A i \in Nat : Processes(h, s, i) =>
       /\ AtStep(h, "mark") => row[s] # "none"
       /\ i # 1 /\ (AtStep(h, "tenant") \/ AtStep(h, "mark")) => RowHas(s, i)
       /\ i # 1 /\ AtStep(h, "mark") => tenant = row[s]

\* Nothing that was logged is lost.
EventsInv ==
  /\ \A s \in Subscriptions \ Plans : remote[s] = "none"
  /\ \A event \in done : Logged(event)
  /\ \A s \in Plans : \A i \in 1..Len(log[s]) : <<s, i>> \in pending \cup done

TenantInv ==
  /\ StripeInv
  /\ row \in [Plans \cup {Trial} -> {"none", "TRIALING", "ACTIVE", "PAST_DUE", "CANCELED"}]
  /\ EventsInv
  /\ HandlerInv
  /\ ~disordered => OneAtATime /\ \A s \in Plans : OnlySubscription(s) => RowFollows(s)

\* Nothing has been handled at first.
LEMMA TenantBegins == StripeInit /\ TenantInit => TenantInv
<1> SUFFICES ASSUME StripeInit, TenantInit PROVE TenantInv
  OBVIOUS
<1>1. StripeInv
  BY StripeBegins
<1>2. row \in [Plans \cup {Trial} -> {"none", "TRIALING", "ACTIVE", "PAST_DUE", "CANCELED"}]
  BY DEF TenantInit
<1>3. \A h \in Handlers : ~Busy(h)
  BY DEF TenantInit, Busy, AtStep, Resting
<1>4. HandlerInv
  BY <1>3 DEF HandlerInv, TenantInit
<1>5. done = {} /\ \A s \in Subscriptions : log[s] = <<>> /\ remote[s] = "none"
  BY DEF TenantInit, StripeInit
<1>6. Len(<<>>) = 0
  BY EmptySeq
<1>7. EventsInv
  BY <1>5, <1>6, PlansAreSubscriptions DEF EventsInv
<1>8. OneAtATime /\ \A s \in Plans : RowFollows(s)
  BY <1>3, <1>5 DEF OneAtATime, RowFollows, Processes
<1> QED BY <1>1, <1>2, <1>4, <1>7, <1>8 DEF TenantInv

\* What is logged, in numbers.
LEMMA PlanLog ==
  ASSUME StripeInv, NEW s \in Plans
  PROVE  /\ s \in Subscriptions /\ Len(log[s]) \in Nat
         /\ remote[s] # "none" => Len(log[s]) >= 2 /\ log[s][Len(log[s])].status = remote[s]
         /\ remote[s] = "none" => Len(log[s]) = 0
         /\ \A i \in 1..Len(log[s]) :
              /\ mapSubscriptionStatus[log[s][i].status] \in {"ACTIVE", "PAST_DUE", "CANCELED"}
              /\ log[s][i].kind = IF i = 1 THEN "checkout" ELSE "subscription"
<1>1. s \in Subscriptions /\ LogIs(s)
  BY PlansAreSubscriptions DEF StripeInv
<1>2. Len(log[s]) \in Nat
  BY <1>1, LenProperties DEF LogIs
<1>3. ASSUME NEW i \in 1..Len(log[s])
      PROVE  /\ mapSubscriptionStatus[log[s][i].status] \in {"ACTIVE", "PAST_DUE", "CANCELED"}
             /\ log[s][i].kind = IF i = 1 THEN "checkout" ELSE "subscription"
  <2>1. log[s][i] \in Notice
    BY <1>1, <1>2, ElementOfSeq DEF LogIs
  <2>2. mapSubscriptionStatus[log[s][i].status] \in {"ACTIVE", "PAST_DUE", "CANCELED"}
    BY <2>1 DEF Notice, EventStatus, mapSubscriptionStatus
  <2>3. remote[s] # "none"
    BY <1>1, <1>2 DEF LogIs
  <2> QED BY <1>1, <2>1, <2>2, <2>3 DEF LogIs, Notice
<1> QED BY <1>1, <1>2, <1>3 DEF LogIs

\* The event that a request processes is about a plan, the only one that was bought if
\* there is only one.
LEMMA ProcessesPlan ==
  ASSUME StripeInv, EventsInv, NEW event, Logged(event)
  PROVE  \E s \in Plans, i \in Nat :
           /\ event = <<s, i>> /\ i \in 1..Len(log[s]) /\ remote[s] # "none"
           /\ \A o \in Plans : OnlySubscription(o) => o = s
<1>1. event = <<event[1], event[2]>> /\ event[2] \in 1..Len(log[event[1]])
  BY DEF Logged
<1>2. event[1] \in Subscriptions /\ remote[event[1]] # "none"
  BY LoggedExists
<1>3. event[1] \in Plans
  BY <1>2 DEF EventsInv
<1>4. event[2] \in Nat
  BY <1>1, <1>3, PlanLog
<1>5. \A o \in Plans : OnlySubscription(o) => o = event[1]
  BY <1>2, <1>3 DEF OnlySubscription
<1> QED BY <1>1, <1>2, <1>3, <1>4, <1>5

\* A change at the provider adds events after those that were processed.
LEMMA ChangesKeepTenant ==
  ASSUME TenantInv, NEW p \in Plans, Subscribe(p) \/ ChangeStatus(p), UNCHANGED tenantVars
  PROVE  TenantInv'
<1>1. /\ StripeInv /\ EventsInv /\ HandlerInv /\ p \in Subscriptions
      /\ tenant' = tenant /\ row' = row /\ done' = done /\ handler' = handler /\ disordered' = disordered
  BY PlansAreSubscriptions DEF TenantInv, tenantVars
<1>2. StripeInv' /\ Tells(p)
  BY <1>1, ProviderTells
<1>3. ASSUME NEW s \in Subscriptions
      PROVE  /\ Len(log[s]) \in Nat /\ Len(log'[s]) \in Nat /\ Len(log'[s]) >= Len(log[s])
             /\ \A i \in 1..Len(log[s]) : log'[s][i] = log[s][i]
             /\ s # p => log'[s] = log[s]
             /\ remote'[s] = "none" => remote[s] = "none"
  <2>1. Len(log[s]) \in Nat /\ Len(log'[s]) \in Nat
    BY <1>1, <1>2, LenProperties DEF StripeInv, LogIs
  <2> QED BY <1>2, <2>1 DEF Tells
<1>4. \A e : Logged(e) => Logged(e)'
  BY <1>3 DEF Logged
<1>5. EventsInv'
  <2>1. ASSUME NEW s \in Plans, NEW i \in 1..Len(log'[s]) PROVE <<s, i>> \in pending' \cup done'
    <3>1. s \in Subscriptions
      BY PlansAreSubscriptions
    <3>2. CASE i \in 1..Len(log[s])
      <4>1. <<s, i>> \in pending \cup done
        BY <1>1, <3>2 DEF EventsInv
      <4> QED BY <1>1, <1>2, <4>1 DEF Tells
    <3>3. CASE i \notin 1..Len(log[s])
      <4>1. s = p /\ i \in (Len(log[p]) + 1)..Len(log'[p])
        BY <1>3, <3>1, <3>3
      <4> QED BY <1>2, <4>1 DEF Tells
    <3> QED BY <3>2, <3>3
  <2>2. \A s \in Subscriptions \ Plans : remote'[s] = "none"
    BY <1>1, <1>2 DEF EventsInv, Tells
  <2> QED BY <1>1, <1>4, <2>1, <2>2 DEF EventsInv
<1>6. HandlerInv'
  BY <1>1, <1>4 DEF HandlerInv, Busy, AtStep
<1>7. /\ \A h \in Handlers : Busy(h)' <=> Busy(h)
      /\ \A h \in Handlers : \A s, i : Processes(h, s, i)' <=> Processes(h, s, i)
  BY <1>1 DEF Busy, AtStep, Processes
<1>8. \A s \in Plans, i \in Nat : <<s, i>> \in done \/ (\E h \in Handlers : Processes(h, s, i))
                                  => s \in Subscriptions /\ i \in 1..Len(log[s])
  BY <1>1, PlansAreSubscriptions DEF EventsInv, HandlerInv, Processes, Logged
<1>9. ASSUME OneAtATime PROVE OneAtATime'
  <2>1. ASSUME NEW h \in Handlers, NEW s \in Plans, NEW i \in Nat, Processes(h, s, i), NEW j \in 1..Len(log'[s])
        PROVE  <<s, j>> \in done <=> j < i
    <3>1. s \in Subscriptions /\ i \in 1..Len(log[s])
      BY <1>8, <2>1
    <3>2. Len(log[s]) \in Nat /\ Len(log'[s]) \in Nat
      BY <1>3, <3>1
    <3>3. CASE j \in 1..Len(log[s])
      BY <1>9, <2>1, <3>3 DEF OneAtATime
    <3>4. CASE j \notin 1..Len(log[s])
      <4>1. j \in Nat /\ ~(j < i)
        BY <3>1, <3>2, <3>4
      <4>2. <<s, j>> \notin done
        BY <1>8, <3>4, <4>1
      <4> QED BY <4>1, <4>2
    <3> QED BY <3>3, <3>4
  <2>2. \A h, o \in Handlers : Busy(h)' /\ Busy(o)' => h = o
    BY <1>7, <1>9 DEF OneAtATime
  <2> QED BY <1>1, <1>7, <2>1, <2>2 DEF OneAtATime
<1>10. ASSUME NEW s \in Plans, OnlySubscription(s) => RowFollows(s), OnlySubscription(s)' PROVE RowFollows(s)'
  <2>1. s \in Subscriptions /\ OnlySubscription(s)
    BY <1>3, <1>10, PlansAreSubscriptions DEF OnlySubscription
  <2>2. \A i \in Nat : <<s, i>> \in done \/ (\E h \in Handlers : Processes(h, s, i)) => (RowHas(s, i) <=> RowHas(s, i)')
    BY <1>1, <1>3, <1>8, <2>1 DEF RowHas
  <2>3. RowFollows(s)
    BY <1>10, <2>1
  <2>4. PICK n, m : n = Len(log[s]) /\ m = Len(log'[s])
    OBVIOUS
  <2>5. n \in Nat /\ m \in Nat /\ m >= n
    BY <1>3, <2>1, <2>4
  <2>6. <<s, m>> \in done' => RowHas(s, m)' /\ tenant' = row'[s]
    <3>1. <<s, m>> \in done => m = n
      BY <1>8, <2>4, <2>5
    <3>2. <<s, n>> \in done => RowHas(s, n) /\ tenant = row[s]
      BY <2>3, <2>4 DEF RowFollows
    <3> QED BY <1>1, <2>2, <2>5, <3>1, <3>2
  <2>7. ASSUME NEW h \in Handlers, NEW i \in Nat, Processes(h, s, i)
        PROVE  /\ AtStep(h, "mark")' => row'[s] # "none"
               /\ i # 1 /\ (AtStep(h, "tenant")' \/ AtStep(h, "mark")') => RowHas(s, i)'
               /\ i # 1 /\ AtStep(h, "mark")' => tenant' = row'[s]
    <3>1. /\ AtStep(h, "mark") => row[s] # "none"
          /\ i # 1 /\ (AtStep(h, "tenant") \/ AtStep(h, "mark")) => RowHas(s, i)
          /\ i # 1 /\ AtStep(h, "mark") => tenant = row[s]
      BY <2>3, <2>7 DEF RowFollows
    <3>2. \A step : AtStep(h, step)' <=> AtStep(h, step)
      BY <1>1 DEF AtStep
    <3> QED BY <1>1, <2>2, <2>7, <3>1, <3>2
  <2>8. <<s, 1>> \in done' => row'[s] # "none"
    BY <1>1, <2>3 DEF RowFollows
  <2>9. <<s, Len(log'[s])>> \in done' => RowHas(s, Len(log[s]))' /\ tenant' = row'[s]
    BY <2>4, <2>6
  <2> QED BY <1>7, <2>7, <2>8, <2>9 DEF RowFollows
<1> QED BY <1>1, <1>2, <1>5, <1>6, <1>9, <1>10 DEF TenantInv

\* A request goes to its next statement.
LEMMA GotoKeeps ==
  ASSUME StripeInv, HandlerInv, NEW h \in Handlers, Busy(h), NEW step \in {"tenant", "mark"}, Goto(h, step),
         step = "tenant" => handler[h].event[2] # 1, UNCHANGED <<done, stripeVars>>
  PROVE  /\ HandlerInv'
         /\ \A o \in Handlers : Busy(o)' <=> Busy(o)
         /\ \A o \in Handlers : \A s, i : Processes(o, s, i)' <=> Processes(o, s, i)
         /\ \A o \in Handlers \ {h} : handler'[o] = handler[o]
         /\ handler'[h].at = step
         /\ OneAtATime => OneAtATime'
<1>1. \A e : Logged(e) <=> Logged(e)'
  BY ProviderRests
<1>2. /\ handler = [o \in Handlers |-> handler[o]]
      /\ handler[h] = [event |-> handler[h].event, at |-> handler[h].at]
      /\ handler' = [handler EXCEPT ![h] = [handler[h] EXCEPT !.at = step]]
  BY DEF HandlerInv, Goto
<1>3. PICK event : event = handler[h].event
  OBVIOUS
<1>4. /\ handler' = [o \in Handlers |-> handler'[o]]
      /\ handler'[h] = [event |-> event, at |-> step]
      /\ \A o \in Handlers \ {h} : handler'[o] = handler[o]
  BY <1>2, <1>3
<1>5. handler'[h].event = event /\ handler'[h].at = step /\ step # "idle"
  BY <1>4
<1>6. \A o \in Handlers : Busy(o)' <=> Busy(o)
  BY <1>4, <1>5 DEF Busy, AtStep
<1>7. \A o \in Handlers : \A s, i : Processes(o, s, i)' <=> Processes(o, s, i)
  BY <1>3, <1>4, <1>5, <1>6 DEF Processes
<1>8. HandlerInv'
  <2>1. ASSUME NEW o \in Handlers, Busy(o)'
        PROVE  /\ handler'[o] = [event |-> handler'[o].event, at |-> handler'[o].at]
               /\ Logged(handler[o].event)' 
               /\ handler'[o].at \in {"checkout", "subscription", "tenant", "mark"}
               /\ AtStep(o, "checkout")' => handler'[o].event[2] = 1
               /\ AtStep(o, "subscription")' \/ AtStep(o, "tenant")' => handler'[o].event[2] # 1
    <3>1. Busy(o) /\ Logged(handler[o].event)
      BY <1>6, <2>1 DEF HandlerInv
    <3>2. handler'[o].event = handler[o].event
      BY <1>3, <1>4, <1>5
    <3>3. CASE o = h
      BY <1>1, <1>3, <1>4, <1>5, <3>1, <3>2, <3>3 DEF AtStep
    <3>4. CASE o # h
      <4>1. handler'[o] = handler[o]
        BY <1>4, <3>4
      <4> QED BY <1>1, <3>1, <4>1 DEF HandlerInv, AtStep
    <3> QED BY <3>3, <3>4
  <2> QED BY <1>4, <2>1 DEF HandlerInv
<1>9. OneAtATime => OneAtATime'
  <2>1. log' = log /\ done' = done
    BY DEF stripeVars
  <2> QED BY <1>6, <1>7, <2>1 DEF OneAtATime
<1> QED BY <1>4, <1>5, <1>6, <1>7, <1>8, <1>9

\* A request ends, or stops half-way.
LEMMA RestKeeps ==
  ASSUME HandlerInv, NEW h \in Handlers, handler' = [handler EXCEPT ![h] = Resting],
         \A e : Logged(e) => Logged(e)'
  PROVE  /\ HandlerInv' /\ ~Busy(h)'
         /\ \A o \in Handlers \ {h} : handler'[o] = handler[o]
<1>1. /\ handler' = [o \in Handlers |-> handler'[o]] /\ handler'[h] = Resting
      /\ \A o \in Handlers \ {h} : handler'[o] = handler[o]
  BY DEF HandlerInv
<1>2. ~Busy(h)'
  BY <1>1 DEF Busy, AtStep, Resting
<1>3. ASSUME NEW o \in Handlers, Busy(o)'
      PROVE  /\ Busy(o) /\ handler'[o] = handler[o]
  BY <1>1, <1>2, <1>3 DEF Busy, AtStep
<1>4. HandlerInv'
  BY <1>1, <1>3 DEF HandlerInv, AtStep
<1> QED BY <1>1, <1>2, <1>4

\* What is not handled does not change.
LEMMA EventsRest ==
  ASSUME StripeInv, EventsInv, UNCHANGED <<done, stripeVars>>
  PROVE  EventsInv'
<1>1. /\ remote' = remote /\ pending' = pending /\ log' = log /\ \A e : Logged(e) <=> Logged(e)'
  BY ProviderRests DEF stripeVars
<1> QED BY <1>1 DEF EventsInv

\* The statements of routeEvent.
LEMMA StatementsKeepTenant ==
  ASSUME TenantInv, NEW h \in Handlers, CompleteCheckout(h) \/ UpdateSubscription(h) \/ UpdateTenant(h)
  PROVE  TenantInv'
<1>1. /\ StripeInv /\ EventsInv /\ HandlerInv /\ Busy(h)
      /\ row \in [Plans \cup {Trial} -> {"none", "TRIALING", "ACTIVE", "PAST_DUE", "CANCELED"}]
      /\ UNCHANGED <<done, disordered, stripeVars>>
  BY DEF TenantInv, CompleteCheckout, UpdateSubscription, UpdateTenant, Busy, AtStep
<1>2. log' = log /\ remote' = remote /\ done' = done /\ disordered' = disordered
  BY <1>1 DEF stripeVars
<1>3. Logged(handler[h].event)
  BY <1>1 DEF HandlerInv
<1>4. PICK s \in Plans, i \in Nat :
        /\ handler[h].event = <<s, i>> /\ i \in 1..Len(log[s])
        /\ \A o \in Plans : OnlySubscription(o) => o = s
  BY <1>1, <1>3, ProcessesPlan
<1>5. handler[h].event[1] = s /\ handler[h].event[2] = i /\ EventOf(h) = log[s][i]
  BY <1>4 DEF EventOf
<1>6. Processes(h, s, i) /\ (UpdateTenant(h) \/ UpdateSubscription(h) => i # 1) /\ (CompleteCheckout(h) => i = 1)
  BY <1>1, <1>4, <1>5 DEF HandlerInv, Processes, CompleteCheckout, UpdateSubscription, UpdateTenant
<1>7. PICK step \in {"tenant", "mark"} :
        /\ Goto(h, step) /\ (step = "tenant" => handler[h].event[2] # 1)
        /\ UpdateTenant(h) \/ CompleteCheckout(h) => step = "mark"
        /\ UpdateSubscription(h) => step = "tenant"
  BY <1>5, <1>6 DEF CompleteCheckout, UpdateSubscription, UpdateTenant, AtStep
<1>8. /\ HandlerInv'
      /\ \A o \in Handlers : Busy(o)' <=> Busy(o)
      /\ \A o \in Handlers : \A t, j : Processes(o, t, j)' <=> Processes(o, t, j)
      /\ handler'[h].at = step
      /\ OneAtATime => OneAtATime'
  BY <1>1, <1>7, GotoKeeps
<1>9. StripeInv' /\ EventsInv'
  BY <1>1, ProviderRests, EventsRest
<1>10. /\ Len(log[s]) \in Nat
       /\ mapSubscriptionStatus[log[s][i].status] \in {"ACTIVE", "PAST_DUE", "CANCELED"}
  BY <1>1, <1>4, PlanLog
<1>11. row' \in [Plans \cup {Trial} -> {"none", "TRIALING", "ACTIVE", "PAST_DUE", "CANCELED"}]
  <2>1. CASE CompleteCheckout(h)
    BY <1>1, <1>5, <2>1 DEF CompleteCheckout, Usable
  <2>2. CASE UpdateSubscription(h)
    BY <1>1, <1>5, <1>10, <2>2 DEF UpdateSubscription
  <2>3. CASE UpdateTenant(h)
    BY <1>1, <2>3 DEF UpdateTenant
  <2> QED BY <2>1, <2>2, <2>3
<1>12. ASSUME OneAtATime, NEW p \in Plans, OnlySubscription(p) => RowFollows(p), OnlySubscription(p)'
       PROVE  RowFollows(p)'
  <2>1. p = s /\ RowFollows(s)
    BY <1>2, <1>4, <1>12 DEF OnlySubscription
  <2>2. \A j \in 1..Len(log[s]) : <<s, j>> \in done <=> j < i
    BY <1>6, <1>12 DEF OneAtATime
  <2>3. <<s, Len(log[s])>> \notin done
    BY <1>4, <1>10, <2>2
  <2>4. i # 1 => row[s] # "none"
    <3>1. i # 1 => 1 \in 1..Len(log[s]) /\ 1 < i
      BY <1>4, <1>10
    <3> QED BY <2>1, <2>2, <3>1 DEF RowFollows
  <2>5. row'[s] # "none" /\ (i # 1 => RowHas(s, i)') /\ (i # 1 /\ step = "mark" => tenant' = row'[s])
    <3>1. CASE CompleteCheckout(h)
      BY <1>1, <1>5, <1>6, <3>1 DEF CompleteCheckout, Usable
    <3>2. CASE UpdateSubscription(h)
      <4>1. row' = [row EXCEPT ![s] = mapSubscriptionStatus[log[s][i].status]]
        BY <1>5, <1>6, <2>4, <3>2 DEF UpdateSubscription
      <4>2. row'[s] = mapSubscriptionStatus[log[s][i].status]
        BY <1>1, <4>1
      <4> QED BY <1>2, <1>7, <1>10, <3>2, <4>2 DEF RowHas
    <3>3. CASE UpdateTenant(h)
      <4>1. i # 1 /\ row' = row /\ tenant' = mapSubscriptionStatus[log[s][i].status]
        BY <1>5, <1>6, <3>3 DEF UpdateTenant, TenantStatus
      <4>2. RowHas(s, i)
        BY <1>6, <2>1, <3>3, <4>1 DEF RowFollows, UpdateTenant
      <4> QED BY <1>2, <1>10, <4>1, <4>2 DEF RowHas
    <3> QED BY <3>1, <3>2, <3>3
  <2>6. ASSUME NEW o \in Handlers, NEW j \in Nat, Processes(o, s, j)' PROVE o = h /\ j = i
    <3>1. Processes(o, s, j) /\ o = h
      BY <1>1, <1>8, <1>12, <2>6 DEF OneAtATime, Processes
    <3> QED BY <1>4, <3>1 DEF Processes
  <2>7. AtStep(h, "mark")' => step = "mark"
    BY <1>8 DEF AtStep
  <2> QED BY <1>2, <2>1, <2>3, <2>5, <2>6, <2>7 DEF RowFollows
<1> QED BY <1>1, <1>2, <1>8, <1>9, <1>11, <1>12 DEF TenantInv

\* markProcessed, and the end of a request that failed.
LEMMA EndsKeepTenant ==
  ASSUME TenantInv, NEW h \in Handlers, MarkProcessed(h) \/ Stop(h)
  PROVE  TenantInv'
<1>1. /\ StripeInv /\ EventsInv /\ HandlerInv /\ Busy(h)
      /\ row \in [Plans \cup {Trial} -> {"none", "TRIALING", "ACTIVE", "PAST_DUE", "CANCELED"}]
      /\ handler' = [handler EXCEPT ![h] = Resting]
      /\ tenant' = tenant /\ row' = row /\ disordered' = disordered
  BY DEF TenantInv, MarkProcessed, Stop, Busy, AtStep
<1>2. PICK event : event = handler[h].event
  OBVIOUS
<1>3. PICK s \in Plans, i \in Nat :
        /\ event = <<s, i>> /\ i \in 1..Len(log[s])
        /\ \A o \in Plans : OnlySubscription(o) => o = s
  BY <1>1, <1>2, ProcessesPlan DEF HandlerInv
<1>4. Processes(h, s, i) /\ Len(log[s]) \in Nat
  BY <1>1, <1>2, <1>3, PlanLog DEF Processes
<1>5. /\ log' = log /\ remote' = remote
      /\ \/ MarkProcessed(h) /\ done' = done \cup {event} /\ pending' \in {pending, pending \ {event}}
         \/ Stop(h) /\ done' = done /\ pending' = pending
  BY <1>2 DEF MarkProcessed, Stop, Answered, stripeVars
<1>6. \A e : Logged(e) <=> Logged(e)'
  BY <1>5 DEF Logged
<1>7. StripeInv'
  <2>1. \A o \in Subscriptions : LogIs(o)'
    BY <1>1, <1>5 DEF StripeInv, LogIs
  <2>2. log' = [o \in Subscriptions |-> log'[o]]
    BY <1>1, <1>5 DEF StripeInv
  <2>3. \A e \in pending' : Logged(e)'
    BY <1>1, <1>5, <1>6 DEF StripeInv
  <2> QED BY <1>1, <1>5, <2>1, <2>2, <2>3 DEF StripeInv
<1>8. EventsInv'
  <2>1. Logged(event)
    BY <1>1, <1>2 DEF HandlerInv
  <2>2. \A o \in Plans : \A j \in 1..Len(log[o]) : <<o, j>> \in pending' \cup done'
    BY <1>1, <1>5 DEF EventsInv
  <2> QED BY <1>1, <1>5, <1>6, <2>1, <2>2 DEF EventsInv
<1>9. HandlerInv' /\ ~Busy(h)' /\ \A o \in Handlers \ {h} : handler'[o] = handler[o]
  BY <1>1, <1>6, RestKeeps
<1>10. ASSUME OneAtATime PROVE \A o \in Handlers : ~Busy(o)'
  BY <1>1, <1>9, <1>10 DEF OneAtATime, Busy, AtStep
<1>11. ASSUME OneAtATime PROVE OneAtATime'
  BY <1>10, <1>11 DEF OneAtATime, Processes
<1>12. ASSUME OneAtATime, NEW p \in Plans, OnlySubscription(p) => RowFollows(p), OnlySubscription(p)'
       PROVE  RowFollows(p)'
  <2>1. p = s /\ RowFollows(s)
    BY <1>3, <1>5, <1>12 DEF OnlySubscription
  <2>2. \A j \in 1..Len(log[s]) : <<s, j>> \in done <=> j < i
    BY <1>4, <1>12 DEF OneAtATime
  <2>3. PICK n : n = Len(log[s])
    OBVIOUS
  <2>4. n >= 2 /\ n \in Nat /\ i \in 1..n
    BY <1>1, <1>3, <1>4, <2>3, PlanLog
  <2>5. <<s, n>> \notin done /\ (i # 1 => <<s, 1>> \in done)
    BY <2>2, <2>3, <2>4
  <2>6. MarkProcessed(h) =>
          /\ AtStep(h, "mark")
          /\ row[s] # "none"
          /\ i # 1 => RowHas(s, i) /\ tenant = row[s]
    BY <1>4, <2>1 DEF MarkProcessed, RowFollows
  <2>7. <<s, 1>> \in done' => row[s] # "none"
    BY <1>5, <2>1, <2>6 DEF RowFollows
  <2>8. <<s, n>> \in done' => RowHas(s, n) /\ tenant = row[s]
    <3>1. <<s, n>> \in done' => MarkProcessed(h) /\ n = i
      BY <1>3, <1>5, <2>5
    <3> QED BY <2>4, <2>6, <3>1
  <2>9. RowHas(s, n)' <=> RowHas(s, n)
    BY <1>1, <1>5 DEF RowHas
  <2> QED BY <1>1, <1>5, <1>10, <1>12, <2>1, <2>3, <2>7, <2>8, <2>9 DEF RowFollows, Processes
<1> QED BY <1>1, <1>7, <1>8, <1>9, <1>11, <1>12 DEF TenantInv

\* A request begins: out of order, the history says so.
LEMMA ReceptionKeepsTenant ==
  ASSUME TenantInv, NEW h \in Handlers, NEW event \in pending, ReceiveNew(h, event)
  PROVE  TenantInv'
<1>1. /\ StripeInv /\ EventsInv /\ HandlerInv
      /\ row \in [Plans \cup {Trial} -> {"none", "TRIALING", "ACTIVE", "PAST_DUE", "CANCELED"}]
      /\ tenant' = tenant /\ row' = row /\ done' = done /\ UNCHANGED stripeVars
      /\ event \notin done
  BY DEF TenantInv, ReceiveNew
<1>2. log' = log /\ remote' = remote
  BY <1>1 DEF stripeVars
<1>3. PICK s \in Plans, i \in Nat :
        /\ event = <<s, i>> /\ i \in 1..Len(log[s])
        /\ \A o \in Plans : OnlySubscription(o) => o = s
  BY <1>1, ProcessesPlan DEF StripeInv
<1>4. event[1] = s /\ event[2] = i /\ Len(log[s]) \in Nat
  BY <1>1, <1>3, PlanLog
<1>5. PICK kind : kind = log[s][i].kind /\ kind = IF i = 1 THEN "checkout" ELSE "subscription"
  BY <1>1, <1>3, PlanLog
<1>6. handler' = [handler EXCEPT ![h] = [event |-> event, at |-> kind]]
  BY <1>4, <1>5 DEF ReceiveNew
<1>7. /\ handler' = [o \in Handlers |-> handler'[o]]
      /\ handler'[h] = [event |-> event, at |-> kind]
      /\ \A o \in Handlers \ {h} : handler'[o] = handler[o]
  BY <1>1, <1>6 DEF HandlerInv
<1>8. handler'[h].event = event /\ handler'[h].at = kind
  BY <1>7
<1>9. StripeInv' /\ EventsInv' /\ \A e : Logged(e) <=> Logged(e)'
  BY <1>1, ProviderRests, EventsRest
<1>10. HandlerInv'
  <2>1. ASSUME NEW o \in Handlers, Busy(o)'
        PROVE  /\ handler'[o] = [event |-> handler'[o].event, at |-> handler'[o].at]
               /\ Logged(handler[o].event)'
               /\ handler'[o].at \in {"checkout", "subscription", "tenant", "mark"}
               /\ AtStep(o, "checkout")' => handler'[o].event[2] = 1
               /\ AtStep(o, "subscription")' \/ AtStep(o, "tenant")' => handler'[o].event[2] # 1
    <3>1. CASE o = h
      <4>1. Logged(event)'
        BY <1>1, <1>9 DEF StripeInv
      <4> QED BY <1>4, <1>5, <1>7, <1>8, <3>1, <4>1 DEF AtStep
    <3>2. CASE o # h
      <4>1. handler'[o] = handler[o] /\ Busy(o)
        BY <1>7, <2>1, <3>2 DEF Busy, AtStep
      <4> QED BY <1>1, <1>9, <4>1 DEF HandlerInv, AtStep
    <3> QED BY <3>1, <3>2
  <2> QED BY <1>7, <2>1 DEF HandlerInv
<1>11. ASSUME ~disordered'
       PROVE  /\ ~disordered /\ \A o \in Handlers : ~Busy(o)
              /\ \A j \in 1..(i - 1) : <<s, j>> \in done
              /\ \A e \in done : ~(e[1] = s /\ e[2] > i)
  BY <1>4, <1>11 DEF ReceiveNew, Early, Late, Busy
<1>12. ASSUME ~disordered', NEW o \in Handlers, Busy(o)' PROVE o = h
  BY <1>7, <1>11, <1>12 DEF Busy, AtStep
<1>13. ASSUME ~disordered', NEW o \in Handlers, NEW t, NEW j, Processes(o, t, j)'
       PROVE  o = h /\ t = s /\ j = i
  BY <1>3, <1>8, <1>12, <1>13 DEF Processes
<1>14. ASSUME ~disordered' PROVE OneAtATime'
  <2>1. ASSUME NEW j \in 1..Len(log[s]) PROVE <<s, j>> \in done <=> j < i
    <3>1. CASE j < i
      <4>1. j \in 1..(i - 1)
        BY <1>3, <1>4, <3>1
      <4> QED BY <1>11, <1>14, <3>1, <4>1
    <3>2. CASE j = i
      BY <1>1, <1>3, <3>2
    <3>3. CASE j > i
      <4>1. <<s, j>>[1] = s /\ <<s, j>>[2] > i
        BY <3>3
      <4> QED BY <1>3, <1>4, <1>11, <1>14, <3>3, <4>1
    <3> QED BY <1>3, <1>4, <3>1, <3>2, <3>3
  <2> QED BY <1>1, <1>2, <1>12, <1>13, <1>14, <2>1 DEF OneAtATime
<1>15. ASSUME ~disordered', NEW p \in Plans, OnlySubscription(p)' PROVE RowFollows(p)'
  <2>1. ~disordered /\ OnlySubscription(p)
    BY <1>2, <1>11, <1>15 DEF OnlySubscription
  <2>2. RowFollows(p)
    BY <2>1 DEF TenantInv
  <2>3. \A j : RowHas(p, j)' <=> RowHas(p, j)
    BY <1>1, <1>2 DEF RowHas
  <2>4. ~AtStep(h, "mark")' /\ ~AtStep(h, "tenant")'
    BY <1>5, <1>8 DEF AtStep
  <2> QED BY <1>1, <1>2, <1>13, <1>15, <2>2, <2>3, <2>4 DEF RowFollows
<1> QED BY <1>1, <1>9, <1>10, <1>14, <1>15 DEF TenantInv

\* An event that is delivered again, or nothing.
LEMMA DuplicatesKeepTenant ==
  ASSUME TenantInv,
         \/ \E event \in pending : ReceiveDuplicate(event)
         \/ UNCHANGED <<tenantVars, stripeVars>>
  PROVE  TenantInv'
<1>1. /\ StripeInv /\ EventsInv /\ HandlerInv
      /\ tenant' = tenant /\ row' = row /\ done' = done /\ handler' = handler /\ disordered' = disordered
  BY DEF TenantInv, ReceiveDuplicate, tenantVars
<1>2. /\ log' = log /\ remote' = remote /\ pending' \subseteq pending
      /\ \A e \in pending : e \notin done => e \in pending'
  BY DEF ReceiveDuplicate, Answered, stripeVars
<1>3. \A e : Logged(e) <=> Logged(e)'
  BY <1>2 DEF Logged
<1>4. StripeInv'
  <2>1. \A s \in Subscriptions : LogIs(s)'
    BY <1>1, <1>2 DEF StripeInv, LogIs
  <2>2. log' = [s \in Subscriptions |-> log'[s]]
    BY <1>1, <1>2 DEF StripeInv
  <2> QED BY <1>1, <1>2, <1>3, <2>1, <2>2 DEF StripeInv
<1>5. EventsInv'
  BY <1>1, <1>2, <1>3 DEF EventsInv
<1>6. HandlerInv'
  BY <1>1, <1>3 DEF HandlerInv, Busy, AtStep
<1>7. OneAtATime => OneAtATime'
  BY <1>1, <1>2 DEF OneAtATime, Processes, Busy, AtStep
<1>8. \A s \in Plans : RowFollows(s) => RowFollows(s)'
  BY <1>1, <1>2 DEF RowFollows, Processes, Busy, AtStep, RowHas
<1>9. \A s \in Plans : OnlySubscription(s)' => OnlySubscription(s)
  BY <1>2 DEF OnlySubscription
<1> QED BY <1>1, <1>4, <1>5, <1>6, <1>7, <1>8, <1>9 DEF TenantInv

\* Every step keeps the invariant of the tenant.
LEMMA TenantKept == TenantInv /\ [TenantNext]_<<tenantVars, stripeVars>> => TenantInv'
<1> SUFFICES ASSUME TenantInv, [TenantNext]_<<tenantVars, stripeVars>> PROVE TenantInv'
  OBVIOUS
<1>1. CASE \E s \in Plans : (Subscribe(s) \/ ChangeStatus(s)) /\ UNCHANGED tenantVars
  BY <1>1, ChangesKeepTenant
<1>2. CASE \E event \in pending : \E h \in Handlers : ReceiveNew(h, event)
  BY <1>2, ReceptionKeepsTenant
<1>3. CASE \E h \in Handlers : CompleteCheckout(h) \/ UpdateSubscription(h) \/ UpdateTenant(h)
  BY <1>3, StatementsKeepTenant
<1>4. CASE \E h \in Handlers : MarkProcessed(h) \/ Stop(h)
  BY <1>4, EndsKeepTenant
<1>5. CASE \/ \E event \in pending : ReceiveDuplicate(event)
           \/ UNCHANGED <<tenantVars, stripeVars>>
  BY <1>5, DuplicatesKeepTenant
<1> QED BY <1>1, <1>2, <1>3, <1>4, <1>5 DEF TenantNext

\* When its events are processed one at a time and in order, whatever stops half-way, the
\* organisation has the status of its only subscription once they are.
THEOREM TenantAlwaysFollowsInOrder == TenantSpec => []TenantFollowsInOrder
<1>1. TenantInv => TenantFollowsInOrder
  <2> SUFFICES ASSUME TenantInv, ~disordered, NEW s \in Plans, Settled(s) PROVE FollowsProvider(s)
    BY DEF TenantFollowsInOrder
  <2>1. StripeInv /\ EventsInv /\ RowFollows(s)
    BY DEF TenantInv, Settled, OnlySubscription
  <2>2. PICK n : n = Len(log[s])
    OBVIOUS
  <2>3. n \in 1..n /\ log[s][n].status = remote[s]
    BY <2>1, <2>2, PlanLog DEF Settled
  <2>4. <<s, n>> \notin pending
    <3>1. <<s, n>>[1] = s
      OBVIOUS
    <3> QED BY <3>1 DEF Settled, NothingPending
  <2>5. <<s, n>> \in done
    BY <2>1, <2>2, <2>3, <2>4 DEF EventsInv
  <2>6. RowHas(s, n) /\ tenant = row[s]
    BY <2>1, <2>2, <2>5 DEF RowFollows
  <2> QED BY <2>3, <2>6 DEF RowHas, FollowsProvider
<1>2. StripeInit /\ TenantInit => TenantInv
  BY TenantBegins
<1> QED BY <1>1, <1>2, TenantKept, PTL DEF TenantSpec
=============================================================================

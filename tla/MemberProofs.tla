---------------------------- MODULE MemberProofs ----------------------------
(***************************************************************************)
(* What is kept of a member.                                               *)
(*                                                                         *)
(* Sessions: the refresh sessions of an account, for every number of       *)
(* tokens, of logins and of concurrent requests; and a feed session, which *)
(* shows no issue twice, answers a batch in one way and keeps the seams of *)
(* its batches, for batches of every size.  What is said of a feed rests   *)
(* on what a request still knows when it saves: a request whose batch is   *)
(* not stored yet has seen all batches before it.                          *)
(*                                                                         *)
(* The weights of a member's categories: what is learnt and what was       *)
(* chosen stay apart in them, and the migration to category codes loses    *)
(* none.  For every number of issues, views, categories, users and rows.   *)
(* Both rest on sums over sets.                                            *)
(***************************************************************************)
EXTENDS AuthSession, FeedSession, MemberInterest, CategoryMigration, SetLemmas

-----------------------------------------------------------------------------
(* The inductive invariant.                                                *)

\* A session that another was rotated from is neither free nor active.
SuccessorOfConsumed ==
    \A u \in Token : origin[u] # NoToken => session[origin[u]] \notin {"FREE", "ACTIVE"}

\* A request that holds the user's row holds a user.
SharedUserPresent == \A r \in Request : SharesUser(r) => account = "PRESENT"

\* A request past its first statement has a token, of a session that was made.
RequestsHaveTokens ==
    \A r \in Request :
        request[r].pc # "Idle" => /\ request[r].token \in Token
                                  /\ session[request[r].token] # "FREE"

\* Sessions are deleted with their account only.
DeletedWithAccount == \A t \in Token : session[t] = "DELETED" => account = "GONE"

\* No row is locked twice.
LocksExclusive == \A r, q \in Request : r # q => LockedBy(r) \cap LockedBy(q) = {}

\* What was decided on under the lock is still so.
RotatesActive ==
    \A r \in Request : request[r].pc = "Rotate" => session[request[r].token] = "ACTIVE"

\* An UPDATE has locked all it has come to, but for what is no longer active.
ReachedIsSettled ==
    \A r \in Request :
        /\ request[r].pc # "Revoke" => request[r].reached = {} /\ request[r].locked = {}
        /\ \A t \in request[r].reached :
             session[t] # "FREE" /\ (t \in request[r].locked \/ session[t] # "ACTIVE")
        /\ \A t \in request[r].found : request[r].pc = "Revoke" => session[t] # "FREE"
        /\ \A t \in request[r].made :
             request[r].pc = "Revoke" =>
               t \in request[r].found \/ session[t] \notin {"FREE", "ACTIVE"}

Locking ==
    /\ SharedUserPresent
    /\ RequestsHaveTokens
    /\ DeletedWithAccount
    /\ LocksExclusive
    /\ RotatesActive
    /\ ReachedIsSettled

AuthInv == SessionsSound /\ SuccessorOfConsumed /\ Locking
-----------------------------------------------------------------------------
(* Types.                                                                  *)

\* The record of a request that has ended has the type.
LEMMA RestType == Rest \in RequestRecord
BY DEF Rest, RequestRecord, Pc

\* A request may change its place.
LEMMA MoveType ==
    ASSUME AuthTypeOK, NEW r \in Request, NEW pc \in Pc, Move(r, pc)
    PROVE  request' \in [Request -> RequestRecord]
<1>1. request[r] \in RequestRecord
  BY DEF AuthTypeOK
<1>2. [request[r] EXCEPT !.pc = pc] \in RequestRecord
  BY <1>1 DEF RequestRecord
<1>3. QED
  BY <1>2 DEF Move, AuthTypeOK

\* A request may end.
LEMMA EndType ==
    ASSUME AuthTypeOK, NEW r \in Request, End(r)
    PROVE  request' \in [Request -> RequestRecord]
BY RestType DEF End, AuthTypeOK

\* Every step keeps the shapes of the tables and of the requests.
LEMMA TypeStep == AuthTypeOK /\ [AuthNext]_authVars => AuthTypeOK'
<1> SUFFICES ASSUME AuthTypeOK, [AuthNext]_authVars PROVE AuthTypeOK'
  OBVIOUS
<1> USE DEF AuthTypeOK, Status
<1>1. CASE \E t \in Token : Signup(t) \/ Logout(t) \/ Expire(t)
  BY <1>1 DEF Signup, Logout, Expire
<1>2. CASE \E l \in Login : LoginVerify(l) \/ \E t \in Token : LoginIssue(l, t)
  BY <1>2 DEF LoginVerify, LoginIssue
<1>3. CASE Withdraw
  BY <1>3 DEF Withdraw
<1>4. ASSUME NEW r \in Request, NEW t \in Token, FindOwner(r, t)
      PROVE  AuthTypeOK'
  <2>1. [Rest EXCEPT !.pc = "Owner", !.token = t] \in RequestRecord
    BY RestType DEF Rest, RequestRecord, Pc
  <2>2. QED
    BY <1>4, <2>1 DEF FindOwner
<1>5. ASSUME NEW r \in Request, NEW t \in Token, Rotate(r, t)
      PROVE  AuthTypeOK'
  <2>1. request[r].token \in Token \cup {NoToken}
    BY DEF RequestRecord
  <2>2. request' \in [Request -> RequestRecord]
    BY <1>5, EndType DEF Rotate
  <2>3. QED
    BY <1>5, <2>1, <2>2 DEF Rotate
<1>6. ASSUME NEW r \in Request, NEW t \in Token, RevokeRow(r, t)
      PROVE  AuthTypeOK'
  <2>1. request[r] \in RequestRecord
    OBVIOUS
  <2>2. PICK L \in SUBSET Token :
          request' = [request EXCEPT ![r] = [request[r] EXCEPT
                        !.reached = request[r].reached \cup {t}, !.locked = L]]
    BY <1>6, <2>1 DEF RevokeRow, RequestRecord
  <2>3. [request[r] EXCEPT !.reached = request[r].reached \cup {t}, !.locked = L]
          \in RequestRecord
    BY <2>1 DEF RequestRecord
  <2>4. QED
    BY <1>6, <2>2, <2>3 DEF RevokeRow
<1>7. ASSUME NEW r \in Request, LockUser(r)
      PROVE  AuthTypeOK'
  BY <1>7, MoveType, EndType DEF LockUser, Pc
<1>8. ASSUME NEW r \in Request, LockSession(r)
      PROVE  AuthTypeOK'
  BY <1>8, MoveType DEF LockSession, Pc
<1>9. ASSUME NEW r \in Request, Decide(r)
      PROVE  AuthTypeOK'
  <2>1. request[r] \in RequestRecord
    OBVIOUS
  <2>2. [request[r] EXCEPT !.pc = "Revoke", !.found = ActiveSessions, !.made = Issued]
          \in RequestRecord
    BY <2>1 DEF RequestRecord, Pc, ActiveSessions, Issued
  <2>3. CASE request' = [request EXCEPT ![r].pc = "Revoke", ![r].found = ActiveSessions,
                                           ![r].made = Issued]
    <3>1. request' = [request EXCEPT ![r] = [request[r] EXCEPT !.pc = "Revoke",
                                                           !.found = ActiveSessions,
                                                           !.made = Issued]]
      BY <2>1, <2>3 DEF RequestRecord
    <3>2. QED
      BY <1>9, <2>2, <3>1 DEF Decide
  <2>4. CASE End(r) \/ Move(r, "Rotate")
    BY <1>9, <2>4, MoveType, EndType DEF Decide, Pc
  <2>5. QED
    BY <1>9, <2>3, <2>4 DEF Decide
<1>10. ASSUME NEW r \in Request, RevokeCommit(r) \/ Abort(r)
       PROVE  AuthTypeOK'
  BY <1>10, EndType DEF RevokeCommit, Abort
<1>11. CASE UNCHANGED authVars
  BY <1>11 DEF authVars
<1>12. QED
  BY <1>1, <1>2, <1>3, <1>4, <1>5, <1>6, <1>7, <1>8, <1>9, <1>10, <1>11 DEF AuthNext
-----------------------------------------------------------------------------
(* Sessions.                                                               *)

\* A session that is not free never is again, and one that is used, revoked or
\* deleted stays one of these.
LEMMA SessionsMoveOn ==
    ASSUME AuthTypeOK, [AuthNext]_authVars, NEW t \in Token
    PROVE  /\ session[t] # "FREE" => session'[t] # "FREE"
           /\ session[t] \notin {"FREE", "ACTIVE"} => session'[t] \notin {"FREE", "ACTIVE"}
<1> USE DEF AuthTypeOK
<1>1. CASE \E u \in Token : Signup(u) \/ Logout(u) \/ Expire(u)
  BY <1>1 DEF Signup, Logout, Expire
<1>2. CASE \E l \in Login : LoginVerify(l) \/ \E u \in Token : LoginIssue(l, u)
  BY <1>2 DEF LoginVerify, LoginIssue
<1>3. CASE Withdraw
  BY <1>3 DEF Withdraw
<1>4. ASSUME NEW r \in Request, NEW u \in Token, FindOwner(r, u) \/ RevokeRow(r, u)
      PROVE  session' = session
  BY <1>4 DEF FindOwner, RevokeRow
<1>5. ASSUME NEW r \in Request, NEW u \in Token, Rotate(r, u)
      PROVE  /\ session[t] # "FREE" => session'[t] # "FREE"
             /\ session[t] \notin {"FREE", "ACTIVE"} => session'[t] \notin {"FREE", "ACTIVE"}
  BY <1>5 DEF Rotate
<1>6. ASSUME NEW r \in Request, LockUser(r) \/ LockSession(r) \/ Decide(r) \/ Abort(r)
      PROVE  session' = session
  BY <1>6 DEF LockUser, LockSession, Decide, Abort
<1>7. ASSUME NEW r \in Request, RevokeCommit(r)
      PROVE  session'[t] \in {"REVOKED", session[t]}
  BY <1>7 DEF RevokeCommit
<1>8. CASE UNCHANGED authVars
  BY <1>8 DEF authVars
<1>9. QED
  BY <1>1, <1>2, <1>3, <1>4, <1>5, <1>6, <1>7, <1>8 DEF AuthNext

\* A rotation takes an active session and a free one.
LEMMA RotateEffect ==
    ASSUME AuthTypeOK, RequestsHaveTokens, RotatesActive,
           NEW r \in Request, NEW u \in Token, Rotate(r, u)
    PROVE  /\ request[r].token \in Token /\ request[r].token # u
           /\ session[request[r].token] = "ACTIVE"
           /\ session'[request[r].token] = "USED"
           /\ origin' = [origin EXCEPT ![u] = request[r].token]
<1>1. request[r].pc = "Rotate" /\ session[u] = "FREE"
  BY DEF Rotate
<1>2. request[r].token \in Token /\ session[request[r].token] = "ACTIVE"
  BY <1>1 DEF RequestsHaveTokens, RotatesActive
<1>3. QED
  BY <1>1, <1>2 DEF Rotate, AuthTypeOK

\* Only a rotation makes a successor.
LEMMA OriginSteps ==
    ASSUME [AuthNext]_authVars
    PROVE  \/ origin' = origin
           \/ \E r \in Request, u \in Token : Rotate(r, u)
<1>1. ASSUME NEW t \in Token, Signup(t) \/ Logout(t) \/ Expire(t) PROVE origin' = origin
  BY <1>1 DEF Signup, Logout, Expire
<1>2. ASSUME NEW l \in Login, LoginVerify(l) \/ \E t \in Token : LoginIssue(l, t)
      PROVE  origin' = origin
  BY <1>2 DEF LoginVerify, LoginIssue
<1>3. ASSUME NEW r \in Request, NEW t \in Token, FindOwner(r, t) \/ RevokeRow(r, t)
      PROVE  origin' = origin
  BY <1>3 DEF FindOwner, RevokeRow
<1>4. ASSUME NEW r \in Request,
             LockUser(r) \/ LockSession(r) \/ Decide(r) \/ RevokeCommit(r) \/ Abort(r)
      PROVE  origin' = origin
  BY <1>4 DEF LockUser, LockSession, Decide, RevokeCommit, Abort
<1>5. CASE Withdraw \/ UNCHANGED authVars
  BY <1>5 DEF Withdraw, authVars
<1>6. QED
  BY <1>1, <1>2, <1>3, <1>4, <1>5 DEF AuthNext

\* Successors are of consumed sessions, and no session has two.
LEMMA SuccessorStep ==
    ASSUME AuthInv, [AuthNext]_authVars
    PROVE  SuccessorOfConsumed' /\ OneSuccessor'
<1> USE DEF AuthInv, SessionsSound, Locking
<1>1. CASE origin' = origin
  <2>1. SuccessorOfConsumed'
    BY <1>1, SessionsMoveOn DEF SuccessorOfConsumed, AuthTypeOK
  <2>2. QED
    BY <1>1, <2>1 DEF OneSuccessor
<1>2. ASSUME NEW r \in Request, NEW u \in Token, Rotate(r, u)
      PROVE  SuccessorOfConsumed' /\ OneSuccessor'
  <2> DEFINE t == request[r].token
  <2>1. /\ t \in Token /\ session[t] = "ACTIVE" /\ session'[t] = "USED"
        /\ origin' = [origin EXCEPT ![u] = t]
    BY <1>2, RotateEffect
  <2>2. \A v \in Token : origin[v] # t
    BY <2>1, AuthAssumption DEF SuccessorOfConsumed
  <2>3. SuccessorOfConsumed'
    <3> SUFFICES ASSUME NEW v \in Token, origin'[v] # NoToken
                 PROVE  session'[origin'[v]] \notin {"FREE", "ACTIVE"}
      BY DEF SuccessorOfConsumed
    <3>1. CASE v = u
      BY <3>1, <2>1 DEF AuthTypeOK
    <3>2. CASE v # u
      BY <3>2, <2>1, SessionsMoveOn DEF AuthTypeOK, SuccessorOfConsumed
    <3>3. QED
      BY <3>1, <3>2
  <2>4. OneSuccessor'
    BY <2>1, <2>2 DEF OneSuccessor, AuthTypeOK
  <2>5. QED
    BY <2>3, <2>4
<1>3. QED
  BY <1>1, <1>2, OriginSteps

-----------------------------------------------------------------------------
(* The account.                                                            *)

\* No step of a request changes the account, and none but LockUser lets it share
\* the user's row that did not.
LEMMA RequestSharing ==
    ASSUME AuthTypeOK, NEW r \in Request,
           \/ \E t \in Token : FindOwner(r, t) \/ Rotate(r, t) \/ RevokeRow(r, t)
           \/ LockUser(r) \/ LockSession(r) \/ Decide(r) \/ RevokeCommit(r) \/ Abort(r)
    PROVE  /\ account' = account
           /\ \A q \in Request : SharesUser(q)' => SharesUser(q) \/ account = "PRESENT"
<1> USE DEF AuthTypeOK, SharesUser
<1>1. CASE \E t \in Token : FindOwner(r, t)
  BY <1>1 DEF FindOwner, Rest
<1>2. CASE \E t \in Token : Rotate(r, t)
  BY <1>2 DEF Rotate, End, Rest
<1>3. CASE \E t \in Token : RevokeRow(r, t)
  BY <1>3 DEF RevokeRow
<1>4. CASE LockUser(r)
  BY <1>4 DEF LockUser, Move, End, Rest
<1>5. CASE LockSession(r)
  BY <1>5 DEF LockSession, Move
<1>6. CASE Decide(r)
  BY <1>6 DEF Decide, Move, End, Rest
<1>7. CASE RevokeCommit(r) \/ Abort(r)
  BY <1>7 DEF RevokeCommit, Abort, End, Rest
<1>8. QED
  BY <1>1, <1>2, <1>3, <1>4, <1>5, <1>6, <1>7

\* Who shares the row of the user keeps the account.
LEMMA SharedStep ==
    ASSUME AuthInv, [AuthNext]_authVars
    PROVE  SharedUserPresent'
<1> USE DEF AuthInv, SessionsSound, Locking, SharedUserPresent
<1>1. CASE \/ \E t \in Token : Signup(t) \/ Logout(t) \/ Expire(t)
           \/ \E l \in Login : LoginVerify(l) \/ \E t \in Token : LoginIssue(l, t)
           \/ Withdraw
           \/ UNCHANGED authVars
  BY <1>1 DEF Signup, Logout, Expire, LoginVerify, LoginIssue, Withdraw, authVars, SharesUser
<1>2. ASSUME NEW r \in Request,
             \/ \E t \in Token : FindOwner(r, t) \/ Rotate(r, t) \/ RevokeRow(r, t)
             \/ LockUser(r) \/ LockSession(r) \/ Decide(r) \/ RevokeCommit(r) \/ Abort(r)
      PROVE  SharedUserPresent'
  BY <1>2, RequestSharing
<1>3. QED
  BY <1>1, <1>2 DEF AuthNext

\* Without an account there is no active session.
LEMMA AccountStep ==
    ASSUME AuthInv, [AuthNext]_authVars
    PROVE  NoSessionWithoutAccount'
<1> USE DEF AuthInv, SessionsSound, Locking, NoSessionWithoutAccount, ActiveSessions, AuthTypeOK
<1>1. CASE \E t \in Token : Signup(t) \/ Logout(t) \/ Expire(t)
  BY <1>1 DEF Signup, Logout, Expire
<1>2. CASE \E l \in Login : LoginVerify(l) \/ \E t \in Token : LoginIssue(l, t)
  BY <1>2 DEF LoginVerify, LoginIssue
<1>3. CASE Withdraw
  BY <1>3 DEF Withdraw
<1>4. ASSUME NEW r \in Request, NEW t \in Token, Rotate(r, t)
      PROVE  NoSessionWithoutAccount'
  <2>1. account = "PRESENT"
    BY <1>4 DEF Rotate, SharedUserPresent, SharesUser
  <2>2. QED
    BY <1>4, <2>1 DEF Rotate
<1>5. ASSUME NEW r \in Request,
             \/ \E t \in Token : FindOwner(r, t) \/ RevokeRow(r, t)
             \/ LockUser(r) \/ LockSession(r) \/ Decide(r) \/ Abort(r)
      PROVE  UNCHANGED <<account, session>>
  BY <1>5 DEF FindOwner, RevokeRow, LockUser, LockSession, Decide, Abort
<1>6. ASSUME NEW r \in Request, RevokeCommit(r)
      PROVE  NoSessionWithoutAccount'
  BY <1>6 DEF RevokeCommit
<1>7. CASE UNCHANGED authVars
  BY <1>7 DEF authVars
<1>8. QED
  BY <1>1, <1>2, <1>3, <1>4, <1>5, <1>6, <1>7 DEF AuthNext
\* Deleted sessions have no account.
LEMMA DeletedStep ==
    ASSUME AuthInv, [AuthNext]_authVars
    PROVE  DeletedWithAccount'
<1> USE DEF AuthInv, SessionsSound, Locking, DeletedWithAccount, AuthTypeOK
<1>1. CASE \E t \in Token : Signup(t) \/ Logout(t) \/ Expire(t)
  BY <1>1 DEF Signup, Logout, Expire
<1>2. CASE \E l \in Login : LoginVerify(l) \/ \E t \in Token : LoginIssue(l, t)
  BY <1>2 DEF LoginVerify, LoginIssue
<1>3. CASE Withdraw
  BY <1>3 DEF Withdraw
<1>4. ASSUME NEW r \in Request, NEW t \in Token, Rotate(r, t)
      PROVE  DeletedWithAccount'
  BY <1>4 DEF Rotate
<1>5. ASSUME NEW r \in Request,
             \/ \E t \in Token : FindOwner(r, t) \/ RevokeRow(r, t)
             \/ LockUser(r) \/ LockSession(r) \/ Decide(r) \/ Abort(r)
      PROVE  UNCHANGED <<account, session>>
  BY <1>5 DEF FindOwner, RevokeRow, LockUser, LockSession, Decide, Abort
<1>6. ASSUME NEW r \in Request, RevokeCommit(r)
      PROVE  DeletedWithAccount'
  BY <1>6 DEF RevokeCommit
<1>7. CASE UNCHANGED authVars
  BY <1>7 DEF authVars
<1>8. QED
  BY <1>1, <1>2, <1>3, <1>4, <1>5, <1>6, <1>7 DEF AuthNext

-----------------------------------------------------------------------------
(* Requests.                                                               *)

\* Only its own steps change a request.
RequestStep(r) ==
    \/ \E t \in Token : FindOwner(r, t) \/ Rotate(r, t) \/ RevokeRow(r, t)
    \/ LockUser(r) \/ LockSession(r) \/ Decide(r) \/ RevokeCommit(r) \/ Abort(r)

\* A step is one of a request, or leaves the requests alone.
LEMMA StepsOfRequests ==
    ASSUME [AuthNext]_authVars
    PROVE  request' = request \/ \E r \in Request : RequestStep(r)
BY DEF AuthNext, RequestStep, Signup, Logout, Expire, LoginVerify, LoginIssue, Withdraw, authVars

\* The other requests are as they were.
LEMMA OthersKept ==
    ASSUME AuthTypeOK, NEW r \in Request, RequestStep(r), NEW q \in Request \ {r}
    PROVE  request'[q] = request[q]
BY DEF AuthTypeOK, RequestStep, FindOwner, Rotate, RevokeRow, LockUser, LockSession, Decide,
       RevokeCommit, Abort, Move, End

\* Token and revocation of a request are as they were, and its place is pc.
KeptAt(r, pc) ==
    /\ request'[r].pc = pc
    /\ request'[r].token = request[r].token
    /\ request'[r].found = request[r].found
    /\ request'[r].made = request[r].made
    /\ request'[r].reached = request[r].reached
    /\ request'[r].locked = request[r].locked

\* The steps that go on, by what they change.
FindEffect(r, t) ==
    /\ request'[r].pc = "Owner" /\ request'[r].token = t /\ session[t] # "FREE"
    /\ request'[r].found = {} /\ request'[r].made = {}
    /\ request'[r].reached = {} /\ request'[r].locked = {}
ShareEffect(r) == request[r].pc = "Owner" /\ KeptAt(r, "Lock")
LockEffect(r) ==
    /\ request[r].pc = "Lock" /\ RowFree(r, request[r].token) /\ KeptAt(r, "Decide")
ActiveEffect(r) ==
    /\ request[r].pc = "Decide" /\ KeptAt(r, "Rotate") /\ session' = session
    /\ session[request[r].token] \notin {"USED", "REVOKED"}
ReuseEffect(r) ==
    /\ request[r].pc = "Decide" /\ request'[r].pc = "Revoke" /\ session' = session
    /\ request'[r].token = request[r].token
    /\ request'[r].found = ActiveSessions /\ request'[r].made = Issued
    /\ request'[r].reached = request[r].reached /\ request'[r].locked = request[r].locked
RowEffect(r, t) ==
    /\ request[r].pc = "Revoke" /\ request'[r].pc = "Revoke" /\ session' = session
    /\ t \in request[r].found /\ RowFree(r, t)
    /\ request'[r].token = request[r].token
    /\ request'[r].found = request[r].found /\ request'[r].made = request[r].made
    /\ request'[r].reached = request[r].reached \cup {t}
    /\ request'[r].locked = IF session[t] = "ACTIVE" THEN request[r].locked \cup {t}
                            ELSE request[r].locked

\* How a step changes its request: it ends it, or is one of these.
LEMMA RequestEffect ==
    ASSUME AuthTypeOK, NEW r \in Request, RequestStep(r)
    PROVE  \/ request'[r] = Rest
           \/ \E t \in Token : FindEffect(r, t) \/ RowEffect(r, t)
           \/ ShareEffect(r) \/ LockEffect(r) \/ ActiveEffect(r) \/ ReuseEffect(r)
<1>0. request[r] \in RequestRecord
  BY DEF AuthTypeOK
<1>a. ASSUME NEW pc, Move(r, pc) PROVE KeptAt(r, pc)
  <2>1. request'[r] = [request[r] EXCEPT !.pc = pc]
    BY <1>a DEF Move, AuthTypeOK
  <2>2. QED
    BY <1>0, <2>1 DEF KeptAt, RequestRecord
<1>b. ASSUME End(r) PROVE request'[r] = Rest
  BY <1>b DEF End, AuthTypeOK
<1>1. ASSUME NEW t \in Token, FindOwner(r, t)
      PROVE  FindEffect(r, t)
  <2>1. request' = [request EXCEPT ![r] = [Rest EXCEPT !.pc = "Owner", !.token = t]]
    BY <1>1 DEF FindOwner
  <2>2. request'[r] = [Rest EXCEPT !.pc = "Owner", !.token = t]
    BY <2>1 DEF AuthTypeOK
  <2>3. Rest \in [pc : Pc, token : Token \cup {NoToken}, found : SUBSET Token,
                   made : SUBSET Token, reached : SUBSET Token, locked : SUBSET Token]
    BY RestType DEF RequestRecord
  <2>4. Rest.found = {} /\ Rest.made = {} /\ Rest.reached = {} /\ Rest.locked = {}
    BY DEF Rest
  <2>5. session[t] # "FREE"
    BY <1>1 DEF FindOwner
  <2>6. QED
    BY <2>2, <2>3, <2>4, <2>5 DEF FindEffect
<1>2. CASE (\E t \in Token : Rotate(r, t)) \/ RevokeCommit(r) \/ Abort(r)
  BY <1>2, <1>b DEF Rotate, RevokeCommit, Abort
<1>3. ASSUME NEW t \in Token, RevokeRow(r, t)
      PROVE  RowEffect(r, t)
  <2>1. request' = [request EXCEPT ![r] = [request[r] EXCEPT
                       !.reached = request[r].reached \cup {t},
                       !.locked = IF session[t] = "ACTIVE" THEN request[r].locked \cup {t}
                                  ELSE request[r].locked]]
    BY <1>0, <1>3 DEF RevokeRow, RequestRecord
  <2>2. request'[r] = [request[r] EXCEPT
                       !.reached = request[r].reached \cup {t},
                       !.locked = IF session[t] = "ACTIVE" THEN request[r].locked \cup {t}
                                  ELSE request[r].locked]
    BY <2>1 DEF AuthTypeOK
  <2>3. /\ request[r].pc = "Revoke" /\ t \in request[r].found /\ RowFree(r, t)
        /\ session' = session
    BY <1>3 DEF RevokeRow
  <2>4. QED
    BY <1>0, <2>2, <2>3 DEF RowEffect, RequestRecord
<1>4. CASE LockUser(r)
  BY <1>4, <1>a, <1>b DEF LockUser, ShareEffect
<1>5. CASE LockSession(r)
  BY <1>5, <1>a DEF LockSession, LockEffect
<1>6. CASE Decide(r)
  <2>1. CASE request' = [request EXCEPT ![r].pc = "Revoke", ![r].found = ActiveSessions,
                                           ![r].made = Issued]
    <3>1. request' = [request EXCEPT ![r] = [request[r] EXCEPT !.pc = "Revoke",
                                                           !.found = ActiveSessions,
                                                           !.made = Issued]]
      BY <1>0, <2>1 DEF RequestRecord
    <3>2. request'[r] = [request[r] EXCEPT !.pc = "Revoke", !.found = ActiveSessions,
                                             !.made = Issued]
      BY <3>1 DEF AuthTypeOK
    <3>3. request[r].pc = "Decide" /\ session' = session
      BY <1>6 DEF Decide
    <3>4. QED
      BY <1>0, <3>2, <3>3 DEF ReuseEffect, RequestRecord
  <2>2. CASE End(r)
    BY <1>b, <2>2
  <2>3. CASE Move(r, "Rotate") /\ session[request[r].token] \notin {"USED", "REVOKED"}
    BY <1>6, <1>a, <2>3 DEF Decide, ActiveEffect
  <2>4. QED
    BY <1>6, <2>1, <2>2, <2>3 DEF Decide
<1>7. QED
  BY <1>1, <1>2, <1>3, <1>4, <1>5, <1>6 DEF RequestStep

\* A request keeps naming a session that was made.
LEMMA TokensStep ==
    ASSUME AuthInv, [AuthNext]_authVars
    PROVE  RequestsHaveTokens'
<1> USE DEF AuthInv, SessionsSound, Locking
<1>1. CASE request' = request
  BY <1>1, SessionsMoveOn DEF RequestsHaveTokens
<1>2. ASSUME NEW r \in Request, RequestStep(r)
      PROVE  RequestsHaveTokens'
  <2> SUFFICES ASSUME NEW q \in Request, request'[q].pc # "Idle"
               PROVE  request'[q].token \in Token /\ session'[request'[q].token] # "FREE"
    BY DEF RequestsHaveTokens
  <2>2. request'[q].token \in Token /\ session[request'[q].token] # "FREE"
    <3>1. CASE q # r
      BY <1>2, <3>1, OthersKept DEF RequestsHaveTokens
    <3>2. CASE q = r
      <4>1. CASE request'[r] = Rest
        BY <3>2, <4>1 DEF Rest
      <4>2. CASE \E t \in Token : FindEffect(r, t)
        BY <3>2, <4>2 DEF FindEffect
      <4>3. CASE \E t \in Token : RowEffect(r, t)
        BY <3>2, <4>3 DEF RowEffect, RequestsHaveTokens
      <4>4. CASE ShareEffect(r) \/ LockEffect(r) \/ ActiveEffect(r) \/ ReuseEffect(r)
        BY <3>2, <4>4 DEF ShareEffect, LockEffect, ActiveEffect, ReuseEffect, KeptAt,
                          RequestsHaveTokens
      <4>5. QED
        BY <1>2, <4>1, <4>2, <4>3, <4>4, RequestEffect
    <3>3. QED
      BY <3>1, <3>2
  <2>3. QED
    BY <2>2, SessionsMoveOn
<1>3. QED
  BY <1>1, <1>2, StepsOfRequests

\* A request locks only rows that are free.
LEMMA LocksStep ==
    ASSUME AuthInv, [AuthNext]_authVars
    PROVE  LocksExclusive'
<1> USE DEF AuthInv, SessionsSound, Locking
<1>1. CASE request' = request
  BY <1>1 DEF LocksExclusive, LockedBy
<1>2. ASSUME NEW r \in Request, RequestStep(r)
      PROVE  LocksExclusive'
  <2>2. \A q \in Request \ {r} : LockedBy(q)' = LockedBy(q)
    BY <1>2, OthersKept DEF LockedBy
  <2>3. \A t \in LockedBy(r)' : t \in LockedBy(r) \/ RowFree(r, t)
    <3>1. CASE request'[r] = Rest
      BY <3>1 DEF LockedBy, Rest
    <3>2. CASE \E t \in Token : FindEffect(r, t)
      BY <3>2 DEF LockedBy, FindEffect
    <3>3. CASE \E t \in Token : RowEffect(r, t)
      BY <3>3 DEF LockedBy, RowEffect
    <3>4. CASE ShareEffect(r) \/ LockEffect(r)
      BY <3>4 DEF LockedBy, ShareEffect, LockEffect, KeptAt
    <3>5. CASE ActiveEffect(r) \/ ReuseEffect(r)
      BY <3>5 DEF LockedBy, ActiveEffect, ReuseEffect, KeptAt
    <3>6. QED
      BY <1>2, <3>1, <3>2, <3>3, <3>4, <3>5, RequestEffect
  <2>4. \A q \in Request \ {r} : LockedBy(r)' \cap LockedBy(q)' = {}
    BY <2>2, <2>3 DEF LocksExclusive, RowFree
  <2>5. QED
    BY <2>2, <2>4 DEF LocksExclusive
<1>3. QED
  BY <1>1, <1>2, StepsOfRequests

\* A row that is locked by one request is changed by no other.
LEMMA LockedStays ==
    ASSUME AuthInv, [AuthNext]_authVars,
           NEW q \in Request, SharesUser(q), request'[q].pc # "Idle",
           NEW t \in LockedBy(q), t \in Token, session[t] # "FREE"
    PROVE  session'[t] = session[t]
<1> USE DEF AuthInv, SessionsSound, Locking, AuthTypeOK
<1>1. CASE \E u \in Token : Signup(u) \/ Logout(u) \/ Expire(u)
  BY <1>1 DEF Signup, Logout, Expire
<1>2. CASE \E l \in Login : LoginVerify(l) \/ \E u \in Token : LoginIssue(l, u)
  BY <1>2 DEF LoginVerify, LoginIssue
<1>3. CASE Withdraw
  BY <1>3 DEF Withdraw
<1>4. ASSUME NEW r \in Request, NEW u \in Token, Rotate(r, u)
      PROVE  session'[t] = session[t]
  <2>1. r # q
    BY <1>4 DEF Rotate, End, Rest
  <2>2. request[r].token \in LockedBy(r) /\ session[u] = "FREE"
    BY <1>4 DEF Rotate, LockedBy
  <2>3. t # u /\ t # request[r].token
    BY <2>1, <2>2 DEF LocksExclusive
  <2>4. QED
    BY <1>4, <2>3 DEF Rotate
<1>5. ASSUME NEW r \in Request,
             \/ \E u \in Token : FindOwner(r, u) \/ RevokeRow(r, u)
             \/ LockUser(r) \/ LockSession(r) \/ Decide(r) \/ Abort(r)
      PROVE  session' = session
  BY <1>5 DEF FindOwner, RevokeRow, LockUser, LockSession, Decide, Abort
<1>6. ASSUME NEW r \in Request, RevokeCommit(r)
      PROVE  session'[t] = session[t]
  <2>1. r # q
    BY <1>6 DEF RevokeCommit, End, Rest
  <2>2. t \notin request[r].locked
    BY <2>1 DEF LocksExclusive, LockedBy
  <2>3. QED
    BY <1>6, <2>2 DEF RevokeCommit
<1>7. CASE UNCHANGED authVars
  BY <1>7 DEF authVars
<1>8. QED
  BY <1>1, <1>2, <1>3, <1>4, <1>5, <1>6, <1>7 DEF AuthNext

\* What is rotated is active until the rotation commits.
LEMMA RotatesStep ==
    ASSUME AuthInv, [AuthNext]_authVars
    PROVE  RotatesActive'
<1> USE DEF AuthInv, SessionsSound, Locking
<1> SUFFICES ASSUME NEW q \in Request, request'[q].pc = "Rotate"
             PROVE  session'[request'[q].token] = "ACTIVE"
  BY DEF RotatesActive
<1>2. CASE request'[q] = request[q]
  <2>1. /\ request[q].token \in Token /\ session[request[q].token] = "ACTIVE"
        /\ request[q].token \in LockedBy(q) /\ SharesUser(q)
    BY <1>2 DEF RequestsHaveTokens, RotatesActive, LockedBy, SharesUser
  <2>2. QED
    BY <1>2, <2>1, LockedStays
<1>3. CASE RequestStep(q) /\ request'[q] # request[q]
  <2>1. ActiveEffect(q)
    <3>1. request'[q] # Rest
      BY DEF Rest
    <3>2. \A t \in Token : ~FindEffect(q, t) /\ ~RowEffect(q, t)
      BY DEF FindEffect, RowEffect
    <3>3. ~ShareEffect(q) /\ ~LockEffect(q) /\ ~ReuseEffect(q)
      BY DEF ShareEffect, LockEffect, ReuseEffect, KeptAt
    <3>4. QED
      BY <1>3, <3>1, <3>2, <3>3, RequestEffect
  <2>2. /\ request[q].pc = "Decide" /\ request'[q].token = request[q].token
        /\ session[request[q].token] \notin {"USED", "REVOKED"} /\ session' = session
    BY <2>1 DEF ActiveEffect, KeptAt
  <2>3. account = "PRESENT" /\ request[q].token \in Token /\ session[request[q].token] # "FREE"
    BY <2>2 DEF SharedUserPresent, SharesUser, RequestsHaveTokens
  <2>4. QED
    BY <2>2, <2>3 DEF DeletedWithAccount, AuthTypeOK, Status
<1>4. QED
  BY <1>2, <1>3, StepsOfRequests, OthersKept
\* What an UPDATE has come to is settled.
LEMMA ReachedStep ==
    ASSUME AuthInv, [AuthNext]_authVars
    PROVE  ReachedIsSettled'
<1> USE DEF AuthInv, SessionsSound, Locking
<1> DEFINE Settled(q) ==
        /\ request[q].pc # "Revoke" => request[q].reached = {} /\ request[q].locked = {}
        /\ \A t \in request[q].reached :
             session[t] # "FREE" /\ (t \in request[q].locked \/ session[t] # "ACTIVE")
        /\ \A t \in request[q].found : request[q].pc = "Revoke" => session[t] # "FREE"
        /\ \A t \in request[q].made :
             request[q].pc = "Revoke" =>
               t \in request[q].found \/ session[t] \notin {"FREE", "ACTIVE"}
<1> SUFFICES ASSUME NEW q \in Request PROVE Settled(q)'
  BY DEF ReachedIsSettled
<1>1. Settled(q) /\ request[q] \in RequestRecord
  BY DEF ReachedIsSettled, AuthTypeOK
<1>2. /\ request[q].reached \subseteq Token /\ request[q].found \subseteq Token
      /\ request[q].made \subseteq Token
  BY <1>1 DEF RequestRecord
<1>3. \A t \in Token : session[t] \in Status /\ session'[t] \in Status
  BY TypeStep DEF AuthTypeOK
<1>4. CASE request'[q] = request[q]
  <2>1. \A t \in request[q].reached : session'[t] # "FREE"
    BY <1>1, <1>2, SessionsMoveOn
  <2>2. \A t \in request[q].reached : t \notin request[q].locked => session'[t] # "ACTIVE"
    BY <1>1, <1>2, SessionsMoveOn
  <2>3. \A t \in request[q].found : request[q].pc = "Revoke" => session'[t] # "FREE"
    BY <1>1, <1>2, SessionsMoveOn
  <2>4. \A t \in request[q].made :
          request[q].pc = "Revoke" =>
            t \in request[q].found \/ session'[t] \notin {"FREE", "ACTIVE"}
    BY <1>1, <1>2, SessionsMoveOn
  <2>5. QED
    BY <1>1, <1>4, <2>1, <2>2, <2>3, <2>4
<1>5. CASE RequestStep(q)
  <2>1. CASE request'[q] = Rest
    BY <2>1 DEF Rest
  <2>2. CASE \E t \in Token : FindEffect(q, t)
    BY <2>2 DEF FindEffect
  <2>3. CASE \E t \in Token : RowEffect(q, t)
    BY <1>1, <2>3 DEF RowEffect
  <2>4. CASE ShareEffect(q) \/ LockEffect(q) \/ ActiveEffect(q)
    BY <1>1, <2>4 DEF ShareEffect, LockEffect, ActiveEffect, KeptAt
  <2>5. CASE ReuseEffect(q)
    BY <1>1, <2>5 DEF ReuseEffect, ActiveSessions, Issued
  <2>6. QED
    BY <1>5, <2>1, <2>2, <2>3, <2>4, <2>5, RequestEffect
<1>6. QED
  BY <1>4, <1>5, StepsOfRequests, OthersKept

-----------------------------------------------------------------------------
(* Theorems.                                                               *)

\* The initial state.
LEMMA InvInit == AuthInit => AuthInv
BY AuthAssumption, RestType
   DEF AuthInit, AuthInv, SessionsSound, AuthTypeOK, Status, OneSuccessor,
       NoSessionWithoutAccount, ActiveSessions, SuccessorOfConsumed, Locking,
       SharedUserPresent, SharesUser, RequestsHaveTokens, DeletedWithAccount,
       LocksExclusive, LockedBy, RotatesActive, ReachedIsSettled, Rest

\* The invariant is inductive.
LEMMA InvStep == AuthInv /\ [AuthNext]_authVars => AuthInv'
BY TypeStep, SuccessorStep, SharedStep, AccountStep, DeletedStep, TokensStep, LocksStep,
   RotatesStep, ReachedStep
   DEF AuthInv, SessionsSound, Locking

\* A refresh token has at most one successor however many requests present it,
\* and an account that is gone has no active session: rotateRefreshSession,
\* createRefreshSession and deleteUser under the locks they take.
THEOREM SessionsCorrect == AuthSpec => []SessionsSound
<1>1. AuthInv => SessionsSound
  BY DEF AuthInv
<1>2. QED
  BY <1>1, InvInit, InvStep, PTL DEF AuthSpec

\* A revocation that commits leaves none of the sessions active that had been
\* issued when its UPDATE began, though others held their rows at that time.
LEMMA RevokeSettles ==
    ASSUME AuthInv, [AuthNext]_authVars, NEW r \in Request, RevokeCommit(r)
    PROVE  ActiveSessions' \cap request[r].made = {}
<1> USE DEF AuthInv, SessionsSound, Locking
<1> SUFFICES ASSUME NEW t \in Token, t \in request[r].made
             PROVE  session'[t] # "ACTIVE"
  BY DEF ActiveSessions
<1>1. session'[t] = IF t \in request[r].locked THEN "REVOKED" ELSE session[t]
  BY DEF RevokeCommit
<1>2. CASE t \in request[r].found
  <2>1. t \in request[r].reached
    BY <1>2 DEF RevokeCommit
  <2>2. t \in request[r].locked \/ session[t] # "ACTIVE"
    BY <2>1 DEF ReachedIsSettled
  <2>3. QED
    BY <1>1, <2>2
<1>3. CASE t \notin request[r].found
  <2>1. request[r].pc = "Revoke"
    BY DEF RevokeCommit
  <2>2. session[t] \notin {"FREE", "ACTIVE"}
    BY <1>3, <2>1 DEF ReachedIsSettled
  <2>3. QED
    BY <1>1, <2>2
<1>4. QED
  BY <1>2, <1>3

\* When a client is told of a reuse, no session is active but those that were
\* issued while the UPDATE of revokeActiveSessions ran.
THEOREM ReuseRevokesCorrect == AuthSpec => ReuseRevokes
<1>1. AuthInv /\ [AuthNext]_authVars
      => [\A r \in Request :
            RevokeCommit(r) => ActiveSessions' \cap request[r].made = {}]_authVars
  BY RevokeSettles
<1>2. QED
  BY <1>1, InvInit, InvStep, PTL DEF AuthSpec, ReuseRevokes

-----------------------------------------------------------------------------
(* A feed session.                                                         *)

StoredBatch == [items : Seq(Card), continuation : {"CONTINUE", "EXHAUSTED", "LIMITED"}]

\* A request and a session have these fields (the run state is not typed).
IsRequest(x) == x = [pc |-> x.pc, no |-> x.no, seen |-> x.seen,
                     skip |-> x.skip, pool |-> x.pool]

IsRow(x) == x = [state |-> x.state, next |-> x.next, last |-> x.last]

\* Batches, requests and answers have their shapes, and the row counts batches.
Rows ==
    /\ batches \in Seq(StoredBatch)
    /\ shown \subseteq Card
    /\ IsRow(row)
    /\ row.next = Len(batches)
    /\ row.state = "ABSENT" => batches = <<>>
    /\ client = [c \in Client |-> client[c]]
    /\ \A c \in Client : IsRequest(client[c])

\* A request whose batch comes next excludes all that was shown.
Requests ==
    \A c \in Client :
        /\ client[c].no \in 0 .. Len(batches)
        /\ client[c].pc = "Candidates" /\ client[c].no = Len(batches) =>
              client[c].skip = ItemsOf(batches)
        /\ client[c].pc = "Save" =>
              /\ client[c].pool \subseteq Card
              /\ client[c].no = Len(batches) =>
                    client[c].pool \cap ItemsOf(batches) = {}

\* Every answer is the stored batch.
Answers ==
    \A a \in answers : /\ a.no \in 0 .. (Len(batches) - 1)
                       /\ a.items = Batch(a.no).items

\* No issue is at two places of the session.
NoIssueTwice ==
    \A k, l \in DOMAIN batches :
        \A m \in DOMAIN batches[k].items, n \in DOMAIN batches[l].items :
            batches[k].items[m] = batches[l].items[n] => k = l /\ m = n

FeedInv == Rows /\ Requests /\ Answers /\ NoIssueTwice

\* The initial state.
LEMMA FeedInvInit == FeedInit => FeedInv
<1> SUFFICES ASSUME FeedInit PROVE FeedInv
  OBVIOUS
<1>1. batches = <<>> /\ Len(batches) = 0 /\ DOMAIN batches = {} /\ answers = {}
  BY DEF FeedInit
<1>2. Rows
  <2>1. batches \in Seq(StoredBatch)
    BY <1>1
  <2>2. /\ client = [c \in Client |-> client[c]]
        /\ \A c \in Client : client[c] = ClientRest
    BY DEF FeedInit
  <2>3. IsRequest(ClientRest)
    BY DEF IsRequest, ClientRest
  <2>4. QED
    BY <1>1, <2>1, <2>2, <2>3 DEF FeedInit, NoSession, Rows, IsRow
<1>3. Requests
  BY <1>1 DEF FeedInit, Requests, ClientRest
<1>4. QED
  BY <1>1, <1>2, <1>3 DEF FeedInv, Answers, NoIssueTwice

\* A pick is a sequence of different candidates.
LEMMA PickShape ==
    ASSUME NEW pool \in SUBSET Card, NEW last, NEW s \in Picks(pool, last)
    PROVE  /\ s \in Seq(Card)
           /\ \A m \in DOMAIN s : s[m] \in pool
           /\ \A m, n \in DOMAIN s : s[m] = s[n] => m = n
<1>1. PICK n \in 0 .. FeedBatchSize : s \in [1 .. n -> pool]
  BY DEF Picks
<1>2. IsInjective(s)
  BY DEF Picks
<1>3. s \in Seq(Card)
  BY <1>1, FeedAssumption
<1>4. QED
  BY <1>1, <1>2, <1>3 DEF IsInjective

\* What an item of a batch is.
LEMMA ItemsAre ==
    ASSUME NEW k \in DOMAIN batches, NEW m \in DOMAIN batches[k].items
    PROVE  batches[k].items[m] \in ItemsOf(batches)
BY DEF ItemsOf, ToSet

\* A step that stores no batch keeps what is stored.
LEMMA NothingStored ==
    ASSUME FeedInv, batches' = batches, shown' \subseteq shown, Requests',
           IsRow(row'), row'.next = row.next,
           row'.state = row.state \/ row'.state # "ABSENT",
           client' = [c \in Client |-> client'[c]],
           \A c \in Client : IsRequest(client'[c]),
           \A a \in answers' : \/ a \in answers
                               \/ /\ a.no \in 0 .. (Len(batches) - 1)
                                  /\ a.items = Batch(a.no).items
    PROVE  FeedInv'
<1>1. Rows'
  BY DEF FeedInv, Rows
<1>2. Answers'
  BY DEF FeedInv, Answers, Batch
<1>3. NoIssueTwice'
  BY DEF FeedInv, NoIssueTwice
<1>4. QED
  BY <1>1, <1>2, <1>3 DEF FeedInv
\* What holds of a request while the batches are as they are.
Knows(x) ==
    /\ x.no \in 0 .. Len(batches)
    /\ x.pc = "Candidates" /\ x.no = Len(batches) => x.skip = ItemsOf(batches)
    /\ x.pc = "Save" => /\ x.pool \subseteq Card
                        /\ x.no = Len(batches) => x.pool \cap ItemsOf(batches) = {}

\* A step of one request that stores no batch.
LEMMA RequestMoves ==
    ASSUME FeedInv, NEW c \in Client, NEW x, IsRequest(x), Knows(x),
           client' = [client EXCEPT ![c] = x],
           batches' = batches, shown' = shown,
           IsRow(row'), row'.next = row.next,
           row'.state = row.state \/ row'.state # "ABSENT",
           \A a \in answers' : \/ a \in answers
                               \/ /\ a.no \in 0 .. (Len(batches) - 1)
                                  /\ a.items = Batch(a.no).items
    PROVE  FeedInv'
<1>1. client = [d \in Client |-> client[d]]
  BY DEF FeedInv, Rows
<1>2. /\ client'[c] = x /\ \A d \in Client \ {c} : client'[d] = client[d]
      /\ client' = [d \in Client |-> client'[d]]
  BY <1>1
<1>3. \A d \in Client : IsRequest(client'[d])
  BY <1>2 DEF FeedInv, Rows
<1>4. Requests'
  <2>1. ItemsOf(batches)' = ItemsOf(batches)
    BY DEF ItemsOf
  <2>2. ASSUME NEW d \in Client
        PROVE  /\ client'[d].no \in 0 .. Len(batches)
               /\ client'[d].pc = "Candidates" /\ client'[d].no = Len(batches) =>
                     client'[d].skip = ItemsOf(batches)
               /\ client'[d].pc = "Save" =>
                     /\ client'[d].pool \subseteq Card
                     /\ client'[d].no = Len(batches) =>
                           client'[d].pool \cap ItemsOf(batches) = {}
    BY <1>2 DEF Knows, FeedInv, Requests
  <2>3. QED
    BY <2>1, <2>2 DEF Requests, ItemsOf
<1>5. QED
  BY <1>2, <1>3, <1>4, NothingStored

\* A request that ends, with or without an answer from the batches.
LEMMA RequestEnds ==
    ASSUME FeedInv, NEW c \in Client, Leave(c),
           batches' = batches, shown' = shown, row' = row,
           \A a \in answers' : \/ a \in answers
                               \/ /\ a.no \in 0 .. (Len(batches) - 1)
                                  /\ a.items = Batch(a.no).items
    PROVE  FeedInv'
<1>1. Len(batches) \in Nat /\ IsRow(row)
  BY DEF FeedInv, Rows
<1>2. IsRequest(ClientRest) /\ Knows(ClientRest)
  BY <1>1 DEF IsRequest, Knows, ClientRest
<1>3. QED
  BY <1>1, <1>2, RequestMoves DEF Leave

\* Requests with other fields.
LEMMA SetPc ==
    ASSUME NEW x, IsRequest(x), NEW pc
    PROVE  [x EXCEPT !.pc = pc]
       = [pc |-> pc, no |-> x.no, seen |-> x.seen, skip |-> x.skip, pool |-> x.pool]
BY DEF IsRequest

\* Read: the excluded issues.
LEMMA SetSkip ==
    ASSUME NEW x, IsRequest(x), NEW pc, NEW skip
    PROVE  [x EXCEPT !.pc = pc, !.skip = skip]
       = [pc |-> pc, no |-> x.no, seen |-> x.seen, skip |-> skip, pool |-> x.pool]
<1>1. [x EXCEPT !.pc = pc]
       = [pc |-> pc, no |-> x.no, seen |-> x.seen, skip |-> x.skip, pool |-> x.pool]
  BY SetPc
<1>2. [[pc |-> pc, no |-> x.no, seen |-> x.seen, skip |-> x.skip, pool |-> x.pool]
        EXCEPT !.skip = skip]
       = [pc |-> pc, no |-> x.no, seen |-> x.seen, skip |-> skip, pool |-> x.pool]
  OBVIOUS
<1>3. QED
  BY <1>1, <1>2

\* Read: the candidates.
LEMMA SetPool ==
    ASSUME NEW x, IsRequest(x), NEW pc, NEW pool
    PROVE  [x EXCEPT !.pc = pc, !.pool = pool]
       = [pc |-> pc, no |-> x.no, seen |-> x.seen, skip |-> x.skip, pool |-> pool]
<1>1. [x EXCEPT !.pc = pc]
       = [pc |-> pc, no |-> x.no, seen |-> x.seen, skip |-> x.skip, pool |-> x.pool]
  BY SetPc
<1>2. [[pc |-> pc, no |-> x.no, seen |-> x.seen, skip |-> x.skip, pool |-> x.pool]
        EXCEPT !.pool = pool]
       = [pc |-> pc, no |-> x.no, seen |-> x.seen, skip |-> x.skip, pool |-> pool]
  OBVIOUS
<1>3. QED
  BY <1>1, <1>2

\* Read: the session.
LEMMA SetRead ==
    ASSUME NEW x, IsRequest(x), NEW pc, NEW no, NEW seen
    PROVE  [x EXCEPT !.pc = pc, !.no = no, !.seen = seen]
       = [pc |-> pc, no |-> no, seen |-> seen, skip |-> x.skip, pool |-> x.pool]
<1>1. [x EXCEPT !.pc = pc]
       = [pc |-> pc, no |-> x.no, seen |-> x.seen, skip |-> x.skip, pool |-> x.pool]
  BY SetPc
<1>2. [[pc |-> pc, no |-> x.no, seen |-> x.seen, skip |-> x.skip, pool |-> x.pool]
        EXCEPT !.no = no]
       = [pc |-> pc, no |-> no, seen |-> x.seen, skip |-> x.skip, pool |-> x.pool]
  OBVIOUS
<1>3. [[pc |-> pc, no |-> no, seen |-> x.seen, skip |-> x.skip, pool |-> x.pool]
        EXCEPT !.seen = seen]
       = [pc |-> pc, no |-> no, seen |-> seen, skip |-> x.skip, pool |-> x.pool]
  OBVIOUS
<1>4. QED
  BY <1>1, <1>2, <1>3

\* A request that goes on to another step and reads nothing.
LEMMA TurnKnows ==
    ASSUME NEW x, IsRequest(x), Knows(x), NEW pc, pc \notin {"Candidates", "Save"}
    PROVE  LET y == [x EXCEPT !.pc = pc] IN IsRequest(y) /\ Knows(y)
<1> DEFINE y == [x EXCEPT !.pc = pc]
<1>1. y = [pc |-> pc, no |-> x.no, seen |-> x.seen,
           skip |-> x.skip, pool |-> x.pool]
  BY SetPc
<1>2. QED
  BY <1>1 DEF IsRequest, Knows

\* The client as a record.
LEMMA ClientKnows ==
    ASSUME FeedInv, NEW c \in Client
    PROVE  IsRequest(client[c]) /\ Knows(client[c])
BY DEF FeedInv, Rows, Requests, Knows

\* The steps of a request before it saves.
LEMMA ReadSteps ==
    ASSUME FeedInv, NEW c \in Client,
           \/ CreateFeedSession(c)
           \/ \E n \in 1..Len(batches) : ReadSession(c, n)
           \/ ReadBatch(c) \/ ReadBatches(c) \/ ReadCandidates(c)
           \/ SaveFindsExisting(c) \/ RequestFails(c)
    PROVE  FeedInv'
<1>0. /\ IsRequest(client[c]) /\ Knows(client[c]) /\ Len(batches) \in Nat
      /\ IsRow(row)
      /\ client = [d \in Client |-> client[d]]
  BY ClientKnows DEF FeedInv, Rows
<1>1. CASE CreateFeedSession(c)
  <2> DEFINE x == [ClientRest EXCEPT !.pc = "Candidates"]
  <2>0. IsRequest(ClientRest)
    BY DEF IsRequest, ClientRest
  <2>1. x = [pc |-> "Candidates", no |-> ClientRest.no, seen |-> ClientRest.seen, skip |-> ClientRest.skip, pool |-> ClientRest.pool]
    BY <2>0, SetPc
  <2>2. batches = <<>> /\ ItemsOf(batches) = {} /\ Len(batches) = 0
    BY <1>1 DEF CreateFeedSession, FeedInv, Rows, ItemsOf
  <2>3. IsRequest(x) /\ Knows(x)
    <3>1. ClientRest.no = 0 /\ ClientRest.skip = {}
      BY DEF ClientRest
    <3> HIDE DEF x
    <3>2. QED
      BY <2>1, <2>2, <3>1 DEF IsRequest, Knows
  <2>4. /\ IsRow(row') /\ row'.next = row.next
        /\ row'.state = row.state \/ row'.state # "ABSENT"
    BY <1>1 DEF CreateFeedSession, FeedInv, Rows, IsRow
  <2>5. QED
    BY <1>1, <2>3, <2>4, RequestMoves DEF CreateFeedSession
<1>2. ASSUME NEW n \in 1..Len(batches), ReadSession(c, n) PROVE FeedInv'
  <2> DEFINE x == [ClientRest EXCEPT !.pc = "Batch", !.no = n, !.seen = row]
  <2>1. /\ IsRequest(x) /\ x.pc = "Batch" /\ x.no = n
    <3>1. IsRequest(ClientRest)
      BY DEF IsRequest, ClientRest
    <3>2. x = [pc |-> "Batch", no |-> n, seen |-> row,
               skip |-> ClientRest.skip,
               pool |-> ClientRest.pool]
      BY <3>1, SetRead
    <3>3. QED
      BY <3>2 DEF IsRequest
  <2>2. n \in 0 .. Len(batches)
    BY <1>0
  <2>3. Knows(x)
    BY <2>1, <2>2 DEF Knows
  <2>4. QED
    BY <1>0, <1>2, <2>1, <2>3, RequestMoves DEF ReadSession
<1>3. CASE ReadBatch(c)
  <2>1. CASE Stored(client[c].no) /\ Answer(c, Batch(client[c].no))
    <3>1. client[c].no \in 0 .. (Len(batches) - 1)
      BY <1>0, <2>1 DEF Stored, Knows
    <3>2. \A a \in answers' : \/ a \in answers
                              \/ /\ a.no \in 0 .. (Len(batches) - 1)
                                 /\ a.items = Batch(a.no).items
      BY <2>1, <3>1 DEF Answer
    <3>3. QED
      BY <1>3, <2>1, <3>2, RequestEnds DEF ReadBatch, Answer
  <2>2. CASE Leave(c) /\ UNCHANGED answers
    BY <1>3, <2>2, RequestEnds DEF ReadBatch
  <2>3. CASE Turn(c, "Batches") /\ UNCHANGED answers
    <3> DEFINE x == [client[c] EXCEPT !.pc = "Batches"]
    <3>1. IsRequest(x) /\ Knows(x)
      BY <1>0, TurnKnows
    <3>2. client' = [client EXCEPT ![c] = x]
      BY <2>3 DEF Turn
    <3>3. QED
      BY <1>3, <2>3, <3>1, <3>2, <1>0, RequestMoves DEF ReadBatch
  <2>4. QED
    BY <1>3, <2>1, <2>2, <2>3 DEF ReadBatch
<1>4. CASE ReadBatches(c)
  <2>1. CASE Leave(c)
    BY <1>4, <2>1, RequestEnds DEF ReadBatches
  <2>2. CASE client' = [client EXCEPT ![c] = [client[c] EXCEPT !.pc = "Candidates",
                                                         !.skip = ItemsOf(batches)]]
    <3> DEFINE x == [pc |-> "Candidates", no |-> client[c].no, seen |-> client[c].seen, skip |-> ItemsOf(batches),
                     pool |-> client[c].pool]
    <3>1. IsRequest(x) /\ Knows(x)
      BY <1>0 DEF IsRequest, Knows
    <3>2. [client[c] EXCEPT !.pc = "Candidates", !.skip = ItemsOf(batches)] = x
      BY <1>0, SetSkip
    <3>3. client' = [client EXCEPT ![c] = x]
      BY <2>2, <3>2
    <3>4. QED
      BY <1>4, <3>1, <3>3, <1>0, RequestMoves DEF ReadBatches
  <2>3. QED
    BY <1>4, <2>1, <2>2 DEF ReadBatches
<1>5. CASE ReadCandidates(c)
  <2> DEFINE x == [pc |-> "Save", no |-> client[c].no, seen |-> client[c].seen, skip |-> client[c].skip,
                   pool |-> (shown \ acted) \ client[c].skip]
  <2>1. /\ x.pool \subseteq Card
        /\ x.no = Len(batches) => x.pool \cap ItemsOf(batches) = {}
    BY <1>0, <1>5 DEF ReadCandidates, Knows, FeedInv, Rows
  <2>2. IsRequest(x) /\ Knows(x)
    BY <1>0, <2>1 DEF IsRequest, Knows
  <2>3. client' = [client EXCEPT ![c] = x]
    BY <1>0, <1>5, SetPool DEF ReadCandidates
  <2>4. QED
    BY <1>0, <1>5, <2>2, <2>3, RequestMoves DEF ReadCandidates
<1>6. CASE SaveFindsExisting(c)
  <2>1. client[c].no \in 0 .. (Len(batches) - 1)
    BY <1>0, <1>6 DEF SaveFindsExisting, Stored, Knows
  <2>2. \A a \in answers' : \/ a \in answers
                            \/ /\ a.no \in 0 .. (Len(batches) - 1)
                               /\ a.items = Batch(a.no).items
    BY <1>6, <2>1 DEF SaveFindsExisting, Answer
  <2>3. QED
    BY <1>6, <2>2, RequestEnds DEF SaveFindsExisting, Answer
<1>7. CASE RequestFails(c)
  BY <1>7, RequestEnds DEF RequestFails
<1>8. QED
  BY <1>1, <1>2, <1>3, <1>4, <1>5, <1>6, <1>7
\* A batch is saved when it is the next one, from candidates that no earlier
\* batch holds; the requests that computed the same batch have come too late.
LEMMA SaveStep ==
    ASSUME FeedInv, NEW c \in Client,
           NEW s \in Picks(client[c].pool, client[c].seen.last), SaveFeedBatch(c, s)
    PROVE  FeedInv'
<1> DEFINE new == Len(batches) + 1
           pool == client[c].pool
           batch == [items |-> s, continuation |-> Continuation(s, pool)]
<1>0. /\ batches \in Seq(StoredBatch) /\ Len(batches) \in Nat
      /\ client = [d \in Client |-> client[d]]
      /\ pool \in SUBSET Card
      /\ client[c].no = Len(batches)
      /\ pool \cap ItemsOf(batches) = {}
  <2>1. client[c].no = row.next /\ client[c].pc = "Save"
    BY DEF SaveFeedBatch
  <2>2. QED
    BY <2>1 DEF FeedInv, Rows, Requests
<1>1. /\ s \in Seq(Card)
      /\ \A m \in DOMAIN s : s[m] \in pool
      /\ \A m, n \in DOMAIN s : s[m] = s[n] => m = n
  BY <1>0, PickShape
<1>2. batch \in StoredBatch
  BY <1>1 DEF StoredBatch, Continuation
<1>3. /\ batches' = Append(batches, batch)
      /\ shown' = shown /\ row'.next = client[c].no + 1
      /\ row'.state # "ABSENT" /\ IsRow(row')
      /\ Answer(c, batch)
  BY DEF SaveFeedBatch, IsRow
<1> HIDE DEF batch
<1>4. /\ batches' \in Seq(StoredBatch) /\ Len(batches') = new
      /\ DOMAIN batches = 1 .. Len(batches) /\ DOMAIN batches' = 1 .. new
      /\ \A k \in DOMAIN batches : batches'[k] = batches[k]
      /\ batches'[new] = batch
  BY <1>0, <1>2, <1>3
<1>5. batch.items = s
  BY DEF batch
<1>6. /\ client'[c] = ClientRest /\ \A d \in Client \ {c} : client'[d] = client[d]
      /\ client' = [d \in Client |-> client'[d]]
  BY <1>0, <1>3 DEF Answer, Leave
<1>7. Rows'
  <2>1. IsRequest(ClientRest)
    BY DEF IsRequest, ClientRest
  <2>2. QED
    BY <1>0, <1>3, <1>4, <1>6, <2>1 DEF FeedInv, Rows
<1>8. Requests'
  <2>1. ASSUME NEW d \in Client
        PROVE  /\ client'[d].no \in 0 .. new
               /\ client'[d].pc = "Candidates" => client'[d].no # new
               /\ client'[d].pc = "Save" => /\ client'[d].pool \subseteq Card
                                            /\ client'[d].no # new
    <3>1. CASE d = c
      BY <1>0, <1>6, <3>1 DEF ClientRest
    <3>2. CASE d # c
      BY <1>0, <1>6, <3>2 DEF FeedInv, Requests
    <3>3. QED
      BY <3>1, <3>2
  <2>2. QED
    BY <1>4, <2>1 DEF Requests
<1>9. Answers'
  <2>1. ASSUME NEW a \in answers'
        PROVE  a.no \in 0 .. (Len(batches') - 1) /\ a.items = batches'[a.no + 1].items
    <3>1. CASE a \in answers
      <4>1. a.no \in 0 .. (Len(batches) - 1) /\ a.items = batches[a.no + 1].items
        BY <3>1 DEF FeedInv, Answers, Batch
      <4>2. QED
        BY <1>0, <1>4, <4>1
    <3>2. CASE a = [no |-> client[c].no, items |-> batch.items]
      BY <1>0, <1>4, <3>2
    <3>3. QED
      BY <1>3, <3>1, <3>2 DEF Answer
  <2>2. QED
    BY <2>1 DEF Answers, Batch
<1>10. NoIssueTwice'
  <2>1. SUFFICES ASSUME NEW k \in DOMAIN batches', NEW l \in DOMAIN batches',
                        NEW m \in DOMAIN batches'[k].items,
                        NEW n \in DOMAIN batches'[l].items,
                        batches'[k].items[m] = batches'[l].items[n]
                 PROVE  k = l /\ m = n
    BY DEF NoIssueTwice
  <2>2. CASE k \in DOMAIN batches /\ l \in DOMAIN batches
    BY <1>4, <2>1, <2>2 DEF FeedInv, NoIssueTwice
  <2>3. CASE k = new /\ l = new
    BY <1>1, <1>4, <1>5, <2>1, <2>3
  <2>4. CASE k \in DOMAIN batches /\ l = new
    <3>1. batches'[k].items[m] \in ItemsOf(batches)
      BY <1>4, <2>4, ItemsAre
    <3>2. batches'[l].items[n] \in pool
      BY <1>1, <1>4, <1>5, <2>4
    <3>3. QED
      BY <1>0, <2>1, <3>1, <3>2
  <2>5. CASE k = new /\ l \in DOMAIN batches
    <3>1. batches'[l].items[n] \in ItemsOf(batches)
      BY <1>4, <2>5, ItemsAre
    <3>2. batches'[k].items[m] \in pool
      BY <1>1, <1>4, <1>5, <2>5
    <3>3. QED
      BY <1>0, <2>1, <3>1, <3>2
  <2>6. QED
    BY <1>0, <1>4, <2>2, <2>3, <2>4, <2>5
<1>11. QED
  BY <1>7, <1>8, <1>9, <1>10 DEF FeedInv

\* The invariant is inductive.
LEMMA FeedInvStep == FeedInv /\ [FeedNext]_feedVars => FeedInv'
<1> SUFFICES ASSUME FeedInv, [FeedNext]_feedVars PROVE FeedInv'
  OBVIOUS
<1>1. ASSUME row' = row \/ row' = [row EXCEPT !.state = "EXPIRED"],
             batches' = batches, shown' \subseteq shown,
             client' = client, answers' = answers
      PROVE  FeedInv'
  <2>1. Requests'
    BY <1>1 DEF FeedInv, Requests, ItemsOf
  <2>2. /\ IsRow(row') /\ row'.next = row.next
        /\ row'.state = row.state \/ row'.state # "ABSENT"
    BY <1>1 DEF FeedInv, Rows, IsRow
  <2>3. QED
    BY <1>1, <2>1, <2>2, NothingStored DEF FeedInv, Rows
<1>2. CASE UNCHANGED feedVars
  BY <1>1, <1>2 DEF feedVars
<1>3. CASE SessionExpires \/ \E i \in Card : CardWithdrawn(i) \/ MemberActs(i)
  BY <1>1, <1>3 DEF SessionExpires, CardWithdrawn, MemberActs
<1>4. ASSUME NEW c \in Client,
             NEW s \in Picks(client[c].pool, client[c].seen.last), SaveFeedBatch(c, s)
      PROVE  FeedInv'
  BY <1>4, SaveStep
<1>5. ASSUME NEW c \in Client,
             \/ CreateFeedSession(c)
             \/ \E n \in 1..Len(batches) : ReadSession(c, n)
             \/ ReadBatch(c) \/ ReadBatches(c) \/ ReadCandidates(c)
             \/ SaveFindsExisting(c) \/ RequestFails(c)
      PROVE  FeedInv'
  BY <1>5, ReadSteps
<1>6. QED
  BY <1>2, <1>3, <1>4, <1>5 DEF FeedNext

-----------------------------------------------------------------------------
\* Whoever asks for a batch gets the one that is stored, the loser of a race
\* and a request sent again included (saveFeedBatch, EXISTING).
THEOREM OneAnswerPerBatchCorrect == FeedSpec => []OneAnswerPerBatch
<1>1. FeedInv => OneAnswerPerBatch
  BY DEF FeedInv, Answers, OneAnswerPerBatch
<1>2. QED
  BY <1>1, FeedInvInit, FeedInvStep, PTL DEF FeedSpec

\* No issue is shown at two places of a session, although batches are computed
\* from what was read before the lock (excludedIssueIds).
THEOREM NoIssueTwiceCorrect == FeedSpec => []NoIssueTwice
<1>1. FeedInv => NoIssueTwice
  BY DEF FeedInv
<1>2. QED
  BY <1>1, FeedInvInit, FeedInvStep, PTL DEF FeedSpec

-----------------------------------------------------------------------------
(* The run state after a sequence of items.                                *)

\* The recursion of FoldLeft: over the places of a sequence, the last one first.
FoldsTo(g, last, s) ==
    g = [t \in SUBSET DOMAIN s |->
            IF t = {} THEN last ELSE Advance(g[t \ {Max(t)}], s[Max(t)])]

RunOver(last, s) == (CHOOSE g : FoldsTo(g, last, s))[DOMAIN s]

\* The run that a batch leaves is a fold over its items, as the function it chooses.
LEMMA AfterRunIs == ASSUME NEW last, NEW s PROVE AfterRun(last, s) = RunOver(last, s)
BY ZenonT(40) DEF AfterRun, FoldLeft, MapThenFoldSet, RunOver, FoldsTo

\* A set of places has a last one.
LEMMA LastPlace ==
    ASSUME NEW n \in Nat, NEW t \in SUBSET (1 .. n), t # {}
    PROVE  Max(t) \in t /\ \A y \in t : Max(t) >= y
<1> DEFINE below == {n - y : y \in t}
<1>1. below \in SUBSET Nat /\ below # {}
  <2>1. \A y \in t : n - y \in Nat
    OBVIOUS
  <2>2. QED
    BY <2>1
<1>2. PICK d \in below : \A e \in below : d <= e
  BY <1>1, LeastNumber
<1>3. PICK x \in t : d = n - x
  BY <1>2
<1>4. \A y \in t : x >= y
  <2> SUFFICES ASSUME NEW y \in t PROVE x >= y
    OBVIOUS
  <2>1. n - y \in below
    OBVIOUS
  <2>2. n - x <= n - y
    BY <1>2, <1>3, <2>1
  <2>3. QED
    BY <2>2
<1>5. QED
  BY <1>3, <1>4 DEF Max

\* The recursion has a solution: by the number of places.
LEMMA FoldExists ==
    ASSUME NEW s \in Seq(Card), NEW last
    PROVE  \E g : FoldsTo(g, last, s)
<1> DEFINE S == DOMAIN s
           Level(n) == {t \in SUBSET S : Cardinality(t) <= n}
           Solves(n, g) ==
             /\ g = [t \in Level(n) |-> g[t]]
             /\ \A t \in Level(n) :
                  g[t] = IF t = {} THEN last ELSE Advance(g[t \ {Max(t)}], s[Max(t)])
           bad == {n \in Nat : ~ \E g : Solves(n, g)}
<1>0. S = 1 .. Len(s) /\ Len(s) \in Nat /\ IsFiniteSet(S)
  BY FS_Interval
<1>1. \A t \in SUBSET S : IsFiniteSet(t) /\ Cardinality(t) \in Nat
  BY <1>0, FS_Subset, FS_CardinalityType
<1>2. \A t \in SUBSET S : t # {} =>
          /\ Max(t) \in S /\ t \ {Max(t)} \in SUBSET S
          /\ Cardinality(t) = Cardinality(t \ {Max(t)}) + 1
  <2> SUFFICES ASSUME NEW t \in SUBSET S, t # {}
               PROVE  /\ Max(t) \in t
                      /\ Cardinality(t) = Cardinality(t \ {Max(t)}) + 1
    OBVIOUS
  <2>1. Max(t) \in t
    BY <1>0, LastPlace
  <2>2. Cardinality(t \ {Max(t)}) = Cardinality(t) - 1
    BY <1>1, <2>1, FS_RemoveElement
  <2>3. QED
    BY <1>1, <2>1, <2>2
<1>3. bad = {}
  <2> SUFFICES ASSUME bad # {} PROVE FALSE
    OBVIOUS
  <2>1. PICK n \in bad : \A m \in bad : n <= m
    BY LeastNumber
  <2>2. CASE n = 0
    <3>1. \A t \in Level(0) : t = {}
      <4> SUFFICES ASSUME NEW t \in SUBSET S, Cardinality(t) <= 0, t # {} PROVE FALSE
        OBVIOUS
      <4>1. PICK n1 \in Nat : Cardinality(t) = n1 + 1
        BY <1>1, <1>2
      <4>2. QED
        BY <4>1
    <3>2. Solves(0, [t \in Level(0) |-> last])
      BY <3>1
    <3>3. QED
      BY <2>1, <2>2, <3>2
  <2>3. CASE n # 0
    <3>1. n - 1 \in Nat /\ n - 1 \notin bad
      <4>1. n - 1 \in Nat /\ ~ (n <= n - 1)
        BY <2>3
      <4>2. QED
        BY <2>1, <4>1
    <3>2. PICK g : Solves(n - 1, g)
      BY <3>1
    <3> DEFINE value(t) == IF t = {} THEN last ELSE Advance(g[t \ {Max(t)}], s[Max(t)])
               h == [t \in Level(n) |-> value(t)]
    <3>3. \A t \in Level(n) : t # {} => t \ {Max(t)} \in Level(n - 1) /\ t \ {Max(t)} \in Level(n)
      <4> SUFFICES ASSUME NEW t \in SUBSET S, Cardinality(t) <= n, t # {}
                   PROVE  /\ t \ {Max(t)} \in SUBSET S
                          /\ Cardinality(t \ {Max(t)}) <= n - 1
                          /\ Cardinality(t \ {Max(t)}) <= n
        OBVIOUS
      <4>1. PICK k \in Nat : k = Cardinality(t \ {Max(t)})
        BY <1>1, <1>2
      <4>2. Cardinality(t) = k + 1 /\ t \ {Max(t)} \in SUBSET S
        BY <1>2, <4>1
      <4>3. k + 1 <= n
        BY <4>2
      <4>4. k <= n - 1 /\ k <= n
        BY <4>3
      <4>5. QED
        BY <4>1, <4>2, <4>4
    <3>4. \A t \in Level(n - 1) : t \in Level(n) /\ h[t] = g[t]
      <4> SUFFICES ASSUME NEW t \in Level(n - 1)
                   PROVE  t \in Level(n) /\ value(t) = g[t]
        OBVIOUS
      <4>1. PICK k \in Nat : k = Cardinality(t)
        BY <1>1
      <4>2. k <= n - 1
        BY <4>1
      <4>3. k <= n
        BY <4>2, <2>1
      <4>4. t \in Level(n)
        BY <4>1, <4>3
      <4>5. QED
        BY <3>2, <4>4
    <3>5. \A t \in Level(n) : h[t] = IF t = {} THEN last ELSE Advance(h[t \ {Max(t)}], s[Max(t)])
      BY <3>3, <3>4
    <3>6. Solves(n, h)
      BY <3>5
    <3>7. QED
      BY <2>1, <3>6
  <2>4. QED
    BY <2>2, <2>3
<1>4. Cardinality(S) \in Nat
  BY <1>0, <1>1
<1>5. PICK g : Solves(Cardinality(S), g)
  BY <1>3, <1>4
<1>6. Level(Cardinality(S)) = SUBSET S
  <2>1. \A t \in SUBSET S : Cardinality(t) <= Cardinality(S)
    BY <1>0, FS_Subset
  <2>2. QED
    BY <2>1
<1>7. /\ g = [t \in SUBSET S |-> g[t]]
      /\ \A t \in SUBSET S :
           g[t] = IF t = {} THEN last ELSE Advance(g[t \ {Max(t)}], s[Max(t)])
  BY <1>5, <1>6
<1>8. QED
  BY <1>7 DEF FoldsTo

\* Two sequences with one beginning fold to the same over it.
LEMMA FoldsAgree ==
    ASSUME NEW s \in Seq(Card), NEW u \in Seq(Card), NEW n \in Nat,
           n <= Len(s), n <= Len(u), \A k \in 1 .. n : s[k] = u[k],
           NEW last, NEW g, NEW h, FoldsTo(g, last, s), FoldsTo(h, last, u)
    PROVE  g[1 .. n] = h[1 .. n]
<1> DEFINE bad == {k \in 0 .. n : g[1 .. k] # h[1 .. k]}
<1>1. \A k \in 1 .. n : /\ Max(1 .. k) = k /\ (1 .. k) \ {k} = 1 .. (k - 1)
                        /\ 1 .. k # {}
  <2> SUFFICES ASSUME NEW k \in 1 .. n
               PROVE  Max(1 .. k) = k /\ (1 .. k) \ {k} = 1 .. (k - 1) /\ 1 .. k # {}
    OBVIOUS
  <2>1. k \in 1 .. k /\ (1 .. k) \ {k} = 1 .. (k - 1)
    OBVIOUS
  <2>2. Max(1 .. k) \in 1 .. k /\ \A y \in 1 .. k : Max(1 .. k) >= y
    <3> DEFINE t == 1 .. k
    <3>1. k \in Nat /\ t \in SUBSET (1 .. k) /\ t # {}
      <4>1. k \in Nat
        OBVIOUS
      <4>2. k \in t
        BY <2>1
      <4>3. t \in SUBSET (1 .. k)
        OBVIOUS
      <4> HIDE DEF t
      <4>4. QED
        BY <4>1, <4>2, <4>3
    <3> HIDE DEF t
    <3>2. Max(t) \in t /\ \A y \in t : Max(t) >= y
      BY <3>1, LastPlace
    <3>3. QED
      BY <3>2 DEF t
  <2>3. QED
    BY <2>1, <2>2
<1>2. \A k \in 0 .. n : 1 .. k \in SUBSET DOMAIN s /\ 1 .. k \in SUBSET DOMAIN u
  OBVIOUS
<1>3. g[1 .. 0] = last /\ h[1 .. 0] = last
  <2>1. 1 .. 0 = {} /\ 0 \in 0 .. n
    OBVIOUS
  <2>2. QED
    BY <1>2, <2>1 DEF FoldsTo
<1>4. \A k \in 1 .. n : /\ g[1 .. k] = Advance(g[1 .. (k - 1)], s[k])
                        /\ h[1 .. k] = Advance(h[1 .. (k - 1)], s[k])
  <2> SUFFICES ASSUME NEW k \in 1 .. n
               PROVE  /\ g[1 .. k] = Advance(g[1 .. (k - 1)], s[k])
                      /\ h[1 .. k] = Advance(h[1 .. (k - 1)], s[k])
    OBVIOUS
  <2> DEFINE t == 1 .. k
  <2>1. t \in SUBSET DOMAIN s /\ t \in SUBSET DOMAIN u /\ t # {}
    BY <1>1, <1>2
  <2>2. Max(t) = k /\ t \ {k} = 1 .. (k - 1) /\ u[k] = s[k]
    BY <1>1
  <2> HIDE DEF t
  <2>3. g[t] = Advance(g[t \ {Max(t)}], s[Max(t)])
    BY <2>1 DEF FoldsTo
  <2>4. h[t] = Advance(h[t \ {Max(t)}], u[Max(t)])
    BY <2>1 DEF FoldsTo
  <2>5. QED
    BY <2>2, <2>3, <2>4 DEF t
<1>5. bad = {}
  <2> SUFFICES ASSUME bad # {} PROVE FALSE
    OBVIOUS
  <2>0. bad \in SUBSET Nat
    OBVIOUS
  <2>1. PICK k \in bad : \A m \in bad : k <= m
    <3> HIDE DEF bad
    <3>1. QED
      BY <2>0, LeastNumber
  <2>2. k \in 1 .. n
    BY <1>3, <2>1
  <2>3. k - 1 \in 0 .. n /\ ~ (k <= k - 1)
    BY <2>2
  <2>4. g[1 .. (k - 1)] = h[1 .. (k - 1)]
    BY <2>1, <2>3
  <2>5. QED
    BY <1>4, <2>1, <2>2, <2>4
<1>6. QED
  BY <1>5

\* No item changes nothing.
LEMMA AfterNone == ASSUME NEW last PROVE AfterRun(last, <<>>) = last
<1>0. <<>> \in Seq(Card)
  OBVIOUS
<1>1. \E g : FoldsTo(g, last, <<>>)
  BY <1>0, FoldExists
<1>2. PICK g : FoldsTo(g, last, <<>>) /\ g = CHOOSE h : FoldsTo(h, last, <<>>)
  BY <1>1
<1>3. DOMAIN <<>> = {}
  OBVIOUS
<1>4. g[{}] = last
  BY <1>2, <1>3 DEF FoldsTo
<1>5. QED
  BY <1>2, <1>3, <1>4, AfterRunIs DEF RunOver

\* The last item is taken after the others.
LEMMA AfterLast ==
    ASSUME NEW s \in Seq(Card), s # <<>>, NEW last
    PROVE  AfterRun(last, s)
             = Advance(AfterRun(last, SubSeq(s, 1, Len(s) - 1)), s[Len(s)])
<1> DEFINE n == Len(s) - 1
           u == SubSeq(s, 1, n)
<1>1. /\ n \in Nat /\ Len(s) = n + 1 /\ Len(s) \in 1 .. Len(s)
      /\ u \in Seq(Card) /\ Len(u) = n /\ \A k \in 1 .. n : s[k] = u[k]
  <2>1. Len(s) \in Nat /\ Len(s) # 0
    BY EmptySeq
  <2>2. n \in Nat /\ Len(s) = n + 1 /\ Len(s) \in 1 .. Len(s)
    BY <2>1
  <2>3. \A k \in 1 .. n : s[k] \in Card
    BY <2>2
  <2>4. u = [k \in 1 .. n |-> s[k]]
    BY <2>2
  <2>5. u \in Seq(Card) /\ Len(u) = n
    BY <2>2, <2>3, <2>4
  <2>6. QED
    BY <2>2, <2>4, <2>5
<1>2. DOMAIN s = 1 .. Len(s) /\ DOMAIN u = 1 .. n
  BY <1>1
<1>3. PICK g : FoldsTo(g, last, s) /\ g = CHOOSE h : FoldsTo(h, last, s)
  BY FoldExists
<1> HIDE DEF u, n
<1>4. PICK h : FoldsTo(h, last, u) /\ h = CHOOSE e : FoldsTo(e, last, u)
  BY <1>1, FoldExists
<1>5. g[1 .. n] = h[1 .. n]
  <2>1. n <= Len(s) /\ n <= Len(u)
    BY <1>1
  <2>2. FoldsTo(g, last, s) /\ FoldsTo(h, last, u)
    BY <1>3, <1>4
  <2> HIDE <1>3, <1>4
  <2>3. QED
    BY <1>1, <2>1, <2>2, FoldsAgree
<1>6. g[1 .. Len(s)] = Advance(g[1 .. n], s[Len(s)])
  <2> DEFINE t == 1 .. Len(s)
  <2>1. t # {} /\ t \ {Len(s)} = 1 .. n /\ Len(s) \in t
    BY <1>1
  <2>2. Max(t) = Len(s)
    <3>1. Len(s) \in Nat /\ t \in SUBSET t
      OBVIOUS
    <3>2. Max(t) \in t /\ \A y \in t : Max(t) >= y
      BY <2>1, <3>1, LastPlace
    <3>3. QED
      BY <1>1, <2>1, <3>2
  <2>3. g[t] = Advance(g[t \ {Max(t)}], s[Max(t)])
    BY <1>2, <1>3, <2>1 DEF FoldsTo
  <2>4. QED
    BY <2>1, <2>2, <2>3
<1>7. QED
  BY <1>2, <1>3, <1>4, <1>5, <1>6, AfterRunIs DEF RunOver, u, n

\* The run state after items is one.
LEMMA AfterRunType ==
    ASSUME NEW s \in Seq(Card), NEW last \in RunState
    PROVE  AfterRun(last, s) \in RunState
<1> DEFINE bad == {n \in Nat : \E u \in Seq(Card) :
                      Len(u) = n /\ AfterRun(last, u) \notin RunState}
<1>1. bad = {}
  <2> SUFFICES ASSUME bad # {} PROVE FALSE
    OBVIOUS
  <2>1. PICK n \in bad : \A m \in bad : n <= m
    BY LeastNumber
  <2>2. PICK u \in Seq(Card) : Len(u) = n /\ AfterRun(last, u) \notin RunState
    BY <2>1
  <2>3. u # <<>>
    BY <2>2, AfterNone
  <2> DEFINE front == SubSeq(u, 1, Len(u) - 1)
  <2>4. /\ n \in Nat /\ n # 0 /\ n \in 1 .. Len(u)
        /\ front \in Seq(Card) /\ Len(front) = n - 1
    <3>1. Len(u) \in Nat \ {0}
      BY <2>3, EmptySeq
    <3>2. \A i \in 1 .. Len(u) - 1 : u[i] \in Card
      BY <3>1
    <3>3. /\ front \in Seq(Card)
          /\ Len(front) = IF 1 <= Len(u) - 1 THEN Len(u) - 1 - 1 + 1 ELSE 0
      BY <3>1, <3>2, SubSeqProperties
    <3>4. QED
      BY <2>2, <3>1, <3>3
  <2>5. AfterRun(last, front) \in RunState
    <3>1. n - 1 \in Nat /\ ~ (n <= n - 1)
      BY <2>4
    <3>2. n - 1 \notin bad
      BY <2>1, <3>1
    <3>3. QED
      BY <2>4, <3>1, <3>2
  <2>6. AfterRun(last, u) = Advance(AfterRun(last, front), u[Len(u)])
    BY <2>3, AfterLast
  <2>7. u[Len(u)] \in Card
    BY <2>2, <2>4
  <2>8. \A r \in RunState, i \in Card : Advance(r, i) \in RunState
    BY DEF Advance, RunState
  <2>9. QED
    BY <2>2, <2>5, <2>6, <2>7, <2>8
<1>2. QED
  BY <1>1, LenProperties

\* Items are taken one after the other.
LEMMA AfterBoth ==
    ASSUME NEW s \in Seq(Card), NEW u \in Seq(Card), NEW last
    PROVE  AfterRun(last, s \o u) = AfterRun(AfterRun(last, s), u)
<1> DEFINE bad == {n \in Nat : \E e \in Seq(Card) :
                      Len(e) = n /\ AfterRun(last, s \o e) # AfterRun(AfterRun(last, s), e)}
<1>1. bad = {}
  <2> SUFFICES ASSUME bad # {} PROVE FALSE
    OBVIOUS
  <2>1. PICK n \in bad : \A m \in bad : n <= m
    BY LeastNumber
  <2>2. PICK e \in Seq(Card) : /\ Len(e) = n
                               /\ AfterRun(last, s \o e) # AfterRun(AfterRun(last, s), e)
    BY <2>1
  <2>3. e # <<>>
    BY <2>2, AfterNone, ConcatEmptySeq
  <2> DEFINE front == SubSeq(e, 1, Len(e) - 1)
             all == s \o e
  <2>4. /\ n \in Nat /\ n # 0
        /\ front \in Seq(Card) /\ Len(front) = n - 1
        /\ \A i \in 1 .. n - 1 : front[i] = e[i]
    <3>1. Len(e) \in Nat \ {0}
      BY <2>3, EmptySeq
    <3>2. \A i \in 1 .. Len(e) - 1 : e[i] \in Card
      BY <3>1
    <3>3. /\ front \in Seq(Card)
          /\ Len(front) = IF 1 <= Len(e) - 1 THEN Len(e) - 1 - 1 + 1 ELSE 0
          /\ \A i \in 1 .. Len(e) - 1 - 1 + 1 : front[i] = e[1 + i - 1]
      BY <3>1, <3>2, SubSeqProperties
    <3>4. QED
      BY <2>2, <3>1, <3>3
  <2>5. AfterRun(last, s \o front) = AfterRun(AfterRun(last, s), front)
    <3>1. n - 1 \in Nat /\ ~ (n <= n - 1)
      BY <2>4
    <3>2. n - 1 \notin bad
      BY <2>1, <3>1
    <3>3. QED
      BY <2>4, <3>1, <3>2
  <2>6. /\ all \in Seq(Card) /\ Len(all) = Len(s) + n /\ all # <<>>
        /\ all[Len(all)] = e[Len(e)]
    <3>1. /\ all \in Seq(Card) /\ Len(all) = Len(s) + Len(e)
          /\ \A i \in 1 .. Len(s) + Len(e) : all[i] = IF i <= Len(s) THEN s[i] ELSE e[i - Len(s)]
      BY ConcatProperties
    <3>2. Len(s) \in Nat
      OBVIOUS
    <3> HIDE DEF all
    <3>3. Len(all) # 0
      BY <2>2, <2>4, <3>1, <3>2
    <3>4. Len(all) \in 1 .. Len(s) + Len(e) /\ ~ (Len(all) <= Len(s)) /\ Len(all) - Len(s) = Len(e)
      BY <2>2, <2>4, <3>1, <3>2
    <3>5. all[Len(all)] = e[Len(e)]
      BY <3>1, <3>4
    <3>6. QED
      BY <2>2, <3>1, <3>3, <3>5, EmptySeq
  <2>7. SubSeq(all, 1, Len(all) - 1) = s \o front
    <3>1. Len(s) \in Nat /\ Len(all) = Len(s) + n
      BY <2>6
    <3>2. /\ s \o front \in Seq(Card) /\ Len(s \o front) = Len(s) + (n - 1)
          /\ \A i \in 1 .. Len(s) + (n - 1) :
               (s \o front)[i] = IF i <= Len(s) THEN s[i] ELSE front[i - Len(s)]
      <4>1. front \in Seq(Card) /\ Len(front) = n - 1
        BY <2>4
      <4> HIDE DEF front
      <4>2. /\ s \o front \in Seq(Card) /\ Len(s \o front) = Len(s) + Len(front)
            /\ \A i \in 1 .. Len(s) + Len(front) :
                 (s \o front)[i] = IF i <= Len(s) THEN s[i] ELSE front[i - Len(s)]
        BY <4>1, ConcatProperties
      <4>3. QED
        BY <4>1, <4>2
    <3>3. \A i \in 1 .. Len(s) + n : all[i] = IF i <= Len(s) THEN s[i] ELSE e[i - Len(s)]
      BY <2>2, ConcatProperties
    <3>4. \A i \in 1 .. Len(all) - 1 : all[i] \in Card
      BY <2>6
    <3> DEFINE beginning == SubSeq(all, 1, Len(all) - 1)
    <3>5. /\ beginning \in Seq(Card)
          /\ Len(beginning) = IF 1 <= Len(all) - 1 THEN Len(all) - 1 - 1 + 1 ELSE 0
          /\ \A i \in 1 .. Len(all) - 1 - 1 + 1 : beginning[i] = all[1 + i - 1]
      <4>1. Len(all) - 1 \in Int /\ 1 \in Int
        BY <2>4, <3>1
      <4>2. QED
        BY <3>4, <4>1, SubSeqProperties
    <3> HIDE DEF all, front, beginning
    <3>6. Len(beginning) = Len(s) + (n - 1)
      BY <2>4, <3>1, <3>5
    <3>7. \A i \in 1 .. Len(s) + (n - 1) : beginning[i] = (s \o front)[i]
      <4> SUFFICES ASSUME NEW i \in 1 .. Len(s) + (n - 1)
                   PROVE  beginning[i] = (s \o front)[i]
        OBVIOUS
      <4>1. i \in 1 .. Len(all) - 1 - 1 + 1 /\ 1 + i - 1 = i /\ i \in 1 .. Len(s) + n
        BY <2>4, <3>1
      <4>2. beginning[i] = IF i <= Len(s) THEN s[i] ELSE e[i - Len(s)]
        BY <3>3, <3>5, <4>1
      <4>3. ~ (i <= Len(s)) => i - Len(s) \in 1 .. n - 1
        BY <2>4, <3>1
      <4>4. QED
        BY <2>4, <3>2, <4>2, <4>3
    <3>8. QED
      BY <3>2, <3>5, <3>6, <3>7, SeqEqual DEF beginning
  <2>8. AfterRun(last, all) = Advance(AfterRun(last, s \o front), e[Len(e)])
    BY <2>6, <2>7, AfterLast
  <2>9. AfterRun(AfterRun(last, s), e) = Advance(AfterRun(AfterRun(last, s), front), e[Len(e)])
    BY <2>3, AfterLast
  <2>10. QED
    BY <2>2, <2>5, <2>8, <2>9
<1>2. Len(u) \in Nat
  OBVIOUS
<1>3. QED
  BY <1>1, <1>2

\* What fits after what fits goes on fitting.
LEMMA FitsBoth ==
    ASSUME NEW s \in Seq(Card), NEW u \in Seq(Card), NEW last,
           Fits(last, s), Fits(AfterRun(last, s), u)
    PROVE  Fits(last, s \o u)
<1> DEFINE all == s \o u
<1>1. /\ all \in Seq(Card) /\ Len(all) = Len(s) + Len(u)
      /\ DOMAIN all = 1 .. Len(s) + Len(u)
      /\ Len(s) \in Nat /\ Len(u) \in Nat
      /\ DOMAIN s = 1 .. Len(s) /\ DOMAIN u = 1 .. Len(u)
  BY ConcatProperties, LenProperties
<1>2. SUFFICES ASSUME NEW k \in 1 .. Len(s) + Len(u)
               PROVE  AfterRun(last, SubSeq(all, 1, k)).run <= 2
  BY <1>1 DEF Fits
<1>3. CASE k <= Len(s)
  <2>1. 1 \in 1 .. Len(s) /\ k \in 1 .. Len(s)
    BY <1>1, <1>3
  <2>2. SubSeq(all, 1, k) = SubSeq(s, 1, k)
    BY <2>1, SubSeqOfConcat1
  <2>3. QED
    BY <1>1, <2>1, <2>2 DEF Fits
<1>4. CASE k > Len(s)
  <2> DEFINE j == k - Len(s)
             front == SubSeq(u, 1, j)
  <2>1. j \in 1 .. Len(u) /\ k = Len(s) + j
    BY <1>1, <1>4
  <2>2. SubSeq(all, 1, k) = s \o front
    <3>1. /\ 1 \in 1 .. Len(all) + 1 /\ Len(s) \in 1 - 1 .. Len(all)
          /\ k \in Len(s) .. Len(all)
      BY <1>1, <1>4
    <3>2. SubSeq(all, 1, Len(s)) \o SubSeq(all, Len(s) + 1, k) = SubSeq(all, 1, k)
      BY <1>1, <3>1, ConcatAdjacentSubSeq
    <3>3. SubSeq(all, 1, Len(s)) = s
      <4>1. CASE Len(s) = 0
        <5>1. s = <<>>
          BY <4>1, EmptySeq
        <5>2. SubSeq(all, 1, 0) = <<>>
          BY SubSeqEmpty
        <5>3. QED
          BY <4>1, <5>1, <5>2
      <4>2. CASE Len(s) # 0
        <5>1. 1 \in 1 .. Len(s) /\ Len(s) \in 1 .. Len(s)
          BY <1>1, <4>2
        <5>2. SubSeq(all, 1, Len(s)) = SubSeq(s, 1, Len(s))
          BY <5>1, SubSeqOfConcat1
        <5>3. QED
          BY <5>2, SubSeqFull
      <4>3. QED
        BY <4>1, <4>2
    <3>4. SubSeq(all, Len(s) + 1, k) = front
      <4>1. /\ Len(s) + 1 \in Len(s) + 1 .. Len(s) + Len(u)
            /\ k \in Len(s) + 1 .. Len(s) + Len(u)
            /\ Len(s) + 1 - Len(s) = 1
        BY <1>1, <1>4
      <4>2. SubSeq(all, Len(s) + 1, k) = SubSeq(u, Len(s) + 1 - Len(s), k - Len(s))
        BY <4>1, SubSeqOfConcat2
      <4>3. QED
        BY <4>1, <4>2
    <3>5. QED
      BY <3>2, <3>3, <3>4
  <2>3. front \in Seq(Card)
    <3>1. \A i \in 1 .. j : u[i] \in Card
      BY <1>1, <2>1
    <3>2. j \in Int
      BY <2>1
    <3>3. QED
      BY <3>1, <3>2, SubSeqProperties
  <2>4. AfterRun(last, s \o front) = AfterRun(AfterRun(last, s), front)
    BY <2>3, AfterBoth
  <2>5. AfterRun(AfterRun(last, s), front).run <= 2
    BY <1>1, <2>1 DEF Fits
  <2>6. QED
    BY <2>2, <2>4, <2>5
<1>5. QED
  BY <1>1, <1>3, <1>4

-----------------------------------------------------------------------------
(* The items of all batches, one after the other.                          *)

\* The recursion of FlattenSeq.
FlattensTo(g, q) ==
    g = [i \in 1 .. Len(q) |-> IF i = 1 THEN q[i] ELSE g[i - 1] \o q[i]]

\* The library's FlattenSeq, by the function it chooses.
LEMMA FlattenIs ==
    ASSUME NEW q
    PROVE  FlattenSeq(q)
             = IF Len(q) = 0 THEN q ELSE (CHOOSE g : FlattensTo(g, q))[Len(q)]
BY DEF FlattenSeq, FlattensTo

\* It has a solution: by the number of sequences.
LEMMA FlattenExists ==
    ASSUME NEW q, NEW n \in Nat
    PROVE  \E g : g = [i \in 1 .. n |-> IF i = 1 THEN q[i] ELSE g[i - 1] \o q[i]]
<1> DEFINE Solves(m, g) ==
             /\ g = [i \in 1 .. m |-> g[i]]
             /\ \A i \in 1 .. m : g[i] = IF i = 1 THEN q[i] ELSE g[i - 1] \o q[i]
           bad == {m \in Nat : ~ \E g : Solves(m, g)}
<1>1. bad = {}
  <2> SUFFICES ASSUME bad # {} PROVE FALSE
    OBVIOUS
  <2>1. PICK m \in bad : \A k \in bad : m <= k
    BY LeastNumber
  <2>2. CASE m = 0
    <3>1. Solves(0, [i \in 1 .. 0 |-> q])
      OBVIOUS
    <3>2. QED
      BY <2>1, <2>2, <3>1
  <2>3. CASE m # 0
    <3>1. m - 1 \in Nat /\ m - 1 \notin bad
      <4>1. m - 1 \in Nat /\ ~ (m <= m - 1)
        BY <2>3
      <4>2. QED
        BY <2>1, <4>1
    <3>2. PICK g : Solves(m - 1, g)
      BY <3>1
    <3> DEFINE value(i) == IF i = 1 THEN q[i] ELSE g[i - 1] \o q[i]
               h == [i \in 1 .. m |-> value(i)]
    <3>3. \A i \in 1 .. (m - 1) : i \in 1 .. m /\ h[i] = g[i]
      <4>1. \A i \in 1 .. (m - 1) : i \in 1 .. m
        BY <3>1
      <4>2. \A i \in 1 .. (m - 1) : g[i] = value(i)
        BY <3>2
      <4>3. QED
        BY <4>1, <4>2
    <3>4. \A i \in 1 .. m : i # 1 => i - 1 \in 1 .. (m - 1)
      BY <3>1
    <3>5. \A i \in 1 .. m : h[i] = IF i = 1 THEN q[i] ELSE h[i - 1] \o q[i]
      BY <3>3, <3>4
    <3>6. Solves(m, h)
      BY <3>5
    <3>7. QED
      BY <2>1, <3>6
  <2>4. QED
    BY <2>2, <2>3
<1>2. PICK g : Solves(n, g)
  BY <1>1
<1>3. g = [i \in 1 .. n |-> IF i = 1 THEN q[i] ELSE g[i - 1] \o q[i]]
  BY <1>2
<1>4. QED
  BY <1>3

\* One more sequence comes behind the others.
LEMMA FlattenOneMore ==
    ASSUME NEW q \in Seq(Seq(Card)), NEW s \in Seq(Card)
    PROVE  FlattenSeq(Append(q, s)) = FlattenSeq(q) \o s
<1> DEFINE n == Len(q)
           more == Append(q, s)
<1>1. /\ n \in Nat /\ more \in Seq(Seq(Card)) /\ Len(more) = n + 1
      /\ \A i \in 1 .. n : more[i] = q[i]
      /\ more[n + 1] = s
  <2>1. /\ more \in Seq(Seq(Card)) /\ Len(more) = Len(q) + 1
        /\ \A i \in 1 .. Len(q) : more[i] = q[i]
        /\ more[Len(q) + 1] = s
    BY AppendProperties
  <2>2. QED
    BY <2>1, LenProperties
<1> HIDE DEF more
<1>2. n + 1 \in Nat /\ n + 1 # 0 /\ n + 1 \in 1 .. (n + 1)
  BY <1>1
<1>3. PICK h : FlattensTo(h, more) /\ h = CHOOSE g : FlattensTo(g, more)
  <2>1. \E g : g = [i \in 1 .. (n + 1) |-> IF i = 1 THEN more[i] ELSE g[i - 1] \o more[i]]
    BY <1>2, FlattenExists
  <2>2. \E g : FlattensTo(g, more)
    BY <1>1, <2>1 DEF FlattensTo
  <2>3. QED
    BY <2>2
<1>4. FlattenSeq(more) = h[n + 1]
  BY <1>1, <1>2, <1>3, FlattenIs
<1>5. \A i \in 1 .. (n + 1) : h[i] = IF i = 1 THEN more[i] ELSE h[i - 1] \o more[i]
  BY <1>1, <1>3 DEF FlattensTo
<1>6. CASE n = 0
  <2>1. q = <<>> /\ FlattenSeq(q) = q
    BY <1>6, EmptySeq, FlattenIs
  <2>2. h[n + 1] = s
    BY <1>1, <1>2, <1>5, <1>6
  <2>3. QED
    BY <1>4, <2>1, <2>2, ConcatEmptySeq DEF more
<1>7. CASE n # 0
  <2>1. PICK g : FlattensTo(g, q) /\ g = CHOOSE e : FlattensTo(e, q)
    <3>1. \E g : FlattensTo(g, q)
      BY <1>1, FlattenExists DEF FlattensTo
    <3>2. QED
      BY <3>1
  <2>2. FlattenSeq(q) = g[n]
    BY <1>7, <2>1, FlattenIs
  <2>3. \A i \in 1 .. n : g[i] = IF i = 1 THEN q[i] ELSE g[i - 1] \o q[i]
    BY <2>1 DEF FlattensTo
  <2> DEFINE bad == {i \in 1 .. n : g[i] # h[i]}
  <2>4. bad = {}
    <3> SUFFICES ASSUME bad # {} PROVE FALSE
      OBVIOUS
    <3>1. bad \in SUBSET Nat
      BY <1>1
    <3>2. PICK i \in bad : \A k \in bad : i <= k
      <4> HIDE DEF bad
      <4>1. QED
        BY <3>1, LeastNumber
    <3>3. i \in 1 .. n /\ i \in 1 .. (n + 1) /\ more[i] = q[i] /\ g[i] # h[i]
      BY <1>1, <3>2
    <3>4. i # 1
      BY <1>5, <2>3, <3>3
    <3>5. i - 1 \in 1 .. n /\ ~ (i <= i - 1)
      BY <1>1, <3>3, <3>4
    <3>6. g[i - 1] = h[i - 1]
      BY <3>2, <3>5
    <3>7. QED
      BY <1>5, <2>3, <3>3, <3>4, <3>6
  <2>5. g[n] = h[n]
    <3>1. n \in 1 .. n
      BY <1>1, <1>7
    <3>2. QED
      BY <2>4, <3>1
  <2>6. h[n + 1] = h[n] \o s
    <3>1. n + 1 # 1 /\ n + 1 - 1 = n
      BY <1>1, <1>7
    <3>2. PICK j : j = n + 1
      OBVIOUS
    <3>3. j \in 1 .. (n + 1) /\ j # 1 /\ j - 1 = n /\ more[j] = s
      BY <1>1, <1>2, <3>1, <3>2
    <3>4. h[j] = h[j - 1] \o more[j]
      BY <1>5, <3>3
    <3>5. QED
      BY <3>2, <3>3, <3>4
  <2>7. QED
    BY <1>4, <2>2, <2>5, <2>6 DEF more
<1>8. QED
  BY <1>6, <1>7

\* No place of two sequences that share no item holds what another place holds.
LEMMA DifferentTogether ==
    ASSUME NEW s \in Seq(Card), NEW u \in Seq(Card), IsInjective(s), IsInjective(u),
           ToSet(s) \cap ToSet(u) = {}
    PROVE  /\ IsInjective(s \o u)
           /\ ToSet(s \o u) = ToSet(s) \cup ToSet(u)
<1> DEFINE all == s \o u
<1>1. /\ all \in Seq(Card) /\ Len(all) = Len(s) + Len(u)
      /\ \A i \in 1 .. Len(s) + Len(u) : all[i] = IF i <= Len(s) THEN s[i] ELSE u[i - Len(s)]
      /\ DOMAIN all = 1 .. Len(s) + Len(u)
      /\ Len(s) \in Nat /\ Len(u) \in Nat
      /\ DOMAIN s = 1 .. Len(s) /\ DOMAIN u = 1 .. Len(u)
  BY ConcatProperties, LenProperties
<1> HIDE DEF all
<1>2. \A i \in DOMAIN all : \/ i \in DOMAIN s /\ all[i] = s[i]
                            \/ /\ i - Len(s) \in DOMAIN u /\ all[i] = u[i - Len(s)]
  BY <1>1
<1>3. \A i \in DOMAIN s : s[i] \in ToSet(s)
  BY DEF ToSet
<1>4. \A i \in DOMAIN u : u[i] \in ToSet(u)
  BY DEF ToSet
<1>5. IsInjective(all)
  <2> SUFFICES ASSUME NEW i \in DOMAIN all, NEW j \in DOMAIN all, all[i] = all[j]
               PROVE  i = j
    BY DEF IsInjective
  <2>1. CASE i \in DOMAIN s /\ all[i] = s[i] /\ j \in DOMAIN s /\ all[j] = s[j]
    BY <2>1 DEF IsInjective
  <2>2. CASE /\ i - Len(s) \in DOMAIN u /\ all[i] = u[i - Len(s)]
             /\ j - Len(s) \in DOMAIN u /\ all[j] = u[j - Len(s)]
    <3>1. i - Len(s) = j - Len(s)
      BY <2>2 DEF IsInjective
    <3>2. i \in Int /\ j \in Int /\ Len(s) \in Int
      BY <1>1
    <3>3. QED
      BY <3>1, <3>2
  <2>3. CASE i \in DOMAIN s /\ all[i] = s[i] /\ j - Len(s) \in DOMAIN u /\ all[j] = u[j - Len(s)]
    BY <1>3, <1>4, <2>3
  <2>4. CASE j \in DOMAIN s /\ all[j] = s[j] /\ i - Len(s) \in DOMAIN u /\ all[i] = u[i - Len(s)]
    BY <1>3, <1>4, <2>4
  <2>5. QED
    BY <1>2, <2>1, <2>2, <2>3, <2>4
<1>6. ToSet(all) = ToSet(s) \cup ToSet(u)
  <2>1. ASSUME NEW x \in ToSet(all) PROVE x \in ToSet(s) \cup ToSet(u)
    <3>1. PICK i \in DOMAIN all : x = all[i]
      BY DEF ToSet
    <3>2. QED
      BY <1>2, <1>3, <1>4, <3>1
  <2>2. ASSUME NEW x \in ToSet(s) PROVE x \in ToSet(all)
    <3>1. PICK i \in DOMAIN s : x = s[i]
      BY DEF ToSet
    <3>2. i \in DOMAIN all /\ all[i] = x
      BY <1>1, <3>1
    <3>3. QED
      BY <3>2 DEF ToSet
  <2>3. ASSUME NEW x \in ToSet(u) PROVE x \in ToSet(all)
    <3>1. PICK i \in DOMAIN u : x = u[i]
      BY DEF ToSet
    <3>2. /\ i + Len(s) \in 1 .. Len(s) + Len(u) /\ ~ (i + Len(s) <= Len(s))
          /\ i + Len(s) - Len(s) = i
      BY <1>1, <3>1
    <3>3. i + Len(s) \in DOMAIN all /\ all[i + Len(s)] = x
      BY <1>1, <3>1, <3>2
    <3>4. QED
      BY <3>3 DEF ToSet
  <2>4. QED
    BY <2>1, <2>2, <2>3
<1>7. QED
  BY <1>5, <1>6 DEF all

-----------------------------------------------------------------------------
(* The seams of the batches.                                               *)

Pages(bs) == [k \in DOMAIN bs |-> bs[k].items]

\* What a request remembers of the session: the run state it has read belongs
\* to the batches that were stored then, and it computes the batch after them.
Remembers(x) ==
    /\ x.seen.next \in 0 .. Len(batches)
    /\ x.seen.next = Len(batches) => x.seen.last = AfterRun(NoRun, Shown)
    /\ x.pc \in {"Candidates", "Save"} => x.no = x.seen.next

\* The row holds the run state after all that was shown.
SeamInv ==
    /\ row.state \in {"ABSENT", "ACTIVE", "COMPLETED", "EXPIRED"}
    /\ acted \subseteq Card
    /\ Shown \in Seq(Card)
    /\ ToSet(Shown) \subseteq ItemsOf(batches)
    /\ IsInjective(Shown)
    /\ Fits(NoRun, Shown)
    /\ row.last = AfterRun(NoRun, Shown)
    /\ \A c \in Client : Remembers(client[c])

\* The pages with one more batch.
LEMMA PagesOneMore ==
    ASSUME NEW bs \in Seq(StoredBatch), NEW b \in StoredBatch
    PROVE  /\ Pages(bs) \in Seq(Seq(Card))
           /\ Pages(Append(bs, b)) = Append(Pages(bs), b.items)
<1> DEFINE more == Append(bs, b)
<1>1. /\ more \in Seq(StoredBatch) /\ Len(more) = Len(bs) + 1
      /\ \A i \in 1 .. Len(bs) : more[i] = bs[i]
      /\ more[Len(bs) + 1] = b
  BY AppendProperties
<1>2. \A q \in Seq(StoredBatch) : Pages(q) \in Seq(Seq(Card)) /\ Len(Pages(q)) = Len(q)
  <2> SUFFICES ASSUME NEW q \in Seq(StoredBatch)
               PROVE  Pages(q) \in Seq(Seq(Card)) /\ Len(Pages(q)) = Len(q)
    OBVIOUS
  <2>1. DOMAIN q = 1 .. Len(q) /\ Len(q) \in Nat
    BY LenProperties
  <2>2. ASSUME NEW i \in 1 .. Len(q) PROVE q[i].items \in Seq(Card)
    <3>1. q[i] \in StoredBatch
      BY ElementOfSeq
    <3>2. QED
      BY <3>1 DEF StoredBatch
  <2>3. Pages(q) \in [1 .. Len(q) -> Seq(Card)]
    BY <2>1, <2>2 DEF Pages
  <2>4. QED
    BY <2>1, <2>3
<1> HIDE DEF more
<1>3. /\ Pages(bs) \in Seq(Seq(Card)) /\ Len(Pages(bs)) = Len(bs)
      /\ Pages(more) \in Seq(Seq(Card)) /\ Len(Pages(more)) = Len(bs) + 1
  BY <1>1, <1>2
<1>4. b.items \in Seq(Card)
  BY DEF StoredBatch
<1>5. /\ Append(Pages(bs), b.items) \in Seq(Seq(Card))
      /\ Len(Append(Pages(bs), b.items)) = Len(bs) + 1
      /\ \A i \in 1 .. Len(bs) : Append(Pages(bs), b.items)[i] = Pages(bs)[i]
      /\ Append(Pages(bs), b.items)[Len(bs) + 1] = b.items
  <2>1. PICK q \in Seq(Seq(Card)) : q = Pages(bs) /\ Len(q) = Len(bs)
    BY <1>3
  <2>2. /\ Append(q, b.items) \in Seq(Seq(Card))
        /\ Len(Append(q, b.items)) = Len(q) + 1
        /\ \A i \in 1 .. Len(q) : Append(q, b.items)[i] = q[i]
        /\ Append(q, b.items)[Len(q) + 1] = b.items
    BY <1>4, AppendProperties
  <2>3. QED
    BY <2>1, <2>2
<1>6. \A i \in 1 .. Len(bs) + 1 : Pages(more)[i] = Append(Pages(bs), b.items)[i]
  <2> SUFFICES ASSUME NEW i \in 1 .. Len(bs) + 1
               PROVE  Pages(more)[i] = Append(Pages(bs), b.items)[i]
    OBVIOUS
  <2>1. DOMAIN more = 1 .. Len(bs) + 1 /\ DOMAIN bs = 1 .. Len(bs) /\ Len(bs) \in Nat
    BY <1>1, LenProperties
  <2>2. Pages(more)[i] = more[i].items
    BY <2>1 DEF Pages
  <2>3. CASE i \in 1 .. Len(bs)
    BY <1>1, <1>5, <2>1, <2>2, <2>3 DEF Pages
  <2>4. CASE i = Len(bs) + 1
    BY <1>1, <1>5, <2>2, <2>4
  <2>5. i \in 1 .. Len(bs) \/ i = Len(bs) + 1
    <3>1. PICK n \in Nat : n = Len(bs)
      BY <2>1
    <3>2. i \in 1 .. n \/ i = n + 1
      BY <3>1
    <3>3. QED
      BY <3>1, <3>2
  <2>6. QED
    BY <2>3, <2>4, <2>5
<1>7. Pages(more) = Append(Pages(bs), b.items)
  BY <1>3, <1>5, <1>6, SeqEqual
<1>8. QED
  BY <1>3, <1>7 DEF more

\* The initial state.
LEMMA SeamInvInit == FeedInit => SeamInv
<1> SUFFICES ASSUME FeedInit PROVE SeamInv
  OBVIOUS
<1>1. /\ batches = <<>> /\ row = NoSession /\ acted = {}
      /\ \A c \in Client : client[c] = ClientRest
  BY DEF FeedInit
<1>2. Shown = <<>>
  <2>1. Pages(batches) = <<>>
    <3>1. DOMAIN batches = {}
      BY <1>1
    <3>2. Pages(batches) = [k \in {} |-> batches[k].items]
      BY <3>1 DEF Pages
    <3>3. QED
      BY <3>2
  <2>2. FlattenSeq(<<>>) = <<>>
    BY FlattenIs
  <2>3. Shown = FlattenSeq(Pages(batches))
    BY DEF Shown, Pages
  <2>4. QED
    BY <2>1, <2>2, <2>3
<1>3. AfterRun(NoRun, Shown) = NoRun
  BY <1>2, AfterNone
<1>4. /\ Shown \in Seq(Card) /\ ToSet(Shown) = {} /\ IsInjective(Shown) /\ Fits(NoRun, Shown)
  BY <1>2 DEF ToSet, IsInjective, Fits
<1>5. ASSUME NEW c \in Client PROVE Remembers(client[c])
  <2>1. /\ client[c].seen.next = 0 /\ client[c].seen.last = NoRun /\ client[c].pc = "Idle"
    BY <1>1 DEF ClientRest, NoSession
  <2>2. Len(batches) = 0
    BY <1>1
  <2>3. QED
    BY <1>3, <2>1, <2>2 DEF Remembers
<1>6. row.state = "ABSENT" /\ row.last = NoRun
  BY <1>1 DEF NoSession
<1>7. QED
  BY <1>1, <1>3, <1>4, <1>5, <1>6 DEF SeamInv

\* A request at rest remembers the session that is still to be made.
LEMMA RestRemembers == ASSUME FeedInv, SeamInv PROVE Remembers(ClientRest)
<1>1. ClientRest.seen.next = 0 /\ ClientRest.seen.last = NoRun /\ ClientRest.pc = "Idle"
  BY DEF ClientRest, NoSession
<1>2. batches \in Seq(StoredBatch) /\ Len(batches) \in Nat
  BY DEF FeedInv, Rows
<1>3. Len(batches) = 0 => AfterRun(NoRun, Shown) = NoRun
  <2> SUFFICES ASSUME Len(batches) = 0 PROVE AfterRun(NoRun, Shown) = NoRun
    OBVIOUS
  <2>1. ItemsOf(batches) = {}
    BY <1>2 DEF ItemsOf
  <2>2. Shown = <<>>
    <3>1. Shown \in Seq(Card) /\ ToSet(Shown) = {}
      BY <2>1 DEF SeamInv
    <3>2. DOMAIN Shown = {} /\ DOMAIN Shown = 1 .. Len(Shown)
      BY <3>1 DEF ToSet
    <3>3. QED
      BY <3>1, <3>2, EmptySeq
  <2>3. QED
    BY <2>2, AfterNone
<1>4. QED
  BY <1>1, <1>2, <1>3 DEF Remembers

\* A step that stores no batch.
LEMMA SeamStays ==
    ASSUME FeedInv, SeamInv, batches' = batches, row'.last = row.last,
           row'.state \in {"ABSENT", "ACTIVE", "COMPLETED", "EXPIRED"},
           acted' \subseteq Card,
           \A c \in Client : client'[c] = client[c] \/ Remembers(client'[c])
    PROVE  SeamInv'
<1>1. Shown' = Shown /\ ItemsOf(batches)' = ItemsOf(batches)
  BY DEF Shown, ItemsOf
<1>2. ASSUME NEW c \in Client PROVE Remembers(client[c])'
  <2>1. Remembers(client'[c])
    BY DEF SeamInv
  <2>2. QED
    BY <1>1, <2>1 DEF Remembers
<1>3. QED
  BY <1>1, <1>2 DEF SeamInv

\* The steps of a request before it saves.
LEMMA SeamReads ==
    ASSUME FeedInv, SeamInv, NEW c \in Client,
           \/ CreateFeedSession(c)
           \/ \E n \in 1..Len(batches) : ReadSession(c, n)
           \/ ReadBatch(c) \/ ReadBatches(c) \/ ReadCandidates(c)
           \/ SaveFindsExisting(c) \/ RequestFails(c)
    PROVE  SeamInv'
<1>0. /\ IsRequest(client[c]) /\ Remembers(client[c]) /\ Remembers(ClientRest)
      /\ IsRequest(ClientRest) /\ IsRow(row) /\ row.next = Len(batches)
      /\ Len(batches) \in Nat
      /\ client = [d \in Client |-> client[d]]
  <2>1. IsRequest(ClientRest)
    BY DEF IsRequest, ClientRest
  <2>2. QED
    BY <2>1, ClientKnows, RestRemembers DEF FeedInv, Rows, SeamInv
<1>1. ASSUME NEW x, Remembers(x), client' = [client EXCEPT ![c] = x]
      PROVE  \A d \in Client : client'[d] = client[d] \/ Remembers(client'[d])
  <2>1. client'[c] = x /\ \A d \in Client \ {c} : client'[d] = client[d]
    BY <1>0, <1>1
  <2>2. QED
    BY <1>1, <2>1
<1>2. ASSUME NEW x, Remembers(x), client' = [client EXCEPT ![c] = x],
             batches' = batches, row' = row, acted' = acted
      PROVE  SeamInv'
  BY <1>1, <1>2, SeamStays DEF SeamInv
<1>3. CASE CreateFeedSession(c)
  <2> DEFINE x == [ClientRest EXCEPT !.pc = "Candidates"]
  <2>1. x = [pc |-> "Candidates", no |-> ClientRest.no, seen |-> ClientRest.seen,
             skip |-> ClientRest.skip, pool |-> ClientRest.pool]
    BY <1>0, SetPc
  <2>2. ClientRest.no = 0 /\ ClientRest.seen.next = 0
    BY DEF ClientRest, NoSession
  <2> HIDE DEF x
  <2>3. Remembers(x)
    BY <1>0, <2>1, <2>2 DEF Remembers
  <2>4. /\ row'.last = row.last /\ row'.state = "ACTIVE"
        /\ batches' = batches /\ acted' = acted
        /\ client' = [client EXCEPT ![c] = x]
    BY <1>0, <1>3 DEF CreateFeedSession, IsRow, x
  <2>5. \A d \in Client : client'[d] = client[d] \/ Remembers(client'[d])
    BY <1>1, <2>3, <2>4
  <2>6. acted' \subseteq Card
    BY <2>4 DEF SeamInv
  <2>7. QED
    BY <2>4, <2>5, <2>6, SeamStays
<1>4. ASSUME NEW n \in 1..Len(batches), ReadSession(c, n) PROVE SeamInv'
  <2> DEFINE x == [ClientRest EXCEPT !.pc = "Batch", !.no = n, !.seen = row]
  <2>1. x = [pc |-> "Batch", no |-> n, seen |-> row,
             skip |-> ClientRest.skip, pool |-> ClientRest.pool]
    BY <1>0, SetRead
  <2> HIDE DEF x
  <2>2. row.last = AfterRun(NoRun, Shown)
    BY DEF SeamInv
  <2>3. Remembers(x)
    BY <1>0, <2>1, <2>2 DEF Remembers
  <2>4. QED
    BY <1>2, <1>4, <2>3 DEF ReadSession, x
<1>5. ASSUME Leave(c), batches' = batches, row' = row, acted' = acted PROVE SeamInv'
  BY <1>0, <1>2, <1>5 DEF Leave
<1>6. CASE ReadBatch(c)
  <2>1. CASE Turn(c, "Batches")
    <3> DEFINE x == [client[c] EXCEPT !.pc = "Batches"]
    <3>1. x = [pc |-> "Batches", no |-> client[c].no, seen |-> client[c].seen,
               skip |-> client[c].skip, pool |-> client[c].pool]
      BY <1>0, SetPc
    <3> HIDE DEF x
    <3>2. Remembers(x)
      BY <1>0, <3>1 DEF Remembers
    <3>3. QED
      BY <1>2, <1>6, <2>1, <3>2 DEF ReadBatch, Turn, x
  <2>2. CASE Leave(c)
    BY <1>5, <1>6, <2>2 DEF ReadBatch
  <2>3. QED
    BY <1>6, <2>1, <2>2 DEF ReadBatch, Answer
<1>7. CASE ReadBatches(c)
  <2>1. CASE MayCompute(c)
    <3> DEFINE x == [client[c] EXCEPT !.pc = "Candidates", !.skip = ItemsOf(batches)]
    <3>1. x = [pc |-> "Candidates", no |-> client[c].no, seen |-> client[c].seen,
               skip |-> ItemsOf(batches), pool |-> client[c].pool]
      BY <1>0, SetSkip
    <3> HIDE DEF x
    <3>2. client[c].no = client[c].seen.next
      BY <2>1 DEF MayCompute
    <3>3. Remembers(x)
      BY <1>0, <3>1, <3>2 DEF Remembers
    <3>4. QED
      BY <1>2, <1>7, <2>1, <3>3 DEF ReadBatches, x
  <2>2. CASE ~MayCompute(c)
    BY <1>5, <1>7, <2>2 DEF ReadBatches
  <2>3. QED
    BY <2>1, <2>2
<1>8. CASE ReadCandidates(c)
  <2> DEFINE x == [client[c] EXCEPT !.pc = "Save",
                                    !.pool = (shown \ acted) \ client[c].skip]
  <2>1. x = [pc |-> "Save", no |-> client[c].no, seen |-> client[c].seen,
             skip |-> client[c].skip, pool |-> (shown \ acted) \ client[c].skip]
    BY <1>0, SetPool
  <2> HIDE DEF x
  <2>2. client[c].pc = "Candidates"
    BY <1>8 DEF ReadCandidates
  <2>3. Remembers(x)
    BY <1>0, <2>1, <2>2 DEF Remembers
  <2>4. QED
    BY <1>2, <1>8, <2>3 DEF ReadCandidates, x
<1>9. CASE SaveFindsExisting(c)
  BY <1>5, <1>9 DEF SaveFindsExisting, Answer
<1>10. CASE RequestFails(c)
  BY <1>5, <1>10 DEF RequestFails
<1>11. QED
  BY <1>3, <1>4, <1>6, <1>7, <1>8, <1>9, <1>10

\* A batch that is saved was chosen to fit behind the run state that the row
\* holds, since the request computed the batch that comes next.
LEMMA SeamSaved ==
    ASSUME FeedInv, SeamInv, NEW c \in Client,
           NEW s \in Picks(client[c].pool, client[c].seen.last), SaveFeedBatch(c, s)
    PROVE  SeamInv'
<1> DEFINE pool == client[c].pool
           batch == [items |-> s, continuation |-> Continuation(s, pool)]
<1>0. /\ batches \in Seq(StoredBatch) /\ Len(batches) \in Nat
      /\ client = [d \in Client |-> client[d]]
      /\ pool \in SUBSET Card
      /\ client[c].no = Len(batches) /\ client[c].pc = "Save"
      /\ pool \cap ItemsOf(batches) = {}
  <2>1. client[c].no = row.next /\ client[c].pc = "Save"
    BY DEF SaveFeedBatch
  <2>2. QED
    BY <2>1 DEF FeedInv, Rows, Requests
<1>1. client[c].seen.last = AfterRun(NoRun, Shown)
  BY <1>0 DEF SeamInv, Remembers
<1>2. /\ s \in Seq(Card) /\ IsInjective(s) /\ Fits(AfterRun(NoRun, Shown), s)
      /\ \A m \in DOMAIN s : s[m] \in pool
  BY <1>0, <1>1, PickShape DEF Picks
<1>3. batch \in StoredBatch /\ batch.items = s
  BY <1>2 DEF StoredBatch, Continuation
<1>4. /\ batches' = Append(batches, batch)
      /\ row'.last = AfterRun(client[c].seen.last, s)
      /\ row'.state \in {"ACTIVE", "COMPLETED"}
      /\ acted' = acted
      /\ client' = [client EXCEPT ![c] = ClientRest]
  BY DEF SaveFeedBatch, Answer, Leave
<1> HIDE DEF batch
<1>5. /\ Len(batches') = Len(batches) + 1
      /\ DOMAIN batches = 1 .. Len(batches) /\ DOMAIN batches' = 1 .. Len(batches) + 1
      /\ \A k \in DOMAIN batches : batches'[k] = batches[k]
      /\ batches'[Len(batches) + 1] = batch
  BY <1>0, <1>3, <1>4
<1>6. Shown' = Shown \o s
  <2>1. Shown = FlattenSeq(Pages(batches)) /\ Shown' = FlattenSeq(Pages(batches'))
    BY DEF Shown, Pages
  <2>2. /\ Pages(batches) \in Seq(Seq(Card))
        /\ Pages(batches') = Append(Pages(batches), s)
    BY <1>0, <1>3, <1>4, PagesOneMore
  <2>3. QED
    BY <1>2, <2>1, <2>2, FlattenOneMore
<1>7. /\ Shown \in Seq(Card) /\ IsInjective(Shown) /\ Fits(NoRun, Shown)
      /\ ToSet(Shown) \subseteq ItemsOf(batches)
  BY DEF SeamInv
<1>8. ToSet(s) \subseteq pool
  BY <1>2 DEF ToSet
<1>9. IsInjective(Shown \o s) /\ ToSet(Shown \o s) = ToSet(Shown) \cup ToSet(s)
  <2>1. ToSet(Shown) \cap ToSet(s) = {}
    BY <1>0, <1>7, <1>8
  <2>2. QED
    BY <1>2, <1>7, <2>1, DifferentTogether
<1>10. Fits(NoRun, Shown \o s)
  BY <1>2, <1>7, FitsBoth
<1>11. Shown \o s \in Seq(Card)
  BY <1>2, <1>7, ConcatProperties
<1>12. AfterRun(NoRun, Shown \o s) = row'.last
  BY <1>1, <1>2, <1>4, <1>7, AfterBoth
<1>13. ToSet(Shown') \subseteq ItemsOf(batches')
  <2>1. ItemsOf(batches) \subseteq ItemsOf(batches')
    <3> SUFFICES ASSUME NEW i \in ItemsOf(batches) PROVE i \in ItemsOf(batches')
      OBVIOUS
    <3>1. PICK k \in DOMAIN batches : i \in ToSet(batches[k].items)
      BY DEF ItemsOf
    <3>2. k \in DOMAIN batches' /\ batches'[k] = batches[k]
      BY <1>0, <1>5
    <3>3. QED
      BY <3>1, <3>2 DEF ItemsOf
  <2>2. ToSet(s) \subseteq ItemsOf(batches')
    <3>1. PICK k : k = Len(batches) + 1
      OBVIOUS
    <3>2. k \in DOMAIN batches' /\ batches'[k].items = s
      BY <1>0, <1>3, <1>5, <3>1
    <3>3. QED
      BY <3>2 DEF ItemsOf
  <2>3. QED
    BY <1>6, <1>7, <1>9, <2>1, <2>2
<1>14. ASSUME NEW d \in Client PROVE Remembers(client[d])'
  <2>1. client'[d] = ClientRest \/ client'[d] = client[d]
    BY <1>0, <1>4
  <2>2. Remembers(client[d]) /\ Remembers(ClientRest)
    BY RestRemembers DEF SeamInv
  <2>3. /\ client'[d].seen.next \in 0 .. Len(batches)
        /\ client'[d].pc \in {"Candidates", "Save"} => client'[d].no = client'[d].seen.next
    BY <2>1, <2>2 DEF Remembers
  <2>4. client'[d].seen.next \in 0 .. Len(batches') /\ client'[d].seen.next # Len(batches')
    BY <1>0, <1>5, <2>3
  <2>5. QED
    BY <2>3, <2>4 DEF Remembers
<1>15. acted' \subseteq Card
  BY <1>4 DEF SeamInv
<1>16. QED
  BY <1>4, <1>6, <1>9, <1>10, <1>11, <1>12, <1>13, <1>14, <1>15 DEF SeamInv

\* The seams hold through every step.
LEMMA SeamInvStep == FeedInv /\ SeamInv /\ [FeedNext]_feedVars => SeamInv'
<1> SUFFICES ASSUME FeedInv, SeamInv, [FeedNext]_feedVars PROVE SeamInv'
  OBVIOUS
<1>1. ASSUME row' = row \/ row' = [row EXCEPT !.state = "EXPIRED"],
             batches' = batches, acted' \subseteq Card, client' = client
      PROVE  SeamInv'
  <2>1. /\ row'.last = row.last
        /\ row'.state \in {"ABSENT", "ACTIVE", "COMPLETED", "EXPIRED"}
    BY <1>1 DEF FeedInv, Rows, IsRow, SeamInv
  <2>2. QED
    BY <1>1, <2>1, SeamStays
<1>2. CASE UNCHANGED feedVars
  BY <1>1, <1>2 DEF feedVars, SeamInv
<1>3. CASE SessionExpires
  BY <1>1, <1>3 DEF SessionExpires, SeamInv
<1>4. CASE \E i \in Card : CardWithdrawn(i) \/ MemberActs(i)
  BY <1>1, <1>4 DEF CardWithdrawn, MemberActs, SeamInv
<1>5. ASSUME NEW c \in Client,
             NEW s \in Picks(client[c].pool, client[c].seen.last), SaveFeedBatch(c, s)
      PROVE  SeamInv'
  BY <1>5, SeamSaved
<1>6. ASSUME NEW c \in Client,
             \/ CreateFeedSession(c)
             \/ \E n \in 1..Len(batches) : ReadSession(c, n)
             \/ ReadBatch(c) \/ ReadBatches(c) \/ ReadCandidates(c)
             \/ SaveFindsExisting(c) \/ RequestFails(c)
      PROVE  SeamInv'
  BY <1>6, SeamReads
<1>7. QED
  BY <1>2, <1>3, <1>4, <1>5, <1>6 DEF FeedNext

\* A session is one feed however its batches were computed: no issue is shown
\* twice and, over the seams of the batches too, no third issue of one topic
\* follows two others; and a batch is answered in one way (excludedIssueIds, the
\* run columns of feed_sessions, EXISTING).
THEOREM FeedSoundCorrect == FeedSpec => []FeedSound
<1>1. FeedInv /\ SeamInv => FeedSound
  <2> SUFFICES ASSUME FeedInv, SeamInv PROVE FeedSound
    OBVIOUS
  <2>1. FeedTypeOK
    <3>1. row.last \in RunState
      <4>1. NoRun \in RunState
        BY DEF NoRun, RunState
      <4>2. QED
        BY <4>1, AfterRunType DEF SeamInv
    <3>2. row \in [state : {"ABSENT", "ACTIVE", "COMPLETED", "EXPIRED"}, next : Nat,
                   last : RunState]
      BY <3>1 DEF FeedInv, Rows, IsRow, SeamInv
    <3>3. \A k \in DOMAIN batches : batches[k] \in StoredBatch
      BY LenProperties, ElementOfSeq DEF FeedInv, Rows
    <3>4. DOMAIN client = Client /\ shown \subseteq Card /\ acted \subseteq Card
      BY DEF FeedInv, Rows, SeamInv
    <3>5. QED
      BY <3>2, <3>3, <3>4 DEF FeedTypeOK, StoredBatch
  <2>2. SessionIsOneFeed
    BY DEF SeamInv, SessionIsOneFeed
  <2>3. OneAnswerPerBatch
    BY DEF FeedInv, Answers, OneAnswerPerBatch
  <2>4. QED
    BY <2>1, <2>2, <2>3 DEF FeedSound
<1>2. QED
  BY <1>1, FeedInvInit, FeedInvStep, SeamInvInit, SeamInvStep, PTL DEF FeedSpec

-----------------------------------------------------------------------------
(* A member: the sums of the contributions and of the views.               *)

OfCategory(c) == {i \in Issue : CategoryOf[i] = c}

ScoreOfRow(entry) ==
    (IF entry = NoRow THEN 0 ELSE entry.action)
      + detailDwellScore(IF entry = NoRow THEN 0 ELSE entry.credited)

Scores(rows) == [i \in Issue |-> ScoreOfRow(rows[i])]

ViewsOf(rows, i) == {v \in View : rows[v] # NoRow /\ rows[v].issue = i}
Activity(rows) == [v \in View |-> rows[v].active]

\* The weight from actions is the sum of the scores of the category's issues.
LEMMA ActionWeightIsSum ==
    ASSUME NEW c
    PROVE  /\ ActionWeight(c) = SumOver(Scores(contrib), OfCategory(c))
           /\ ActionWeight(c)' = SumOver(Scores(contrib'), OfCategory(c))
<1>1. ActionWeight(c) = SumOver(Scores(contrib), OfCategory(c))
  BY ZenonT(60) DEF ActionWeight, MapThenSumSet, MapThenFoldSet, SumOver, SumsUp, OneOf, IssueScore,
         Scores, ScoreOfRow, ActionScoreOf, CreditedOf, OfCategory
<1>2. ActionWeight(c)' = SumOver(Scores(contrib'), OfCategory(c))
  BY ZenonT(60) DEF ActionWeight, MapThenSumSet, MapThenFoldSet, SumOver, SumsUp, OneOf, IssueScore,
         Scores, ScoreOfRow, ActionScoreOf, CreditedOf, OfCategory
<1>3. QED
  BY <1>1, <1>2

\* The time an issue was active is the sum over its views.
LEMMA ActiveIsSum ==
    ASSUME NEW i
    PROVE  /\ ActiveIn(i) = SumOver(Activity(views), ViewsOf(views, i))
           /\ ActiveIn(i)' = SumOver(Activity(views'), ViewsOf(views', i))
<1>1. ActiveIn(i) = SumOver(Activity(views), ViewsOf(views, i))
  BY ZenonT(60) DEF ActiveIn, MapThenSumSet, MapThenFoldSet, SumOver, SumsUp, OneOf, ViewsOf,
                    Activity
<1>2. ActiveIn(i)' = SumOver(Activity(views'), ViewsOf(views', i))
  BY ZenonT(60) DEF ActiveIn, MapThenSumSet, MapThenFoldSet, SumOver, SumsUp, OneOf, ViewsOf,
                    Activity
<1>3. QED
  BY <1>1, <1>2

\* A sum of zeros is 0.
LEMMA SumOfZeros ==
    ASSUME NEW S, IsFiniteSet(S), NEW f, \A x \in S : f[x] = 0
    PROVE  SumOver(f, S) = 0
<1> DEFINE bad == {n \in Nat : \E s \in SUBSET S : Cardinality(s) = n /\ SumOver(f, s) # 0}
<1>1. \A s \in SUBSET S : IsFiniteSet(s) /\ Cardinality(s) \in Nat
  BY FS_Subset, FS_CardinalityType
<1>2. bad = {}
  <2> SUFFICES ASSUME bad # {} PROVE FALSE
    OBVIOUS
  <2>1. PICK n \in bad : \A m \in bad : n <= m
    BY LeastNumber
  <2>2. PICK s \in SUBSET S : Cardinality(s) = n /\ SumOver(f, s) # 0
    BY <2>1
  <2>3. s # {}
    BY <2>2, SumEmpty
  <2> DEFINE rest == s \ {OneOf(s)}
  <2>4. /\ OneOf(s) \in S /\ rest \in SUBSET S /\ Cardinality(rest) \in Nat
        /\ Cardinality(s) = Cardinality(rest) + 1
    BY <1>1, <2>3, TakenIsIn, TakenOut
  <2>5. SumOver(f, s) = f[OneOf(s)] + SumOver(f, rest)
    <3>1. \A x \in s : f[x] \in Int
      OBVIOUS
    <3>2. QED
      BY <1>1, <2>3, <3>1, SumTaken
  <2>6. SumOver(f, rest) = 0
    <3>1. ~ (n <= Cardinality(rest))
      BY <2>2, <2>4
    <3>2. Cardinality(rest) \notin bad
      BY <2>1, <3>1
    <3>3. QED
      BY <2>4, <3>2
  <2>7. f[OneOf(s)] = 0
    BY <2>4
  <2>8. QED
    BY <2>2, <2>5, <2>6, <2>7
<1>3. QED
  BY <1>1, <1>2

\* The least of two integers.
LEMMA MinOfTwo ==
    ASSUME NEW a \in Int, NEW b \in Int
    PROVE  Min({a, b}) = IF a <= b THEN a ELSE b
<1>1. CASE a <= b
  <2>1. \A x \in {a, b} : (\A y \in {a, b} : x <= y) => x = a
    BY <1>1
  <2>2. a \in {a, b} /\ \A y \in {a, b} : a <= y
    BY <1>1
  <2>3. QED
    BY <1>1, <2>1, <2>2 DEF Min
<1>2. CASE ~ (a <= b)
  <2>1. \A x \in {a, b} : (\A y \in {a, b} : x <= y) => x = b
    BY <1>2
  <2>2. b \in {a, b} /\ \A y \in {a, b} : b <= y
    BY <1>2
  <2>3. QED
    BY <1>2, <2>1, <2>2 DEF Min
<1>3. QED
  BY <1>1, <1>2

\* The time credited when a view advances.
LEMMA DwellContribution ==
    ASSUME NEW stored \in Int, NEW current \in Int, NEW accepted \in Int, current < accepted
    PROVE  detailDwellContribution(stored, current, accepted) =
              IF FullDwell <= stored + (accepted - current) THEN FullDwell
              ELSE stored + (accepted - current)
<1> DEFINE d == accepted - current
<1>1. d \in Int /\ 0 <= d /\ stored + d \in Int /\ FullDwell \in Int
  BY MemberAssumption
<1>2. Max({0, d}) = d
  <2>1. \A x \in {0, d} : (\A y \in {0, d} : x >= y) => x = d
    BY <1>1
  <2>2. d \in {0, d} /\ \A y \in {0, d} : d >= y
    BY <1>1
  <2> HIDE DEF d
  <2>3. QED
    BY <2>1, <2>2 DEF Max
<1> HIDE DEF d
<1>3. detailDwellContribution(stored, current, accepted) = Min({FullDwell, stored + d})
  BY <1>2 DEF detailDwellContribution, d
<1>4. Min({FullDwell, stored + d}) = IF FullDwell <= stored + d THEN FullDwell ELSE stored + d
  BY <1>1, MinOfTwo
<1>5. QED
  BY <1>3, <1>4 DEF d

\* The latest of a number of positions.
LEMMA LatestIs ==
    ASSUME NEW S \in SUBSET Nat, NEW m \in S, \A y \in S : y <= m
    PROVE  Max(S) = m
<1>1. \A x \in S : (\A y \in S : x >= y) => x = m
  OBVIOUS
<1>2. \A y \in S : m >= y
  OBVIOUS
<1>3. QED
  BY <1>1, <1>2 DEF Max

\* An action is worth 4, 0 or -6.
LEMMA Worth == \A a : interactionActionScore(a) \in {4, 0, -6}
BY DEF interactionActionScore

\* What a row contributes is an integer, also if there is no row.
LEMMA ScoreIsInteger ==
    ASSUME NEW entry \in Contribution \cup {NoRow}
    PROVE  ScoreOfRow(entry) \in Int
<1>1. (IF entry = NoRow THEN 0 ELSE entry.action) \in Int
  BY DEF Contribution
<1>2. \A x : detailDwellScore(x) \in Int
  BY DEF detailDwellScore
<1>3. QED
  BY <1>1, <1>2 DEF ScoreOfRow

-----------------------------------------------------------------------------
(* A member: what an operation does to the weights.                        *)

Residual(w, rows, c) == WeightIn(w, c) - SumOver(Scores(rows), OfCategory(c))

\* The choice, in terms of the sums.
LEMMA ChoiceIsResidual ==
    /\ ChoiceIsDerivable <=>
          /\ \A c \in Category : Residual(weight, contrib, c) \in {0, 4}
          /\ {c \in Category : Residual(weight, contrib, c) = 4} = chosen
    /\ ChoiceIsDerivable' <=>
          /\ \A c \in Category : Residual(weight', contrib', c) \in {0, 4}
          /\ {c \in Category : Residual(weight', contrib', c) = 4} = chosen'
<1>1. \A c : categoryResidual(weight, c) = Residual(weight, contrib, c)
  BY ActionWeightIsSum DEF categoryResidual, Residual
<1>2. \A c \in Category : categoryResidual(weight, c)' = Residual(weight', contrib', c)
  <2> SUFFICES ASSUME NEW c \in Category
               PROVE  categoryResidual(weight, c)' = Residual(weight', contrib', c)
    OBVIOUS
  <2>1. ActionWeight(c)' = SumOver(Scores(contrib'), OfCategory(c))
    BY ActionWeightIsSum
  <2>2. QED
    BY <2>1 DEF categoryResidual, Residual, WeightIn
<1>3. ChoiceIsDerivable <=>
          /\ \A c \in Category : Residual(weight, contrib, c) \in {0, 4}
          /\ {c \in Category : Residual(weight, contrib, c) = 4} = chosen
  BY <1>1 DEF ChoiceIsDerivable, AllowedResiduals, DerivedTopics, Selected
<1>4. ChoiceIsDerivable' <=>
          /\ \A c \in Category : Residual(weight', contrib', c) \in {0, 4}
          /\ {c \in Category : Residual(weight', contrib', c) = 4} = chosen'
  BY <1>2 DEF ChoiceIsDerivable, AllowedResiduals, DerivedTopics, Selected
<1>5. QED
  BY <1>3, <1>4

\* A category has finitely many issues.
LEMMA CategoryIsFinite == \A c : IsFiniteSet(OfCategory(c)) /\ OfCategory(c) \subseteq Issue
BY FS_Subset, MemberAssumption DEF OfCategory

\* The scores of rows are integers, and so is their sum.
LEMMA WeightIsInteger ==
    ASSUME NEW rows \in [Issue -> Contribution \cup {NoRow}], NEW c
    PROVE  /\ \A i \in Issue : Scores(rows)[i] = ScoreOfRow(rows[i]) /\ Scores(rows)[i] \in Int
           /\ SumOver(Scores(rows), OfCategory(c)) \in Int
<1>1. \A i \in Issue : Scores(rows)[i] = ScoreOfRow(rows[i]) /\ Scores(rows)[i] \in Int
  BY ScoreIsInteger DEF Scores
<1>2. \A i \in OfCategory(c) : Scores(rows)[i] \in Int
  BY <1>1, CategoryIsFinite
<1>3. QED
  BY <1>1, <1>2, CategoryIsFinite, SumIsInteger

\* A row changes, and the weight of its category by the difference of the scores.
WeightMoves(w, rows, i, entry, delta, w1, rows1) ==
    /\ w \in [Category -> Int \cup {NoRow}] /\ rows \in [Issue -> Contribution \cup {NoRow}]
    /\ i \in Issue /\ entry \in Contribution
    /\ delta = ScoreOfRow(entry) - ScoreOfRow(rows[i])
    /\ w1 = IF delta = 0 THEN w
            ELSE [w EXCEPT ![CategoryOf[i]] = WeightIn(w, CategoryOf[i]) + delta]
    /\ rows1 = [rows EXCEPT ![i] = entry]

\* Then the residuals are what they were.
LEMMA ResidualStays ==
    ASSUME NEW w, NEW rows, NEW i, NEW entry, NEW delta, NEW w1, NEW rows1,
           WeightMoves(w, rows, i, entry, delta, w1, rows1)
    PROVE  /\ w1 \in [Category -> Int \cup {NoRow}]
           /\ \A c \in Category : Residual(w1, rows1, c) = Residual(w, rows, c)
<1>0. /\ w \in [Category -> Int \cup {NoRow}] /\ rows \in [Issue -> Contribution \cup {NoRow}]
      /\ i \in Issue /\ entry \in Contribution
      /\ delta = ScoreOfRow(entry) - ScoreOfRow(rows[i])
      /\ w1 = IF delta = 0 THEN w
              ELSE [w EXCEPT ![CategoryOf[i]] = WeightIn(w, CategoryOf[i]) + delta]
      /\ rows1 = [rows EXCEPT ![i] = entry]
  BY DEF WeightMoves
<1>1. rows1 \in [Issue -> Contribution \cup {NoRow}]
  BY <1>0
<1>2. \A c \in Category : WeightIn(w, c) \in Int
  BY <1>0, MemberAssumption DEF WeightIn
<1>3. CategoryOf[i] \in Category
  BY <1>0, MemberAssumption
<1>4. delta \in Int
  <2>1. rows[i] \in Contribution \cup {NoRow}
    BY <1>0
  <2>2. ScoreOfRow(entry) \in Int /\ ScoreOfRow(rows[i]) \in Int
    BY <1>0, <2>1, ScoreIsInteger
  <2>3. QED
    BY <1>0, <2>2
<1>5. w1 \in [Category -> Int \cup {NoRow}]
  <2>1. WeightIn(w, CategoryOf[i]) + delta \in Int
    BY <1>2, <1>3, <1>4
  <2>2. QED
    BY <1>0, <1>3, <2>1
<1>6. \A c \in Category : WeightIn(w1, c) = IF c = CategoryOf[i] THEN WeightIn(w, c) + delta
                                            ELSE WeightIn(w, c)
  <2>1. WeightIn(w, CategoryOf[i]) + delta \in Int /\ WeightIn(w, CategoryOf[i]) \in Int
    BY <1>2, <1>3, <1>4
  <2>2. CASE delta = 0
    <3>1. WeightIn(w, CategoryOf[i]) + delta = WeightIn(w, CategoryOf[i])
      BY <2>1, <2>2
    <3>2. w1 = w
      BY <1>0, <2>2
    <3>3. QED
      BY <3>1, <3>2
  <2>3. CASE delta # 0
    <3>1. w1 = [w EXCEPT ![CategoryOf[i]] = WeightIn(w, CategoryOf[i]) + delta]
      BY <1>0, <2>3
    <3>2. WeightIn(w, CategoryOf[i]) + delta # NoRow
      BY <2>1, MemberAssumption
    <3>3. \A c \in Category : w1[c] = IF c = CategoryOf[i] THEN WeightIn(w, CategoryOf[i]) + delta
                                      ELSE w[c]
      BY <1>0, <3>1
    <3>4. QED
      BY <1>3, <3>2, <3>3 DEF WeightIn
  <2>4. QED
    BY <2>2, <2>3
<1>7. \A c \in Category :
         SumOver(Scores(rows1), OfCategory(c)) =
            IF c = CategoryOf[i] THEN SumOver(Scores(rows), OfCategory(c)) + delta
            ELSE SumOver(Scores(rows), OfCategory(c))
  <2> SUFFICES ASSUME NEW c \in Category
               PROVE  SumOver(Scores(rows1), OfCategory(c)) =
                         IF c = CategoryOf[i] THEN SumOver(Scores(rows), OfCategory(c)) + delta
                         ELSE SumOver(Scores(rows), OfCategory(c))
    OBVIOUS
  <2>1. IsFiniteSet(OfCategory(c)) /\ OfCategory(c) \subseteq Issue
    BY CategoryIsFinite
  <2>2. \A j \in Issue : /\ Scores(rows)[j] \in Int /\ Scores(rows1)[j] \in Int
                         /\ Scores(rows)[j] = ScoreOfRow(rows[j])
                         /\ Scores(rows1)[j] = ScoreOfRow(rows1[j])
    BY <1>0, <1>1, WeightIsInteger
  <2>3. \A j \in Issue \ {i} : Scores(rows)[j] = Scores(rows1)[j]
    BY <1>0, <2>2
  <2>4. Scores(rows1)[i] - Scores(rows)[i] = delta
    BY <1>0, <2>2
  <2>5. CASE c = CategoryOf[i]
    <3>1. i \in OfCategory(c)
      BY <1>0, <2>5 DEF OfCategory
    <3>2. SumOver(Scores(rows1), OfCategory(c)) =
             SumOver(Scores(rows), OfCategory(c)) + (Scores(rows1)[i] - Scores(rows)[i])
      BY <2>1, <2>2, <2>3, <3>1, SumChanges
    <3>3. QED
      BY <2>4, <2>5, <3>2
  <2>6. CASE c # CategoryOf[i]
    <3>1. i \notin OfCategory(c)
      BY <1>0, <2>6 DEF OfCategory
    <3>2. \A j \in OfCategory(c) : Scores(rows1)[j] \in Int /\ Scores(rows1)[j] = Scores(rows)[j]
      BY <2>1, <2>2, <2>3, <3>1
    <3>3. SumOver(Scores(rows1), OfCategory(c)) = SumOver(Scores(rows), OfCategory(c))
      BY <2>1, <3>2, SumSame
    <3>4. QED
      BY <2>6, <3>3
  <2>7. QED
    BY <2>5, <2>6
<1>8. \A c \in Category : Residual(w1, rows1, c) = Residual(w, rows, c)
  <2> SUFFICES ASSUME NEW c \in Category PROVE Residual(w1, rows1, c) = Residual(w, rows, c)
    OBVIOUS
  <2>1. WeightIn(w, c) \in Int /\ SumOver(Scores(rows), OfCategory(c)) \in Int /\ delta \in Int
    BY <1>0, <1>2, <1>4, WeightIsInteger
  <2>2. CASE c = CategoryOf[i]
    <3>1. /\ WeightIn(w1, c) = WeightIn(w, c) + delta
          /\ SumOver(Scores(rows1), OfCategory(c)) = SumOver(Scores(rows), OfCategory(c)) + delta
      BY <1>6, <1>7, <2>2
    <3>2. QED
      BY <2>1, <3>1 DEF Residual
  <2>3. CASE c # CategoryOf[i]
    BY <1>6, <1>7, <2>3 DEF Residual
  <2>4. QED
    BY <2>2, <2>3
<1>9. QED
  BY <1>5, <1>8

\* Onboarding writes what was chosen, and nothing is left of what was not.
LEMMA ResidualIsChosen ==
    ASSUME NEW rows \in [Issue -> Contribution \cup {NoRow}], NEW topics \in SUBSET Category,
           NEW w1,
           \A c \in Category :
              LET sum == SumOver(Scores(rows), OfCategory(c)) IN
              \/ c \in topics /\ WeightIn(w1, c) = sum + 4
              \/ c \notin topics /\ WeightIn(w1, c) = sum
              \/ /\ c \notin topics /\ WeightIn(w1, c) = 0
                 /\ \A i \in OfCategory(c) : rows[i] = NoRow
    PROVE  \A c \in Category : Residual(w1, rows, c) = IF c \in topics THEN 4 ELSE 0
<1> SUFFICES ASSUME NEW c \in Category
             PROVE  Residual(w1, rows, c) = IF c \in topics THEN 4 ELSE 0
  OBVIOUS
<1> DEFINE sum == SumOver(Scores(rows), OfCategory(c))
<1>1. sum \in Int
  BY WeightIsInteger
<1>2. CASE c \in topics /\ WeightIn(w1, c) = sum + 4
  BY <1>1, <1>2 DEF Residual
<1>3. CASE c \notin topics /\ WeightIn(w1, c) = sum
  BY <1>1, <1>3 DEF Residual
<1>4. CASE /\ c \notin topics /\ WeightIn(w1, c) = 0
           /\ \A i \in OfCategory(c) : rows[i] = NoRow
  <2>1. ScoreOfRow(NoRow) = 0
    BY MemberAssumption DEF ScoreOfRow, detailDwellScore
  <2>2. \A i \in OfCategory(c) : Scores(rows)[i] = 0
    BY <1>4, <2>1, CategoryIsFinite, WeightIsInteger
  <2>3. sum = 0
    BY <2>2, CategoryIsFinite, SumOfZeros
  <2>4. QED
    BY <1>4, <2>3 DEF Residual
<1>5. QED
  BY <1>2, <1>3, <1>4

-----------------------------------------------------------------------------
(* A member: the history of an issue.                                      *)

EventsOf(evs, i) == {k \in DOMAIN evs : evs[k].issue = i}
LastOf(evs, i) ==
    IF EventsOf(evs, i) = {} THEN "NONE" ELSE evs[Max(EventsOf(evs, i))].action

ActionIn(entry) == IF entry = NoRow THEN 0 ELSE entry.action
CreditIn(entry) == IF entry = NoRow THEN 0 ELSE entry.credited

Ledger(evs, vs, rows) ==
    \A i \in Issue :
        /\ ActionIn(rows[i]) = interactionActionScore(LastOf(evs, i))
        /\ CreditIn(rows[i]) = Min({FullDwell, SumOver(Activity(vs), ViewsOf(vs, i))})

\* The property, of the tables that are given, before a step and after it.
LEMMA LedgerIs ==
    /\ LedgerIsHistory <=> Ledger(events, views, contrib)
    /\ LedgerIsHistory' <=> Ledger(events', views', contrib')
<1>1. LedgerIsHistory <=> Ledger(events, views, contrib)
  <2>1. \A i \in Issue : /\ LatestAction(i) = LastOf(events, i)
                         /\ ActionScoreOf(i) = ActionIn(contrib[i])
                         /\ CreditedOf(i) = CreditIn(contrib[i])
    BY DEF LatestAction, LastOf, EventsOf, ActionScoreOf, ActionIn, CreditedOf, CreditIn
  <2>2. QED
    BY <2>1, ActiveIsSum DEF LedgerIsHistory, Ledger
<1>2. LedgerIsHistory' <=> Ledger(events', views', contrib')
  <2>1. \A i \in Issue : /\ LatestAction(i)' = LastOf(events', i)
                         /\ ActionScoreOf(i)' = ActionIn(contrib'[i])
                         /\ CreditedOf(i)' = CreditIn(contrib'[i])
    BY DEF LatestAction, LastOf, EventsOf, ActionScoreOf, ActionIn, CreditedOf, CreditIn
  <2>2. \A i \in Issue : ActiveIn(i)' = SumOver(Activity(views'), ViewsOf(views', i))
    <3> SUFFICES ASSUME NEW i \in Issue
                 PROVE  ActiveIn(i)' = SumOver(Activity(views'), ViewsOf(views', i))
      OBVIOUS
    <3>1. QED
      BY ActiveIsSum
  <2>3. LedgerIsHistory' <=>
          \A i \in Issue : /\ ActionScoreOf(i)' = interactionActionScore(LatestAction(i)')
                           /\ CreditedOf(i)' = Min({FullDwell, ActiveIn(i)'})
    BY DEF LedgerIsHistory, interactionActionScore
  <2>4. QED
    BY <2>1, <2>2, <2>3 DEF Ledger
<1>3. QED
  BY <1>1, <1>2

\* Of a bounded set of numbers that is not empty, one is the greatest.
LEMMA LatestIsIn ==
    ASSUME NEW n \in Nat, NEW S \in SUBSET (0 .. n), S # {}
    PROVE  Max(S) \in S
<1> DEFINE bounds == {u \in Nat : \A s \in S : s <= u}
<1>1. n \in bounds
  OBVIOUS
<1>2. PICK u \in bounds : \A v \in bounds : u <= v
  BY <1>1, LeastNumber
<1>3. u \in S
  <2> SUFFICES ASSUME u \notin S PROVE FALSE
    OBVIOUS
  <2>1. \A s \in S : s < u
    OBVIOUS
  <2>2. PICK s \in S : TRUE
    OBVIOUS
  <2>3. u - 1 \in Nat /\ ~ (u <= u - 1)
    <3>1. s < u /\ s \in Nat /\ u \in Nat
      BY <2>1, <2>2
    <3>2. QED
      BY <3>1
  <2>4. \A t \in S : t <= u - 1
    BY <2>1
  <2>5. QED
    BY <1>2, <2>3, <2>4
<1>4. Max(S) = u
  <2>1. \A y \in S : y <= u
    OBVIOUS
  <2>2. QED
    BY <1>3, <2>1, LatestIs
<1>5. QED
  BY <1>3, <1>4

\* An event that is appended is the last of its issue, and of no other.
LEMMA LastAppended ==
    ASSUME NEW evs \in Seq(EventRecord), NEW ev \in EventRecord, NEW i
    PROVE  LastOf(Append(evs, ev), i) = IF ev.issue = i THEN ev.action ELSE LastOf(evs, i)
<1> DEFINE evs1 == Append(evs, ev)
           n == Len(evs)
<1>1. /\ n \in Nat /\ DOMAIN evs = 1 .. n /\ DOMAIN evs1 = 1 .. n + 1
      /\ evs1[n + 1] = ev /\ \A k \in 1 .. n : evs1[k] = evs[k]
  OBVIOUS
<1> HIDE DEF evs1, n
<1>2. CASE ev.issue = i
  <2>1. n + 1 \in EventsOf(evs1, i) /\ EventsOf(evs1, i) \in SUBSET Nat
    BY <1>1, <1>2 DEF EventsOf
  <2>2. \A k \in EventsOf(evs1, i) : k <= n + 1
    BY <1>1 DEF EventsOf
  <2>3. Max(EventsOf(evs1, i)) = n + 1
    BY <2>1, <2>2, LatestIs
  <2>4. QED
    BY <1>1, <1>2, <2>1, <2>3 DEF LastOf, evs1
<1>3. CASE ev.issue # i
  <2>1. EventsOf(evs1, i) = EventsOf(evs, i)
    <3>1. \A k \in EventsOf(evs1, i) : k # n + 1
      BY <1>1, <1>3 DEF EventsOf
    <3>2. \A k \in 1 .. n + 1 : k # n + 1 => k \in 1 .. n
      BY <1>1
    <3>3. \A k \in 1 .. n : k \in 1 .. n + 1
      BY <1>1
    <3>4. QED
      BY <1>1, <3>1, <3>2, <3>3 DEF EventsOf
  <2>2. CASE EventsOf(evs, i) = {}
    BY <1>3, <2>1, <2>2 DEF LastOf, evs1
  <2>3. CASE EventsOf(evs, i) # {}
    <3>1. EventsOf(evs, i) \in SUBSET (0 .. n)
      BY <1>1 DEF EventsOf
    <3>2. Max(EventsOf(evs, i)) \in 1 .. n
      <4>1. Max(EventsOf(evs, i)) \in EventsOf(evs, i)
        BY <1>1, <2>3, <3>1, LatestIsIn
      <4>2. QED
        BY <1>1, <4>1 DEF EventsOf
    <3>3. evs1[Max(EventsOf(evs, i))] = evs[Max(EventsOf(evs, i))]
      BY <1>1, <3>2
    <3>4. QED
      BY <1>3, <2>1, <2>3, <3>3 DEF LastOf, evs1
  <2>4. QED
    BY <2>2, <2>3
<1>4. QED
  BY <1>2, <1>3

\* The time of the views of an issue is a number.
LEMMA ActiveIsInteger ==
    ASSUME NEW vs \in [View -> ViewRecord \cup {NoRow}], NEW i
    PROVE  /\ IsFiniteSet(ViewsOf(vs, i)) /\ ViewsOf(vs, i) \subseteq View
           /\ \A v \in ViewsOf(vs, i) : /\ Activity(vs)[v] = vs[v].active
                                        /\ Activity(vs)[v] \in Int
           /\ SumOver(Activity(vs), ViewsOf(vs, i)) \in Int
<1>1. IsFiniteSet(ViewsOf(vs, i)) /\ ViewsOf(vs, i) \subseteq View
  BY FS_Subset, MemberAssumption DEF ViewsOf
<1>2. \A v \in ViewsOf(vs, i) : vs[v] \in ViewRecord
  BY DEF ViewsOf
<1>3. \A v \in ViewsOf(vs, i) : Activity(vs)[v] = vs[v].active /\ Activity(vs)[v] \in Int
  <2>1. \A r \in ViewRecord : r.active \in Int
    BY MemberAssumption DEF ViewRecord
  <2>2. QED
    BY <1>1, <1>2, <2>1 DEF Activity
<1>4. QED
  BY <1>1, <1>3, SumIsInteger

\* Views change without their time: the sums stay.
LEMMA ActiveStays ==
    ASSUME NEW vs \in [View -> ViewRecord \cup {NoRow}],
           NEW vs1 \in [View -> ViewRecord \cup {NoRow}], NEW i,
           ViewsOf(vs1, i) = ViewsOf(vs, i),
           \A v \in ViewsOf(vs, i) : vs1[v].active = vs[v].active
    PROVE  SumOver(Activity(vs1), ViewsOf(vs1, i)) = SumOver(Activity(vs), ViewsOf(vs, i))
<1>1. \A v \in ViewsOf(vs, i) : /\ Activity(vs1)[v] \in Int
                                /\ Activity(vs1)[v] = Activity(vs)[v]
  BY ActiveIsInteger
<1>2. QED
  BY <1>1, ActiveIsInteger, SumSame

\* A view that is added counts for nothing yet.
LEMMA ActiveOfNewView ==
    ASSUME NEW vs \in [View -> ViewRecord \cup {NoRow}],
           NEW w \in View, vs[w] = NoRow, NEW entry \in ViewRecord, entry.active = 0, NEW i
    PROVE  LET vs1 == [vs EXCEPT ![w] = entry] IN
           SumOver(Activity(vs1), ViewsOf(vs1, i)) = SumOver(Activity(vs), ViewsOf(vs, i))
<1> DEFINE vs1 == [vs EXCEPT ![w] = entry]
<1>1. vs1 \in [View -> ViewRecord \cup {NoRow}] /\ vs1[w] = entry /\ entry # NoRow
  BY MemberAssumption
<1>2. \A v \in View \ {w} : vs1[v] = vs[v]
  OBVIOUS
<1> HIDE DEF vs1
<1>3. ViewsOf(vs, i) = ViewsOf(vs1, i) \ {w} /\ w \notin ViewsOf(vs, i)
  BY <1>1, <1>2 DEF ViewsOf
<1>4. CASE w \notin ViewsOf(vs1, i)
  <2>1. \A v \in ViewsOf(vs, i) : vs1[v].active = vs[v].active
    BY <1>2, <1>3, ActiveIsInteger
  <2>2. ViewsOf(vs1, i) = ViewsOf(vs, i)
    BY <1>3, <1>4
  <2>3. QED
    BY <1>1, <2>1, <2>2, ActiveStays DEF vs1
<1>5. CASE w \in ViewsOf(vs1, i)
  <2>1. SumOver(Activity(vs1), ViewsOf(vs1, i))
           = Activity(vs1)[w] + SumOver(Activity(vs1), ViewsOf(vs, i))
    BY <1>1, <1>3, <1>5, ActiveIsInteger, SumRemove
  <2>2. Activity(vs1)[w] = 0
    BY <1>1, <1>5, ActiveIsInteger
  <2>3. \A v \in ViewsOf(vs, i) : Activity(vs)[v] \in Int /\ Activity(vs)[v] = Activity(vs1)[v]
    BY <1>1, <1>2, <1>3, ActiveIsInteger
  <2>4. SumOver(Activity(vs), ViewsOf(vs, i)) = SumOver(Activity(vs1), ViewsOf(vs, i))
    BY <2>3, ActiveIsInteger, SumSame
  <2>5. SumOver(Activity(vs), ViewsOf(vs, i)) \in Int
    BY ActiveIsInteger
  <2>6. QED
    BY <2>1, <2>2, <2>4, <2>5 DEF vs1
<1>6. QED
  BY <1>4, <1>5

\* A view advances.
Advances(vs, w, ms, vs1) ==
    /\ vs \in [View -> ViewRecord \cup {NoRow}]
    /\ w \in View /\ vs[w] # NoRow /\ ms \in 0 .. LifeTime
    /\ vs1 = [vs EXCEPT ![w].active = ms]

\* The time of its issue does by as much, that of no other.
LEMMA ActiveAdvances ==
    ASSUME NEW vs, NEW w, NEW ms, NEW vs1, Advances(vs, w, ms, vs1), NEW i
    PROVE  SumOver(Activity(vs1), ViewsOf(vs1, i)) =
              IF vs[w].issue = i
              THEN SumOver(Activity(vs), ViewsOf(vs, i)) + (ms - vs[w].active)
              ELSE SumOver(Activity(vs), ViewsOf(vs, i))
<1>1. /\ vs \in [View -> ViewRecord \cup {NoRow}] /\ w \in View
      /\ vs[w] # NoRow /\ vs[w] \in ViewRecord /\ ms \in 0 .. LifeTime
  BY DEF Advances
<1>2. /\ vs1[w] \in ViewRecord /\ vs1[w].issue = vs[w].issue /\ vs1[w].active = ms
      /\ vs1 \in [View -> ViewRecord \cup {NoRow}]
  BY <1>1 DEF Advances, ViewRecord
<1>3. vs1[w] # NoRow
  BY <1>2, MemberAssumption
<1>4. \A v \in View \ {w} : vs1[v] = vs[v]
  BY <1>1 DEF Advances
<1>5. ViewsOf(vs1, i) = ViewsOf(vs, i)
  BY <1>1, <1>2, <1>3, <1>4 DEF ViewsOf
<1>6. CASE vs[w].issue = i
  <2>1. w \in ViewsOf(vs, i)
    BY <1>1, <1>6 DEF ViewsOf
  <2>2. \A v \in ViewsOf(vs, i) : Activity(vs)[v] \in Int /\ Activity(vs1)[v] \in Int
    BY <1>1, <1>2, <1>5, ActiveIsInteger
  <2>3. \A v \in ViewsOf(vs, i) \ {w} : Activity(vs)[v] = Activity(vs1)[v]
    BY <1>1, <1>2, <1>4, <1>5, ActiveIsInteger
  <2>4. Activity(vs)[w] = vs[w].active /\ Activity(vs1)[w] = ms
    BY <1>1, <1>2, <1>5, <2>1, ActiveIsInteger
  <2>5. SumOver(Activity(vs1), ViewsOf(vs, i))
           = SumOver(Activity(vs), ViewsOf(vs, i)) + (Activity(vs1)[w] - Activity(vs)[w])
    <3>1. IsFiniteSet(ViewsOf(vs, i))
      BY <1>1, ActiveIsInteger
    <3>2. QED
      BY <2>1, <2>2, <2>3, <3>1, SumChanges
  <2>6. QED
    BY <1>5, <1>6, <2>4, <2>5
<1>7. CASE vs[w].issue # i
  <2>1. w \notin ViewsOf(vs, i)
    BY <1>7 DEF ViewsOf
  <2>2. \A v \in ViewsOf(vs, i) : vs1[v].active = vs[v].active
    BY <1>1, <1>4, <2>1, ActiveIsInteger
  <2>3. QED
    BY <1>1, <1>2, <1>5, <1>7, <2>2, ActiveStays
<1>8. QED
  BY <1>6, <1>7

-----------------------------------------------------------------------------
(* A member: each operation keeps what is learnt and what is chosen sound. *)

\* What LearningSound says of one member, in terms of the tables.
LEMMA SoundParts ==
    /\ LearningSound <=>
          /\ MemberTypeOK
          /\ \A c \in Category : Residual(weight, contrib, c) \in {0, 4}
          /\ {c \in Category : Residual(weight, contrib, c) = 4} = chosen
          /\ Ledger(events, views, contrib)
    /\ LearningSound' <=>
          /\ MemberTypeOK'
          /\ \A c \in Category : Residual(weight', contrib', c) \in {0, 4}
          /\ {c \in Category : Residual(weight', contrib', c) = 4} = chosen'
          /\ Ledger(events', views', contrib')
BY ChoiceIsResidual, LedgerIs DEF LearningSound

\* The rows of an issue are what their operators read.
LEMMA RowsOfAnIssue ==
    ASSUME MemberTypeOK, NEW i \in Issue
    PROVE  /\ ActionScoreOf(i) = ActionIn(contrib[i]) /\ CreditedOf(i) = CreditIn(contrib[i])
           /\ LatestAction(i) = LastOf(events, i)
           /\ ActionScoreOf(i) \in {4, 0, -6} /\ CreditedOf(i) \in 0 .. FullDwell
           /\ ScoreOfRow(contrib[i]) = ActionScoreOf(i) + detailDwellScore(CreditedOf(i))
<1>1. /\ ActionScoreOf(i) = ActionIn(contrib[i]) /\ CreditedOf(i) = CreditIn(contrib[i])
      /\ LatestAction(i) = LastOf(events, i)
  BY DEF LatestAction, LastOf, EventsOf, ActionScoreOf, ActionIn, CreditedOf, CreditIn
<1>2. contrib[i] \in Contribution \cup {NoRow} /\ 0 \in 0 .. FullDwell
  BY MemberAssumption DEF MemberTypeOK
<1>3. ActionScoreOf(i) \in {4, 0, -6} /\ CreditedOf(i) \in 0 .. FullDwell
  BY <1>2 DEF ActionScoreOf, CreditedOf, Contribution
<1>4. ScoreOfRow(contrib[i]) = ActionScoreOf(i) + detailDwellScore(CreditedOf(i))
  BY DEF ScoreOfRow, ActionScoreOf, CreditedOf
<1>5. QED
  BY <1>1, <1>3, <1>4

\* A row and its score.
LEMMA RowScore ==
    ASSUME NEW a \in {4, 0, -6}, NEW d \in 0 .. FullDwell
    PROVE  LET entry == [action |-> a, credited |-> d] IN
           /\ entry \in Contribution /\ entry # NoRow
           /\ ActionIn(entry) = a /\ CreditIn(entry) = d
           /\ ScoreOfRow(entry) = a + detailDwellScore(d)
<1> DEFINE entry == [action |-> a, credited |-> d]
<1>1. entry \in Contribution /\ entry.action = a /\ entry.credited = d
  BY DEF Contribution
<1>2. entry # NoRow
  BY <1>1, MemberAssumption
<1> HIDE DEF entry
<1>3. QED
  BY <1>1, <1>2 DEF ActionIn, CreditIn, ScoreOfRow, entry

\* recordInteraction keeps LearningSound: what an issue contributes is what its events
\* make of it, and every weight is the choice and the contributions.
LEMMA RecordKeeps ==
    ASSUME LearningSound, NEW e \in EventId, NEW i \in Issue, NEW s \in Session, NEW a \in Action,
           RecordInteraction(e, i, s, a)
    PROVE  LearningSound'
<1> DEFINE ev == [id |-> e, issue |-> i, session |-> s, action |-> a]
           entry == [action |-> interactionActionScore(a), credited |-> CreditedOf(i)]
           delta == interactionActionDelta(LatestAction(i), a)
<1>1. MemberTypeOK /\ Ledger(events, views, contrib)
  BY SoundParts
<1>2. /\ \A c \in Category : Residual(weight, contrib, c) \in {0, 4}
      /\ {c \in Category : Residual(weight, contrib, c) = 4} = chosen
  BY SoundParts
<1>3. /\ events' = Append(events, ev) /\ contrib' = [contrib EXCEPT ![i] = entry]
      /\ weight' = IF delta = 0 THEN weight
                   ELSE [weight EXCEPT ![CategoryOf[i]] = WeightIn(weight, CategoryOf[i]) + delta]
  BY DEF RecordInteraction, applyCategoryDelta
<1>4. UNCHANGED <<published, status, views, others, chosen>>
  BY DEF RecordInteraction
<1>5. ev \in EventRecord /\ ev.issue = i /\ ev.action = a
  BY DEF EventRecord
<1>6. /\ entry \in Contribution /\ entry # NoRow
      /\ ActionIn(entry) = interactionActionScore(a) /\ CreditIn(entry) = CreditIn(contrib[i])
      /\ ScoreOfRow(entry) = interactionActionScore(a) + detailDwellScore(CreditedOf(i))
  BY <1>1, RowsOfAnIssue, RowScore, Worth
<1>7. delta = ScoreOfRow(entry) - ScoreOfRow(contrib[i])
  <2>1. ActionScoreOf(i) = interactionActionScore(LatestAction(i))
    BY <1>1, RowsOfAnIssue DEF Ledger
  <2>2. ScoreOfRow(contrib[i]) = ActionScoreOf(i) + detailDwellScore(CreditedOf(i))
    BY <1>1, RowsOfAnIssue
  <2>3. \A x : detailDwellScore(x) \in Int
    BY DEF detailDwellScore
  <2>4. delta = interactionActionScore(a) - interactionActionScore(LatestAction(i))
    BY DEF interactionActionDelta
  <2>5. PICK p \in Int, q \in Int, d \in Int :
           p = interactionActionScore(a) /\ q = interactionActionScore(LatestAction(i))
             /\ d = detailDwellScore(CreditedOf(i))
    BY <2>3, Worth
  <2> HIDE DEF entry, delta
  <2>6. ScoreOfRow(entry) = p + d /\ ScoreOfRow(contrib[i]) = q + d /\ delta = p - q
    BY <1>6, <2>1, <2>2, <2>4, <2>5
  <2>7. QED
    BY <2>6
<1> HIDE DEF ev, entry, delta
<1>8. /\ weight' \in [Category -> Int \cup {NoRow}]
      /\ \A c \in Category : Residual(weight', contrib', c) = Residual(weight, contrib, c)
  <2>1. WeightMoves(weight, contrib, i, entry, delta, weight', contrib')
    BY <1>1, <1>3, <1>6, <1>7 DEF WeightMoves, MemberTypeOK
  <2>2. QED
    BY <2>1, ResidualStays
<1>9. MemberTypeOK'
  <2>1. events' \in Seq(EventRecord) /\ contrib' \in [Issue -> Contribution \cup {NoRow}]
    BY <1>1, <1>3, <1>5, <1>6 DEF MemberTypeOK
  <2>2. QED
    BY <1>1, <1>4, <1>8, <2>1 DEF MemberTypeOK
<1>10. Ledger(events', views', contrib')
  <2> SUFFICES ASSUME NEW j \in Issue
               PROVE  /\ ActionIn(contrib'[j]) = interactionActionScore(LastOf(events', j))
                      /\ CreditIn(contrib'[j]) =
                            Min({FullDwell, SumOver(Activity(views'), ViewsOf(views', j))})
    BY DEF Ledger
  <2>1. LastOf(events', j) = IF i = j THEN a ELSE LastOf(events, j)
    BY <1>1, <1>3, <1>5, LastAppended DEF MemberTypeOK
  <2>2. contrib'[j] = IF i = j THEN entry ELSE contrib[j]
    BY <1>1, <1>3 DEF MemberTypeOK
  <2>3. /\ ActionIn(contrib[j]) = interactionActionScore(LastOf(events, j))
        /\ CreditIn(contrib[j]) =
              Min({FullDwell, SumOver(Activity(views), ViewsOf(views, j))})
    BY <1>1 DEF Ledger
  <2>4. ActionIn(contrib'[j]) = interactionActionScore(LastOf(events', j))
    BY <1>6, <2>1, <2>2, <2>3
  <2>5. CreditIn(contrib'[j]) = CreditIn(contrib[j])
    BY <1>6, <2>2
  <2>6. QED
    BY <1>4, <2>3, <2>4, <2>5
<1>11. QED
  BY <1>2, <1>4, <1>8, <1>9, <1>10, SoundParts

\* So does the start of a detail view, which contributes nothing yet.
LEMMA StartKeeps ==
    ASSUME LearningSound, NEW v \in View, NEW i \in Issue, NEW s \in Session,
           StartDetailView(v, i, s)
    PROVE  LearningSound'
<1> DEFINE entry == [issue |-> i, session |-> s, age |-> 0, active |-> 0]
<1>1. MemberTypeOK /\ Ledger(events, views, contrib)
  BY SoundParts
<1>2. /\ \A c \in Category : Residual(weight, contrib, c) \in {0, 4}
      /\ {c \in Category : Residual(weight, contrib, c) = 4} = chosen
  BY SoundParts
<1>3. /\ views' = [views EXCEPT ![v] = entry] /\ views[v] = NoRow
      /\ UNCHANGED <<published, status, events, contrib, weight, others, chosen>>
  BY DEF StartDetailView
<1>4. entry \in ViewRecord /\ entry.active = 0
  BY MemberAssumption DEF ViewRecord
<1> HIDE DEF entry
<1>5. MemberTypeOK'
  <2>1. views' \in [View -> ViewRecord \cup {NoRow}]
    BY <1>1, <1>3, <1>4 DEF MemberTypeOK
  <2>2. QED
    BY <1>1, <1>3, <2>1 DEF MemberTypeOK
<1>6. Ledger(events', views', contrib')
  <2> SUFFICES ASSUME NEW j \in Issue
               PROVE  SumOver(Activity(views'), ViewsOf(views', j))
                         = SumOver(Activity(views), ViewsOf(views, j))
    BY <1>1, <1>3 DEF Ledger
  <2>1. QED
    BY <1>1, <1>3, <1>4, ActiveOfNewView DEF MemberTypeOK
<1>7. QED
  BY <1>2, <1>3, <1>5, <1>6, SoundParts

\* So does time, which ages a view and nothing else.
LEMMA AgingKeeps ==
    ASSUME LearningSound, NEW v \in View, ViewAges(v)
    PROVE  LearningSound'
<1>1. MemberTypeOK /\ Ledger(events, views, contrib)
  BY SoundParts
<1>2. /\ \A c \in Category : Residual(weight, contrib, c) \in {0, 4}
      /\ {c \in Category : Residual(weight, contrib, c) = 4} = chosen
  BY SoundParts
<1>3. /\ views' = [views EXCEPT ![v].age = views[v].age + 1]
      /\ views[v] # NoRow /\ views[v].age < LifeTime
      /\ UNCHANGED <<published, status, events, contrib, weight, others, chosen>>
  BY DEF ViewAges
<1>4. views \in [View -> ViewRecord \cup {NoRow}]
  BY <1>1 DEF MemberTypeOK
<1>5. views[v] \in ViewRecord
  BY <1>3, <1>4
<1>6. /\ views'[v] \in ViewRecord /\ views'[v].issue = views[v].issue
      /\ views'[v].active = views[v].active
  <2>1. views[v].age + 1 \in 0 .. LifeTime
    BY <1>3, <1>5, MemberAssumption DEF ViewRecord
  <2>2. QED
    BY <1>3, <1>4, <1>5, <2>1 DEF ViewRecord
<1>7. \A w \in View \ {v} : views'[w] = views[w]
  BY <1>3, <1>4
<1>8. views' \in [View -> ViewRecord \cup {NoRow}]
  BY <1>3, <1>4, <1>6
<1>9. MemberTypeOK'
  BY <1>1, <1>3, <1>8 DEF MemberTypeOK
<1>10. Ledger(events', views', contrib')
  <2> SUFFICES ASSUME NEW j \in Issue
               PROVE  SumOver(Activity(views'), ViewsOf(views', j))
                         = SumOver(Activity(views), ViewsOf(views, j))
    BY <1>1, <1>3 DEF Ledger
  <2>1. views'[v] # NoRow
    BY <1>6, MemberAssumption
  <2>2. ViewsOf(views', j) = ViewsOf(views, j)
    BY <1>3, <1>6, <1>7, <2>1 DEF ViewsOf
  <2>3. \A w \in ViewsOf(views, j) : views'[w].active = views[w].active
    BY <1>6, <1>7 DEF ViewsOf
  <2>4. QED
    BY <1>4, <1>8, <2>2, <2>3, ActiveStays
<1>11. QED
  BY <1>2, <1>3, <1>9, <1>10, SoundParts

\* So does a report of the time a view has been active.
LEMMA UpdateKeeps ==
    ASSUME LearningSound, NEW v \in View, NEW ms \in 0 .. LifeTime, UpdateDetailView(v, ms)
    PROVE  LearningSound'
<1> DEFINE i == views[v].issue
           credited == detailDwellContribution(CreditedOf(i), views[v].active, ms)
           entry == [action |-> ActionScoreOf(i), credited |-> credited]
           delta == detailDwellScore(credited) - detailDwellScore(CreditedOf(i))
           active == SumOver(Activity(views), ViewsOf(views, i))
<1>1. MemberTypeOK /\ Ledger(events, views, contrib)
  BY SoundParts
<1>2. /\ \A c \in Category : Residual(weight, contrib, c) \in {0, 4}
      /\ {c \in Category : Residual(weight, contrib, c) = 4} = chosen
  BY SoundParts
<1>3. /\ views' = [views EXCEPT ![v].active = ms] /\ contrib' = [contrib EXCEPT ![i] = entry]
      /\ weight' = IF delta = 0 THEN weight
                   ELSE [weight EXCEPT ![CategoryOf[i]] = WeightIn(weight, CategoryOf[i]) + delta]
      /\ UNCHANGED <<published, status, events, others, chosen>>
  BY DEF UpdateDetailView, applyCategoryDelta
<1>4. views[v] # NoRow /\ views[v].active < ms
  <2>1. views[v] # NoRow /\ ms > views[v].active
    BY DEF UpdateDetailView
  <2>2. QED
    BY <2>1
<1>5. views \in [View -> ViewRecord \cup {NoRow}] /\ contrib \in [Issue -> Contribution \cup {NoRow}]
  BY <1>1 DEF MemberTypeOK
<1>6. views[v] \in ViewRecord /\ i \in Issue /\ views[v].active \in 0 .. LifeTime
  <2>1. views[v] \in ViewRecord
    BY <1>4, <1>5
  <2>2. QED
    BY <2>1 DEF ViewRecord
<1>7. FullDwell \in Nat /\ LifeTime \in Nat
  BY MemberAssumption
<1>8. active \in Int /\ CreditedOf(i) = IF FullDwell <= active THEN FullDwell ELSE active
  <2>1. active \in Int
    BY <1>5, ActiveIsInteger
  <2>2. CreditedOf(i) = Min({FullDwell, active})
    BY <1>1, <1>6, RowsOfAnIssue DEF Ledger
  <2> HIDE DEF active, i
  <2>3. QED
    BY <1>7, <2>1, <2>2, MinOfTwo
<1>9. CreditedOf(i) \in 0 .. FullDwell /\ ActionScoreOf(i) \in {4, 0, -6}
  BY <1>1, <1>6, RowsOfAnIssue
<1>10. credited = IF FullDwell <= CreditedOf(i) + (ms - views[v].active) THEN FullDwell
                  ELSE CreditedOf(i) + (ms - views[v].active)
  <2> HIDE DEF i
  <2>1. CreditedOf(i) \in Int /\ views[v].active \in Int /\ ms \in Int
    BY <1>6, <1>7, <1>9
  <2>2. QED
    BY <1>4, <2>1, DwellContribution
<1>11. /\ credited \in 0 .. FullDwell
       /\ credited = IF FullDwell <= active + (ms - views[v].active) THEN FullDwell
                     ELSE active + (ms - views[v].active)
  <2>1. PICK A \in Int, C \in Int, d \in Nat :
           A = active /\ C = CreditedOf(i) /\ d = ms - views[v].active /\ 0 <= C
    BY <1>4, <1>6, <1>7, <1>8, <1>9
  <2>2. C = IF FullDwell <= A THEN FullDwell ELSE A
    BY <1>8, <2>1
  <2>3. credited = IF FullDwell <= C + d THEN FullDwell ELSE C + d
    BY <1>10, <2>1
  <2> HIDE DEF credited, active, i
  <2>4. credited \in 0 .. FullDwell /\ credited = IF FullDwell <= A + d THEN FullDwell ELSE A + d
    BY <1>7, <2>1, <2>2, <2>3
  <2>5. QED
    BY <2>1, <2>4
<1>12. /\ entry \in Contribution /\ entry # NoRow
       /\ ActionIn(entry) = ActionScoreOf(i) /\ CreditIn(entry) = credited
       /\ ScoreOfRow(entry) = ActionScoreOf(i) + detailDwellScore(credited)
  <2> HIDE DEF credited
  <2>1. QED
    BY <1>9, <1>11, RowScore
<1>13. delta = ScoreOfRow(entry) - ScoreOfRow(contrib[i])
  <2>1. ScoreOfRow(contrib[i]) = ActionScoreOf(i) + detailDwellScore(CreditedOf(i))
    BY <1>1, <1>6, RowsOfAnIssue
  <2>2. \A x : detailDwellScore(x) \in Int
    BY DEF detailDwellScore
  <2> HIDE DEF entry, credited, i
  <2>3. PICK p \in Int, d \in Int, k \in Int :
           p = ActionScoreOf(i) /\ d = detailDwellScore(CreditedOf(i))
             /\ k = detailDwellScore(credited)
    BY <1>9, <2>2
  <2>4. ScoreOfRow(entry) = p + k /\ ScoreOfRow(contrib[i]) = p + d /\ delta = k - d
    BY <1>12, <2>1, <2>3
  <2> HIDE DEF delta
  <2>5. QED
    BY <2>4
<1> HIDE DEF entry, delta, credited, active, i
<1>14. /\ weight' \in [Category -> Int \cup {NoRow}]
      /\ \A c \in Category : Residual(weight', contrib', c) = Residual(weight, contrib, c)
  <2>1. WeightMoves(weight, contrib, i, entry, delta, weight', contrib')
    BY <1>1, <1>3, <1>6, <1>12, <1>13 DEF WeightMoves, MemberTypeOK
  <2>2. QED
    BY <2>1, ResidualStays
<1>15. MemberTypeOK'
  <2>1. contrib' \in [Issue -> Contribution \cup {NoRow}]
    BY <1>3, <1>5, <1>12
  <2>2. views' \in [View -> ViewRecord \cup {NoRow}]
    <3>1. [views[v] EXCEPT !.active = ms] \in ViewRecord
      BY <1>6 DEF ViewRecord
    <3>2. QED
      BY <1>3, <1>5, <3>1
  <2>3. QED
    BY <1>1, <1>3, <1>14, <2>1, <2>2 DEF MemberTypeOK
<1>16. Ledger(events', views', contrib')
  <2> SUFFICES ASSUME NEW j \in Issue
               PROVE  /\ ActionIn(contrib'[j]) = interactionActionScore(LastOf(events', j))
                      /\ CreditIn(contrib'[j]) =
                            Min({FullDwell, SumOver(Activity(views'), ViewsOf(views', j))})
    BY DEF Ledger
  <2>1. contrib'[j] = IF i = j THEN entry ELSE contrib[j]
    BY <1>3, <1>5
  <2>2. SumOver(Activity(views'), ViewsOf(views', j)) =
           IF i = j THEN SumOver(Activity(views), ViewsOf(views, j)) + (ms - views[v].active)
           ELSE SumOver(Activity(views), ViewsOf(views, j))
    <3>1. Advances(views, v, ms, views')
      BY <1>3, <1>4, <1>5 DEF Advances
    <3>2. QED
      BY <3>1, ActiveAdvances DEF i
  <2>3. /\ ActionIn(contrib[j]) = interactionActionScore(LastOf(events, j))
        /\ CreditIn(contrib[j]) = Min({FullDwell, SumOver(Activity(views), ViewsOf(views, j))})
    BY <1>1 DEF Ledger
  <2>4. ActionIn(contrib[j]) = ActionScoreOf(j)
    BY <1>1, RowsOfAnIssue
  <2>5. CASE i = j
    <3>1. SumOver(Activity(views'), ViewsOf(views', j)) = active + (ms - views[v].active)
      BY <2>2, <2>5 DEF active
    <3>2. active + (ms - views[v].active) \in Int
      BY <1>6, <1>7, <1>8
    <3>3. CreditIn(contrib'[j]) = credited /\ ActionIn(contrib'[j]) = ActionScoreOf(j)
      BY <1>12, <2>1, <2>5
    <3>4. Min({FullDwell, active + (ms - views[v].active)}) = credited
      BY <1>7, <1>11, <3>2, MinOfTwo
    <3>5. QED
      BY <1>3, <2>3, <2>4, <3>1, <3>3, <3>4
  <2>6. CASE i # j
    BY <1>3, <2>1, <2>2, <2>3, <2>6
  <2>7. QED
    BY <2>5, <2>6
<1>17. QED
  BY <1>2, <1>3, <1>14, <1>15, <1>16, SoundParts

\* So does onboarding, which replaces the choice and keeps what was learnt.
LEMMA OnboardingKeeps ==
    ASSUME LearningSound, NEW t \in SUBSET Category, NEW n \in SUBSET Entity,
           NEW g \in SUBSET Region, CompleteOnboarding(t, n, g)
    PROVE  LearningSound'
<1> DEFINE sum(c) == SumOver(Scores(contrib), OfCategory(c))
<1>1. MemberTypeOK /\ Ledger(events, views, contrib)
  BY SoundParts
<1>2. /\ weight' = replaceCategoryPreferences(t) /\ status' = "COMPLETED" /\ chosen' = t
      /\ others' = [entities |-> n, regions |-> g]
      /\ UNCHANGED <<published, events, views, contrib>>
  BY DEF CompleteOnboarding, replaceOtherPreferences
<1>3. contrib \in [Issue -> Contribution \cup {NoRow}]
  BY <1>1 DEF MemberTypeOK
<1>4. \A c \in Category : /\ ActionWeight(c) = sum(c) /\ sum(c) \in Int
                          /\ sum(c) # NoRow /\ sum(c) + 4 \in Int /\ sum(c) + 4 # NoRow
  <2>1. \A c \in Category : ActionWeight(c) = sum(c) /\ sum(c) \in Int
    BY <1>3, ActionWeightIsSum, WeightIsInteger
  <2> HIDE DEF sum
  <2>2. \A c \in Category : sum(c) + 4 \in Int
    BY <2>1
  <2>3. QED
    BY <2>1, <2>2, MemberAssumption
<1>5. \A c \in Category : weight'[c] = IF c \in t THEN sum(c) + 4
                                       ELSE IF HasResidualRow(weight, c) THEN sum(c) ELSE NoRow
  <2> HIDE DEF sum
  <2>1. QED
    BY <1>2, <1>4 DEF replaceCategoryPreferences, Selected
<1>6. DOMAIN weight' = Category /\ weight' = [c \in Category |-> weight'[c]]
  BY <1>2 DEF replaceCategoryPreferences
<1>7. weight' \in [Category -> Int \cup {NoRow}]
  <2> HIDE DEF sum
  <2>1. \A c \in Category : weight'[c] \in Int \cup {NoRow}
    BY <1>4, <1>5
  <2>2. QED
    BY <1>6, <2>1
<1>8. MemberTypeOK'
  BY <1>1, <1>2, <1>7 DEF MemberTypeOK, Preferences
<1>9. \A c \in Category :
        \/ c \in t /\ WeightIn(weight', c) = sum(c) + 4
        \/ c \notin t /\ WeightIn(weight', c) = sum(c)
        \/ /\ c \notin t /\ WeightIn(weight', c) = 0
           /\ \A i \in OfCategory(c) : contrib[i] = NoRow
  <2> SUFFICES ASSUME NEW c \in Category
               PROVE  \/ c \in t /\ WeightIn(weight', c) = sum(c) + 4
                      \/ c \notin t /\ WeightIn(weight', c) = sum(c)
                      \/ /\ c \notin t /\ WeightIn(weight', c) = 0
                         /\ \A i \in OfCategory(c) : contrib[i] = NoRow
    OBVIOUS
  <2> HIDE DEF sum
  <2>1. CASE c \in t
    BY <1>4, <1>5, <2>1 DEF WeightIn
  <2>2. CASE c \notin t /\ HasResidualRow(weight, c)
    BY <1>4, <1>5, <2>2 DEF WeightIn
  <2>3. CASE c \notin t /\ ~HasResidualRow(weight, c)
    <3>1. weight'[c] = NoRow
      BY <1>5, <2>3
    <3>2. \A i \in OfCategory(c) : contrib[i] = NoRow
      BY <2>3 DEF HasResidualRow, OfCategory
    <3>3. QED
      BY <2>3, <3>1, <3>2 DEF WeightIn
  <2>4. QED
    BY <2>1, <2>2, <2>3
<1>10. \A c \in Category : Residual(weight', contrib', c) = IF c \in t THEN 4 ELSE 0
  <2>1. PICK w1 : w1 = weight'
    OBVIOUS
  <2>2. \A c \in Category : Residual(w1, contrib, c) = IF c \in t THEN 4 ELSE 0
    BY <1>3, <1>9, <2>1, ResidualIsChosen
  <2>3. QED
    BY <1>2, <2>1, <2>2
<1>11. {c \in Category : Residual(weight', contrib', c) = 4} = chosen'
  BY <1>2, <1>10
<1>12. Ledger(events', views', contrib')
  BY <1>1, <1>2
<1>13. QED
  BY <1>8, <1>10, <1>11, <1>12, SoundParts

\* A member without rows has learnt nothing and chosen nothing.
LEMMA NothingLearnt ==
    LET vs == [v \in View |-> NoRow]  rows == [i \in Issue |-> NoRow]
        w == [c \in Category |-> NoRow]
    IN  /\ vs \in [View -> ViewRecord \cup {NoRow}]
        /\ rows \in [Issue -> Contribution \cup {NoRow}]
        /\ w \in [Category -> Int \cup {NoRow}]
        /\ \A c \in Category : Residual(w, rows, c) = 0
        /\ Ledger(<<>>, vs, rows)
<1> DEFINE vs == [v \in View |-> NoRow]
           rows == [i \in Issue |-> NoRow]
           w == [c \in Category |-> NoRow]
<1>1. /\ vs \in [View -> ViewRecord \cup {NoRow}]
      /\ rows \in [Issue -> Contribution \cup {NoRow}]
      /\ w \in [Category -> Int \cup {NoRow}]
  OBVIOUS
<1>2. \A c \in Category : Residual(w, rows, c) = 0
  <2>1. \A c \in Category : WeightIn(w, c) = 0 /\ \A i \in OfCategory(c) : rows[i] = NoRow
    BY CategoryIsFinite DEF WeightIn
  <2> HIDE DEF w, rows
  <2>2. PICK none \in SUBSET Category : none = {}
    OBVIOUS
  <2>3. \A c \in Category : Residual(w, rows, c) = IF c \in none THEN 4 ELSE 0
    BY <1>1, <2>1, <2>2, ResidualIsChosen
  <2>4. QED
    BY <2>2, <2>3
<1>3. Ledger(<<>>, vs, rows)
  <2> SUFFICES ASSUME NEW i \in Issue
               PROVE  /\ ActionIn(rows[i]) = interactionActionScore(LastOf(<<>>, i))
                      /\ CreditIn(rows[i]) = Min({FullDwell, SumOver(Activity(vs), ViewsOf(vs, i))})
    BY DEF Ledger
  <2>1. ActionIn(rows[i]) = 0 /\ CreditIn(rows[i]) = 0
    BY DEF ActionIn, CreditIn
  <2>2. LastOf(<<>>, i) = "NONE" /\ interactionActionScore("NONE") = 0
    BY DEF LastOf, EventsOf, interactionActionScore
  <2>3. ViewsOf(vs, i) = {}
    BY DEF ViewsOf
  <2>4. SumOver(Activity(vs), {}) = 0
    BY SumEmpty
  <2>5. Min({FullDwell, 0}) = 0
    <3>1. FullDwell \in Int /\ ~ (FullDwell <= 0)
      BY MemberAssumption
    <3>2. QED
      BY <3>1, MinOfTwo
  <2>6. QED
    BY <2>1, <2>2, <2>3, <2>4, <2>5
<1>4. QED
  BY <1>1, <1>2, <1>3

\* So does the deletion of the account, which takes all of it.
LEMMA DeletionKeeps ==
    ASSUME LearningSound, DeleteAccount
    PROVE  LearningSound'
<1>1. MemberTypeOK
  BY SoundParts
<1>2. /\ status' = "GONE" /\ events' = <<>> /\ chosen' = {} /\ published' = published
      /\ views' = [v \in View |-> NoRow] /\ contrib' = [i \in Issue |-> NoRow]
      /\ weight' = [c \in Category |-> NoRow] /\ others' = [entities |-> {}, regions |-> {}]
  BY DEF DeleteAccount
<1>3. MemberTypeOK'
  BY <1>1, <1>2 DEF MemberTypeOK, Preferences
<1>4. \A c \in Category : Residual(weight', contrib', c) = 0
  BY <1>2, NothingLearnt
<1>5. {c \in Category : Residual(weight', contrib', c) = 4} = chosen'
  BY <1>2, <1>4
<1>6. Ledger(events', views', contrib')
  BY <1>2, NothingLearnt
<1>7. QED
  BY <1>3, <1>4, <1>5, <1>6, SoundParts

\* The operations that leave the ledger and the choice alone.
LEMMA OthersKeep ==
    ASSUME LearningSound, MemberTypeOK',
           UNCHANGED <<events, views, contrib, weight, chosen>>
    PROVE  LearningSound'
BY SoundParts

\* What is learnt and what was chosen stay apart in the weights, for any number
\* of issues, views, categories and events: the contribution of every issue is
\* what its events and views say, and the choice is what remains.
THEOREM LearningSoundCorrect == MemberSpec => []LearningSound
<1>1. MemberInit => LearningSound
  <2> SUFFICES ASSUME MemberInit PROVE LearningSound
    OBVIOUS
  <2>1. /\ status = "PENDING" /\ events = <<>> /\ chosen = {} /\ published = Issue
        /\ views = [v \in View |-> NoRow] /\ contrib = [i \in Issue |-> NoRow]
        /\ weight = [c \in Category |-> NoRow] /\ others = [entities |-> {}, regions |-> {}]
    BY DEF MemberInit
  <2>2. MemberTypeOK
    BY <2>1 DEF MemberTypeOK, Preferences
  <2>3. \A c \in Category : Residual(weight, contrib, c) = 0
    BY <2>1, NothingLearnt
  <2>4. {c \in Category : Residual(weight, contrib, c) = 4} = chosen
    BY <2>1, <2>3
  <2>5. Ledger(events, views, contrib)
    BY <2>1, NothingLearnt
  <2>6. QED
    BY <2>2, <2>3, <2>4, <2>5, SoundParts
<1>2. LearningSound /\ [MemberNext]_memberVars => LearningSound'
  <2> SUFFICES ASSUME LearningSound, [MemberNext]_memberVars PROVE LearningSound'
    OBVIOUS
  <2>1. MemberTypeOK
    BY DEF LearningSound
  <2>2. CASE \E e \in EventId, i \in Issue, s \in Session, a \in Action :
                RecordInteraction(e, i, s, a)
    BY <2>2, RecordKeeps
  <2>3. CASE \E v \in View, i \in Issue, s \in Session : StartDetailView(v, i, s)
    BY <2>3, StartKeeps
  <2>4. CASE \E v \in View, ms \in 0..LifeTime : UpdateDetailView(v, ms)
    BY <2>4, UpdateKeeps
  <2>5. CASE \E v \in View : ViewAges(v)
    BY <2>5, AgingKeeps
  <2>6. CASE \E t \in SUBSET Category, n \in SUBSET Entity, g \in SUBSET Region :
                CompleteOnboarding(t, n, g)
    BY <2>6, OnboardingKeeps
  <2>7. CASE SkipOnboarding
    <3>1. MemberTypeOK' /\ UNCHANGED <<events, views, contrib, weight, chosen>>
      BY <2>1, <2>7 DEF SkipOnboarding, MemberTypeOK
    <3>2. QED
      BY <3>1, OthersKeep
  <2>8. CASE \E i \in Issue : WithdrawIssue(i)
    <3>1. MemberTypeOK' /\ UNCHANGED <<events, views, contrib, weight, chosen>>
      BY <2>1, <2>8 DEF WithdrawIssue, MemberTypeOK, ledger
    <3>2. QED
      BY <3>1, OthersKeep
  <2>9. CASE DeleteAccount
    BY <2>9, DeletionKeeps
  <2>10. CASE UNCHANGED memberVars
    <3>1. MemberTypeOK' /\ UNCHANGED <<events, views, contrib, weight, chosen>>
      BY <2>1, <2>10 DEF memberVars, MemberTypeOK
    <3>2. QED
      BY <3>1, OthersKeep
  <2>11. QED
    BY <2>2, <2>3, <2>4, <2>5, <2>6, <2>7, <2>8, <2>9, <2>10 DEF MemberNext
<1>3. QED
  BY <1>1, <1>2, PTL DEF MemberSpec

-----------------------------------------------------------------------------
(* The migration: sums over what is renamed.                               *)

\* A sum does not change when the elements are renamed.
LEMMA SumRenamed ==
    ASSUME NEW S, IsFiniteSet(S), NEW h, \A x, y \in S : h[x] = h[y] => x = y,
           NEW T, T = {h[x] : x \in S},
           NEW f, NEW e, \A x \in S : f[x] \in Int /\ e[h[x]] = f[x]
    PROVE  SumOver(e, T) = SumOver(f, S)
<1> DEFINE To(s) == {h[x] : x \in s}
           bad == {n \in Nat : \E s \in SUBSET S :
                                  Cardinality(s) = n /\ SumOver(e, To(s)) # SumOver(f, s)}
<1>1. \A s \in SUBSET S : IsFiniteSet(s) /\ Cardinality(s) \in Nat
  BY FS_Subset, FS_CardinalityType
<1>2. \A s \in SUBSET S : IsFiniteSet(To(s)) /\ \A z \in To(s) : e[z] \in Int
  <2> SUFFICES ASSUME NEW s \in SUBSET S PROVE IsFiniteSet(To(s)) /\ \A z \in To(s) : e[z] \in Int
    OBVIOUS
  <2>1. [x \in s |-> h[x]] \in Surjection(s, To(s))
    BY DEF Surjection
  <2>2. IsFiniteSet(To(s))
    BY <1>1, <2>1, FS_Surjection
  <2>3. QED
    BY <2>2
<1>3. bad = {}
  <2> SUFFICES ASSUME bad # {} PROVE FALSE
    OBVIOUS
  <2>1. PICK n \in bad : \A m \in bad : n <= m
    BY LeastNumber
  <2>2. PICK s \in SUBSET S : Cardinality(s) = n /\ SumOver(e, To(s)) # SumOver(f, s)
    BY <2>1
  <2>3. s # {}
    <3>1. s = {} => To(s) = {}
      OBVIOUS
    <3>2. QED
      BY <2>2, <3>1, SumEmpty
  <2>4. PICK x \in s : TRUE
    BY <2>3
  <2>5. To(s) \ {h[x]} = To(s \ {x}) /\ h[x] \in To(s) /\ s \ {x} \in SUBSET S
    BY <2>4
  <2>6. SumOver(e, To(s \ {x})) = SumOver(f, s \ {x})
    <3>1. Cardinality(s \ {x}) \in Nat /\ Cardinality(s) = Cardinality(s \ {x}) + 1
      BY <1>1, <2>4, TakenOut
    <3>2. ~ (n <= Cardinality(s \ {x}))
      BY <2>2, <3>1
    <3>3. Cardinality(s \ {x}) \notin bad
      BY <2>1, <3>2
    <3> HIDE DEF To
    <3>4. QED
      BY <2>5, <3>1, <3>3
  <2> HIDE DEF To
  <2>7. SumOver(e, To(s)) = e[h[x]] + SumOver(e, To(s \ {x}))
    <3>1. IsFiniteSet(To(s)) /\ \A z \in To(s) : e[z] \in Int
      BY <1>2
    <3>2. SumOver(e, To(s)) = e[h[x]] + SumOver(e, To(s) \ {h[x]})
      BY <2>5, <3>1, SumRemove
    <3>3. QED
      BY <2>5, <3>2
  <2>8. SumOver(f, s) = f[x] + SumOver(f, s \ {x})
    <3>1. \A y \in s : f[y] \in Int
      OBVIOUS
    <3>2. QED
      BY <1>1, <2>4, <3>1, SumRemove
  <2>9. e[h[x]] = f[x]
    BY <2>4
  <2>10. QED
    BY <2>2, <2>6, <2>7, <2>8, <2>9
<1>4. QED
  BY <1>1, <1>3

\* The sum over one element is its value.
LEMMA SumOfOne ==
    ASSUME NEW x, NEW f, f[x] \in Int
    PROVE  SumOver(f, {x}) = f[x]
<1>1. IsFiniteSet({x}) /\ \A y \in {x} : f[y] \in Int
  BY FS_Singleton
<1>2. SumOver(f, {x}) = f[x] + SumOver(f, {x} \ {x})
  BY <1>1, SumRemove
<1>3. SumOver(f, {x} \ {x}) = 0
  BY SumEmpty
<1>4. QED
  BY <1>2, <1>3

-----------------------------------------------------------------------------
(* The migration: what a row says its category is.                         *)

\* What the tables of earlier versions hold.
PrefRow(p) == p = [id |-> p.id, user |-> p.user, cat |-> p.cat, code |-> p.code, weight |-> p.weight]
IssueRow(r) == r = [cat |-> r.cat, code |-> r.code]

PrefRows(prefs) ==
    /\ IsFiniteSet(prefs)
    /\ \A p \in prefs : PrefRow(p) /\ p.id \in Nat /\ p.weight \in Nat
    /\ \A p, q \in prefs : p.id = q.id => p = q

Legacy(d) ==
    /\ d.hasId \in BOOLEAN
    /\ \A m \in d.master : m.id \in Nat /\ m.since \in Nat
    /\ \A m, n \in d.master : m.id = n.id => m = n
    /\ ~d.hasId => \A m, n \in d.master : m.code = n.code => m = n
    /\ \A a \in Labelled : IssueRow(d.issues[a])
    /\ PrefRows(d.prefs)

\* A code that is mapped is a code; none stays none.
LEMMA CodesMap ==
    /\ MapCode(Absent) = Absent
    /\ \A code : MapCode(code) = Absent => code = Absent
    /\ \A code \in Canonical : MapCode(code) = code
    /\ Absent \notin Canonical
<1>1. Absent \notin Canonical /\ Absent \notin DOMAIN CodeMap
  BY MigrationAssumption
<1>2. \A code \in DOMAIN CodeMap : CodeMap[code] # Absent
  BY <1>1, MigrationAssumption
<1>3. QED
  BY <1>1, <1>2, MigrationAssumption DEF MapCode


\* A row that is moved refers to a code only, and is the same row otherwise.
LEMMA MovedRow ==
    ASSUME NEW d, NEW entry
    PROVE  /\ IssueRow(entry) =>
                /\ Moved(d, entry) = [cat |-> Absent, code |-> Moved(d, entry).code]
                /\ Moved(d, entry).code = IF MapId(d, entry.cat) # Absent THEN MapId(d, entry.cat)
                                        ELSE MapCode(entry.code)
           /\ PrefRow(entry) =>
                /\ Moved(d, entry) = [id |-> entry.id, user |-> entry.user, cat |-> Absent,
                                    code |-> Moved(d, entry).code, weight |-> entry.weight]
                /\ Moved(d, entry).code = IF MapId(d, entry.cat) # Absent THEN MapId(d, entry.cat)
                                        ELSE MapCode(entry.code)
<1> DEFINE code == IF MapId(d, entry.cat) # Absent THEN MapId(d, entry.cat) ELSE MapCode(entry.code)
<1>1. Moved(d, entry) = [entry EXCEPT !.cat = Absent, !.code = code]
  BY DEF Moved
<1> HIDE DEF code
<1>2. ASSUME IssueRow(entry)
      PROVE  Moved(d, entry) = [cat |-> Absent, code |-> code]
  BY <1>1, <1>2 DEF IssueRow
<1>3. ASSUME PrefRow(entry)
      PROVE  Moved(d, entry) = [id |-> entry.id, user |-> entry.user, cat |-> Absent,
                              code |-> code, weight |-> entry.weight]
  BY <1>1, <1>3 DEF PrefRow
<1>4. QED
  BY <1>2, <1>3 DEF code

\* The id of a row of the master table leads to that row.
LEMMA IdLeads ==
    ASSUME NEW d, Legacy(d), NEW m \in d.master
    PROVE  d.hasId => MapId(d, m.id) = CanonOf(m)
<1>1. \A n \in d.master : n.id = m.id => n = m
  BY DEF Legacy
<1>2. (CHOOSE n \in d.master : n.id = m.id) = m
  BY <1>1
<1>3. QED
  BY <1>2 DEF MapId

\* A row says a category by its code and by its id: it is consistent when that is
\* one category, and then it is moved to it.
LEMMA MovedMeans ==
    ASSUME NEW d, Legacy(d), MasterApproved(d), NEW entry, IssueRow(entry) \/ PrefRow(entry)
    PROVE  /\ Consistent(d, entry) => /\ Meanings(d, entry) = {Moved(d, entry).code}
                                    /\ Moved(d, entry).code \in Canonical
           /\ ~Consistent(d, entry) =>
                ~ (Cardinality(Meanings(d, entry)) = 1 /\ Meanings(d, entry) \subseteq Canonical)
<1> DEFINE byId == MapId(d, entry.cat)
           code == MapCode(entry.code)
           target == Moved(d, entry).code
<1>1. target = IF byId # Absent THEN byId ELSE code
  BY MovedRow
<1>2. Consistent(d, entry) <=> (code # Absent /\ byId # Absent => code = byId) /\ target \in Canonical
  BY DEF Consistent
<1>3. Meanings(d, entry) = {byId, code} \ {Absent}
  <2>1. CASE d.hasId /\ \E m \in d.master : m.id = entry.cat
    <3>1. PICK m \in d.master : m.id = entry.cat
      BY <2>1
    <3>2. byId = CanonOf(m)
      BY <2>1, <3>1, IdLeads
    <3>3. {n \in d.master : d.hasId /\ n.id = entry.cat} = {m}
      BY <2>1, <3>1 DEF Legacy
    <3> HIDE DEF byId, code
    <3>4. QED
      BY <3>2, <3>3 DEF Meanings, code
  <2>2. CASE ~ (d.hasId /\ \E m \in d.master : m.id = entry.cat)
    <3>1. byId = Absent
      BY <2>2 DEF MapId
    <3>2. {n \in d.master : d.hasId /\ n.id = entry.cat} = {}
      BY <2>2
    <3> HIDE DEF byId, code
    <3>3. QED
      BY <3>1, <3>2 DEF Meanings, code
  <2>3. QED
    BY <2>1, <2>2
<1> HIDE DEF byId, code, target
<1>4. Absent \notin Canonical
  BY CodesMap
<1>5. ASSUME Consistent(d, entry)
      PROVE  Meanings(d, entry) = {target} /\ target \in Canonical
  BY <1>1, <1>2, <1>3, <1>4, <1>5
<1>6. ASSUME Cardinality(Meanings(d, entry)) = 1, Meanings(d, entry) \subseteq Canonical
      PROVE  Consistent(d, entry)
  <2>1. IsFiniteSet(Meanings(d, entry))
    <3>1. IsFiniteSet({byId}) /\ IsFiniteSet({byId} \cup {code}) /\ {byId, code} = {byId} \cup {code}
      BY FS_Singleton, FS_AddElement
    <3>2. QED
      BY <1>3, <3>1, FS_Subset
  <2>2. PICK c : Meanings(d, entry) = {c}
    BY <1>6, <2>1, FS_Singleton
  <2>3. c \in Canonical
    BY <1>6, <2>2
  <2>4. code # Absent /\ byId # Absent => code = byId
    BY <1>3, <2>2
  <2>5. target = c
    BY <1>1, <1>3, <2>2
  <2>6. QED
    BY <1>2, <2>3, <2>4, <2>5
<1>7. QED
  BY <1>5, <1>6 DEF target

-----------------------------------------------------------------------------
(* The migration: the master table.                                        *)

\* Of two rows for a code, one stays before the other.
LEMMA OneStays ==
    ASSUME NEW d, Legacy(d), NEW m \in KeptMaster(d), NEW n \in KeptMaster(d),
           CanonOf(m) = CanonOf(n)
    PROVE  m = n
<1>1. m \in d.master /\ n \in d.master /\ ~StaysBefore(m, n) /\ ~StaysBefore(n, m)
  BY DEF KeptMaster
<1>2. Place(m) \in Nat /\ Place(n) \in Nat /\ m.id \in Nat /\ n.id \in Nat
  BY <1>1 DEF Place, Legacy
<1>3. m.id = n.id
  BY <1>1, <1>2 DEF StaysBefore
<1>4. QED
  BY <1>1, <1>3 DEF Legacy

\* A canonical code is mapped to itself, and any other to a canonical one or none.
LEMMA CanonIsCode ==
    /\ \A m : CanonOf(m) \in Canonical \cup {Absent}
    /\ \A m : m.code \in Canonical => CanonOf(m) = m.code
BY MigrationAssumption DEF CanonOf

\* After the migration the table has one row for each code of the catalog.
LEMMA MasterConverted ==
    ASSUME NEW d, Legacy(d), MasterApproved(d)
    PROVE  LET rows == Seeded(Recoded(d)) IN
           /\ {m.code : m \in rows} = Canonical
           /\ \A m, n \in rows : m.code = n.code => m = n
           /\ \A m \in rows : m = [id |-> Absent, code |-> m.code, since |-> m.since]
           /\ \A m \in rows : m.since # Absent =>
                 \E n \in d.master : n.since = m.since /\ CanonOf(n) = m.code
<1> DEFINE kept == Recoded(d)
           rows == Seeded(kept)
<1>1. \A m \in kept : /\ m = [id |-> Absent, code |-> m.code, since |-> m.since]
                      /\ m.code \in Canonical
                      /\ \E n \in d.master : n.since = m.since /\ CanonOf(n) = m.code
  <2>1. CASE d.hasId
    <3>1. \A m \in kept : \E n \in KeptMaster(d) :
             m = [id |-> Absent, code |-> CanonOf(n), since |-> n.since]
      BY <2>1 DEF Recoded
    <3>2. \A n \in KeptMaster(d) : n \in d.master /\ CanonOf(n) \in Canonical
      BY <2>1, CanonIsCode DEF KeptMaster, MasterApproved
    <3> HIDE DEF kept
    <3>3. QED
      BY <3>1, <3>2
  <2>2. CASE ~d.hasId
    <3>1. \A m \in kept : \E n \in d.master :
             m = [id |-> Absent, code |-> n.code, since |-> n.since]
      BY <2>2 DEF Recoded
    <3>2. \A n \in d.master : n.code \in Canonical /\ CanonOf(n) = n.code
      BY <2>2, CanonIsCode DEF MasterApproved
    <3> HIDE DEF kept
    <3>3. QED
      BY <3>1, <3>2
  <2>3. QED
    BY <2>1, <2>2
<1>2. \A m, n \in kept : m.code = n.code => m = n
  <2> SUFFICES ASSUME NEW m \in kept, NEW n \in kept, m.code = n.code PROVE m = n
    OBVIOUS
  <2>1. CASE d.hasId
    <3>1. PICK p \in KeptMaster(d) : m = [id |-> Absent, code |-> CanonOf(p), since |-> p.since]
      BY <2>1 DEF Recoded
    <3>2. PICK q \in KeptMaster(d) : n = [id |-> Absent, code |-> CanonOf(q), since |-> q.since]
      BY <2>1 DEF Recoded
    <3>3. p = q
      BY <3>1, <3>2, OneStays
    <3>4. QED
      BY <3>1, <3>2, <3>3
  <2>2. CASE ~d.hasId
    <3>1. PICK p \in d.master : m = [id |-> Absent, code |-> p.code, since |-> p.since]
      BY <2>2 DEF Recoded
    <3>2. PICK q \in d.master : n = [id |-> Absent, code |-> q.code, since |-> q.since]
      BY <2>2 DEF Recoded
    <3>3. p = q
      BY <2>2, <3>1, <3>2 DEF Legacy
    <3>4. QED
      BY <3>1, <3>2, <3>3
  <2>3. QED
    BY <2>1, <2>2
<1> DEFINE codes == {m.code : m \in kept}
           seeds == {[id |-> Absent, code |-> c, since |-> Absent] : c \in Canonical \ codes}
<1>3. rows = kept \cup seeds
  BY DEF Seeded
<1>4. \A m \in seeds : /\ m = [id |-> Absent, code |-> m.code, since |-> m.since]
                       /\ m.code \in Canonical \ codes /\ m.since = Absent
  OBVIOUS
<1>5. \A c \in Canonical \ codes : \E m \in seeds : m.code = c
  <2> SUFFICES ASSUME NEW c \in Canonical \ codes PROVE \E m \in seeds : m.code = c
    OBVIOUS
  <2> WITNESS [id |-> Absent, code |-> c, since |-> Absent] \in seeds
  <2>1. QED
    OBVIOUS
<1>6. \A c \in codes : c \in Canonical /\ \E m \in kept : m.code = c
  BY <1>1
<1>7. \A m \in kept : m.code \in codes
  OBVIOUS
<1> HIDE DEF kept, rows, codes, seeds
<1>8. {m.code : m \in rows} = Canonical
  <2>1. \A m \in rows : m.code \in Canonical
    BY <1>1, <1>3, <1>4
  <2>2. \A c \in Canonical : \E m \in rows : m.code = c
    BY <1>3, <1>5, <1>6
  <2>3. QED
    BY <2>1, <2>2
<1>9. \A m, n \in rows : m.code = n.code => m = n
  <2> SUFFICES ASSUME NEW m \in rows, NEW n \in rows, m.code = n.code PROVE m = n
    OBVIOUS
  <2>1. m \in kept <=> n \in kept
    BY <1>3, <1>4, <1>7
  <2>2. CASE m \in kept
    BY <1>2, <2>1, <2>2
  <2>3. CASE m \in seeds /\ n \in seeds
    BY <1>4, <2>3
  <2>4. QED
    BY <1>3, <2>1, <2>2, <2>3
<1>10. \A m \in rows : m = [id |-> Absent, code |-> m.code, since |-> m.since]
  BY <1>1, <1>3, <1>4
<1>11. \A m \in rows : m.since # Absent =>
          \E n \in d.master : n.since = m.since /\ CanonOf(n) = m.code
  BY <1>1, <1>3, <1>4
<1>12. QED
  BY <1>8, <1>9, <1>10, <1>11 DEF rows, kept

\* As many rows as codes: the primary key that is added holds.
LEMMA MasterKey ==
    ASSUME NEW rows, {m.code : m \in rows} = Canonical,
           \A m, n \in rows : m.code = n.code => m = n
    PROVE  Cardinality({m.code : m \in rows}) = Cardinality(rows)
<1> DEFINE entry == [c \in Canonical |-> CHOOSE m \in rows : m.code = c]
<1>1. \A c \in Canonical : entry[c] \in rows /\ entry[c].code = c
  OBVIOUS
<1>2. \A m \in rows : m.code \in Canonical
  OBVIOUS
<1>3. entry \in [Canonical -> rows]
  BY <1>1
<1> HIDE DEF entry
<1>4. \A m \in rows : entry[m.code] = m
  BY <1>1, <1>2
<1>5. entry \in Bijection(Canonical, rows)
  BY <1>1, <1>2, <1>3, <1>4 DEF Bijection, Injection, Surjection, IsInjective
<1>6. Cardinality(rows) = Cardinality(Canonical)
  BY <1>5, FS_Bijection, MigrationAssumption DEF ExistsBijection
<1>7. QED
  BY <1>6

-----------------------------------------------------------------------------
(* The migration: duplicates of a user and a code are merged.              *)

Weights(prefs) == [p \in prefs |-> p.weight]
Group(prefs, u, c) == {p \in prefs : p.user = u /\ p.code = c}

\* The weight of rows merged, and the merge itself, as sums.
LEMMA WeightOfIsSum ==
    /\ \A prefs : WeightOf(prefs) = SumOver(Weights(prefs), prefs)
    /\ \A prefs : Merged(prefs) = {[p EXCEPT !.weight = WeightOf(Alike(p, prefs))] :
                                      p \in Firsts(prefs)}
<1>1. \A prefs : WeightOf(prefs) = SumOver(Weights(prefs), prefs)
  BY ZenonT(40) DEF WeightOf, MapThenSumSet, MapThenFoldSet, SumOver, SumsUp, OneOf, Weights
<1>2. \A prefs : Merged(prefs) = {[p EXCEPT !.weight = WeightOf(Alike(p, prefs))] :
                                      p \in Firsts(prefs)}
  BY DEF Merged, WeightOf
<1>3. QED
  BY <1>1, <1>2

\* The weight of rows is a number.
LEMMA WeightIsNumber ==
    ASSUME NEW prefs, PrefRows(prefs), NEW S \in SUBSET prefs
    PROVE  /\ IsFiniteSet(S) /\ WeightOf(S) \in Int
           /\ \A p \in S : Weights(S)[p] = p.weight /\ Weights(S)[p] \in Int
<1>1. IsFiniteSet(S)
  BY FS_Subset DEF PrefRows
<1>2. \A p \in S : Weights(S)[p] = p.weight /\ Weights(S)[p] \in Int
  BY DEF Weights, PrefRows
<1>3. SumOver(Weights(S), S) \in Int
  BY <1>1, <1>2, SumIsInteger
<1>4. QED
  BY <1>1, <1>2, <1>3, WeightOfIsSum

\* Rows that are alike are a group, which has one first row.
LEMMA GroupHasFirst ==
    ASSUME NEW prefs, PrefRows(prefs), NEW u, NEW c, Group(prefs, u, c) # {}
    PROVE  \E p \in Group(prefs, u, c) :
             /\ p \in Firsts(prefs)
             /\ \A q \in Firsts(prefs) : q \in Group(prefs, u, c) => q = p
<1> DEFINE G == Group(prefs, u, c)
           ids == {p.id : p \in G}
<1>1. ids \in SUBSET Nat /\ ids # {}
  BY DEF PrefRows, Group
<1>2. PICK n \in ids : \A m \in ids : n <= m
  BY <1>1, LeastNumber
<1>3. PICK p \in G : p.id = n
  BY <1>2
<1>4. \A q \in G : Alike(q, prefs) = G /\ q \in prefs /\ q.id \in Nat
  BY DEF Alike, Group, PrefRows
<1>5. p \in Firsts(prefs)
  BY <1>2, <1>3, <1>4 DEF Firsts
<1>6. \A q \in Firsts(prefs) : q \in G => q = p
  <2> SUFFICES ASSUME NEW q \in G, q \in Firsts(prefs) PROVE q = p
    OBVIOUS
  <2> HIDE DEF G
  <2>1. q.id <= p.id /\ p.id <= q.id
    BY <1>3, <1>4, <1>5 DEF Firsts
  <2>2. q.id = p.id
    BY <1>4, <2>1
  <2>3. QED
    BY <1>4, <2>2 DEF PrefRows
<1>7. QED
  BY <1>5, <1>6

\* What is merged is a group in one row, that of the first with all the weight.
LEMMA MergedGroup ==
    ASSUME NEW prefs, PrefRows(prefs), NEW u, NEW c
    PROVE  /\ Group(prefs, u, c) = {} => Group(Merged(prefs), u, c) = {}
           /\ Group(prefs, u, c) # {} =>
                \E p \in Group(prefs, u, c) :
                   Group(Merged(prefs), u, c) =
                      {[id |-> p.id, user |-> u, cat |-> p.cat, code |-> c,
                        weight |-> WeightOf(Group(prefs, u, c))]}
<1> DEFINE G == Group(prefs, u, c)
           merge(p) == [p EXCEPT !.weight = WeightOf(Alike(p, prefs))]
<1>1. \A p \in Firsts(prefs) :
         /\ p \in prefs /\ PrefRow(p)
         /\ merge(p) = [id |-> p.id, user |-> p.user, cat |-> p.cat, code |-> p.code,
                        weight |-> WeightOf(Alike(p, prefs))]
  BY DEF Firsts, PrefRows, PrefRow
<1>2. Merged(prefs) = {merge(p) : p \in Firsts(prefs)}
  BY WeightOfIsSum
<1>3. \A p \in G : Alike(p, prefs) = G /\ p.user = u /\ p.code = c
  BY DEF Alike, Group
<1>4. \A p \in Firsts(prefs) : merge(p).user = p.user /\ merge(p).code = p.code
  BY <1>1
<1> HIDE DEF merge
<1>5. Group(Merged(prefs), u, c) = {merge(p) : p \in G \cap Firsts(prefs)}
  BY <1>1, <1>2, <1>4 DEF Group
<1>6. CASE G = {}
  BY <1>5, <1>6
<1>7. CASE G # {}
  <2>1. PICK p \in G : p \in Firsts(prefs) /\ \A q \in Firsts(prefs) : q \in G => q = p
    BY <1>7, GroupHasFirst
  <2>2. Group(Merged(prefs), u, c) = {merge(p)}
    BY <1>5, <2>1
  <2>3. merge(p) = [id |-> p.id, user |-> u, cat |-> p.cat, code |-> c, weight |-> WeightOf(G)]
    BY <1>1, <1>3, <2>1
  <2> HIDE DEF G
  <2>4. QED
    BY <2>1, <2>2, <2>3 DEF G
<1>8. QED
  BY <1>6, <1>7

\* Merged rows come from groups: each is the only one of its user and code.
LEMMA MergedRows ==
    ASSUME NEW prefs, PrefRows(prefs), NEW p \in Merged(prefs)
    PROVE  /\ Alike(p, Merged(prefs)) = {p}
           /\ PrefRow(p) /\ p.id \in Nat /\ p.weight \in Int
           /\ \E q \in prefs : p.code = q.code /\ p.cat = q.cat
<1> DEFINE G == Group(prefs, p.user, p.code)
           N == Group(Merged(prefs), p.user, p.code)
<1>1. p \in N /\ Alike(p, Merged(prefs)) = N
  BY DEF Group, Alike
<1>2. G # {}
  BY <1>1, MergedGroup
<1>3. PICK q \in G : N = {[id |-> q.id, user |-> p.user, cat |-> q.cat, code |-> p.code,
                           weight |-> WeightOf(G)]}
  BY <1>2, MergedGroup
<1>4. q \in prefs /\ q.id \in Nat /\ q.code = p.code
  BY DEF Group, PrefRows
<1>5. WeightOf(G) \in Int
  <2>1. G \in SUBSET prefs
    BY DEF Group
  <2>2. QED
    BY <2>1, WeightIsNumber
<1> HIDE DEF N, G
<1>6. p = [id |-> q.id, user |-> p.user, cat |-> q.cat, code |-> p.code, weight |-> WeightOf(G)]
  BY <1>1, <1>3
<1>7. p.id = q.id /\ p.cat = q.cat /\ p.weight = WeightOf(G)
  BY <1>6
<1>8. PrefRow(p)
  BY <1>6, <1>7 DEF PrefRow
<1>9. QED
  BY <1>1, <1>3, <1>4, <1>5, <1>6, <1>7, <1>8

-----------------------------------------------------------------------------
(* The migration: what it leaves.                                          *)

Was(d, u, c) == {p \in d.prefs : p.user = u /\ Meaning(d, p) = c}

\* A consistent row has one meaning, the code it is moved to.
LEMMA MeaningIsTarget ==
    ASSUME NEW d, Legacy(d), Accepted(d)
    PROVE  /\ \A a \in Labelled : /\ Meanings(d, d.issues[a]) = {Moved(d, d.issues[a]).code}
                                  /\ Moved(d, d.issues[a]).code \in Canonical
           /\ \A p \in d.prefs : /\ Meaning(d, p) = Moved(d, p).code
                                 /\ Moved(d, p).code \in Canonical
<1>1. MasterApproved(d)
  BY DEF Accepted
<1>2. \A a \in Labelled : IssueRow(d.issues[a]) /\ Consistent(d, d.issues[a])
  BY DEF Accepted, Legacy
<1>3. \A p \in d.prefs : PrefRow(p) /\ Consistent(d, p)
  BY DEF Accepted, Legacy, PrefRows, PreferencesConsistent
<1>4. \A p \in d.prefs : Meanings(d, p) = {Moved(d, p).code} /\ Moved(d, p).code \in Canonical
  BY <1>1, <1>3, MovedMeans
<1>5. \A p \in d.prefs : Meaning(d, p) = Moved(d, p).code
  BY <1>4 DEF Meaning
<1>6. QED
  BY <1>1, <1>2, <1>4, <1>5, MovedMeans

\* Moving renames the rows of a user and a category, and keeps their weight.
LEMMA GroupMoved ==
    ASSUME NEW d, Legacy(d), Accepted(d)
    PROVE  /\ PrefRows(PreferencesMoved(d))
           /\ \A p \in PreferencesMoved(d) : p.cat = Absent /\ p.code \in Canonical
           /\ \A u, c : /\ Group(PreferencesMoved(d), u, c) = {} <=> Was(d, u, c) = {}
                        /\ WeightOf(Group(PreferencesMoved(d), u, c)) = WeightOf(Was(d, u, c))
<1> DEFINE h == [p \in d.prefs |-> Moved(d, p)]
           moved == PreferencesMoved(d)
<1>1. PrefRows(d.prefs)
  BY DEF Legacy
<1>2. \A p \in d.prefs : /\ h[p] = [id |-> p.id, user |-> p.user, cat |-> Absent,
                                    code |-> Moved(d, p).code, weight |-> p.weight]
                         /\ Moved(d, p).code \in Canonical /\ Meaning(d, p) = Moved(d, p).code
  <2>1. \A p \in d.prefs : PrefRow(p)
    BY <1>1 DEF PrefRows
  <2>2. QED
    BY <2>1, MovedRow, MeaningIsTarget
<1>3. moved = {h[p] : p \in d.prefs}
  BY DEF PreferencesMoved
<1>4. \A p \in d.prefs : /\ h[p].id = p.id /\ h[p].user = p.user /\ h[p].cat = Absent
                         /\ h[p].code = Meaning(d, p) /\ h[p].weight = p.weight
                         /\ PrefRow(h[p]) /\ h[p].code \in Canonical
  <2> SUFFICES ASSUME NEW p \in d.prefs
               PROVE  /\ h[p].id = p.id /\ h[p].user = p.user /\ h[p].cat = Absent
                      /\ h[p].code = Meaning(d, p) /\ h[p].weight = p.weight
                      /\ PrefRow(h[p]) /\ h[p].code \in Canonical
    OBVIOUS
  <2> DEFINE target == Moved(d, p).code
  <2>1. /\ h[p] = [id |-> p.id, user |-> p.user, cat |-> Absent, code |-> target,
                   weight |-> p.weight]
        /\ target \in Canonical /\ Meaning(d, p) = target
    BY <1>2
  <2> HIDE DEF h, target
  <2>2. /\ h[p].id = p.id /\ h[p].user = p.user /\ h[p].cat = Absent
        /\ h[p].code = target /\ h[p].weight = p.weight
    BY <2>1
  <2>3. PrefRow(h[p])
    BY <2>1, <2>2 DEF PrefRow
  <2>4. QED
    BY <2>1, <2>2, <2>3
<1> HIDE DEF moved
<1>5. IsFiniteSet(moved)
  <2>1. h \in Surjection(d.prefs, moved)
    BY <1>3 DEF Surjection
  <2>2. QED
    BY <1>1, <2>1, FS_Surjection DEF PrefRows
<1> HIDE DEF h
<1>6. \A p, q \in d.prefs : h[p] = h[q] => p = q
  <2> SUFFICES ASSUME NEW p \in d.prefs, NEW q \in d.prefs, h[p] = h[q] PROVE p = q
    OBVIOUS
  <2>1. p.id = q.id
    BY <1>4
  <2>2. QED
    BY <1>1, <2>1 DEF PrefRows
<1>7. PrefRows(moved)
  <2>1. \A p \in moved : PrefRow(p) /\ p.id \in Nat /\ p.weight \in Nat
    BY <1>1, <1>3, <1>4 DEF PrefRows
  <2>2. \A p, q \in moved : p.id = q.id => p = q
    <3> SUFFICES ASSUME NEW p \in d.prefs, NEW q \in d.prefs, h[p].id = h[q].id PROVE h[p] = h[q]
      BY <1>3
    <3>1. p = q
      BY <1>1, <1>4 DEF PrefRows
    <3>2. QED
      BY <3>1
  <2>3. QED
    BY <1>5, <2>1, <2>2 DEF PrefRows
<1>8. \A p \in moved : p.cat = Absent /\ p.code \in Canonical
  BY <1>3, <1>4
<1>9. ASSUME NEW u, NEW c
      PROVE  /\ Group(moved, u, c) = {} <=> Was(d, u, c) = {}
             /\ WeightOf(Group(moved, u, c)) = WeightOf(Was(d, u, c))
  <2> DEFINE S == Was(d, u, c)
             G == Group(moved, u, c)
  <2>1. G = {h[p] : p \in S}
    <3>1. \A q \in G : \E p \in S : q = h[p]
      BY <1>3, <1>4 DEF Group, Was
    <3>2. \A p \in S : h[p] \in G
      BY <1>3, <1>4 DEF Group, Was
    <3> HIDE DEF S, G
    <3>3. QED
      BY <3>1, <3>2
  <2>2. S \in SUBSET d.prefs /\ G \in SUBSET moved
    BY DEF Was, Group
  <2> HIDE DEF S, G
  <2>3. IsFiniteSet(S) /\ \A p \in S : Weights(S)[p] = p.weight /\ Weights(S)[p] \in Int
    BY <1>1, <2>2, WeightIsNumber
  <2>4. \A q \in G : Weights(G)[q] = q.weight
    BY <1>7, <2>2, WeightIsNumber
  <2>5. \A p \in S : Weights(G)[h[p]] = Weights(S)[p]
    BY <1>4, <2>1, <2>2, <2>3, <2>4
  <2>6. \A p, q \in S : h[p] = h[q] => p = q
    BY <1>6, <2>2
  <2>7. SumOver(Weights(G), G) = SumOver(Weights(S), S)
    <3>1. IsFiniteSet(S) /\ \A p \in S : Weights(S)[p] \in Int /\ Weights(G)[h[p]] = Weights(S)[p]
      BY <2>3, <2>5
    <3>2. QED
      BY <2>1, <2>6, <3>1, SumRenamed
  <2>8. WeightOf(G) = WeightOf(S)
    BY <2>7, WeightOfIsSum
  <2>9. QED
    BY <2>1, <2>8 DEF S, G
<1>10. QED
  BY <1>7, <1>8, <1>9 DEF moved

\* What the migration makes of tables d.
Clean(d, e) ==
    /\ e = [hasId |-> FALSE, otherTable |-> d.otherTable, master |-> e.master,
            issues |-> e.issues, prefs |-> e.prefs]
    /\ {m.code : m \in e.master} = Canonical
    /\ \A m, n \in e.master : m.code = n.code => m = n
    /\ \A m \in e.master : m = [id |-> Absent, code |-> m.code, since |-> m.since]
    /\ \A m \in e.master : m.since # Absent =>
          \E n \in d.master : n.since = m.since /\ CanonOf(n) = m.code
    /\ e.issues = [a \in Labelled |-> e.issues[a]]
    /\ \A a \in Labelled :
          /\ e.issues[a] = [cat |-> Absent, code |-> e.issues[a].code]
          /\ e.issues[a].code \in Canonical
          /\ Meanings(d, d.issues[a]) = {e.issues[a].code}
    /\ e.prefs = Merged(PreferencesMoved(d))
    /\ \A p \in e.prefs :
          /\ PrefRow(p) /\ p.id \in Nat /\ p.weight \in Int
          /\ p.cat = Absent /\ p.code \in Canonical /\ Alike(p, e.prefs) = {p}

\* It makes that of tables that are accepted.
LEMMA ConvertedRows ==
    ASSUME NEW d, Legacy(d), Accepted(d)
    PROVE  Clean(d, Converted(d))
<1>0. PICK e : e = Converted(d)
  OBVIOUS
<1>1. /\ e = [hasId |-> FALSE, otherTable |-> d.otherTable, master |-> e.master,
              issues |-> e.issues, prefs |-> e.prefs]
      /\ e.master = Seeded(Recoded(d))
      /\ e.issues = [a \in Labelled |-> Moved(d, d.issues[a])]
      /\ e.prefs = Merged(PreferencesMoved(d))
  BY <1>0 DEF Converted
<1>2. \A a \in Labelled : IssueRow(d.issues[a])
  BY DEF Legacy
<1>3. \A a \in Labelled : /\ e.issues[a] = [cat |-> Absent, code |-> e.issues[a].code]
                          /\ e.issues[a].code \in Canonical
                          /\ Meanings(d, d.issues[a]) = {e.issues[a].code}
  <2> SUFFICES ASSUME NEW a \in Labelled
               PROVE  /\ e.issues[a] = [cat |-> Absent, code |-> e.issues[a].code]
                      /\ e.issues[a].code \in Canonical
                      /\ Meanings(d, d.issues[a]) = {e.issues[a].code}
    OBVIOUS
  <2>1. e.issues[a] = Moved(d, d.issues[a])
    BY <1>1
  <2>2. Moved(d, d.issues[a]) = [cat |-> Absent, code |-> Moved(d, d.issues[a]).code]
    BY <1>2, MovedRow
  <2>3. QED
    BY <2>1, <2>2, MeaningIsTarget
<1>4. \A p \in e.prefs : /\ PrefRow(p) /\ p.id \in Nat /\ p.weight \in Int
                         /\ p.cat = Absent /\ p.code \in Canonical
                         /\ Alike(p, e.prefs) = {p}
  BY <1>1, GroupMoved, MergedRows
<1>5. e.issues = [a \in Labelled |-> e.issues[a]]
  BY <1>1
<1>6. /\ {m.code : m \in e.master} = Canonical
      /\ \A m, n \in e.master : m.code = n.code => m = n
      /\ \A m \in e.master : m = [id |-> Absent, code |-> m.code, since |-> m.since]
      /\ \A m \in e.master : m.since # Absent =>
            \E n \in d.master : n.since = m.since /\ CanonOf(n) = m.code
  BY <1>1, MasterConverted DEF Accepted
<1>7. QED
  BY <1>0, <1>1, <1>3, <1>4, <1>5, <1>6 DEF Clean

\* The constraints that are added hold.
LEMMA ConstraintsAreMet ==
    ASSUME NEW d, Legacy(d), Accepted(d)
    PROVE  ConstraintsHold(Converted(d))
<1>0. PICK e : e = Converted(d) /\ Clean(d, e)
  BY ConvertedRows
<1> DEFINE codes == {m.code : m \in e.master}
<1>1. codes = Canonical /\ \A m, n \in e.master : m.code = n.code => m = n
  BY <1>0 DEF Clean
<1>2. Cardinality(codes) = Cardinality(e.master)
  BY <1>1, MasterKey
<1>3. \A a \in Labelled : e.issues[a].code \in Canonical
  BY <1>0 DEF Clean
<1>4. \A p \in e.prefs : p.code \in Canonical /\ Cardinality(Alike(p, e.prefs)) = 1
  <2>1. \A p \in e.prefs : p.code \in Canonical /\ Alike(p, e.prefs) = {p}
    BY <1>0 DEF Clean
  <2>2. \A x : Cardinality({x}) = 1
    BY FS_Singleton
  <2>3. QED
    BY <2>1, <2>2
<1>5. QED
  BY <1>0, <1>1, <1>2, <1>3, <1>4, CodesMap DEF ConstraintsHold

\* Moving a row that has a canonical code and no id changes nothing.
LEMMA MovedStays ==
    ASSUME NEW e, e.hasId = FALSE, NEW entry, entry.cat = Absent, entry.code \in Canonical,
           IssueRow(entry) \/ PrefRow(entry)
    PROVE  Moved(e, entry) = entry /\ Consistent(e, entry)
<1>1. MapId(e, entry.cat) = Absent /\ MapCode(entry.code) = entry.code
  BY CodesMap DEF MapId
<1>2. Moved(e, entry).code = entry.code
  BY <1>1, MovedRow
<1>3. ASSUME IssueRow(entry)
      PROVE  Moved(e, entry) = entry
  <2>1. Moved(e, entry) = [cat |-> Absent, code |-> Moved(e, entry).code]
    BY <1>3, MovedRow
  <2>2. QED
    BY <1>2, <1>3, <2>1 DEF IssueRow
<1>4. ASSUME PrefRow(entry)
      PROVE  Moved(e, entry) = entry
  <2>1. Moved(e, entry) = [id |-> entry.id, user |-> entry.user, cat |-> Absent,
                         code |-> Moved(e, entry).code, weight |-> entry.weight]
    BY <1>4, MovedRow
  <2>2. QED
    BY <1>2, <1>4, <2>1 DEF PrefRow
<1>5. Consistent(e, entry)
  BY <1>1, <1>2 DEF Consistent
<1>6. QED
  BY <1>3, <1>4, <1>5

\* A second migration accepts the tables.
LEMMA AcceptedAgain ==
    ASSUME NEW d, Legacy(d), Accepted(d)
    PROVE  Accepted(Converted(d))
<1>0. PICK e : e = Converted(d) /\ Clean(d, e)
  BY ConvertedRows
<1>1. e.hasId = FALSE
  BY <1>0 DEF Clean
<1>2. \A m \in e.master : m.code \in Canonical
  BY <1>0 DEF Clean
<1>3. \A a \in Labelled : e.issues[a].cat = Absent /\ e.issues[a].code \in Canonical
                            /\ IssueRow(e.issues[a])
  <2> SUFFICES ASSUME NEW a \in Labelled
               PROVE  /\ e.issues[a].cat = Absent /\ e.issues[a].code \in Canonical
                      /\ IssueRow(e.issues[a])
    OBVIOUS
  <2>1. PICK entry : entry = e.issues[a]
    OBVIOUS
  <2>2. entry = [cat |-> Absent, code |-> entry.code] /\ entry.code \in Canonical
    BY <1>0, <2>1 DEF Clean
  <2>3. entry.cat = Absent /\ IssueRow(entry)
    BY <2>2 DEF IssueRow
  <2>4. QED
    BY <2>1, <2>2, <2>3
<1>4. \A p \in e.prefs : p.cat = Absent /\ p.code \in Canonical /\ PrefRow(p)
  BY <1>0 DEF Clean
<1>5. \A a \in Labelled : Consistent(e, e.issues[a])
  BY <1>1, <1>3, MovedStays
<1>6. \A p \in e.prefs : Consistent(e, p)
  BY <1>1, <1>4, MovedStays
<1>7. QED
  BY <1>0, <1>1, <1>2, <1>5, <1>6 DEF Accepted, MasterApproved, PreferencesConsistent

\* And it leaves them as they are.
LEMMA ConvertedAgain ==
    ASSUME NEW d, Legacy(d), Accepted(d)
    PROVE  Converted(Converted(d)) = Converted(d)
<1>0. PICK e : e = Converted(d) /\ Clean(d, e)
  BY ConvertedRows
<1>1. e = [hasId |-> FALSE, otherTable |-> d.otherTable, master |-> e.master,
           issues |-> e.issues, prefs |-> e.prefs]
  BY <1>0 DEF Clean
<1>2. /\ {m.code : m \in e.master} = Canonical
      /\ \A m \in e.master : m = [id |-> Absent, code |-> m.code, since |-> m.since]
  BY <1>0 DEF Clean
<1>3. e.issues = [a \in Labelled |-> e.issues[a]]
  BY <1>0 DEF Clean
<1>4. \A a \in Labelled : /\ e.issues[a].cat = Absent /\ e.issues[a].code \in Canonical
                           /\ IssueRow(e.issues[a])
  <2> SUFFICES ASSUME NEW a \in Labelled
               PROVE  /\ e.issues[a].cat = Absent /\ e.issues[a].code \in Canonical
                      /\ IssueRow(e.issues[a])
    OBVIOUS
  <2>1. PICK entry : entry = e.issues[a]
    OBVIOUS
  <2>2. entry = [cat |-> Absent, code |-> entry.code] /\ entry.code \in Canonical
    BY <1>0, <2>1 DEF Clean
  <2>3. entry.cat = Absent /\ IssueRow(entry)
    BY <2>2 DEF IssueRow
  <2>4. QED
    BY <2>1, <2>2, <2>3
<1>5. \A p \in e.prefs : /\ p.cat = Absent /\ p.code \in Canonical /\ PrefRow(p)
                         /\ p.id \in Nat /\ p.weight \in Int /\ Alike(p, e.prefs) = {p}
  BY <1>0 DEF Clean
<1>6. e.hasId = FALSE /\ e.otherTable = d.otherTable
  BY <1>1
<1>7. Seeded(Recoded(e)) = e.master
  <2>1. Recoded(e) = {[id |-> Absent, code |-> m.code, since |-> m.since] : m \in e.master}
    BY <1>6 DEF Recoded
  <2>2. Recoded(e) = e.master
    BY <1>2, <2>1
  <2>3. Canonical \ {m.code : m \in e.master} = {}
    BY <1>2
  <2>4. QED
    BY <2>2, <2>3 DEF Seeded
<1>8. [a \in Labelled |-> Moved(e, e.issues[a])] = e.issues
  <2>1. \A a \in Labelled : Moved(e, e.issues[a]) = e.issues[a]
    BY <1>4, <1>6, MovedStays
  <2>2. QED
    BY <1>3, <2>1
<1>9. PreferencesMoved(e) = e.prefs
  <2>1. \A p \in e.prefs : Moved(e, p) = p
    BY <1>5, <1>6, MovedStays
  <2>2. QED
    BY <2>1 DEF PreferencesMoved
<1>10. Merged(e.prefs) = e.prefs
  <2>1. Firsts(e.prefs) = e.prefs
    BY <1>5 DEF Firsts
  <2>2. \A p \in e.prefs : WeightOf(Alike(p, e.prefs)) = p.weight
    <3> SUFFICES ASSUME NEW p \in e.prefs PROVE WeightOf({p}) = p.weight
      BY <1>5
    <3>1. Weights({p})[p] = p.weight
      BY DEF Weights
    <3>2. SumOver(Weights({p}), {p}) = p.weight
      BY <1>5, <3>1, SumOfOne
    <3>3. QED
      BY <3>2, WeightOfIsSum
  <2>3. \A p \in e.prefs : [p EXCEPT !.weight = p.weight] = p
    BY <1>5 DEF PrefRow
  <2>4. \A p \in e.prefs : [p EXCEPT !.weight = WeightOf(Alike(p, e.prefs))] = p
    BY <2>2, <2>3
  <2>5. Merged(e.prefs) = {[p EXCEPT !.weight = WeightOf(Alike(p, e.prefs))] : p \in e.prefs}
    BY <2>1, WeightOfIsSum
  <2>6. QED
    BY <2>4, <2>5
<1>11. Converted(e) = [hasId |-> FALSE, otherTable |-> e.otherTable, master |-> e.master,
                       issues |-> e.issues, prefs |-> e.prefs]
  BY <1>7, <1>8, <1>9, <1>10 DEF Converted
<1>12. QED
  BY <1>0, <1>1, <1>6, <1>11

-----------------------------------------------------------------------------
(* The migration: the theorem.                                             *)

\* The migration does not run, or has run once, on tables of earlier versions.
MigrationInv ==
    /\ Legacy(legacyDb)
    /\ \/ outcome = "none" /\ db = legacyDb
       \/ outcome = "done" /\ Accepted(legacyDb) /\ db = Converted(legacyDb)
       \/ /\ outcome = "refused" /\ db = legacyDb
          /\ ~ (Accepted(db) /\ ConstraintsHold(Converted(db)))

\* A merged group weighs what its rows did.
LEMMA WeightKept ==
    ASSUME NEW d, Legacy(d), Accepted(d), NEW e, Clean(d, e), NEW u, NEW c
    PROVE  /\ WeightOf(Group(e.prefs, u, c)) = WeightOf(Was(d, u, c))
           /\ Cardinality(Group(e.prefs, u, c)) = IF Was(d, u, c) = {} THEN 0 ELSE 1
<1> DEFINE G == Group(PreferencesMoved(d), u, c)
           N == Group(e.prefs, u, c)
<1>1. /\ PrefRows(PreferencesMoved(d)) /\ (G = {} <=> Was(d, u, c) = {})
      /\ WeightOf(G) = WeightOf(Was(d, u, c))
  BY GroupMoved
<1>2. N = Group(Merged(PreferencesMoved(d)), u, c)
  BY DEF Clean
<1>3. CASE G = {}
  <2>1. N = {}
    BY <1>1, <1>2, <1>3, MergedGroup
  <2>2. Cardinality(N) = 0
    BY <2>1, FS_EmptySet
  <2>3. WeightOf(N) = WeightOf(G)
    BY <1>3, <2>1
  <2> HIDE DEF G, N
  <2>4. QED
    BY <1>1, <1>3, <2>2, <2>3 DEF N
<1>4. CASE G # {}
  <2>1. PICK entry : N = {entry} /\ entry.weight = WeightOf(G)
    <3>1. PICK p \in G : N = {[id |-> p.id, user |-> u, cat |-> p.cat, code |-> c,
                               weight |-> WeightOf(G)]}
      BY <1>1, <1>2, <1>4, MergedGroup
    <3> DEFINE made == [id |-> p.id, user |-> u, cat |-> p.cat, code |-> c,
                        weight |-> WeightOf(G)]
    <3>2. made.weight = WeightOf(G)
      OBVIOUS
    <3> HIDE DEF G, N
    <3>3. N = {made}
      BY <3>1
    <3> HIDE DEF made
    <3>4. QED
      BY <3>2, <3>3
  <2>2. WeightOf(G) \in Int
    <3>1. G \in SUBSET PreferencesMoved(d)
      BY DEF Group
    <3>2. QED
      BY <1>1, <3>1, WeightIsNumber
  <2> HIDE DEF G, N
  <2>3. Weights(N)[entry] = entry.weight
    BY <2>1 DEF Weights
  <2>4. SumOver(Weights(N), {entry}) = entry.weight
    BY <2>1, <2>2, <2>3, SumOfOne
  <2>5. WeightOf(N) = WeightOf(G)
    BY <2>1, <2>4, WeightOfIsSum
  <2>6. Cardinality(N) = 1
    BY <2>1, FS_Singleton
  <2>7. QED
    BY <1>1, <1>4, <2>5, <2>6 DEF N
<1>5. QED
  BY <1>3, <1>4

\* A migration that is done has lost no preference.
LEMMA DoneLosesNothing ==
    ASSUME MigrationInv
    PROVE  NothingLost
<1> SUFFICES ASSUME outcome = "done" PROVE NothingLost
  BY DEF NothingLost
<1>1. Legacy(legacyDb) /\ Accepted(legacyDb) /\ db = Converted(legacyDb)
  BY DEF MigrationInv
<1>2. Clean(legacyDb, db)
  BY <1>1, ConvertedRows
<1>3. \A a \in Labelled : {db.issues[a].code} = Meanings(legacyDb, legacyDb.issues[a])
  BY <1>2 DEF Clean
<1>4. \A u \in Owner, c \in Canonical :
        LET now == {p \in db.prefs : p.user = u /\ p.code = c}
            was == {p \in legacyDb.prefs : p.user = u /\ Meaning(legacyDb, p) = c}
        IN  /\ WeightOf(now) = WeightOf(was)
            /\ Cardinality(now) = IF was = {} THEN 0 ELSE 1
  <2> SUFFICES ASSUME NEW u \in Owner, NEW c \in Canonical
               PROVE  /\ WeightOf(Group(db.prefs, u, c)) = WeightOf(Was(legacyDb, u, c))
                      /\ Cardinality(Group(db.prefs, u, c)) =
                            IF Was(legacyDb, u, c) = {} THEN 0 ELSE 1
    BY DEF Group, Was
  <2>1. QED
    BY <1>1, <1>2, WeightKept
<1>5. /\ {m.code : m \in db.master} = Canonical
      /\ \A m \in db.master : m.since # Absent =>
            \E n \in legacyDb.master : n.since = m.since /\ CanonOf(n) = m.code
  BY <1>2 DEF Clean
<1>6. Accepted(db) /\ Converted(db) = db
  BY <1>1, AcceptedAgain, ConvertedAgain
<1>7. QED
  BY <1>3, <1>4, <1>5, <1>6 DEF NothingLost

\* One that is refused met a row without a category or one that contradicts itself.
LEMMA RefusedWithReason ==
    ASSUME MigrationInv
    PROVE  RefusedForAReason
<1> SUFFICES ASSUME outcome = "refused" PROVE RefusedForAReason
  BY DEF RefusedForAReason
<1>1. Legacy(db) /\ db = legacyDb /\ ~ (Accepted(db) /\ ConstraintsHold(Converted(db)))
  BY DEF MigrationInv
<1>2. ~Accepted(db)
  BY <1>1, ConstraintsAreMet
<1>3. CASE ~MasterApproved(db)
  <2>1. \E m \in db.master : CanonOf(m) = Absent \/ (~db.hasId /\ m.code \notin Canonical)
    BY <1>3 DEF MasterApproved
  <2>2. QED
    BY <1>1, <2>1 DEF RefusedForAReason
<1>4. CASE MasterApproved(db) /\ \E a \in Labelled : ~Consistent(db, db.issues[a])
  <2>1. PICK a \in Labelled : ~Consistent(db, db.issues[a])
    BY <1>4
  <2>2. IssueRow(db.issues[a])
    BY <1>1 DEF Legacy
  <2>3. ~ (Cardinality(Meanings(db, db.issues[a])) = 1
             /\ Meanings(db, db.issues[a]) \subseteq Canonical)
    BY <1>1, <1>4, <2>1, <2>2, MovedMeans
  <2>4. QED
    BY <1>1, <2>3 DEF RefusedForAReason
<1>5. CASE MasterApproved(db) /\ ~PreferencesConsistent(db)
  <2>1. PICK p \in db.prefs : ~Consistent(db, p)
    BY <1>5 DEF PreferencesConsistent
  <2>2. PrefRow(p)
    BY <1>1 DEF Legacy, PrefRows
  <2>3. ~ (Cardinality(Meanings(db, p)) = 1 /\ Meanings(db, p) \subseteq Canonical)
    BY <1>1, <1>5, <2>1, <2>2, MovedMeans
  <2>4. QED
    BY <1>1, <2>3 DEF RefusedForAReason
<1>6. CASE db.otherTable
  BY <1>1, <1>6 DEF RefusedForAReason
<1>7. QED
  BY <1>2, <1>3, <1>4, <1>5, <1>6 DEF Accepted

\* The tables of earlier versions are what the migration starts from.
LEMMA LegacyAtFirst == MigrationInit => MigrationInv
<1> SUFFICES ASSUME MigrationInit PROVE MigrationInv
  OBVIOUS
<1>1. PICK hasId \in BOOLEAN, otherTable \in BOOLEAN, present \in SUBSET MasterId :
       \E codes \in [present -> OldCode \cup {Absent}], names \in [present -> OldName] :
       LET rows == {[id |-> k, code |-> codes[k], name |-> names[k], since |-> k] : k \in present}
           d == [hasId |-> hasId, master |-> rows]
       IN
       /\ ~hasId => \A m, n \in rows : m.code # Absent /\ (m.code = n.code => m = n)
       /\ \E used \in SUBSET PrefId :
          \E issues \in [Labelled -> [cat : Reference(d), code : RowCode \cup {Absent}]],
             rowOf \in [used -> [user : Owner, cat : Reference(d), code : RowCode \cup {Absent}]] :
             /\ \A p, q \in used :
                  p # q /\ rowOf[p].user = rowOf[q].user =>
                    \/ rowOf[p].cat # rowOf[q].cat
                    \/ rowOf[p].cat = Absent /\ rowOf[p].code # rowOf[q].code
             /\ db = [hasId |-> hasId, otherTable |-> otherTable, master |-> rows,
                      issues |-> issues,
                      prefs |-> {[id |-> p, user |-> rowOf[p].user, cat |-> rowOf[p].cat,
                                  code |-> rowOf[p].code, weight |-> p] : p \in used}]
  BY DEF MigrationInit
<1>2. PICK codes \in [present -> OldCode \cup {Absent}], names \in [present -> OldName] :
       LET rows == {[id |-> k, code |-> codes[k], name |-> names[k], since |-> k] : k \in present}
           d == [hasId |-> hasId, master |-> rows]
       IN
       /\ ~hasId => \A m, n \in rows : m.code # Absent /\ (m.code = n.code => m = n)
       /\ \E used \in SUBSET PrefId :
          \E issues \in [Labelled -> [cat : Reference(d), code : RowCode \cup {Absent}]],
             rowOf \in [used -> [user : Owner, cat : Reference(d), code : RowCode \cup {Absent}]] :
             /\ \A p, q \in used :
                  p # q /\ rowOf[p].user = rowOf[q].user =>
                    \/ rowOf[p].cat # rowOf[q].cat
                    \/ rowOf[p].cat = Absent /\ rowOf[p].code # rowOf[q].code
             /\ db = [hasId |-> hasId, otherTable |-> otherTable, master |-> rows,
                      issues |-> issues,
                      prefs |-> {[id |-> p, user |-> rowOf[p].user, cat |-> rowOf[p].cat,
                                  code |-> rowOf[p].code, weight |-> p] : p \in used}]
  BY <1>1
<1> DEFINE rows == {[id |-> k, code |-> codes[k], name |-> names[k], since |-> k] : k \in present}
           refs == Reference([hasId |-> hasId, master |-> rows])
<1>3. PICK used \in SUBSET PrefId :
        \E issues \in [Labelled -> [cat : refs, code : RowCode \cup {Absent}]],
           rowOf \in [used -> [user : Owner, cat : refs, code : RowCode \cup {Absent}]] :
           /\ \A p, q \in used :
                p # q /\ rowOf[p].user = rowOf[q].user =>
                  \/ rowOf[p].cat # rowOf[q].cat
                  \/ rowOf[p].cat = Absent /\ rowOf[p].code # rowOf[q].code
           /\ db = [hasId |-> hasId, otherTable |-> otherTable, master |-> rows,
                    issues |-> issues,
                    prefs |-> {[id |-> p, user |-> rowOf[p].user, cat |-> rowOf[p].cat,
                                code |-> rowOf[p].code, weight |-> p] : p \in used}]
  BY <1>2
<1>4. ~hasId => \A m, n \in rows : m.code = n.code => m = n
  BY <1>2
<1>5. PICK issues \in [Labelled -> [cat : refs, code : RowCode \cup {Absent}]],
           rowOf \in [used -> [user : Owner, cat : refs, code : RowCode \cup {Absent}]] :
           db = [hasId |-> hasId, otherTable |-> otherTable, master |-> rows,
                 issues |-> issues,
                 prefs |-> {[id |-> p, user |-> rowOf[p].user, cat |-> rowOf[p].cat,
                             code |-> rowOf[p].code, weight |-> p] : p \in used}]
  BY <1>3
<1> DEFINE prefs == {[id |-> p, user |-> rowOf[p].user, cat |-> rowOf[p].cat,
                      code |-> rowOf[p].code, weight |-> p] : p \in used}
<1>6. /\ \A m \in rows : m.id \in Nat /\ m.since \in Nat
      /\ \A m, n \in rows : m.id = n.id => m = n
  <2>1. \A k \in present : k \in Nat
    BY MigrationAssumption
  <2>2. \A m \in rows : \E k \in present :
          m = [id |-> k, code |-> codes[k], name |-> names[k], since |-> k]
    OBVIOUS
  <2> HIDE DEF rows
  <2>3. \A m \in rows : m.id \in present /\ m.since = m.id
    BY <2>2
  <2>4. \A m \in rows : m = [id |-> m.id, code |-> codes[m.id], name |-> names[m.id],
                             since |-> m.id]
    BY <2>2
  <2>5. \A m, n \in rows : m.id = n.id => m = n
    BY <2>4
  <2>6. QED
    BY <2>1, <2>3, <2>5
<1>7. PrefRows(prefs)
  <2>1. \A p \in prefs : PrefRow(p) /\ p.id \in Nat /\ p.weight \in Nat
    BY MigrationAssumption DEF PrefRow
  <2>2. \A p, q \in prefs : p.id = q.id => p = q
    OBVIOUS
  <2>3. IsFiniteSet(prefs)
    <3> DEFINE g == [p \in used |-> [id |-> p, user |-> rowOf[p].user, cat |-> rowOf[p].cat,
                                     code |-> rowOf[p].code, weight |-> p]]
    <3>1. IsFiniteSet(used)
      BY FS_Subset, MigrationAssumption
    <3>2. g \in Surjection(used, prefs)
      BY DEF Surjection
    <3> HIDE DEF g, prefs
    <3>3. QED
      BY <3>1, <3>2, FS_Surjection
  <2> HIDE DEF prefs
  <2>4. QED
    BY <2>1, <2>2, <2>3 DEF PrefRows
<1>8. \A a \in Labelled : IssueRow(issues[a])
  BY DEF IssueRow
<1> HIDE DEF rows, refs, prefs
<1>9. db = [hasId |-> hasId, otherTable |-> otherTable, master |-> rows, issues |-> issues,
            prefs |-> prefs]
  BY <1>5 DEF prefs
<1>10. Legacy(db)
  BY <1>4, <1>6, <1>7, <1>8, <1>9 DEF Legacy
<1>11. legacyDb = db /\ outcome = "none"
  BY DEF MigrationInit
<1>12. QED
  BY <1>10, <1>11 DEF MigrationInv

\* The migration loses no issue's category and no user's weight, can be run again,
\* and is refused only for a row that has no category or contradicts itself: for
\* every table that earlier versions can have left.
THEOREM MigrationHoldsCorrect == MigrationSpec => []MigrationHolds
<1>1. MigrationInit => MigrationInv
  BY LegacyAtFirst
<1>2. MigrationInv /\ [MigrateUp]_migrationVars => MigrationInv'
  <2> SUFFICES ASSUME MigrationInv, [MigrateUp]_migrationVars PROVE MigrationInv'
    OBVIOUS
  <2>1. CASE MigrateUp
    <3>1. legacyDb' = legacyDb /\ Legacy(legacyDb) /\ db = legacyDb
      BY <2>1 DEF MigrateUp, MigrationInv
    <3>2. CASE Accepted(db) /\ ConstraintsHold(Converted(db))
      <4>1. db' = Converted(db) /\ outcome' = "done"
        BY <2>1, <3>2 DEF MigrateUp
      <4>2. QED
        BY <3>1, <3>2, <4>1 DEF MigrationInv
    <3>3. CASE ~ (Accepted(db) /\ ConstraintsHold(Converted(db)))
      <4>1. db' = db /\ outcome' = "refused"
        BY <2>1, <3>3 DEF MigrateUp
      <4>2. QED
        BY <3>1, <3>3, <4>1 DEF MigrationInv
    <3>4. QED
      BY <3>2, <3>3
  <2>2. CASE UNCHANGED migrationVars
    BY <2>2 DEF migrationVars, MigrationInv
  <2>3. QED
    BY <2>1, <2>2
<1>3. MigrationInv => MigrationHolds
  BY DoneLosesNothing, RefusedWithReason DEF MigrationHolds
<1>4. QED
  BY <1>1, <1>2, <1>3, PTL DEF MigrationSpec
=============================================================================

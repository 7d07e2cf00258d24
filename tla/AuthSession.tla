---------------------------- MODULE AuthSession ----------------------------
(***************************************************************************)
(* Refresh sessions of one account.  A client presents a refresh token;    *)
(* the rotation consumes its session and inserts another in one            *)
(* transaction.  A token that was consumed or revoked is taken for stolen: *)
(* the account's active sessions are revoked.  The transactions of several *)
(* requests interleave statement by statement, at READ COMMITTED: a row    *)
(* lock is held to the end, what a transaction has written is seen by      *)
(* others when it commits, and any transaction may fail and leave nothing. *)
(*                                                                         *)
(* A token and its session are one value; the hash, the cookie and the     *)
(* access token are left out.                                              *)
(***************************************************************************)
EXTENDS Naturals, FiniteSets

CONSTANTS
    Token,             \* refresh tokens, each with its session
    Request,           \* concurrent requests to refresh
    Login,             \* concurrent requests to log in
    NoToken

ASSUME AuthAssumption == NoToken \notin Token

VARIABLES
    account,   \* the users row: "ABSENT", "PRESENT", "GONE"
    session,   \* refresh_sessions, as committed
    expired,   \* sessions past expires_at
    origin,    \* history: the token a session was rotated from
    request,   \* the rotations under way
    verified   \* the logins whose password has been verified

authVars == <<account, session, expired, origin, request, verified>>

Status == {"FREE", "ACTIVE", "USED", "REVOKED", "DELETED"}
Pc == {"Idle", "Owner", "Lock", "Decide", "Rotate", "Revoke"}

\* found: the active sessions the UPDATE of a revocation finds; reached: those
\* of them it has come to; locked: those that it found active still.  made is
\* history: the sessions, active or not, that were issued before the UPDATE began.
RequestRecord == [pc : Pc, token : Token \cup {NoToken}, found : SUBSET Token,
                  made : SUBSET Token, reached : SUBSET Token, locked : SUBSET Token]

Rest == [pc |-> "Idle", token |-> NoToken, found |-> {}, made |-> {},
         reached |-> {}, locked |-> {}]

AuthInit ==
    /\ account = "ABSENT"
    /\ session = [t \in Token |-> "FREE"]
    /\ expired = {}
    /\ origin = [t \in Token |-> NoToken]
    /\ request = [r \in Request |-> Rest]
    /\ verified = {}

-----------------------------------------------------------------------------
(* Locks.                                                                  *)

ActiveSessions == {t \in Token : session[t] = "ACTIVE"}
Issued == {t \in Token : session[t] # "FREE"}

\* users FOR KEY SHARE is held from the second statement to the end.
SharesUser(r) == request[r].pc \in {"Lock", "Decide", "Rotate", "Revoke"}

\* Rows of refresh_sessions a request has locked.
LockedBy(r) ==
    request[r].locked \cup
    (IF request[r].pc \in {"Decide", "Rotate", "Revoke"}
     THEN {request[r].token} ELSE {})

RowFree(r, t) == \A q \in Request \ {r} : t \notin LockedBy(q)

Move(r, pc) == request' = [request EXCEPT ![r].pc = pc]

\* The transaction ends; its locks are released.
End(r) == request' = [request EXCEPT ![r] = Rest]

-----------------------------------------------------------------------------
(* Accounts.                                                               *)

\* signup inserts the user and the first session in one transaction.
Signup(t) ==
    /\ account = "ABSENT"
    /\ session[t] = "FREE"
    /\ account' = "PRESENT"
    /\ session' = [session EXCEPT ![t] = "ACTIVE"]
    /\ UNCHANGED <<expired, origin, request, verified>>

\* login reads the user and verifies the password outside a transaction ...
LoginVerify(l) ==
    /\ account = "PRESENT"
    /\ l \notin verified
    /\ verified' = verified \cup {l}
    /\ UNCHANGED <<account, session, expired, origin, request>>

\* ... and inserts a session if the user is still there.
LoginIssue(l, t) ==
    /\ l \in verified
    /\ verified' = verified \ {l}
    /\ \/ /\ account = "PRESENT"
          /\ session[t] = "FREE"
          /\ session' = [session EXCEPT ![t] = "ACTIVE"]
       \/ account = "GONE" /\ UNCHANGED session
    /\ UNCHANGED <<account, expired, origin, request>>

\* Faulty variant: the account is deleted without waiting for its lock.
WithdrawUnlocked ==
    /\ account = "PRESENT"
    /\ account' = "GONE"
    /\ session' = [t \in Token |->
                     IF session[t] = "FREE" THEN "FREE" ELSE "DELETED"]
    /\ UNCHANGED <<expired, origin, request, verified>>

\* deleteUser locks the user for update, which waits for every KEY SHARE
\* (after 3 s the request is refused), and the sessions go with the user.
Withdraw ==
    /\ account = "PRESENT"
    /\ \A r \in Request : ~SharesUser(r)
    /\ account' = "GONE"
    /\ session' = [t \in Token |->
                     IF session[t] = "FREE" THEN "FREE" ELSE "DELETED"]
    /\ UNCHANGED <<expired, origin, request, verified>>

\* logout revokes the one session if it is active and free.
Logout(t) ==
    /\ session[t] = "ACTIVE"
    /\ \A r \in Request : t \notin LockedBy(r)
    /\ session' = [session EXCEPT ![t] = "REVOKED"]
    /\ UNCHANGED <<account, expired, origin, request, verified>>

Expire(t) ==
    /\ session[t] = "ACTIVE"
    /\ t \notin expired
    /\ expired' = expired \cup {t}
    /\ UNCHANGED <<account, session, origin, request, verified>>

-----------------------------------------------------------------------------
(* Rotation: rotateRefreshSession, one statement per action.               *)

\* findRotationSessionOwner, without a lock.
FindOwner(r, t) ==
    /\ request[r].pc = "Idle"
    /\ session[t] \in {"ACTIVE", "USED", "REVOKED"}
    /\ request' = [request EXCEPT ![r] = [Rest EXCEPT !.pc = "Owner", !.token = t]]
    /\ UNCHANGED <<account, session, expired, origin, verified>>

\* The user FOR KEY SHARE: "invalid" when the account is gone.
LockUser(r) ==
    /\ request[r].pc = "Owner"
    /\ IF account = "PRESENT" THEN Move(r, "Lock") ELSE End(r)
    /\ UNCHANGED <<account, session, expired, origin, verified>>

\* The session FOR UPDATE, as soon as no other request holds it.
LockSession(r) ==
    /\ request[r].pc = "Lock"
    /\ RowFree(r, request[r].token)
    /\ Move(r, "Decide")
    /\ UNCHANGED <<account, session, expired, origin, verified>>

\* Faulty variant: the used and revoked columns are not looked at.
DecideByExpiry(r) ==
    /\ request[r].pc = "Decide"
    /\ IF request[r].token \in expired THEN End(r) ELSE Move(r, "Rotate")
    /\ UNCHANGED <<account, session, expired, origin, verified>>

\* A used or revoked session starts the UPDATE that revokes all: it finds the
\* sessions that are active in its snapshot.  An expired one is "invalid".
Decide(r) ==
    LET t == request[r].token IN
    /\ request[r].pc = "Decide"
    /\ IF session[t] \in {"USED", "REVOKED"}
       THEN request' = [request EXCEPT ![r].pc = "Revoke",
                                          ![r].found = ActiveSessions,
                                          ![r].made = Issued]
       ELSE IF t \in expired THEN End(r) ELSE Move(r, "Rotate")
    /\ UNCHANGED <<account, session, expired, origin, verified>>

\* The session is consumed and the replacement u inserted; both are seen at
\* the commit, which is this step.
Rotate(r, u) ==
    LET t == request[r].token IN
    /\ request[r].pc = "Rotate"
    /\ session[u] = "FREE"
    /\ session' = [session EXCEPT ![t] = "USED", ![u] = "ACTIVE"]
    /\ origin' = [origin EXCEPT ![u] = t]
    /\ End(r)
    /\ UNCHANGED <<account, expired, verified>>

\* Faulty variant: rows locked by others are passed over.
RevokeSkipLocked(r, t) ==
    /\ request[r].pc = "Revoke"
    /\ t \in request[r].found \ request[r].reached
    /\ request' = [request EXCEPT
                     ![r].reached = @ \cup {t},
                     ![r].locked = IF session[t] = "ACTIVE" /\ RowFree(r, t)
                                   THEN @ \cup {t} ELSE @]
    /\ UNCHANGED <<account, session, expired, origin, verified>>

\* The UPDATE waits for the row, looks at it again and locks it.
RevokeRow(r, t) ==
    /\ request[r].pc = "Revoke"
    /\ t \in request[r].found \ request[r].reached
    /\ RowFree(r, t)
    /\ request' = [request EXCEPT
                     ![r].reached = @ \cup {t},
                     ![r].locked = IF session[t] = "ACTIVE" THEN @ \cup {t} ELSE @]
    /\ UNCHANGED <<account, session, expired, origin, verified>>

RevokeCommit(r) ==
    /\ request[r].pc = "Revoke"
    /\ request[r].reached = request[r].found
    /\ session' = [t \in Token |->
                     IF t \in request[r].locked THEN "REVOKED" ELSE session[t]]
    /\ End(r)
    /\ UNCHANGED <<account, expired, origin, verified>>

\* A lost connection, a timeout, or PostgreSQL ending a deadlock.
Abort(r) ==
    /\ request[r].pc # "Idle"
    /\ End(r)
    /\ UNCHANGED <<account, session, expired, origin, verified>>

AuthNext ==
    \/ \E t \in Token : Signup(t) \/ Logout(t) \/ Expire(t)
    \/ \E l \in Login : LoginVerify(l) \/ \E t \in Token : LoginIssue(l, t)
    \/ Withdraw
    \/ \E r \in Request :
         \/ \E t \in Token : FindOwner(r, t) \/ Rotate(r, t) \/ RevokeRow(r, t)
         \/ LockUser(r)
         \/ LockSession(r)
         \/ Decide(r)
         \/ RevokeCommit(r)
         \/ Abort(r)

AuthSpec == AuthInit /\ [][AuthNext]_authVars

-----------------------------------------------------------------------------
(* Properties.                                                             *)

\* The rows and the requests have their shapes.
AuthTypeOK ==
    /\ account \in {"ABSENT", "PRESENT", "GONE"}
    /\ session \in [Token -> Status]
    /\ expired \subseteq Token
    /\ origin \in [Token -> Token \cup {NoToken}]
    /\ request \in [Request -> RequestRecord]
    /\ verified \subseteq Login

\* A refresh token is good for one new session, however many requests present
\* it at once (rotateRefreshSession locks the row before it looks at it).
OneSuccessor ==
    \A t, u \in Token : origin[t] = origin[u] /\ origin[t] # NoToken => t = u

\* No session of a deleted account is left or made, whatever request was
\* under way (deleteUser, createRefreshSession and the cascade of the table).
NoSessionWithoutAccount ==
    account # "PRESENT" => ActiveSessions = {}

\* The two together, and the shapes of the tables and requests.
SessionsSound == AuthTypeOK /\ OneSuccessor /\ NoSessionWithoutAccount

\* A request that ends with "reused" leaves no session active but those that
\* were issued while its UPDATE ran: if none is issued meanwhile, none is left,
\* though other requests held the rows when the UPDATE came to them.  (The lock on
\* the user is shared: a rotation of another token, or a login, may commit during
\* the UPDATE, whose snapshot does not show what they insert.)
ReuseRevokes ==
    [][\A r \in Request :
         RevokeCommit(r) => ActiveSessions' \cap request[r].made = {}]_authVars
=============================================================================

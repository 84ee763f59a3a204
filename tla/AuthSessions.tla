---------------------------- MODULE AuthSessions ----------------------------
(***************************************************************************)
(* Refresh token sessions: table auth_sessions, written by mock_login      *)
(* (issue_session), POST /auth/refresh (rotate_session) and POST           *)
(* /auth/logout (revoke_session), each in a database transaction of its    *)
(* own.                                                                    *)
(*                                                                         *)
(* A request reads the session of its token, reads the user, flushes its   *)
(* writes and commits; other requests run between these moments.  The      *)
(* flush updates the session's row and so holds the row's lock until the   *)
(* commit, but the checks were made on what was read before: they are not  *)
(* made again under the lock.  The update writes revoked_at only.          *)
(*                                                                         *)
(* A token is known by its session (tokens are random and their hashes     *)
(* unique).  A session's line is the login it descends from through        *)
(* rotated_from_session_id.  The time to live is the same for all          *)
(* sessions, so a session never expires after one rotated from it.         *)
(***************************************************************************)
EXTENDS Naturals, FiniteSets

CONSTANTS
    User,
    SerialUser,    \* users who send one request at a time
    Request,       \* transactions that may be open at the same time
    MaxSessions    \* bound: sessions created in one behaviour

ASSUME AuthSessionsAssumption ==
    /\ SerialUser \subseteq User
    /\ IsFiniteSet(Request)
    /\ MaxSessions \in Nat

VARIABLES
    sessions,   \* committed rows of auth_sessions
    revoked,    \* ids whose revoked_at is set
    expired,    \* ids whose expires_at has passed
    active,     \* users with is_active
    req         \* per transaction: the request it serves

vars == <<sessions, revoked, expired, active, req>>

NoSession == 0

SessionId == 1 .. MaxSessions

Row == [id : SessionId, user : User, parent : SessionId \cup {NoSession}, line : SessionId]

Idle == [pc |-> "idle"]

\* The request's token is that of session `of`; a login has none yet.
Open == [pc : {"found", "checked", "flushed"}, op : {"login", "refresh", "logout"},
         user : User, of : SessionId \cup {NoSession}]

TypeOK ==
    /\ sessions \subseteq Row
    /\ revoked \subseteq SessionId
    /\ expired \subseteq SessionId
    /\ active \subseteq User
    /\ req \in [Request -> {Idle} \cup Open]

-----------------------------------------------------------------------------
OpenOf(u) == {r \in Request : req[r] # Idle /\ req[r].user = u}

MaySend(u) == u \in SerialUser => OpenOf(u) = {}

Moves(r, pc) ==
    req' = [req EXCEPT ![r] = [pc |-> pc, op |-> @.op, user |-> @.user, of |-> @.of]]

NewId == Cardinality(sessions) + 1

Init ==
    /\ sessions = {}
    /\ revoked = {}
    /\ expired = {}
    /\ active = User
    /\ req = [r \in Request |-> Idle]

\* mock_login finds the user (active or not) and the membership, and flushes the new row.
Login(r, u) ==
    /\ req[r] = Idle
    /\ MaySend(u)
    /\ req' = [req EXCEPT ![r] = [pc |-> "flushed", op |-> "login", user |-> u, of |-> NoSession]]
    /\ UNCHANGED <<sessions, revoked, expired, active>>

\* Mutant of Usable: the check of revoked_at is missing.
UsableWhenRevoked(s) == s.id \notin expired

\* rotate_session goes on with a session that is neither revoked nor expired.
Usable(s) == s.id \notin revoked /\ s.id \notin expired

Refresh(r, s) ==
    /\ req[r] = Idle
    /\ MaySend(s.user)
    /\ Usable(s)
    /\ req' = [req EXCEPT ![r] = [pc |-> "found", op |-> "refresh", user |-> s.user, of |-> s.id]]
    /\ UNCHANGED <<sessions, revoked, expired, active>>

\* Mutant of CheckUser: a request refused for its user keeps the session it found.
CheckUserKeepingSession(r) ==
    /\ req[r].pc = "found"
    /\ IF req[r].user \in active
       THEN Moves(r, "checked")
       ELSE Moves(r, "idle")
    /\ UNCHANGED <<sessions, revoked, expired, active>>

\* The select of the user and of the membership; an inactive user gets a 401.
CheckUser(r) ==
    /\ req[r].pc = "found"
    /\ IF req[r].user \in active
       THEN Moves(r, "checked")
       ELSE req' = [req EXCEPT ![r] = Idle]
    /\ UNCHANGED <<sessions, revoked, expired, active>>

\* revoke_session checks nothing but that the session exists.
Logout(r, s) ==
    /\ req[r] = Idle
    /\ MaySend(s.user)
    /\ req' = [req EXCEPT ![r] = [pc |-> "checked", op |-> "logout", user |-> s.user, of |-> s.id]]
    /\ UNCHANGED <<sessions, revoked, expired, active>>

Locked(s) == \E r \in Request : req[r] # Idle /\ req[r].pc = "flushed" /\ req[r].of = s

\* The flush waits for the lock of the session's row, and does not read it again.
Flush(r) ==
    /\ req[r].pc = "checked"
    /\ ~ Locked(req[r].of)
    /\ Moves(r, "flushed")
    /\ UNCHANGED <<sessions, revoked, expired, active>>

LineOf(s) == (CHOOSE row \in sessions : row.id = s).line

NewRow(r) ==
    [id     |-> NewId,
     user   |-> req[r].user,
     parent |-> req[r].of,
     line   |-> IF req[r].op = "login" THEN NewId ELSE LineOf(req[r].of)]

\* Mutant of Revocations: only a logout sets revoked_at.
RevocationsOfLogout(r) == IF req[r].op = "logout" THEN {req[r].of} ELSE {}

\* Mutant of Revocations: the replacement is what gets revoked.
RevocationsOfReplacement(r) ==
    IF req[r].op = "logout" THEN {req[r].of} ELSE IF req[r].op = "refresh" THEN {NewId} ELSE {}

\* What the flushed update sets revoked_at of: the session of the request's token.
Revocations(r) == IF req[r].op = "login" THEN {} ELSE {req[r].of}

\* The flush reached the database, so even a request that raises from here on commits (get_db).
Commit(r) ==
    /\ req[r].pc = "flushed"
    /\ IF req[r].op = "logout"
       THEN UNCHANGED sessions
       ELSE /\ NewId <= MaxSessions
            /\ sessions' = sessions \cup {NewRow(r)}
    /\ revoked' = revoked \cup Revocations(r)
    /\ req' = [req EXCEPT ![r] = Idle]
    /\ UNCHANGED <<expired, active>>

\* The connection is lost before the commit.
Abort(r) ==
    /\ req[r] # Idle
    /\ req' = [req EXCEPT ![r] = Idle]
    /\ UNCHANGED <<sessions, revoked, expired, active>>

\* Time passes: of a line, the session rotated from is the first to expire.
Expire(s) ==
    /\ s.id \notin expired
    /\ s.parent # NoSession => s.parent \in expired
    /\ expired' = expired \cup {s.id}
    /\ UNCHANGED <<sessions, revoked, active, req>>

\* SCIM turns a user off and on again.
SetActive(u) ==
    /\ active' = IF u \in active THEN active \ {u} ELSE active \cup {u}
    /\ UNCHANGED <<sessions, revoked, expired, req>>

Step(r) ==
    \/ \E u \in User : Login(r, u)
    \/ \E s \in sessions : Refresh(r, s) \/ Logout(r, s)
    \/ CheckUser(r)
    \/ Flush(r)
    \/ Commit(r)
    \/ Abort(r)

Next ==
    \/ \E r \in Request : Step(r)
    \/ \E s \in sessions : Expire(s)
    \/ \E u \in User : SetActive(u)

Spec == Init /\ [][Next]_vars

-----------------------------------------------------------------------------
Successors(s) == {row \in sessions : row.parent = s}

(***************************************************************************)
(* A session that was rotated is revoked: rotate_session inserts the       *)
(* replacement and revokes the session in one transaction, and no request  *)
(* that read it before brings it back.                                     *)
(***************************************************************************)
RotatedAreRevoked ==
    \A row \in sessions : row.parent # NoSession => row.parent \in revoked

Refreshing(s) == {r \in Request : req[r] # Idle /\ req[r].op = "refresh" /\ req[r].of = s}

(***************************************************************************)
(* How often one refresh token can be rotated: every rotation read the     *)
(* session before it was revoked, so the rotations made and those under    *)
(* way are together no more than the requests that may be open at a time.  *)
(***************************************************************************)
RotationsBounded ==
    \A s \in revoked : Cardinality(Successors(s)) + Cardinality(Refreshing(s)) <= Cardinality(Request)

(***************************************************************************)
(* A user who sends one request at a time has at most one live session per *)
(* login, whatever expires, is aborted or is deactivated in between.       *)
(***************************************************************************)
SerialLinesHaveOneLive ==
    \A a, b \in sessions :
        (a.user \in SerialUser /\ a.line = b.line /\ {a.id, b.id} \cap revoked = {}) => a = b

(***************************************************************************)
(* What rotation is for: a refresh token is exchanged once.  The code does *)
(* not hold to it when the token is presented twice at the same time.      *)
(***************************************************************************)
RotatedOnce == \A a, b \in sessions : (a.parent = b.parent /\ a.parent # NoSession) => a = b

(***************************************************************************)
(* For serial users the table implements SessionLine: rotation hands the   *)
(* line's one session on, and a line that was logged out stays ended.      *)
(***************************************************************************)
SerialRows(l) == {row \in sessions : row.line = l /\ row.user \in SerialUser}

SerialLive(l) == {row.id : row \in SerialRows(l)} \ revoked

Lines == INSTANCE SessionLine
    WITH Line <- SessionId,
         Session <- SessionId,
         holder <- [l \in SessionId |->
                        IF SerialLive(l) = {} THEN NoSession ELSE CHOOSE s \in SerialLive(l) : TRUE],
         issued <- [l \in SessionId |-> {row.id : row \in SerialRows(l)}]

LinesSpec == Lines!Spec
=============================================================================

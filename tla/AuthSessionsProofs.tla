------------------------- MODULE AuthSessionsProofs -------------------------
(***************************************************************************)
(* Proofs about refresh token sessions, for any users, requests and bound. *)
(*                                                                         *)
(* The inductive invariant IInv adds to the properties that ids are given  *)
(* once and in order (IdsGiven), that a line belongs to one user and       *)
(* starts with its first id (LinesOwned), that a request's token is that   *)
(* of a row of its user (TokensKnown), that the bound on rotations holds   *)
(* of every session (RotationsOfAll), and that the request of a serial     *)
(* user is alone and, if it refreshes, still rotates a session that is not *)
(* revoked (SerialAlone).                                                  *)
(***************************************************************************)
EXTENDS AuthSessions, FiniteSetTheorems, TLAPS

IdsGiven ==
    /\ IsFiniteSet(sessions)
    /\ \A s \in sessions : s.id <= Cardinality(sessions) /\ s.parent <= Cardinality(sessions)
    /\ \A s \in revoked : s <= Cardinality(sessions)
    /\ \A a, b \in sessions : a.id = b.id => a = b

LinesOwned ==
    /\ \A s \in sessions : s.line <= s.id
    /\ \A a, b \in sessions : a.line = b.line => a.user = b.user

TokensKnown ==
    \A r \in Request : req[r] # Idle =>
        IF req[r].op = "login"
        THEN req[r].of = NoSession
        ELSE \E s \in sessions : s.id = req[r].of /\ s.user = req[r].user

RotationsOfAll ==
    \A s \in SessionId : Cardinality(Successors(s)) + Cardinality(Refreshing(s)) <= Cardinality(Request)

SerialAlone ==
    \A r \in Request : (req[r] # Idle /\ req[r].user \in SerialUser) =>
        /\ OpenOf(req[r].user) = {r}
        /\ req[r].op = "refresh" => req[r].of \notin revoked

IInv ==
    /\ TypeOK
    /\ IdsGiven
    /\ LinesOwned
    /\ TokensKnown
    /\ RotatedAreRevoked
    /\ RotationsOfAll
    /\ SerialAlone
    /\ SerialLinesHaveOneLive

-----------------------------------------------------------------------------
(* Requests                                                                *)

LEMMA OpenFacts ==
    ASSUME TypeOK, NEW r \in Request
    PROVE  /\ req[r] # Idle => /\ req[r] \in Open /\ req[r].user \in User
                               /\ req[r].op \in {"login", "refresh", "logout"}
                               /\ req[r].of \in SessionId \cup {NoSession}
           /\ req[r].pc \in {"found", "checked", "flushed"} => req[r] # Idle
BY DEF TypeOK, Open, Idle

\* What a step that commits nothing keeps.
LEMMA RowsKept ==
    ASSUME IInv, UNCHANGED <<sessions, revoked>>
    PROVE  /\ IdsGiven' /\ LinesOwned' /\ RotatedAreRevoked' /\ SerialLinesHaveOneLive'
           /\ \A s : Successors(s)' = Successors(s)
BY DEF IInv, IdsGiven, LinesOwned, RotatedAreRevoked, SerialLinesHaveOneLive, Successors

\* A request that is opened knows its token and, of a serial user, is alone.
LEMMA Opens ==
    ASSUME IInv, NEW r \in Request, NEW new \in Open, req[r] = Idle,
           req' = [req EXCEPT ![r] = new],
           UNCHANGED <<sessions, revoked, expired, active>>,
           MaySend(new.user),
           IF new.op = "login"
           THEN new.of = NoSession
           ELSE \E s \in sessions : s.id = new.of /\ s.user = new.user,
           new.op = "refresh" => new.of \notin revoked
    PROVE  IInv'
<1> USE DEF IInv
<1>1. new # Idle
  BY DEF Open, Idle
<1>2. \A q \in Request : req'[q] = IF q = r THEN new ELSE req[q]
  BY DEF TypeOK
<1>3. TypeOK'
  BY DEF TypeOK
<1>4. /\ IdsGiven' /\ LinesOwned' /\ RotatedAreRevoked' /\ SerialLinesHaveOneLive'
      /\ \A s : Successors(s)' = Successors(s)
  BY RowsKept
<1>5. TokensKnown'
  BY <1>2 DEF TokensKnown
<1>6. RotationsOfAll'
  <2> SUFFICES ASSUME NEW s \in SessionId
               PROVE  Cardinality(Successors(s)') + Cardinality(Refreshing(s)') <= Cardinality(Request)
    BY DEF RotationsOfAll
  <2>1. CASE new.op = "refresh" /\ new.of = s
    <3>1. Successors(s) = {}
      BY <2>1 DEF RotatedAreRevoked, Successors, SessionId, NoSession
    <3>2. Cardinality(Successors(s)') = 0
      BY <1>4, <3>1, FS_EmptySet
    <3>3. Refreshing(s)' \in SUBSET Request
      BY DEF Refreshing
    <3>4. Cardinality(Refreshing(s)') <= Cardinality(Request) /\ Cardinality(Refreshing(s)') \in Nat
      BY <3>3, FS_Subset, FS_CardinalityType, AuthSessionsAssumption
    <3> QED
      BY <3>2, <3>4
  <2>2. CASE ~ (new.op = "refresh" /\ new.of = s)
    <3>1. Refreshing(s)' = Refreshing(s)
      BY <1>2, <2>2 DEF Refreshing
    <3> QED
      BY <1>4, <3>1 DEF RotationsOfAll
  <2> QED
    BY <2>1, <2>2
<1>7. SerialAlone'
  <2> SUFFICES ASSUME NEW q \in Request, req'[q] # Idle, req'[q].user \in SerialUser
               PROVE  /\ \A p \in Request : req'[p] # Idle /\ req'[p].user = req'[q].user => p = q
                      /\ req'[q].op = "refresh" => req'[q].of \notin revoked
    BY DEF SerialAlone, OpenOf
  <2>1. CASE q = r
    BY <1>2, <2>1 DEF MaySend, OpenOf
  <2>2. CASE q # r
    <3>1. req'[q] = req[q] /\ q \in OpenOf(req[q].user)
      BY <1>2, <2>2 DEF OpenOf
    <3>2. new.user # req[q].user
      BY <3>1 DEF MaySend
    <3>3. OpenOf(req[q].user) = {q} /\ (req[q].op = "refresh" => req[q].of \notin revoked)
      BY <3>1 DEF SerialAlone
    <3> QED
      BY <1>2, <3>1, <3>2, <3>3 DEF OpenOf
  <2> QED
    BY <2>1, <2>2
<1> QED
  BY <1>3, <1>4, <1>5, <1>6, <1>7

\* A request moves on with the same token.
LEMMA MovesOn ==
    ASSUME IInv, NEW r \in Request, req[r] # Idle, NEW pc \in {"found", "checked", "flushed"},
           Moves(r, pc),
           UNCHANGED <<sessions, revoked, expired, active>>
    PROVE  IInv'
<1> USE DEF IInv
<1> DEFINE new == [pc |-> pc, op |-> req[r].op, user |-> req[r].user, of |-> req[r].of]
<1>1. new \in Open /\ new # Idle /\ new.op = req[r].op /\ new.user = req[r].user /\ new.of = req[r].of
  BY OpenFacts DEF Open, Idle
<1>2. req' = [req EXCEPT ![r] = new]
  BY DEF Moves
<1> HIDE DEF new
<1>3. \A q \in Request : req'[q] = IF q = r THEN new ELSE req[q]
  BY <1>2 DEF TypeOK
<1>4. TypeOK'
  BY <1>1, <1>2 DEF TypeOK
<1>5. /\ IdsGiven' /\ LinesOwned' /\ RotatedAreRevoked' /\ SerialLinesHaveOneLive'
      /\ \A s : Successors(s)' = Successors(s)
  BY RowsKept
<1>6. TokensKnown'
  BY <1>1, <1>3 DEF TokensKnown
<1>7. \A s : Refreshing(s)' = Refreshing(s)
  BY <1>1, <1>3 DEF Refreshing
<1>8. RotationsOfAll'
  BY <1>5, <1>7 DEF RotationsOfAll
<1>9. \A u : OpenOf(u)' = OpenOf(u)
  BY <1>1, <1>3 DEF OpenOf
<1>10. SerialAlone'
  <2> SUFFICES ASSUME NEW q \in Request, req'[q] # Idle, NEW u \in SerialUser, req'[q].user = u
               PROVE  OpenOf(u)' = {q} /\ (req'[q].op = "refresh" => req'[q].of \notin revoked)
    BY DEF SerialAlone, OpenOf
  <2> QED
    BY <1>1, <1>3, <1>9 DEF SerialAlone
<1> QED
  BY <1>4, <1>5, <1>6, <1>8, <1>10

\* A request ends without a commit.
LEMMA Closes ==
    ASSUME IInv, NEW r \in Request,
           req' = [req EXCEPT ![r] = Idle],
           UNCHANGED <<sessions, revoked, expired, active>>
    PROVE  IInv'
<1> USE DEF IInv
<1>1. \A q \in Request : req'[q] = IF q = r THEN Idle ELSE req[q]
  BY DEF TypeOK
<1>2. TypeOK'
  BY DEF TypeOK
<1>3. /\ IdsGiven' /\ LinesOwned' /\ RotatedAreRevoked' /\ SerialLinesHaveOneLive'
      /\ \A s : Successors(s)' = Successors(s)
  BY RowsKept
<1>4. TokensKnown'
  BY <1>1 DEF TokensKnown
<1>5. RotationsOfAll'
  <2> SUFFICES ASSUME NEW s \in SessionId
               PROVE  Cardinality(Successors(s)') + Cardinality(Refreshing(s)') <= Cardinality(Request)
    BY DEF RotationsOfAll
  <2>1. Refreshing(s)' \in SUBSET Refreshing(s) /\ Refreshing(s) \in SUBSET Request
    BY <1>1 DEF Refreshing
  <2>2. IsFiniteSet(Refreshing(s)) /\ IsFiniteSet(Successors(s))
    <3>1. Successors(s) \in SUBSET sessions
      BY DEF Successors
    <3> QED
      BY <2>1, <3>1, FS_Subset, AuthSessionsAssumption DEF IdsGiven
  <2>3. /\ Cardinality(Refreshing(s)') <= Cardinality(Refreshing(s))
        /\ IsFiniteSet(Refreshing(s)')
    BY <2>1, <2>2, FS_Subset
  <2>4. /\ Cardinality(Refreshing(s)') \in Nat /\ Cardinality(Refreshing(s)) \in Nat
        /\ Cardinality(Successors(s)) \in Nat /\ Cardinality(Request) \in Nat
    BY <2>2, <2>3, FS_CardinalityType, AuthSessionsAssumption
  <2>5. Cardinality(Successors(s)) + Cardinality(Refreshing(s)) <= Cardinality(Request)
    BY DEF RotationsOfAll
  <2> QED
    BY <1>3, <2>3, <2>4, <2>5
<1>6. SerialAlone'
  <2> SUFFICES ASSUME NEW q \in Request, req'[q] # Idle, NEW u \in SerialUser, req'[q].user = u
               PROVE  OpenOf(u)' = {q} /\ (req'[q].op = "refresh" => req'[q].of \notin revoked)
    BY DEF SerialAlone, OpenOf
  <2>1. q # r /\ req'[q] = req[q]
    BY <1>1
  <2>2. OpenOf(u)' = OpenOf(u) \ {r}
    BY <1>1 DEF OpenOf
  <2> QED
    BY <2>1, <2>2 DEF SerialAlone
<1> QED
  BY <1>2, <1>3, <1>4, <1>5, <1>6

-----------------------------------------------------------------------------
(* Commits                                                                 *)

\* The sessions there are, and the request that commits.
LEMMA CommitFacts ==
    ASSUME IInv, NEW r \in Request, Commit(r)
    PROVE  /\ req[r] \in Open /\ req[r] # Idle /\ req[r].user \in User
           /\ req[r].op \in {"login", "refresh", "logout"}
           /\ NewId = Cardinality(sessions) + 1 /\ Cardinality(sessions) \in Nat
           /\ \A q \in Request : req'[q] = IF q = r THEN Idle ELSE req[q]
           /\ revoked' = revoked \cup Revocations(r) /\ UNCHANGED <<expired, active>>
           /\ req[r].op = "login" => req[r].of = NoSession /\ Revocations(r) = {}
           /\ req[r].op # "login" =>
                 /\ Revocations(r) = {req[r].of} /\ req[r].of \in SessionId
                 /\ \E s \in sessions : s.id = req[r].of /\ s.user = req[r].user
<1> USE DEF IInv
<1>1. req[r] \in Open /\ req[r] # Idle /\ req[r].user \in User
      /\ req[r].op \in {"login", "refresh", "logout"}
  BY OpenFacts DEF Commit
<1>2. NewId = Cardinality(sessions) + 1 /\ Cardinality(sessions) \in Nat
  BY FS_CardinalityType DEF NewId, IdsGiven
<1>3. \A q \in Request : req'[q] = IF q = r THEN Idle ELSE req[q]
  BY DEF Commit, TypeOK
<1>4. revoked' = revoked \cup Revocations(r) /\ UNCHANGED <<expired, active>>
  BY DEF Commit
<1>5. req[r].op = "login" => req[r].of = NoSession /\ Revocations(r) = {}
  BY <1>1 DEF TokensKnown, Revocations
<1>6. req[r].op # "login" =>
          /\ Revocations(r) = {req[r].of} /\ req[r].of \in SessionId
          /\ \E s \in sessions : s.id = req[r].of /\ s.user = req[r].user
  <2>1. \A s \in sessions : s.id \in SessionId
    BY DEF TypeOK, Row
  <2> QED
    BY <1>1, <2>1 DEF TokensKnown, Revocations
<1> QED
  BY <1>1, <1>2, <1>3, <1>4, <1>5, <1>6

\* The row a login or a refresh inserts.
LEMMA NewRowFacts ==
    ASSUME IInv, NEW r \in Request, Commit(r), req[r].op # "logout"
    PROVE  /\ NewRow(r) \in Row /\ NewRow(r) \notin sessions
           /\ NewRow(r).id = Cardinality(sessions) + 1
           /\ NewRow(r).user = req[r].user /\ NewRow(r).parent = req[r].of
           /\ sessions' = sessions \cup {NewRow(r)}
           /\ IsFiniteSet(sessions') /\ Cardinality(sessions') = Cardinality(sessions) + 1
           /\ req[r].op = "login" => NewRow(r).line = NewRow(r).id
           /\ req[r].op = "refresh" =>
                 \E s \in sessions : /\ s.id = req[r].of /\ s.user = req[r].user
                                     /\ NewRow(r).line = s.line
<1> USE DEF IInv
<1> DEFINE line == IF req[r].op = "login" THEN NewId ELSE LineOf(req[r].of)
<1>1. NewRow(r) = [id |-> NewId, user |-> req[r].user, parent |-> req[r].of, line |-> line]
  BY DEF NewRow
<1>2. NewId \in SessionId /\ NewId = Cardinality(sessions) + 1
  <2>1. NewId <= MaxSessions
    BY DEF Commit
  <2> QED
    BY <2>1, CommitFacts, AuthSessionsAssumption DEF SessionId
<1>3. req[r].op = "refresh" =>
          \E s \in sessions : s.id = req[r].of /\ s.user = req[r].user /\ LineOf(req[r].of) = s.line
  <2> SUFFICES ASSUME req[r].op = "refresh"
               PROVE  \E s \in sessions : s.id = req[r].of /\ s.user = req[r].user /\ LineOf(req[r].of) = s.line
    OBVIOUS
  <2>1. PICK s \in sessions : s.id = req[r].of /\ s.user = req[r].user
    BY CommitFacts
  <2>2. \A t \in sessions : t.id = req[r].of => t = s
    BY <2>1 DEF IdsGiven
  <2>3. LineOf(req[r].of) = s.line
    BY <2>1, <2>2 DEF LineOf
  <2> QED
    BY <2>1, <2>3
<1>4. line \in SessionId
  <2>1. \A s \in sessions : s.line \in SessionId
    BY DEF TypeOK, Row
  <2> QED
    BY <1>2, <1>3, <2>1, CommitFacts
<1> HIDE DEF line
<1>5. req[r].of \in SessionId \cup {NoSession} /\ req[r].user \in User
  BY CommitFacts
<1>6. NewRow(r) \in Row
  BY <1>1, <1>2, <1>4, <1>5 DEF Row
<1>7. NewRow(r).id = NewId /\ NewRow(r).user = req[r].user /\ NewRow(r).parent = req[r].of
      /\ NewRow(r).line = line
  BY <1>1
<1>8. NewRow(r) \notin sessions
  BY <1>2, <1>7, CommitFacts DEF IdsGiven
<1>9. sessions' = sessions \cup {NewRow(r)}
  BY DEF Commit
<1>10. IsFiniteSet(sessions') /\ Cardinality(sessions') = Cardinality(sessions) + 1
  BY <1>8, <1>9, FS_AddElement DEF IdsGiven
<1> QED
  BY <1>2, <1>3, <1>6, <1>7, <1>8, <1>9, <1>10, CommitFacts DEF line

LEMMA CommitTypes ==
    ASSUME IInv, NEW r \in Request, Commit(r)
    PROVE  TypeOK'
<1> USE DEF IInv
<1>1. sessions' \subseteq Row
  BY NewRowFacts DEF Commit, TypeOK
<1>2. revoked' \subseteq SessionId
  BY CommitFacts DEF TypeOK
<1>3. req' \in [Request -> {Idle} \cup Open]
  BY DEF Commit, TypeOK
<1> QED
  BY <1>1, <1>2, <1>3, CommitFacts DEF TypeOK

LEMMA CommitIds ==
    ASSUME IInv, NEW r \in Request, Commit(r)
    PROVE  IdsGiven' /\ LinesOwned' /\ TokensKnown' /\ RotatedAreRevoked'
<1> USE DEF IInv
<1>1. \A s \in sessions : s.id \in Nat /\ s.line \in Nat /\ s.parent \in Nat
  BY DEF TypeOK, Row, SessionId, NoSession
<1>2. \A s \in revoked : s \in Nat
  BY DEF TypeOK, SessionId
<1>3. req[r].op # "login" => req[r].of <= Cardinality(sessions)
  BY CommitFacts DEF IdsGiven
<1>4. \A s \in revoked' : s <= Cardinality(sessions)
  BY <1>3, CommitFacts DEF IdsGiven
<1>5. TokensKnown'
  <2>1. sessions \subseteq sessions'
    BY DEF Commit
  <2> QED
    BY <2>1, CommitFacts DEF TokensKnown
<1>6. CASE req[r].op = "logout"
  <2>1. sessions' = sessions
    BY <1>6 DEF Commit
  <2> QED
    BY <1>4, <1>5, <2>1, CommitFacts DEF IdsGiven, LinesOwned, RotatedAreRevoked
<1>7. CASE req[r].op # "logout"
  <2> PICK row : row = NewRow(r)
    OBVIOUS
  <2>1. /\ row \in Row /\ row.id = Cardinality(sessions) + 1 /\ row.parent = req[r].of
        /\ sessions' = sessions \cup {row} /\ Cardinality(sessions') = Cardinality(sessions) + 1
        /\ IsFiniteSet(sessions') /\ Cardinality(sessions) \in Nat /\ row.user = req[r].user
    BY <1>7, NewRowFacts, CommitFacts
  <2>2. row.parent <= Cardinality(sessions)
    BY <1>3, <2>1, CommitFacts DEF NoSession
  <2>3. IdsGiven'
    <3>1. \A s \in sessions' : s.id <= Cardinality(sessions') /\ s.parent <= Cardinality(sessions')
      <4>1. \A s \in sessions : s.id <= Cardinality(sessions) /\ s.parent <= Cardinality(sessions)
        BY DEF IdsGiven
      <4>2. row.parent \in Nat /\ row.id \in Nat
        BY <2>1 DEF Row, SessionId, NoSession
      <4> QED
        BY <1>1, <2>1, <2>2, <4>1, <4>2
    <3>2. \A s \in revoked' : s <= Cardinality(sessions')
      <4>1. \A s \in revoked' : s \in Nat
        BY CommitTypes DEF TypeOK, SessionId
      <4> QED
        BY <1>4, <2>1, <4>1
    <3>3. \A a, b \in sessions' : a.id = b.id => a = b
      <4>1. \A s \in sessions : s.id # row.id
        BY <1>1, <2>1 DEF IdsGiven
      <4> QED
        BY <2>1, <4>1 DEF IdsGiven
    <3> QED
      BY <2>1, <3>1, <3>2, <3>3 DEF IdsGiven
  <2>4. row.line <= row.id /\ \A s \in sessions : s.line = row.line => s.user = row.user
    <3>1. CASE req[r].op = "login"
      <4>1. row.line = row.id
        BY <1>7, <3>1, NewRowFacts
      <4> QED
        BY <1>1, <2>1, <4>1 DEF LinesOwned, IdsGiven
    <3>2. CASE req[r].op = "refresh"
      <4>1. PICK s \in sessions : s.id = req[r].of /\ s.user = req[r].user /\ row.line = s.line
        BY <1>7, <3>2, NewRowFacts
      <4> QED
        BY <1>1, <2>1, <4>1 DEF LinesOwned, IdsGiven
    <3> QED
      BY <1>7, <3>1, <3>2, CommitFacts
  <2>5. LinesOwned'
    BY <2>1, <2>4 DEF LinesOwned
  <2>6. RotatedAreRevoked'
    BY <2>1, CommitFacts DEF RotatedAreRevoked
  <2> QED
    BY <1>5, <2>3, <2>5, <2>6
<1> QED
  BY <1>6, <1>7

\* A rotation that commits was under way before.
LEMMA CommitRotations ==
    ASSUME IInv, NEW r \in Request, Commit(r)
    PROVE  RotationsOfAll'
<1> USE DEF IInv
<1> SUFFICES ASSUME NEW s \in SessionId
             PROVE  Cardinality(Successors(s)') + Cardinality(Refreshing(s)') <= Cardinality(Request)
  BY DEF RotationsOfAll
<1>1. Refreshing(s) \in SUBSET Request /\ Successors(s) \in SUBSET sessions
  BY DEF Refreshing, Successors
<1>2. IsFiniteSet(Refreshing(s)) /\ IsFiniteSet(Successors(s))
  BY <1>1, FS_Subset, AuthSessionsAssumption DEF IdsGiven
<1>3. Refreshing(s)' = Refreshing(s) \ {r}
  BY CommitFacts DEF Refreshing
<1>4. /\ Cardinality(Refreshing(s)') = Cardinality(Refreshing(s)) - (IF r \in Refreshing(s) THEN 1 ELSE 0)
      /\ Cardinality(Refreshing(s)) \in Nat /\ Cardinality(Successors(s)) \in Nat
      /\ Cardinality(Request) \in Nat
  BY <1>2, <1>3, FS_RemoveElement, FS_CardinalityType, AuthSessionsAssumption
<1>5. Cardinality(Successors(s)) + Cardinality(Refreshing(s)) <= Cardinality(Request)
  BY DEF RotationsOfAll
<1>6. CASE r \in Refreshing(s)
  <2>1. req[r].op = "refresh" /\ req[r].of = s
    BY <1>6 DEF Refreshing
  <2>2. Successors(s)' = Successors(s) \cup {NewRow(r)}
    BY <2>1, NewRowFacts DEF Successors
  <2>3. NewRow(r) \notin Successors(s)
    BY <2>1, NewRowFacts DEF Successors
  <2>4. Cardinality(Successors(s)') = Cardinality(Successors(s)) + 1
    BY <1>2, <2>2, <2>3, FS_AddElement
  <2> QED
    BY <1>4, <1>5, <1>6, <2>4
<1>7. CASE r \notin Refreshing(s)
  <2>1. ~ (req[r].op = "refresh" /\ req[r].of = s)
    BY <1>7, CommitFacts DEF Refreshing
  <2>2. Successors(s)' = Successors(s)
    <3>1. CASE req[r].op = "logout"
      BY <3>1 DEF Successors, Commit
    <3>2. CASE req[r].op # "logout"
      <4>1. NewRow(r).parent # s
        BY <2>1, <3>2, NewRowFacts, CommitFacts DEF SessionId, NoSession
      <4> QED
        BY <3>2, <4>1, NewRowFacts DEF Successors
    <3> QED
      BY <3>1, <3>2
  <2> QED
    BY <1>4, <1>5, <1>7, <2>2
<1> QED
  BY <1>6, <1>7

LEMMA CommitSerial ==
    ASSUME IInv, NEW r \in Request, Commit(r)
    PROVE  SerialAlone'
<1> USE DEF IInv
<1> SUFFICES ASSUME NEW q \in Request, req'[q] # Idle, NEW u \in SerialUser, req'[q].user = u
             PROVE  OpenOf(u)' = {q} /\ (req'[q].op = "refresh" => req'[q].of \notin revoked')
  BY DEF SerialAlone, OpenOf
<1>1. q # r /\ req'[q] = req[q] /\ req[q] # Idle /\ req[q].user = u
  BY CommitFacts
<1>2. OpenOf(u)' = OpenOf(u) \ {r}
  BY CommitFacts DEF OpenOf
<1>3. OpenOf(u) = {q} /\ (req[q].op = "refresh" => req[q].of \notin revoked)
  BY <1>1 DEF SerialAlone
<1>4. req[r].user # u
  BY <1>1, <1>3, CommitFacts DEF OpenOf
<1>5. req[q].op = "refresh" => req[q].of \notin Revocations(r)
  <2> SUFFICES ASSUME req[q].op = "refresh", req[r].op # "login"
               PROVE  req[q].of # req[r].of
    BY CommitFacts
  <2>1. PICK a \in sessions : a.id = req[r].of /\ a.user = req[r].user
    BY CommitFacts
  <2>2. PICK b \in sessions : b.id = req[q].of /\ b.user = u
    BY <1>1 DEF TokensKnown
  <2> QED
    BY <1>4, <2>1, <2>2 DEF IdsGiven
<1> QED
  BY <1>1, <1>2, <1>3, <1>5, CommitFacts

\* A serial user's rotation revokes the one live session of its line.
LEMMA CommitLines ==
    ASSUME IInv, NEW r \in Request, Commit(r)
    PROVE  SerialLinesHaveOneLive'
<1> USE DEF IInv
<1>1. CASE req[r].op = "logout"
  BY <1>1, CommitFacts DEF Commit, SerialLinesHaveOneLive
<1>2. CASE req[r].op # "logout"
  <2> PICK row : row = NewRow(r)
    OBVIOUS
  <2>1. sessions' = sessions \cup {row} /\ row.user = req[r].user /\ row.id = Cardinality(sessions) + 1
    BY <1>2, NewRowFacts
  <2>2. \A s \in sessions : (row.user \in SerialUser /\ s.line = row.line) => s.id \in revoked'
    <3> SUFFICES ASSUME NEW s \in sessions, row.user \in SerialUser, s.line = row.line
                 PROVE  s.id \in revoked'
      OBVIOUS
    <3>1. CASE req[r].op = "login"
      <4>1. row.line = row.id
        BY <1>2, <3>1, NewRowFacts
      <4>2. s.line <= s.id /\ s.id <= Cardinality(sessions) /\ s.line \in Nat /\ s.id \in Nat
            /\ Cardinality(sessions) \in Nat
        <5>1. s \in Row
          BY DEF TypeOK
        <5>2. s.line \in Nat /\ s.id \in Nat
          BY <5>1 DEF Row, SessionId
        <5> QED
          BY <5>2, CommitFacts DEF LinesOwned, IdsGiven
      <4> QED
        BY <2>1, <4>1, <4>2
    <3>2. CASE req[r].op = "refresh"
      <4>1. PICK t \in sessions : t.id = req[r].of /\ t.user = req[r].user /\ row.line = t.line
        BY <1>2, <3>2, NewRowFacts
      <4>2. t.id \notin revoked /\ revoked' = revoked \cup {t.id}
        BY <2>1, <3>2, <4>1, CommitFacts DEF SerialAlone
      <4>3. s.id \in revoked \/ s = t
        BY <2>1, <4>1, <4>2 DEF SerialLinesHaveOneLive
      <4> QED
        BY <4>2, <4>3
    <3> QED
      BY <1>2, <3>1, <3>2, CommitFacts
  <2>3. \A s \in sessions : (s.line = row.line /\ s.user \in SerialUser) => row.user \in SerialUser
    <3>1. LinesOwned'
      BY CommitIds
    <3> QED
      BY <2>1, <3>1 DEF LinesOwned
  <2> QED
    BY <2>1, <2>2, <2>3, CommitFacts DEF SerialLinesHaveOneLive
<1> QED
  BY <1>1, <1>2

-----------------------------------------------------------------------------
(* The inductive invariant                                                 *)

LEMMA IInvInit == Init => IInv
<1> SUFFICES ASSUME Init PROVE IInv
  OBVIOUS
<1>1. TypeOK
  BY DEF Init, TypeOK
<1>2. IdsGiven /\ LinesOwned /\ RotatedAreRevoked /\ SerialLinesHaveOneLive
  BY FS_EmptySet DEF Init, IdsGiven, LinesOwned, RotatedAreRevoked, SerialLinesHaveOneLive
<1>3. TokensKnown /\ SerialAlone
  BY DEF Init, TokensKnown, SerialAlone
<1>4. RotationsOfAll
  <2>1. \A s : Successors(s) = {} /\ Refreshing(s) = {}
    BY DEF Init, Successors, Refreshing
  <2>2. Cardinality(Request) \in Nat
    BY FS_CardinalityType, AuthSessionsAssumption
  <2>3. \A s : Cardinality(Successors(s)) = 0 /\ Cardinality(Refreshing(s)) = 0
    BY <2>1, FS_EmptySet
  <2> QED
    BY <2>2, <2>3 DEF RotationsOfAll
<1> QED
  BY <1>1, <1>2, <1>3, <1>4 DEF IInv

LEMMA IInvNext == IInv /\ [Next]_vars => IInv'
<1> SUFFICES ASSUME IInv, [Next]_vars PROVE IInv'
  OBVIOUS
<1>1. ASSUME NEW r \in Request, NEW u \in User, Login(r, u) PROVE IInv'
  <2> DEFINE new == [pc |-> "flushed", op |-> "login", user |-> u, of |-> NoSession]
  <2>1. new \in Open /\ new.op = "login" /\ new.user = u /\ new.of = NoSession
    BY DEF Open
  <2>2. req' = [req EXCEPT ![r] = new] /\ req[r] = Idle /\ MaySend(u)
        /\ UNCHANGED <<sessions, revoked, expired, active>>
    BY <1>1 DEF Login
  <2> HIDE DEF new
  <2> QED
    BY <2>1, <2>2, Opens
<1>2. ASSUME NEW r \in Request, NEW s \in sessions, Refresh(r, s) PROVE IInv'
  <2> DEFINE new == [pc |-> "found", op |-> "refresh", user |-> s.user, of |-> s.id]
  <2>1. new \in Open /\ new.op = "refresh" /\ new.user = s.user /\ new.of = s.id
    BY DEF Open, IInv, TypeOK, Row
  <2>2. req' = [req EXCEPT ![r] = new] /\ req[r] = Idle /\ MaySend(s.user) /\ s.id \notin revoked
        /\ UNCHANGED <<sessions, revoked, expired, active>>
    BY <1>2 DEF Refresh, Usable
  <2> HIDE DEF new
  <2> QED
    BY <2>1, <2>2, Opens
<1>3. ASSUME NEW r \in Request, NEW s \in sessions, Logout(r, s) PROVE IInv'
  <2> DEFINE new == [pc |-> "checked", op |-> "logout", user |-> s.user, of |-> s.id]
  <2>1. new \in Open /\ new.op = "logout" /\ new.user = s.user /\ new.of = s.id
    BY DEF Open, IInv, TypeOK, Row
  <2>2. req' = [req EXCEPT ![r] = new] /\ req[r] = Idle /\ MaySend(s.user)
        /\ UNCHANGED <<sessions, revoked, expired, active>>
    BY <1>3 DEF Logout
  <2> HIDE DEF new
  <2> QED
    BY <2>1, <2>2, Opens
<1>4. ASSUME NEW r \in Request, CheckUser(r) PROVE IInv'
  <2>1. req[r] # Idle
    BY <1>4, OpenFacts DEF CheckUser, IInv
  <2> QED
    BY <1>4, <2>1, MovesOn, Closes DEF CheckUser
<1>5. ASSUME NEW r \in Request, Flush(r) PROVE IInv'
  <2>1. req[r] # Idle
    BY <1>5, OpenFacts DEF Flush, IInv
  <2> QED
    BY <1>5, <2>1, MovesOn DEF Flush
<1>6. ASSUME NEW r \in Request, Commit(r) PROVE IInv'
  BY <1>6, CommitTypes, CommitIds, CommitRotations, CommitSerial, CommitLines DEF IInv
<1>7. ASSUME NEW r \in Request, Abort(r) PROVE IInv'
  BY <1>7, Closes DEF Abort
<1>8. CASE /\ UNCHANGED <<sessions, revoked, req>>
           /\ expired' \subseteq SessionId /\ active' \subseteq User
  <2>1. \A s : Successors(s)' = Successors(s) /\ Refreshing(s)' = Refreshing(s)
    BY <1>8 DEF Successors, Refreshing
  <2>2. \A u : OpenOf(u)' = OpenOf(u)
    BY <1>8 DEF OpenOf
  <2>3. SerialAlone'
    <3> SUFFICES ASSUME NEW q \in Request, req'[q] # Idle, NEW u \in SerialUser, req'[q].user = u
                 PROVE  OpenOf(u)' = {q} /\ (req'[q].op = "refresh" => req'[q].of \notin revoked')
      BY DEF SerialAlone, OpenOf
    <3> QED
      BY <1>8, <2>2 DEF SerialAlone, IInv
  <2>4. TypeOK' /\ TokensKnown' /\ RotationsOfAll'
    BY <1>8, <2>1 DEF IInv, TypeOK, TokensKnown, RotationsOfAll
  <2> QED
    BY <1>8, <2>3, <2>4, RowsKept DEF IInv
<1>9. ASSUME NEW s \in sessions, Expire(s) PROVE IInv'
  <2>1. s.id \in SessionId
    BY DEF IInv, TypeOK, Row
  <2> QED
    BY <1>8, <1>9, <2>1 DEF Expire, IInv, TypeOK
<1>10. ASSUME NEW u \in User, SetActive(u) PROVE IInv'
  BY <1>8, <1>10 DEF SetActive, IInv, TypeOK
<1>11. CASE UNCHANGED vars
  BY <1>8, <1>11 DEF vars, IInv, TypeOK
<1> QED
  BY <1>1, <1>2, <1>3, <1>4, <1>5, <1>6, <1>7, <1>9, <1>10, <1>11 DEF Next, Step

-----------------------------------------------------------------------------
(* The theorems                                                            *)

(***************************************************************************)
(* The invariant holds of every login, refresh, logout, expiry, abort and  *)
(* change of a user that auth_sessions.py and its callers can interleave.  *)
(***************************************************************************)
THEOREM Inductive == Spec => []IInv
BY IInvInit, IInvNext, PTL DEF Spec

(***************************************************************************)
(* Rows of auth_sessions and open requests have their types: every commit  *)
(* of issue_session or rotate_session inserts a row of an existing line.   *)
(***************************************************************************)
THEOREM TypeCorrect == Spec => []TypeOK
<1>1. IInv => TypeOK
  BY DEF IInv
<1> QED
  BY <1>1, Inductive, PTL

(***************************************************************************)
(* rotate_session never leaves the session it rotated usable, however many *)
(* requests of the same token overlap.                                     *)
(***************************************************************************)
THEOREM RotatedSessionsAreRevoked == Spec => []RotatedAreRevoked
<1>1. IInv => RotatedAreRevoked
  BY DEF IInv
<1> QED
  BY <1>1, Inductive, PTL

(***************************************************************************)
(* The check of revoked_at in rotate_session is made without a lock, and   *)
(* still no token is rotated more often than requests may be open at once. *)
(***************************************************************************)
THEOREM RotationsAreBounded == Spec => []RotationsBounded
<1>1. IInv => RotationsBounded
  BY DEF IInv, TypeOK, RotationsOfAll, RotationsBounded
<1> QED
  BY <1>1, Inductive, PTL

(***************************************************************************)
(* Logging in, refreshing and logging out one request at a time, a user    *)
(* has at most one live session per login.                                 *)
(***************************************************************************)
THEOREM SerialLinesHaveOneSession == Spec => []SerialLinesHaveOneLive
<1>1. IInv => SerialLinesHaveOneLive
  BY DEF IInv
<1> QED
  BY <1>1, Inductive, PTL

-----------------------------------------------------------------------------
(* The refinement of SessionLine                                           *)

HolderIn(live) == IF live = {} THEN NoSession ELSE CHOOSE s \in live : TRUE

Holder == [l \in SessionId |-> HolderIn(SerialLive(l))]

Issued == [l \in SessionId |-> {row.id : row \in SerialRows(l)}]

LEMMA OneHolder == HolderIn({}) = NoSession /\ \A s : HolderIn({s}) = s
BY DEF HolderIn

\* Handing a line's session on, and starting a line, are steps of SessionLine.
LEMMA LineHanded ==
    ASSUME NEW l \in SessionId, NEW s \in SessionId, s \notin Issued[l],
           Holder[l] # NoSession \/ (Issued[l] = {} /\ s = l),
           Holder' = [Holder EXCEPT ![l] = s],
           Issued' = [Issued EXCEPT ![l] = Issued[l] \cup {s}]
    PROVE  Lines!Next
<1>1. s # Lines!None
  BY DEF Lines!None, SessionId
<1>2. Lines!Hand(l, s)
  BY <1>1 DEF Lines!Hand, Holder, HolderIn, Issued
<1>3. CASE Holder[l] # NoSession
  <2>1. Lines!Refresh(l)
    BY <1>2, <1>3 DEF Lines!Refresh, Lines!None, NoSession, Holder, HolderIn
  <2> QED
    BY <2>1 DEF Lines!Next
<1>4. CASE Issued[l] = {} /\ s = l
  <2>1. Lines!Login(l)
    BY <1>2, <1>4 DEF Lines!Login, Issued
  <2> QED
    BY <2>1 DEF Lines!Next
<1> QED
  BY <1>3, <1>4

\* Ending a line is a step of SessionLine.
LEMMA LineEnded ==
    ASSUME NEW l \in SessionId, Holder[l] # NoSession,
           Holder' = [Holder EXCEPT ![l] = NoSession], Issued' = Issued
    PROVE  Lines!Next
<1>1. Lines!Logout(l)
  BY DEF Lines!Logout, Lines!None, NoSession, Holder, HolderIn, Issued
<1> QED
  BY <1>1 DEF Lines!Next

\* A step that changes no serial row and revokes none is a stutter of SessionLine.
LEMMA LinesStutter ==
    ASSUME \A l : SerialRows(l)' = SerialRows(l) /\ SerialLive(l)' = SerialLive(l)
    PROVE  UNCHANGED Lines!vars
<1>1. Holder' = Holder
  BY DEF Holder
<1>2. Issued' = Issued
  BY DEF Issued
<1> QED
  BY <1>1, <1>2 DEF Lines!vars, Holder, HolderIn, Issued

\* A live row of a serial user holds its line.
LEMMA LiveHolds ==
    ASSUME IInv, NEW row \in sessions, row.user \in SerialUser, row.id \notin revoked
    PROVE  SerialLive(row.line) = {row.id} /\ Holder[row.line] = row.id /\ row.id # NoSession
<1> USE DEF IInv
<1>1. row.line \in SessionId /\ row.id \in SessionId
  BY DEF TypeOK, Row
<1>2. SerialLive(row.line) = {row.id}
  BY DEF SerialLive, SerialRows, SerialLinesHaveOneLive
<1>3. Holder[row.line] = row.id
  BY <1>1, <1>2 DEF Holder, HolderIn
<1> QED
  BY <1>1, <1>2, <1>3 DEF SessionId, NoSession

\* What a commit revokes, of the sessions in the table.
LEMMA CommitRevokes ==
    ASSUME IInv, NEW r \in Request, Commit(r), NEW t \in sessions, t.id = req[r].of,
           req[r].op # "login"
    PROVE  /\ revoked' = revoked \cup {t.id}
           /\ \A row \in sessions : row # t => (row.id \in revoked' <=> row.id \in revoked)
BY CommitFacts DEF IInv, IdsGiven

\* A committed login of a serial user starts a line.
LEMMA LoginStartsLine ==
    ASSUME IInv, NEW r \in Request, Commit(r), req[r].op = "login", req[r].user \in SerialUser
    PROVE  Lines!Next
<1> USE DEF IInv
<1> PICK row : row = NewRow(r)
  OBVIOUS
<1>1. sessions' = sessions \cup {row} /\ row \in Row /\ row.user \in SerialUser
      /\ row.id = Cardinality(sessions) + 1 /\ row.line = row.id
  BY NewRowFacts
<1>2. row.id \in SessionId /\ revoked' = revoked
  BY <1>1, CommitFacts DEF Row
<1>3. /\ \A s \in sessions : s.id \in Nat /\ s.line \in Nat /\ s.line # row.id
      /\ row.id \notin revoked
  <2>1. Cardinality(sessions) \in Nat /\ \A s \in sessions : s.id \in Nat /\ s.line \in Nat
    BY CommitFacts DEF TypeOK, Row, SessionId
  <2>2. \A s \in sessions : s.line <= s.id /\ s.id <= Cardinality(sessions)
    BY DEF LinesOwned, IdsGiven
  <2>3. \A s \in revoked : s \in Nat /\ s <= Cardinality(sessions)
    BY DEF TypeOK, SessionId, IdsGiven
  <2> QED
    BY <1>1, <2>1, <2>2, <2>3
<1>4. \A l : SerialRows(l)' = IF l = row.id THEN {row} ELSE SerialRows(l)
  BY <1>1, <1>3 DEF SerialRows
<1>5. SerialRows(row.id) = {} /\ SerialRows(row.id)' = {row}
  BY <1>3, <1>4 DEF SerialRows
<1>6. \A l : SerialLive(l)' = IF l = row.id THEN {row.id} ELSE SerialLive(l)
  BY <1>2, <1>3, <1>4 DEF SerialLive
<1>7. Holder' = [Holder EXCEPT ![row.id] = row.id]
  BY <1>2, <1>6, OneHolder DEF Holder
<1>8. Issued[row.id] = {}
  BY <1>2, <1>5 DEF Issued
<1>9. Issued' = [Issued EXCEPT ![row.id] = Issued[row.id] \cup {row.id}]
  BY <1>2, <1>4, <1>8 DEF Issued
<1> QED
  BY <1>2, <1>7, <1>8, <1>9, LineHanded

\* A committed refresh of a serial user hands its line on.
LEMMA RefreshHandsLine ==
    ASSUME IInv, NEW r \in Request, Commit(r), req[r].op = "refresh", req[r].user \in SerialUser
    PROVE  Lines!Next
<1> USE DEF IInv
<1> PICK row : row = NewRow(r)
  OBVIOUS
<1>1. sessions' = sessions \cup {row} /\ row \in Row /\ row.user \in SerialUser
      /\ row.id = Cardinality(sessions) + 1
  BY NewRowFacts
<1>2. PICK t \in sessions : t.id = req[r].of /\ t.user = req[r].user /\ row.line = t.line
  BY NewRowFacts
<1>3. t.id \notin revoked
  BY <1>2, CommitFacts DEF SerialAlone
<1>4. /\ revoked' = revoked \cup {t.id}
      /\ \A s \in sessions : s # t => (s.id \in revoked' <=> s.id \in revoked)
  BY <1>2, CommitRevokes
<1>5. row.id \in SessionId /\ t.line \in SessionId
  BY <1>1 DEF Row, TypeOK
<1>6. row.id \notin revoked' /\ \A s \in sessions : s.id # row.id
  <2>1. Cardinality(sessions) \in Nat /\ \A s \in sessions : s.id \in Nat /\ s.id <= Cardinality(sessions)
    BY CommitFacts DEF TypeOK, Row, SessionId, IdsGiven
  <2>2. \A s \in revoked : s \in Nat /\ s <= Cardinality(sessions)
    BY DEF TypeOK, SessionId, IdsGiven
  <2> QED
    BY <1>1, <1>4, <2>1, <2>2
<1>7. SerialLive(t.line) = {t.id} /\ Holder[t.line] # NoSession
  BY <1>2, <1>3, LiveHolds
<1>8. \A l : SerialRows(l)' = IF l = t.line THEN SerialRows(l) \cup {row} ELSE SerialRows(l)
  BY <1>1, <1>2 DEF SerialRows
<1>9. \A l : SerialLive(l)' = IF l = t.line THEN {row.id} ELSE SerialLive(l)
  <2>1. SerialLive(t.line)' = {row.id}
    <3>1. SerialRows(t.line)' = SerialRows(t.line) \cup {row}
      BY <1>8
    <3> QED
      BY <1>4, <1>6, <1>7, <3>1 DEF SerialLive
  <2>2. ASSUME NEW l, l # t.line PROVE SerialLive(l)' = SerialLive(l)
    <3>1. SerialRows(l)' = SerialRows(l)
      BY <1>8, <2>2
    <3>2. \A s \in SerialRows(l) : s \in sessions /\ s # t
      BY <2>2 DEF SerialRows
    <3> QED
      BY <1>4, <3>1, <3>2 DEF SerialLive
  <2> QED
    BY <2>1, <2>2
<1>10. Holder' = [Holder EXCEPT ![t.line] = row.id]
  BY <1>5, <1>9, OneHolder DEF Holder
<1>11. Issued' = [Issued EXCEPT ![t.line] = Issued[t.line] \cup {row.id}]
  BY <1>5, <1>8 DEF Issued
<1>12. row.id \notin Issued[t.line]
  BY <1>5, <1>6 DEF Issued, SerialRows
<1> QED
  BY <1>5, <1>7, <1>10, <1>11, <1>12, LineHanded

\* A committed logout of a serial user ends its line, if the session was live.
LEMMA LogoutEndsLine ==
    ASSUME IInv, NEW r \in Request, Commit(r), req[r].op = "logout", req[r].user \in SerialUser
    PROVE  Lines!Next \/ UNCHANGED Lines!vars
<1> USE DEF IInv
<1>1. PICK t \in sessions : t.id = req[r].of /\ t.user = req[r].user
  BY CommitFacts
<1>2. /\ revoked' = revoked \cup {t.id} /\ sessions' = sessions
      /\ \A s \in sessions : s # t => (s.id \in revoked' <=> s.id \in revoked)
  BY <1>1, CommitRevokes DEF Commit
<1>3. \A l : SerialRows(l)' = SerialRows(l)
  BY <1>2 DEF SerialRows
<1>4. CASE t.id \in revoked
  <2>1. revoked' = revoked
    BY <1>2, <1>4
  <2> QED
    BY <1>3, <2>1, LinesStutter DEF SerialLive
<1>5. CASE t.id \notin revoked
  <2>1. SerialLive(t.line) = {t.id} /\ Holder[t.line] # NoSession /\ t.line \in SessionId
    BY <1>1, <1>5, LiveHolds DEF TypeOK, Row
  <2>2. SerialLive(t.line)' = {}
    BY <1>2, <1>3, <2>1 DEF SerialLive
  <2>3. ASSUME NEW l, l # t.line PROVE SerialLive(l)' = SerialLive(l)
    <3>1. \A s \in SerialRows(l) : s \in sessions /\ s # t
      BY <2>3 DEF SerialRows
    <3> QED
      BY <1>2, <1>3, <3>1 DEF SerialLive
  <2>4. Holder' = [Holder EXCEPT ![t.line] = NoSession]
    BY <2>1, <2>2, <2>3, OneHolder DEF Holder
  <2>5. Issued' = Issued
    BY <1>3 DEF Issued
  <2> QED
    BY <2>1, <2>4, <2>5, LineEnded
<1> QED
  BY <1>4, <1>5

\* A commit of any other user is no step of SessionLine.
LEMMA OthersStutter ==
    ASSUME IInv, NEW r \in Request, Commit(r), req[r].user \notin SerialUser
    PROVE  UNCHANGED Lines!vars
<1> USE DEF IInv
<1>1. \A l : SerialRows(l)' = SerialRows(l)
  <2>1. CASE req[r].op = "logout"
    BY <2>1 DEF Commit, SerialRows
  <2>2. CASE req[r].op # "logout"
    BY <2>2, NewRowFacts DEF SerialRows
  <2> QED
    BY <2>1, <2>2
<1>2. \A s \in sessions : s.user \in SerialUser => (s.id \in revoked' <=> s.id \in revoked)
  <2>1. CASE req[r].op = "login"
    BY <2>1, CommitFacts
  <2>2. CASE req[r].op # "login"
    <3>1. PICK t \in sessions : t.id = req[r].of /\ t.user = req[r].user
      BY <2>2, CommitFacts
    <3> QED
      BY <2>2, <3>1, CommitRevokes
  <2> QED
    BY <2>1, <2>2
<1>3. ASSUME NEW l PROVE SerialLive(l)' = SerialLive(l)
  BY <1>1, <1>2 DEF SerialLive, SerialRows
<1> QED
  BY <1>1, <1>3, LinesStutter

(***************************************************************************)
(* For serial users issue_session, rotate_session and revoke_session, with *)
(* the aborts, expiries and requests of other users, implement SessionLine.*)
(***************************************************************************)
THEOREM ImplementsLines == Spec => LinesSpec
<1>1. Init => Lines!Init
  BY DEF Init, Lines!Init, Lines!None, NoSession, SerialRows, SerialLive
<1>2. IInv /\ [Next]_vars => [Lines!Next]_(Lines!vars)
  <2> SUFFICES ASSUME IInv, [Next]_vars PROVE [Lines!Next]_(Lines!vars)
    OBVIOUS
  <2>1. CASE UNCHANGED <<sessions, revoked>>
    BY <2>1, LinesStutter DEF SerialRows, SerialLive
  <2>2. ASSUME NEW r \in Request, Commit(r) PROVE [Lines!Next]_(Lines!vars)
    <3>1. req[r].op \in {"login", "refresh", "logout"}
      BY <2>2, CommitFacts
    <3> QED
      BY <2>2, <3>1, LoginStartsLine, RefreshHandsLine, LogoutEndsLine, OthersStutter
  <2> QED
    BY <2>1, <2>2
    DEF Next, Step, Login, Refresh, Logout, CheckUser, Flush, Abort, Expire, SetActive, vars
<1> QED
  BY <1>1, <1>2, Inductive, PTL DEF Spec, LinesSpec, Lines!Spec
=============================================================================

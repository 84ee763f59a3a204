--------------------------- MODULE AuditLogProofs ---------------------------
(***************************************************************************)
(* Proofs about the audit log, for any organisations, writers and bound.   *)
(*                                                                         *)
(* The inductive invariant IInv adds to the properties what they need:     *)
(* ids come from the sequence (IdsDrawn), the latest entry of a nonempty   *)
(* log exists (HasLatest), an append in progress carries the hash of a     *)
(* committed entry that is older than its own id (PendingLinked), and in a *)
(* serial organisation it is alone and carries the hash of the head        *)
(* (SerialPending).  The bound on the forks has an invariant of its own on *)
(* top of it (ForksShared): the entries behind a hash and the transactions *)
(* that are about to add one never outnumber the writers.                  *)
(***************************************************************************)
EXTENDS AuditLog, FiniteSetTheorems, TLAPS

IsLatest(e, rows) == e \in rows /\ \A f \in rows : f.id <= e.id

HasLatest == \A o \in Org : EntriesOf(o) # {} => \E e \in EntriesOf(o) : IsLatest(e, EntriesOf(o))

IdsDrawn ==
    /\ lastId <= MaxId
    /\ \A e \in entries : e.id <= lastId
    /\ \A w \in Writer : txn[w] # Idle => txn[w].id <= lastId

PendingLinked ==
    \A w \in Writer : txn[w] # Idle =>
        /\ \/ txn[w].prev = ZeroHash
           \/ \E f \in EntriesOf(txn[w].org) : f.id = txn[w].prev
        /\ txn[w].prev <= lastId
        /\ txn[w].pc = "inserted" => txn[w].id > 0 /\ txn[w].prev < txn[w].id

SerialPending ==
    \A w \in Writer : (txn[w] # Idle /\ txn[w].org \in SerialOrg) =>
        /\ OpenIn(txn[w].org) = {w}
        /\ txn[w].prev = PreviousHash(txn[w].org)
        /\ txn[w].pc = "inserted" => \A e \in EntriesOf(txn[w].org) : e.id < txn[w].id

IInv ==
    /\ TypeOK
    /\ HasLatest
    /\ IdsDrawn
    /\ LinkedBackwards
    /\ PendingLinked
    /\ SerialPending
    /\ SerialChainUnbroken

-----------------------------------------------------------------------------
(* What append_audit_log's query returns                                   *)

\* Where some row is above all others, Latest finds such a row.
LEMMA LatestIsLatest ==
    ASSUME NEW rows, NEW e \in rows, IsLatest(e, rows)
    PROVE  IsLatest(Latest(rows), rows)
BY DEF Latest, IsLatest

\* It returns the zero hash of an empty log, and else that of an entry with the highest id.
LEMMA PreviousHashFacts ==
    ASSUME TypeOK, HasLatest, NEW o \in Org
    PROVE  /\ PreviousHash(o) \in Nat
           /\ EntriesOf(o) = {} => PreviousHash(o) = ZeroHash
           /\ EntriesOf(o) # {} =>
                 \E f \in EntriesOf(o) :
                     f.id = PreviousHash(o) /\ \A e \in EntriesOf(o) : e.id <= f.id
<1>1. CASE EntriesOf(o) = {}
  BY <1>1 DEF PreviousHash, ZeroHash
<1>2. CASE EntriesOf(o) # {}
  <2>1. IsLatest(Latest(EntriesOf(o)), EntriesOf(o))
    BY <1>2, LatestIsLatest DEF HasLatest
  <2>2. PreviousHash(o) = Latest(EntriesOf(o)).id
    BY <1>2 DEF PreviousHash
  <2>3. Latest(EntriesOf(o)).id \in Nat
    BY <2>1 DEF IsLatest, EntriesOf, TypeOK, Entry
  <2> QED
    BY <1>2, <2>1, <2>2, <2>3 DEF IsLatest
<1> QED
  BY <1>1, <1>2

\* The row an inserted append commits, behind the entries that are there already.
LEMMA CommitFacts ==
    ASSUME TypeOK, NEW w \in Writer, Commit(w)
    PROVE  /\ txn[w] \in Append
           /\ RowOf(w) \in Entry \/ txn[w].id = 0
           /\ RowOf(w).id = txn[w].id /\ RowOf(w).org = txn[w].org /\ RowOf(w).prev = txn[w].prev
           /\ \A o : EntriesOf(o)' = IF o = txn[w].org THEN EntriesOf(o) \cup {RowOf(w)}
                                                       ELSE EntriesOf(o)
           /\ \A v \in Writer : txn'[v] = IF v = w THEN Idle ELSE txn[v]
           /\ \A o : OpenIn(o)' = OpenIn(o) \ {w}
<1>1. txn[w] \in Append
  BY DEF TypeOK, Commit, Idle
<1>2. RowOf(w).id = txn[w].id /\ RowOf(w).org = txn[w].org /\ RowOf(w).prev = txn[w].prev
  BY DEF RowOf
<1>3. RowOf(w) \in Entry \/ txn[w].id = 0
  BY <1>1 DEF Append, Entry, RowOf
<1>4. \A o : EntriesOf(o)' = IF o = txn[w].org THEN EntriesOf(o) \cup {RowOf(w)} ELSE EntriesOf(o)
  BY <1>2 DEF Commit, EntriesOf
<1>5. \A v \in Writer : txn'[v] = IF v = w THEN Idle ELSE txn[v]
  BY DEF Commit, TypeOK
<1>6. \A o : OpenIn(o)' = OpenIn(o) \ {w}
  BY <1>5 DEF OpenIn
<1> QED
  BY <1>1, <1>2, <1>3, <1>4, <1>5, <1>6

-----------------------------------------------------------------------------
(* The inductive invariant                                                 *)

LEMMA IInvInit == Init => IInv
<1> SUFFICES ASSUME Init PROVE IInv
  OBVIOUS
<1>1. TypeOK
  BY DEF Init, TypeOK, Idle
<1>2. \A o : EntriesOf(o) = {}
  BY DEF Init, EntriesOf
<1>3. \A w \in Writer : txn[w] = Idle
  BY DEF Init
<1>4. lastId <= MaxId
  BY AuditLogAssumption DEF Init
<1> QED
  BY <1>1, <1>2, <1>3, <1>4
     DEF IInv, Init, HasLatest, IdsDrawn, LinkedBackwards, PendingLinked,
         SerialPending, SerialChainUnbroken, ChainUnbroken

\* Opening an append: only the writer's own slot changes.
LEMMA ReadStep ==
    ASSUME IInv, NEW w \in Writer, NEW o \in Org, ReadPrevious(w, o)
    PROVE  IInv'
<1> USE DEF IInv
<1>1. /\ PreviousHash(o) \in Nat
      /\ PreviousHash(o) = ZeroHash \/ \E f \in EntriesOf(o) : f.id = PreviousHash(o)
  BY PreviousHashFacts DEF ZeroHash
<1> DEFINE new == [pc |-> "read", org |-> o, prev |-> PreviousHash(o), id |-> 0]
<1>2. txn[w] = Idle /\ new \in Append /\ new # Idle /\ new.org = o /\ new.prev = PreviousHash(o)
      /\ new.pc = "read" /\ new.id = 0
  BY <1>1 DEF ReadPrevious, Append, Idle
<1> HIDE DEF new
<1>3. /\ entries' = entries /\ lastId' = lastId
      /\ \A v \in Writer : txn'[v] = IF v = w THEN new ELSE txn[v]
      /\ txn' = [txn EXCEPT ![w] = new]
  BY DEF ReadPrevious, TypeOK, new
<1>4. \A p : EntriesOf(p)' = EntriesOf(p) /\ PreviousHash(p)' = PreviousHash(p)
  BY <1>3 DEF EntriesOf, PreviousHash
<1>5. \A p : OpenIn(p)' = IF p = o THEN OpenIn(p) \cup {w} ELSE OpenIn(p)
  BY <1>2, <1>3 DEF OpenIn
<1>6. TypeOK'
  BY <1>2, <1>3 DEF TypeOK
<1>7. HasLatest'
  BY <1>4 DEF HasLatest, IsLatest
<1>8. IdsDrawn'
  BY <1>2, <1>3 DEF IdsDrawn, TypeOK
<1>9. LinkedBackwards'
  BY <1>3, <1>4 DEF LinkedBackwards
<1>10. PendingLinked'
  <2>1. PreviousHash(o) <= lastId
    BY <1>1 DEF IdsDrawn, EntriesOf, ZeroHash, TypeOK
  <2> QED
    BY <1>1, <1>2, <1>3, <1>4, <2>1 DEF PendingLinked
<1>11. SerialPending'
  <2> SUFFICES ASSUME NEW v \in Writer, (txn[v] # Idle /\ txn[v].org \in SerialOrg)'
               PROVE  (/\ OpenIn(txn[v].org) = {v}
                       /\ txn[v].prev = PreviousHash(txn[v].org)
                       /\ txn[v].pc = "inserted" =>
                             \A e \in EntriesOf(txn[v].org) : e.id < txn[v].id)'
    BY DEF SerialPending
  <2> PICK p : p = txn'[v].org
    OBVIOUS
  <2>0. OpenIn(txn[v].org)' = OpenIn(p)' /\ EntriesOf(txn[v].org)' = EntriesOf(p)'
        /\ PreviousHash(txn[v].org)' = PreviousHash(p)'
    BY DEF OpenIn, EntriesOf, PreviousHash
  <2>1. CASE v = w
    <3>1. OpenIn(o) = {} /\ p = o
      BY <1>2, <1>3, <2>1 DEF ReadPrevious
    <3> QED
      BY <1>2, <1>3, <1>4, <1>5, <2>1, <3>1
  <2>2. CASE v # w
    <3>1. txn'[v] = txn[v] /\ v \in OpenIn(txn[v].org)
      BY <1>3, <2>2 DEF OpenIn
    <3>2. txn[v].org # o
      BY <3>1 DEF ReadPrevious
    <3> QED
      BY <1>4, <1>5, <3>1, <3>2 DEF SerialPending
  <2> QED
    BY <2>1, <2>2
<1>12. SerialChainUnbroken'
  BY <1>4 DEF SerialChainUnbroken, ChainUnbroken, IsPredecessor
<1> QED
  BY <1>6, <1>7, <1>8, <1>9, <1>10, <1>11, <1>12

\* The rows of every organisation stay when no row is added.
LEMMA EntriesUnchanged ==
    ASSUME UNCHANGED entries
    PROVE  /\ \A o : EntriesOf(o)' = EntriesOf(o) /\ PreviousHash(o)' = PreviousHash(o)
           /\ HasLatest => HasLatest'
           /\ LinkedBackwards => LinkedBackwards'
           /\ SerialChainUnbroken => SerialChainUnbroken'
<1>1. \A o : EntriesOf(o)' = EntriesOf(o) /\ PreviousHash(o)' = PreviousHash(o)
  BY DEF EntriesOf, PreviousHash
<1> QED
  BY <1>1 DEF HasLatest, LinkedBackwards, SerialChainUnbroken, ChainUnbroken,
              IsPredecessor, IsLatest

\* A writer that is open in a serial organisation, in terms of the next state's slot.
LEMMA SerialPendingNext ==
    ASSUME \A v \in Writer, o \in SerialOrg :
               (txn'[v] # Idle /\ txn'[v].org = o) =>
                   /\ OpenIn(o)' = {v}
                   /\ txn'[v].prev = PreviousHash(o)'
                   /\ txn'[v].pc = "inserted" => \A e \in EntriesOf(o)' : e.id < txn'[v].id
    PROVE  SerialPending'
<1> SUFFICES ASSUME NEW v \in Writer, (txn[v] # Idle /\ txn[v].org \in SerialOrg)'
             PROVE  (/\ OpenIn(txn[v].org) = {v}
                     /\ txn[v].prev = PreviousHash(txn[v].org)
                     /\ txn[v].pc = "inserted" =>
                           \A e \in EntriesOf(txn[v].org) : e.id < txn[v].id)'
  BY DEF SerialPending
<1> PICK o \in SerialOrg : o = txn'[v].org
  OBVIOUS
<1>1. /\ OpenIn(txn[v].org)' = OpenIn(o)'
      /\ EntriesOf(txn[v].org)' = EntriesOf(o)'
      /\ PreviousHash(txn[v].org)' = PreviousHash(o)'
  BY DEF OpenIn, EntriesOf, PreviousHash
<1> QED
  BY <1>1

\* Inserting the row draws an id above every id in use.
LEMMA InsertStep ==
    ASSUME IInv, NEW w \in Writer, InsertEntry(w)
    PROVE  IInv'
<1> USE DEF IInv
<1>1. /\ entries' = entries /\ lastId' = lastId + 1 /\ lastId < MaxId /\ lastId \in Nat
      /\ txn[w].pc = "read" /\ txn[w] \in Append
  BY DEF InsertEntry, TypeOK, Idle
<1> DEFINE new == [pc |-> "inserted", org |-> txn[w].org, prev |-> txn[w].prev, id |-> lastId + 1]
<1>2. /\ new \in Append /\ new # Idle /\ new.pc = "inserted" /\ new.id = lastId + 1
      /\ new.org = txn[w].org /\ new.prev = txn[w].prev
  BY <1>1 DEF Append, Idle
<1>3. txn' = [txn EXCEPT ![w] = new] /\ \A v \in Writer : txn'[v] = IF v = w THEN new ELSE txn[v]
  BY DEF InsertEntry, TypeOK
<1> HIDE DEF new
<1>4. txn[w] # Idle
  BY <1>1 DEF Append, Idle
<1>5. \A o : OpenIn(o)' = OpenIn(o)
  BY <1>2, <1>3, <1>4 DEF OpenIn
<1>6. TypeOK'
  BY <1>1, <1>2, <1>3 DEF TypeOK
<1>7. /\ \A o : EntriesOf(o)' = EntriesOf(o) /\ PreviousHash(o)' = PreviousHash(o)
      /\ HasLatest' /\ LinkedBackwards' /\ SerialChainUnbroken'
  BY <1>1, EntriesUnchanged
<1>8. IdsDrawn'
  <2>1. \A v \in Writer : txn[v] # Idle => txn[v].id \in Nat
    BY DEF TypeOK, Append
  <2>2. \A e \in entries : e.id \in Nat
    BY DEF TypeOK, Entry
  <2> QED
    BY <1>1, <1>2, <1>3, <2>1, <2>2, AuditLogAssumption DEF IdsDrawn
<1>9. PendingLinked'
  <2>1. \A v \in Writer : txn[v] # Idle => txn[v].id \in Nat /\ txn[v].prev \in Nat
    BY DEF TypeOK, Append
  <2> QED
    BY <1>1, <1>2, <1>3, <1>4, <1>7, <2>1 DEF PendingLinked
<1>10. SerialPending'
  <2> SUFFICES ASSUME NEW v \in Writer, NEW o \in SerialOrg, txn'[v] # Idle, txn'[v].org = o
               PROVE  /\ OpenIn(o)' = {v}
                      /\ txn'[v].prev = PreviousHash(o)'
                      /\ txn'[v].pc = "inserted" => \A e \in EntriesOf(o)' : e.id < txn'[v].id
    BY SerialPendingNext
  <2>1. \A e \in EntriesOf(o) : e.id < lastId + 1
    BY <1>1 DEF IdsDrawn, EntriesOf, TypeOK, Entry
  <2> QED
    BY <1>2, <1>3, <1>4, <1>5, <1>7, <2>1 DEF SerialPending
<1> QED
  BY <1>6, <1>7, <1>8, <1>9, <1>10

LEMMA RollbackStep ==
    ASSUME IInv, NEW w \in Writer, Rollback(w)
    PROVE  IInv'
<1> USE DEF IInv
<1>1. entries' = entries /\ lastId' = lastId /\ txn' = [txn EXCEPT ![w] = Idle]
      /\ \A v \in Writer : txn'[v] = IF v = w THEN Idle ELSE txn[v]
  BY DEF Rollback, TypeOK
<1>2. /\ \A o : EntriesOf(o)' = EntriesOf(o) /\ PreviousHash(o)' = PreviousHash(o)
      /\ HasLatest' /\ LinkedBackwards' /\ SerialChainUnbroken'
  BY <1>1, EntriesUnchanged
<1>3. \A o : OpenIn(o)' = OpenIn(o) \ {w}
  BY <1>1 DEF OpenIn
<1>4. TypeOK'
  BY <1>1 DEF TypeOK
<1>5. IdsDrawn' /\ PendingLinked'
  BY <1>1, <1>2 DEF IdsDrawn, PendingLinked
<1>6. SerialPending'
  BY <1>1, <1>2, <1>3, SerialPendingNext DEF SerialPending
<1> QED
  BY <1>2, <1>4, <1>5, <1>6

\* Committing adds one row; in a serial organisation it is above all others.
LEMMA CommitStep ==
    ASSUME IInv, NEW w \in Writer, Commit(w)
    PROVE  IInv'
<1> USE DEF IInv
<1> DEFINE org == txn[w].org
           row == RowOf(w)
<1>1. /\ txn[w] \in Append /\ txn[w] # Idle /\ txn[w].pc = "inserted" /\ txn[w].id > 0
      /\ row \in Entry /\ org \in Org
      /\ row.id = txn[w].id /\ row.org = org /\ row.prev = txn[w].prev
      /\ entries' = entries \cup {row} /\ lastId' = lastId
  <2>1. txn[w] \in Append /\ txn[w].pc = "inserted"
    BY CommitFacts DEF Commit
  <2>2. txn[w] # Idle /\ org \in Org /\ txn[w].id \in Nat
    BY <2>1 DEF Append, Idle
  <2>3. txn[w].id > 0
    BY <2>1, <2>2 DEF PendingLinked
  <2>4. row \in Entry /\ row.id = txn[w].id /\ row.org = org /\ row.prev = txn[w].prev
    BY <2>2, <2>3, CommitFacts
  <2>5. entries' = entries \cup {row} /\ lastId' = lastId
    BY DEF Commit
  <2> QED
    BY <2>1, <2>2, <2>3, <2>4, <2>5
<1>2. /\ \A o : EntriesOf(o)' = IF o = org THEN EntriesOf(o) \cup {row} ELSE EntriesOf(o)
      /\ \A v \in Writer : txn'[v] = IF v = w THEN Idle ELSE txn[v]
      /\ \A o : OpenIn(o)' = OpenIn(o) \ {w}
  BY CommitFacts
<1>3. \A e \in entries : e.id \in Nat /\ e.prev \in Nat
  BY DEF TypeOK, Entry
<1>4. txn[w].id \in Nat /\ txn[w].prev \in Nat /\ lastId \in Nat
  BY <1>1 DEF Append, TypeOK
<1>5. TypeOK'
  BY <1>1, <1>2 DEF TypeOK, Commit
<1> HIDE DEF row
<1>6. \A o : o # org => PreviousHash(o)' = PreviousHash(o)
  BY <1>2 DEF PreviousHash
<1>7. HasLatest'
  <2> SUFFICES ASSUME NEW o \in Org, EntriesOf(o)' # {}
               PROVE  \E e \in EntriesOf(o)' : \A f \in EntriesOf(o)' : f.id <= e.id
    BY DEF HasLatest, IsLatest
  <2>1. CASE o # org
    BY <1>1, <1>2, <2>1 DEF HasLatest, IsLatest
  <2>2. CASE o = org /\ EntriesOf(o) = {}
    BY <1>1, <1>2, <1>4, <2>2
  <2>3. CASE o = org /\ EntriesOf(o) # {}
    <3>1. PICK e \in EntriesOf(o) : IsLatest(e, EntriesOf(o))
      BY <2>3 DEF HasLatest
    <3>2. CASE row.id <= e.id
      BY <1>1, <1>2, <2>3, <3>1, <3>2 DEF IsLatest
    <3>3. CASE ~ (row.id <= e.id)
      BY <1>1, <1>2, <1>3, <1>4, <2>3, <3>1, <3>3 DEF IsLatest, EntriesOf
    <3> QED
      BY <3>2, <3>3
  <2> QED
    BY <2>1, <2>2, <2>3
<1>8. IdsDrawn'
  BY <1>1, <1>2 DEF IdsDrawn
<1>9. LinkedBackwards'
  <2>1. row.prev = ZeroHash \/ \E f \in EntriesOf(org) : f.id = row.prev /\ f.id < row.id
    BY <1>1, <1>4 DEF PendingLinked
  <2> QED
    BY <1>1, <1>2, <2>1 DEF LinkedBackwards
<1>10. PendingLinked'
  BY <1>1, <1>2 DEF PendingLinked
<1>11. SerialPending'
  <2> SUFFICES ASSUME NEW v \in Writer, NEW o \in SerialOrg, txn'[v] # Idle, txn'[v].org = o
               PROVE  /\ OpenIn(o)' = {v}
                      /\ txn'[v].prev = PreviousHash(o)'
                      /\ txn'[v].pc = "inserted" => \A e \in EntriesOf(o)' : e.id < txn'[v].id
    BY SerialPendingNext
  <2>1. v # w /\ txn'[v] = txn[v] /\ OpenIn(o) = {v}
    BY <1>2 DEF SerialPending
  <2>2. o # org
    BY <1>1, <2>1 DEF OpenIn
  <2> QED
    BY <1>2, <1>6, <2>1, <2>2 DEF SerialPending
<1>12. SerialChainUnbroken'
  <2> SUFFICES ASSUME NEW o \in SerialOrg
               PROVE  ChainUnbroken(o)'
    BY DEF SerialChainUnbroken
  <2>1. CASE o # org
    <3>1. EntriesOf(o)' = EntriesOf(o)
      BY <1>2, <2>1
    <3> QED
      BY <3>1 DEF SerialChainUnbroken, ChainUnbroken, IsPredecessor, EntriesOf
  <2>2. CASE o = org
    <3>1. row.prev = PreviousHash(o) /\ \A e \in EntriesOf(o) : e.id < row.id
      BY <1>1, <2>2 DEF SerialPending
    <3>2. \A e \in EntriesOf(o) : e.org = o /\ e.id \in Nat
      BY <1>3 DEF EntriesOf
    <3>3. ChainUnbroken(o)
      BY DEF SerialChainUnbroken
    <3> SUFFICES ASSUME NEW e \in EntriesOf(o)'
                 PROVE  \/ e.prev = ZeroHash /\ ~ \E f \in EntriesOf(o)' : f.id < e.id
                        \/ \E f \in EntriesOf(o)' :
                               /\ f.org = e.org /\ f.id < e.id /\ e.prev = f.id
                               /\ \A g \in EntriesOf(o)' : g.id < e.id => g.id <= f.id
      <4>1. \A x \in EntriesOf(o)' : EntriesOf(x.org)' = EntriesOf(o)'
        BY DEF EntriesOf
      <4> QED
        BY <4>1 DEF ChainUnbroken, IsPredecessor
    <3>4. CASE e = row
      <4>1. CASE EntriesOf(o) = {}
        BY <1>1, <1>2, <1>4, <2>2, <3>1, <3>4, <4>1, PreviousHashFacts
      <4>2. CASE EntriesOf(o) # {}
        <5>1. PICK f \in EntriesOf(o) : f.id = PreviousHash(o) /\ \A g \in EntriesOf(o) : g.id <= f.id
          BY <1>1, <2>2, <4>2, PreviousHashFacts
        <5> QED
          BY <1>1, <1>2, <1>4, <2>2, <3>1, <3>2, <3>4, <5>1
      <4> QED
        BY <4>1, <4>2
    <3>5. CASE e # row
      <4>1. e \in EntriesOf(o)
        BY <1>2, <2>2, <3>5
      <4>2. \A x \in EntriesOf(o) : EntriesOf(x.org) = EntriesOf(o)
        BY DEF EntriesOf
      <4>3. \/ e.prev = ZeroHash /\ ~ \E f \in EntriesOf(o) : f.id < e.id
            \/ \E f \in EntriesOf(o) :
                   /\ f.org = e.org /\ f.id < e.id /\ e.prev = f.id
                   /\ \A g \in EntriesOf(o) : g.id < e.id => g.id <= f.id
        BY <3>3, <4>1, <4>2 DEF ChainUnbroken, IsPredecessor
      <4>4. ~ (row.id < e.id)
        BY <1>1, <1>4, <3>1, <3>2, <4>1
      <4> QED
        BY <1>2, <2>2, <4>3, <4>4
    <3> QED
      BY <3>4, <3>5
  <2> QED
    BY <2>1, <2>2
<1> QED
  BY <1>5, <1>7, <1>8, <1>9, <1>10, <1>11, <1>12

LEMMA StutterStep == IInv /\ UNCHANGED vars => IInv'
<1> SUFFICES ASSUME IInv, UNCHANGED vars PROVE IInv'
  OBVIOUS
<1> USE DEF IInv, vars
<1>1. /\ \A o : EntriesOf(o)' = EntriesOf(o) /\ PreviousHash(o)' = PreviousHash(o)
      /\ HasLatest' /\ LinkedBackwards' /\ SerialChainUnbroken'
  BY EntriesUnchanged
<1>2. \A o : OpenIn(o)' = OpenIn(o)
  BY DEF OpenIn
<1>3. TypeOK' /\ IdsDrawn' /\ PendingLinked'
  BY <1>1 DEF TypeOK, IdsDrawn, PendingLinked
<1>4. SerialPending'
  BY <1>1, <1>2, SerialPendingNext DEF SerialPending
<1> QED
  BY <1>1, <1>3, <1>4

LEMMA IInvNext == IInv /\ [Next]_vars => IInv'
<1> SUFFICES ASSUME IInv, [Next]_vars PROVE IInv'
  OBVIOUS
<1>1. ASSUME NEW w \in Writer, NEW o \in Org, ReadPrevious(w, o) PROVE IInv'
  BY <1>1, ReadStep
<1>2. ASSUME NEW w \in Writer, InsertEntry(w) PROVE IInv'
  BY <1>2, InsertStep
<1>3. ASSUME NEW w \in Writer, Commit(w) PROVE IInv'
  BY <1>3, CommitStep
<1>4. ASSUME NEW w \in Writer, Rollback(w) PROVE IInv'
  BY <1>4, RollbackStep
<1>5. CASE UNCHANGED vars
  BY <1>5, StutterStep
<1> QED
  BY <1>1, <1>2, <1>3, <1>4, <1>5 DEF Next

-----------------------------------------------------------------------------
(* The theorems                                                            *)

\* Every reachable state satisfies the inductive invariant.
THEOREM Inductive == Spec => []IInv
BY IInvInit, IInvNext, PTL DEF Spec

(***************************************************************************)
(* Types: ids of committed rows are drawn from the sequence, and an append *)
(* in progress holds an organisation and the hash its query returned.      *)
(***************************************************************************)
THEOREM TypeCorrect == Spec => []TypeOK
<1>1. IInv => TypeOK
  BY DEF IInv
<1> QED
  BY Inductive, <1>1, PTL

(***************************************************************************)
(* However many writers append at the same time and roll back, an entry    *)
(* carries the zero hash or that of a committed, earlier entry of its own  *)
(* organisation (append_audit_log).                                        *)
(***************************************************************************)
THEOREM EntriesLinkBackwards == Spec => []LinkedBackwards
<1>1. IInv => LinkedBackwards
  BY DEF IInv
<1> QED
  BY Inductive, <1>1, PTL

(***************************************************************************)
(* An organisation whose appends do not overlap has one unbroken chain in  *)
(* id order: the property the Postgres integration test queries.           *)
(***************************************************************************)
THEOREM SerialLogsAreChains == Spec => []SerialChainUnbroken
<1>1. IInv => SerialChainUnbroken
  BY DEF IInv
<1> QED
  BY Inductive, <1>1, PTL

-----------------------------------------------------------------------------
(* The width of the forks                                                  *)

\* The open transactions of organisation o that read hash p.
Behind(o, p) == {w \in OpenIn(o) : txn[w].prev = p}

\* The entries behind a hash and the transactions that may still join them.
ForksShared ==
    \A o \in Org, p \in Nat :
        /\ IsFiniteSet(Siblings(o, p))
        /\ Cardinality(Siblings(o, p)) + Cardinality(Behind(o, p)) <= Cardinality(Writer)

\* Sets of writers are finite, and no larger than Writer.
LEMMA WritersFinite ==
    ASSUME NEW S \in SUBSET Writer
    PROVE  /\ IsFiniteSet(S)
           /\ Cardinality(S) \in Nat /\ Cardinality(Writer) \in Nat
           /\ Cardinality(S) <= Cardinality(Writer)
<1>1. IsFiniteSet(Writer)
  BY AuditLogAssumption
<1>2. IsFiniteSet(S) /\ Cardinality(S) <= Cardinality(Writer)
  BY <1>1, FS_Subset
<1> QED
  BY <1>1, <1>2, FS_CardinalityType

\* A commit takes one transaction from those behind the hash for the row it adds.
LEMMA RowForWriter ==
    ASSUME NEW S, IsFiniteSet(S), NEW B \in SUBSET Writer, NEW w \in B, NEW row,
           Cardinality(S) + Cardinality(B) <= Cardinality(Writer)
    PROVE  /\ IsFiniteSet(S \cup {row})
           /\ Cardinality(S \cup {row}) + Cardinality(B \ {w}) <= Cardinality(Writer)
<1>1. /\ IsFiniteSet(S \cup {row})
      /\ Cardinality(S \cup {row}) = IF row \in S THEN Cardinality(S) ELSE Cardinality(S) + 1
  BY FS_AddElement
<1>2. IsFiniteSet(B) /\ Cardinality(B) \in Nat /\ Cardinality(Writer) \in Nat
  BY WritersFinite
<1>3. Cardinality(B \ {w}) = Cardinality(B) - 1
  BY <1>2, FS_RemoveElement
<1>4. Cardinality(S) \in Nat
  BY FS_CardinalityType
<1> QED
  BY <1>1, <1>2, <1>3, <1>4

\* Nothing is behind the hash that the query returns: the latest entry has no successor.
LEMMA HeadHasNoSiblings ==
    ASSUME IInv, NEW o \in Org
    PROVE  Siblings(o, PreviousHash(o)) = {}
<1> SUFFICES ASSUME NEW e \in EntriesOf(o), e.prev = PreviousHash(o) PROVE FALSE
  BY DEF Siblings
<1>1. PICK f \in EntriesOf(o) : f.id = PreviousHash(o) /\ \A g \in EntriesOf(o) : g.id <= f.id
  BY PreviousHashFacts DEF IInv
<1>2. /\ e \in entries /\ e.org = o /\ f \in entries
      /\ e.id \in Nat \ {0} /\ f.id \in Nat \ {0}
  BY DEF IInv, TypeOK, Entry, EntriesOf
<1>3. \/ e.prev = ZeroHash
      \/ \E g \in EntriesOf(o) : g.id = e.prev /\ g.id < e.id
  BY <1>2 DEF IInv, LinkedBackwards
<1> QED
  BY <1>1, <1>2, <1>3 DEF ZeroHash

LEMMA ForksInit == Init => ForksShared
<1> SUFFICES ASSUME Init, NEW o \in Org, NEW p \in Nat
             PROVE  /\ IsFiniteSet(Siblings(o, p))
                    /\ Cardinality(Siblings(o, p)) + Cardinality(Behind(o, p)) <= Cardinality(Writer)
  BY DEF ForksShared
<1>1. Siblings(o, p) = {} /\ Behind(o, p) = {}
  BY DEF Init, Siblings, EntriesOf, Behind, OpenIn
<1>2. IsFiniteSet({}) /\ Cardinality({}) = 0
  BY FS_EmptySet
<1>3. Cardinality(Writer) \in Nat
  BY WritersFinite
<1> QED
  BY <1>1, <1>2, <1>3

LEMMA ForksNext == IInv /\ ForksShared /\ [Next]_vars => ForksShared'
<1> SUFFICES ASSUME IInv, ForksShared, [Next]_vars, NEW o \in Org, NEW p \in Nat
             PROVE  /\ IsFiniteSet(Siblings(o, p)')
                    /\ Cardinality(Siblings(o, p)') + Cardinality(Behind(o, p)') <= Cardinality(Writer)
  BY DEF ForksShared
<1> DEFINE S == Siblings(o, p)
           B == Behind(o, p)
<1>1. IsFiniteSet(S) /\ Cardinality(S) + Cardinality(B) <= Cardinality(Writer)
  BY DEF ForksShared
<1>2. B \in SUBSET Writer /\ B' \in SUBSET Writer
  BY DEF Behind, OpenIn
<1>3. /\ Cardinality(S) \in Nat /\ Cardinality(B) \in Nat /\ Cardinality(B') \in Nat
      /\ Cardinality(B') <= Cardinality(Writer) /\ Cardinality(Writer) \in Nat
      /\ IsFiniteSet(B)
  BY <1>1, <1>2, WritersFinite, FS_CardinalityType
<1>4. entries' = entries => S' = S
  BY DEF Siblings, EntriesOf
<1>5. ASSUME entries' = entries, B' \subseteq B
      PROVE  IsFiniteSet(S') /\ Cardinality(S') + Cardinality(B') <= Cardinality(Writer)
  <2>1. Cardinality(B') <= Cardinality(B)
    BY <1>3, <1>5, FS_Subset
  <2> QED
    BY <1>1, <1>3, <1>4, <1>5, <2>1
<1>6. ASSUME NEW w \in Writer, NEW q \in Org, ReadPrevious(w, q)
      PROVE  IsFiniteSet(S') /\ Cardinality(S') + Cardinality(B') <= Cardinality(Writer)
  <2>1. /\ entries' = entries /\ txn[w] = Idle
        /\ \A v \in Writer : v # w => txn'[v] = txn[v]
        /\ txn'[w].org = q /\ txn'[w].prev = PreviousHash(q)
    BY <1>6 DEF ReadPrevious, IInv, TypeOK
  <2>2. CASE q = o /\ PreviousHash(o) = p
    <3>1. S = {} /\ S' = {}
      BY <1>4, <2>1, <2>2, HeadHasNoSiblings
    <3> QED
      BY <1>3, <3>1, FS_EmptySet
  <2>3. CASE ~ (q = o /\ PreviousHash(o) = p)
    <3>1. w \notin B'
      <4>1. CASE q # o
        BY <2>1, <4>1 DEF Behind, OpenIn
      <4>2. CASE q = o
        BY <2>1, <2>3, <4>2 DEF Behind
      <4> QED
        BY <4>1, <4>2
    <3>2. \A v \in Writer \ {w} : v \in B' => v \in B
      BY <2>1 DEF Behind, OpenIn
    <3>3. B' \subseteq B
      BY <1>2, <3>1, <3>2
    <3> QED
      BY <1>5, <2>1, <3>3
  <2> QED
    BY <2>2, <2>3
<1>7. ASSUME NEW w \in Writer, InsertEntry(w)
      PROVE  IsFiniteSet(S') /\ Cardinality(S') + Cardinality(B') <= Cardinality(Writer)
  <2>1. /\ entries' = entries /\ txn[w].pc = "read" /\ txn[w] # Idle
        /\ \A v \in Writer : v # w => txn'[v] = txn[v]
        /\ txn'[w].org = txn[w].org /\ txn'[w].prev = txn[w].prev
    BY <1>7 DEF InsertEntry, IInv, TypeOK, Idle
  <2>2. B' \subseteq B
    BY <2>1 DEF Behind, OpenIn
  <2> QED
    BY <1>5, <2>1, <2>2
<1>8. ASSUME NEW w \in Writer, Rollback(w)
      PROVE  IsFiniteSet(S') /\ Cardinality(S') + Cardinality(B') <= Cardinality(Writer)
  <2>1. /\ entries' = entries
        /\ \A v \in Writer : txn'[v] = IF v = w THEN Idle ELSE txn[v]
    BY <1>8 DEF Rollback, IInv, TypeOK
  <2>2. B' \subseteq B
    BY <2>1 DEF Behind, OpenIn
  <2> QED
    BY <1>5, <2>1, <2>2
<1>9. ASSUME NEW w \in Writer, Commit(w)
      PROVE  IsFiniteSet(S') /\ Cardinality(S') + Cardinality(B') <= Cardinality(Writer)
  <2>1. /\ txn[w].pc = "inserted" /\ txn[w] # Idle
        /\ RowOf(w).org = txn[w].org /\ RowOf(w).prev = txn[w].prev
        /\ entries' = entries \cup {RowOf(w)}
        /\ \A v \in Writer : txn'[v] = IF v = w THEN Idle ELSE txn[v]
    <3>1. TypeOK
      BY DEF IInv
    <3>2. /\ RowOf(w).org = txn[w].org /\ RowOf(w).prev = txn[w].prev
          /\ \A v \in Writer : txn'[v] = IF v = w THEN Idle ELSE txn[v]
      BY <1>9, <3>1, CommitFacts
    <3> QED
      BY <1>9, <3>2 DEF Commit, Idle
  <2>2. B' = B \ {w}
    BY <2>1 DEF Behind, OpenIn
  <2>3. CASE w \in B
    <3>1. S' = S \cup {RowOf(w)}
      BY <2>1, <2>3 DEF Siblings, EntriesOf, Behind, OpenIn
    <3>2. /\ IsFiniteSet(S \cup {RowOf(w)})
          /\ Cardinality(S \cup {RowOf(w)}) + Cardinality(B \ {w}) <= Cardinality(Writer)
      <4> HIDE DEF S, B
      <4> QED
        BY <1>1, <1>2, <2>3, RowForWriter
    <3> QED
      BY <2>2, <3>1, <3>2
  <2>4. CASE w \notin B
    <3>1. S' = S /\ B' = B
      BY <2>1, <2>2, <2>4 DEF Siblings, EntriesOf, Behind, OpenIn
    <3> QED
      BY <1>1, <3>1
  <2> QED
    BY <2>3, <2>4
<1>10. CASE UNCHANGED vars
  <2>1. S' = S /\ B' = B
    BY <1>10 DEF Siblings, EntriesOf, Behind, OpenIn, vars
  <2> QED
    BY <1>1, <2>1
<1> QED
  BY <1>6, <1>7, <1>8, <1>9, <1>10 DEF Next

(***************************************************************************)
(* Whatever overlaps, no more entries carry one prev_hash than there may   *)
(* be transactions open: append_audit_log's query returns the latest       *)
(* entry, which has no successor yet, so all of them were open by then.    *)
(***************************************************************************)
THEOREM ForksAreBounded == Spec => []ForkWidthBounded
<1>1. IInv /\ ForksShared => ForkWidthBounded
  <2> SUFFICES ASSUME IInv, ForksShared, NEW o \in Org, NEW p \in 0 .. lastId
               PROVE  Cardinality(Siblings(o, p)) <= Cardinality(Writer)
    BY DEF ForkWidthBounded
  <2>1. p \in Nat
    BY DEF IInv, TypeOK
  <2>2. /\ IsFiniteSet(Siblings(o, p))
        /\ Cardinality(Siblings(o, p)) + Cardinality(Behind(o, p)) <= Cardinality(Writer)
    BY <2>1 DEF ForksShared
  <2>3. Behind(o, p) \in SUBSET Writer
    BY DEF Behind, OpenIn
  <2>4. Cardinality(Behind(o, p)) \in Nat /\ Cardinality(Writer) \in Nat
    BY <2>3, WritersFinite
  <2> QED
    BY <2>2, <2>4, FS_CardinalityType
<1> QED
  BY Inductive, ForksInit, ForksNext, <1>1, PTL DEF Spec

-----------------------------------------------------------------------------
(* The table implements the abstract chain                                 *)

\* A step that commits no row in a serial organisation leaves the chains alone.
LEMMA ChainStutters ==
    ASSUME \A o \in SerialOrg : EntriesOf(o)' = EntriesOf(o)
    PROVE  UNCHANGED Chain!vars
<1>1. \A o \in SerialOrg : PreviousHash(o)' = PreviousHash(o)
  BY DEF PreviousHash
<1>2. [o \in SerialOrg |-> PreviousHash(o)]' = [o \in SerialOrg |-> PreviousHash(o)]
  BY <1>1
<1>3. [o \in SerialOrg |-> {<<e.prev, e.id>> : e \in EntriesOf(o)}]'
         = [o \in SerialOrg |-> {<<e.prev, e.id>> : e \in EntriesOf(o)}]
  OBVIOUS
<1> QED
  BY <1>2, <1>3 DEF Chain!vars

\* A commit in a serial organisation appends its row behind the head.
LEMMA CommitAppends ==
    ASSUME IInv, NEW w \in Writer, Commit(w), NEW org \in SerialOrg, txn[w].org = org
    PROVE  Chain!Append(org)
<1> PICK row : row = RowOf(w)
  OBVIOUS
<1> USE DEF IInv
<1>1. /\ txn[w] \in Append /\ txn[w] # Idle /\ txn[w].pc = "inserted"
      /\ row.id = txn[w].id /\ row.prev = txn[w].prev /\ org \in Org
      /\ \A o : EntriesOf(o)' = IF o = org THEN EntriesOf(o) \cup {row} ELSE EntriesOf(o)
  <2>1. txn[w] \in Append /\ txn[w].pc = "inserted" /\ org \in Org
    BY CommitFacts, AuditLogAssumption DEF Commit
  <2>2. txn[w] # Idle
    BY <2>1 DEF Append, Idle
  <2> QED
    BY <2>1, <2>2, CommitFacts
<1>2. row.id \in Nat /\ row.id > 0 /\ row.id <= MaxId
  BY <1>1, AuditLogAssumption DEF PendingLinked, IdsDrawn, Append, TypeOK
<1>3. row.prev = PreviousHash(org) /\ \A e \in EntriesOf(org) : e.id \in Nat /\ e.id < row.id
  BY <1>1 DEF SerialPending, EntriesOf, TypeOK, Entry
<1>4. PreviousHash(org)' = row.id
  <2>1. \A e \in EntriesOf(org)' : e.id <= row.id
    BY <1>1, <1>2, <1>3
  <2>2. row \in EntriesOf(org)'
    BY <1>1
  <2>3. IsLatest(Latest(EntriesOf(org)'), EntriesOf(org)')
    BY <2>1, <2>2, LatestIsLatest DEF IsLatest
  <2>4. Latest(EntriesOf(org)').id = row.id
    BY <1>1, <1>2, <1>3, <2>1, <2>2, <2>3 DEF IsLatest
  <2>5. PreviousHash(org)' = Latest(EntriesOf(org)').id
    BY <2>2 DEF PreviousHash
  <2> QED
    BY <2>4, <2>5
<1>5. \A o \in SerialOrg : o # org => PreviousHash(o)' = PreviousHash(o)
  BY <1>1 DEF PreviousHash
<1> DEFINE head == [o \in SerialOrg |-> PreviousHash(o)]
           link == [o \in SerialOrg |-> {<<e.prev, e.id>> : e \in EntriesOf(o)}]
<1>6. head' = [head EXCEPT ![org] = row.id]
  BY <1>4, <1>5
<1>7. link' = [link EXCEPT ![org] = @ \cup {<<head[org], row.id>>}]
  <2>1. \A o \in SerialOrg : o # org => link'[o] = link[o]
    BY <1>1
  <2>2. link'[org] = link[org] \cup {<<row.prev, row.id>>}
    BY <1>1
  <2>3. head[org] = row.prev
    BY <1>3
  <2> HIDE DEF head
  <2> QED
    BY <2>1, <2>2, <2>3
<1>8. \A pair \in link[org] : pair[2] # row.id
  BY <1>2, <1>3
<1>9. row.id \in (1 .. MaxId) \ {0}
  BY <1>2, AuditLogAssumption
<1> HIDE DEF head, link
<1> QED
  BY <1>6, <1>7, <1>8, <1>9 DEF Chain!Append, Chain!Genesis, head, link

(***************************************************************************)
(* For serial organisations append_audit_log, with the rollbacks and with  *)
(* the concurrent writers of other organisations, implements HashChain.    *)
(***************************************************************************)
THEOREM ImplementsChain == Spec => ChainSpec
<1>1. Init => Chain!Init
  BY DEF Init, Chain!Init, Chain!Genesis, PreviousHash, EntriesOf, ZeroHash
<1>2. IInv /\ [Next]_vars => [Chain!Next]_(Chain!vars)
  <2> SUFFICES ASSUME IInv, [Next]_vars PROVE [Chain!Next]_(Chain!vars)
    OBVIOUS
  <2>1. CASE UNCHANGED entries
    BY <2>1, EntriesUnchanged, ChainStutters
  <2>2. ASSUME NEW w \in Writer, Commit(w) PROVE [Chain!Next]_(Chain!vars)
    <3>1. CASE txn[w].org \in SerialOrg
      <4>1. PICK org \in SerialOrg : txn[w].org = org
        BY <3>1
      <4>2. Chain!Append(org)
        BY <2>2, <4>1, CommitAppends
      <4> QED
        BY <4>2 DEF Chain!Next
    <3>2. CASE txn[w].org \notin SerialOrg
      BY <2>2, <3>2, CommitFacts, ChainStutters DEF IInv
    <3> QED
      BY <3>1, <3>2
  <2> QED
    BY <2>1, <2>2 DEF Next, ReadPrevious, InsertEntry, Rollback, vars
<1> QED
  BY <1>1, <1>2, Inductive, PTL DEF Spec, ChainSpec, Chain!Spec
=============================================================================

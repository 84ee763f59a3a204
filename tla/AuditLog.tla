------------------------------ MODULE AuditLog ------------------------------
(***************************************************************************)
(* The hash-chained audit log: table audit_log_entries, written by every   *)
(* request handler and workflow activity that calls append_audit_log       *)
(* inside its own database transaction.                                    *)
(*                                                                         *)
(* append_audit_log reads the organisation's latest committed entry, takes *)
(* its entry_hash as prev_hash and adds a row; the row is inserted by the  *)
(* caller's flush, which draws the id from the table's sequence, and it    *)
(* becomes visible when the caller commits.  No lock spans the three       *)
(* moments, and a sequence value drawn by a transaction that rolls back is *)
(* not given out again.                                                    *)
(*                                                                         *)
(* A hash is the identity of the entry it is computed from (the digest     *)
(* covers prev_hash, the payload and a microsecond timestamp): entry_hash  *)
(* of e is e.id, and the zero hash is 0.                                   *)
(***************************************************************************)
EXTENDS Naturals, FiniteSets

CONSTANTS
    Org,        \* organisations
    Writer,     \* database transactions that may be open at the same time
    SerialOrg,  \* organisations whose writers never overlap
    MaxId       \* bound: sequence values drawn in one behaviour

ASSUME AuditLogAssumption ==
    SerialOrg \subseteq Org /\ MaxId \in Nat /\ IsFiniteSet(Writer)

VARIABLES
    entries,    \* committed rows
    lastId,     \* last value drawn from the id sequence
    txn         \* per writer: the append it is in the middle of

vars == <<entries, lastId, txn>>

ZeroHash == 0

Entry == [id : Nat \ {0}, org : Org, prev : Nat]

Idle == [pc |-> "idle"]

\* An append in progress; id is 0 until the row is inserted.
Append == [pc : {"read", "inserted"}, org : Org, prev : Nat, id : Nat]

TypeOK ==
    /\ entries \subseteq Entry
    /\ lastId \in Nat
    /\ txn \in [Writer -> {Idle} \cup Append]

-----------------------------------------------------------------------------
OpenIn(o) == {w \in Writer : txn[w] # Idle /\ txn[w].org = o}

EntriesOf(o) == {e \in entries : e.org = o}

\* order by id desc limit 1
Latest(rows) == CHOOSE e \in rows : \A f \in rows : f.id <= e.id

\* Mutant of PreviousHash: the order by lacks its desc.
PreviousHashAscending(o) ==
    IF EntriesOf(o) = {}
    THEN ZeroHash
    ELSE (CHOOSE e \in EntriesOf(o) : \A f \in EntriesOf(o) : f.id >= e.id).id

\* Mutant of PreviousHash: rows other transactions have not committed are read too.
PreviousHashDirty(o) ==
    LET seen == {e.id : e \in EntriesOf(o)} \cup {txn[w].id : w \in OpenIn(o)}
    IN  IF seen = {} THEN ZeroHash ELSE CHOOSE i \in seen : \A j \in seen : j <= i

\* What the query for the organisation's latest row finds, as the hash it yields.
PreviousHash(o) == IF EntriesOf(o) = {} THEN ZeroHash ELSE Latest(EntriesOf(o)).id

Init ==
    /\ entries = {}
    /\ lastId = 0
    /\ txn = [w \in Writer |-> Idle]

(***************************************************************************)
(* append_audit_log's query.  In an organisation of SerialOrg the          *)
(* environment opens one transaction at a time, as the tests do.           *)
(***************************************************************************)
ReadPrevious(w, o) ==
    /\ txn[w] = Idle
    /\ o \in SerialOrg => OpenIn(o) = {}
    /\ txn' = [txn EXCEPT ![w] = [pc |-> "read", org |-> o, prev |-> PreviousHash(o), id |-> 0]]
    /\ UNCHANGED <<entries, lastId>>

\* The INSERT of the caller's flush: the row exists, uncommitted, under the next id.
InsertEntry(w) ==
    /\ txn[w].pc = "read"
    /\ lastId < MaxId
    /\ lastId' = lastId + 1
    /\ txn' = [txn EXCEPT ![w] =
                    [pc |-> "inserted", org |-> @.org, prev |-> @.prev, id |-> lastId + 1]]
    /\ UNCHANGED entries

RowOf(w) == [id |-> txn[w].id, org |-> txn[w].org, prev |-> txn[w].prev]

Commit(w) ==
    /\ txn[w].pc = "inserted"
    /\ entries' = entries \cup {RowOf(w)}
    /\ txn' = [txn EXCEPT ![w] = Idle]
    /\ UNCHANGED lastId

\* Mutant of Rollback: the append keeps its columns when it is given up.
RollbackKeepingRow(w) ==
    /\ txn[w] # Idle
    /\ txn' = [txn EXCEPT ![w].pc = "idle"]
    /\ UNCHANGED <<entries, lastId>>

(***************************************************************************)
(* An activity raises, or the flush or the connection fails, before the    *)
(* commit.  (A request handler that raises in between commits all the      *)
(* same, in get_db's finally.)                                             *)
(***************************************************************************)
Rollback(w) ==
    /\ txn[w] # Idle
    /\ txn' = [txn EXCEPT ![w] = Idle]
    /\ UNCHANGED <<entries, lastId>>

Next ==
    \E w \in Writer :
        \/ \E o \in Org : ReadPrevious(w, o)
        \/ InsertEntry(w)
        \/ Commit(w)
        \/ Rollback(w)

Spec == Init /\ [][Next]_vars

-----------------------------------------------------------------------------
(***************************************************************************)
(* Every entry carries the zero hash or the hash of a committed, earlier   *)
(* entry of its own organisation, whatever the interleaving of appends:    *)
(* never the hash of a row that was rolled back or is still uncommitted    *)
(* (append_audit_log's select sees committed rows of one org_id only).     *)
(***************************************************************************)
LinkedBackwards ==
    \A e \in entries :
        \/ e.prev = ZeroHash
        \/ \E f \in EntriesOf(e.org) : f.id = e.prev /\ f.id < e.id

IsPredecessor(f, e) ==
    /\ f.org = e.org
    /\ f.id < e.id
    /\ \A g \in EntriesOf(e.org) : g.id < e.id => g.id <= f.id

\* The chain_breaks = 0 query of the Postgres integration test, for one organisation.
ChainUnbroken(o) ==
    \A e \in EntriesOf(o) :
        \/ /\ e.prev = ZeroHash
           /\ ~ \E f \in EntriesOf(o) : f.id < e.id
        \/ \E f \in EntriesOf(o) : IsPredecessor(f, e) /\ e.prev = f.id

(***************************************************************************)
(* Where the appends of an organisation do not overlap, its log is one     *)
(* chain in id order, whatever the other organisations' writers do and     *)
(* whichever transactions roll back.                                       *)
(***************************************************************************)
SerialChainUnbroken == \A o \in SerialOrg : ChainUnbroken(o)

(***************************************************************************)
(* What the tests and the architecture notes say of every organisation:    *)
(* prev_hash is the entry_hash of the entry before it.  The code does not  *)
(* hold to it when two transactions append at the same time.               *)
(***************************************************************************)
EveryChainUnbroken == \A o \in Org : ChainUnbroken(o)

Siblings(o, p) == {e \in EntriesOf(o) : e.prev = p}

(***************************************************************************)
(* How far a chain can fan out: entries that carry the same prev_hash were *)
(* all read before the first of them committed, so there is at most one    *)
(* per open transaction.                                                   *)
(***************************************************************************)
ForkWidthBounded ==
    \A o \in Org : \A p \in 0 .. lastId :
        Cardinality(Siblings(o, p)) <= Cardinality(Writer)

(***************************************************************************)
(* For the serial organisations the table implements the abstract chain:   *)
(* its head is what the next append reads, its links are the committed     *)
(* rows, and a commit appends exactly one entry behind the head.           *)
(***************************************************************************)
Chain == INSTANCE HashChain
    WITH Org <- SerialOrg,
         Id <- 1 .. MaxId,
         head <- [o \in SerialOrg |-> PreviousHash(o)],
         link <- [o \in SerialOrg |-> {<<e.prev, e.id>> : e \in EntriesOf(o)}]

ChainSpec == Chain!Spec
=============================================================================

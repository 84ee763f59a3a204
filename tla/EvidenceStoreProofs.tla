------------------------- MODULE EvidenceStoreProofs -------------------------
(***************************************************************************)
(* Proofs about uploaded evidence and packages, for any uploads, exports   *)
(* and scanner.                                                            *)
(*                                                                         *)
(* The inductive invariant IInv follows what is committed from the rows to *)
(* what is selected, packed, wanted and sent (CommittedFlow), says that a  *)
(* scanned upload carries what the scanner found (ScansKept), and that a   *)
(* package holds what its export has got (PackagesHoldItems).              *)
(***************************************************************************)
EXTENDS EvidenceStore, TLAPS

Scanned == {"scanned", "flushed", "done"}

ScansKept ==
    Scanning => \A u \in Infected : upload[u].pc \in Scanned => upload[u].scan # "clean"

\* Nothing but the keys of committed rows goes into a package or to a user.
CommittedFlow ==
    /\ \A k \in rows \cup wanted \cup delivered : k \in Key /\ Committed(k)
    /\ \A e \in Export : \A k \in export[e].items : k \in Key /\ Committed(k)
    /\ \A e \in Export : export[e].got \subseteq export[e].items
    /\ \A e \in Export : \A u \in content[e] : u \in Upload /\ Committed(u)

PackagesHoldItems ==
    \A e \in Export : export[e].pc \in {"flushed", "done"} =>
        \A k \in export[e].items : k \in export[e].missing \/ ContentOf(k) \subseteq content[e]

NothingInfectedWanted == Scanning => Infected \cap (wanted \cup delivered) = {}

IInv ==
    /\ TypeOK
    /\ ScansKept
    /\ CommittedFlow
    /\ PackagesHoldItems
    /\ NothingInfectedWanted

\* What is committed stays so, and what it holds does not change.
CommittedStays ==
    \A k \in Key : Committed(k) => Committed(k)' /\ ContentOf(k)' = ContentOf(k)

-----------------------------------------------------------------------------
LEMMA IInvInit == Init => IInv
<1> SUFFICES ASSUME Init PROVE IInv
  OBVIOUS
<1>1. TypeOK
  BY DEF Init, TypeOK, UploadState, ExportState, Scan
<1>2. ScansKept /\ NothingInfectedWanted /\ PackagesHoldItems
  BY EvidenceStoreAssumption
  DEF Init, ScansKept, Scanned, NothingInfectedWanted, PackagesHoldItems
<1>3. CommittedFlow
  BY DEF Init, CommittedFlow
<1> QED
  BY <1>1, <1>2, <1>3 DEF IInv

\* A step of an upload that puts its record new, and commits nothing but itself.
LEMMA UploadSteps ==
    ASSUME IInv, NEW u \in Upload, NEW new \in UploadState,
           upload' = [upload EXCEPT ![u] = new],
           upload[u].pc # "done",
           UNCHANGED <<project, export, content, wanted, delivered>>,
           store' \subseteq Key,
           rows' = rows \/ (rows' = rows \cup {u} /\ new.pc = "done"),
           new.pc \in Scanned /\ Scanning /\ u \in Infected => new.scan # "clean"
    PROVE  IInv'
<1> USE DEF IInv
<1>1. \A v \in Upload : upload'[v] = IF v = u THEN new ELSE upload[v]
  BY DEF TypeOK
<1>2. TypeOK'
  BY DEF TypeOK, Key
<1>3. ScansKept'
  BY <1>1, EvidenceStoreAssumption DEF ScansKept
<1>4. CommittedStays
  BY <1>1, EvidenceStoreAssumption DEF CommittedStays, Committed, ContentOf, Key
<1>5. CommittedFlow'
  <2>1. \A k \in rows' : k \in Key /\ Committed(k)'
    BY <1>1, <1>4 DEF CommittedFlow, CommittedStays, Committed, Key
  <2>2. \A k \in wanted \cup delivered : k \in Key /\ Committed(k)'
    BY <1>4 DEF CommittedFlow, CommittedStays
  <2>3. \A e \in Export : \A k \in export[e].items : k \in Key /\ Committed(k)'
    BY <1>4 DEF CommittedFlow, CommittedStays
  <2>4. \A e \in Export : \A v \in content[e] : v \in Upload /\ Committed(v)'
    BY <1>4 DEF CommittedFlow, CommittedStays, Key
  <2> QED
    BY <2>1, <2>2, <2>3, <2>4 DEF CommittedFlow
<1>6. PackagesHoldItems'
  BY DEF PackagesHoldItems, ContentOf
<1>7. NothingInfectedWanted'
  BY DEF NothingInfectedWanted
<1> QED
  BY <1>2, <1>3, <1>5, <1>6, <1>7

\* A step of an export that puts its record new, and its content if it stores the archive.
LEMMA ExportSteps ==
    ASSUME IInv, NEW e \in Export, NEW new \in ExportState,
           export' = [export EXCEPT ![e] = new],
           export[e].pc # "done",
           UNCHANGED <<project, upload, wanted, delivered>>,
           store' \subseteq Key,
           rows' = rows \/ (rows' = rows \cup {e} /\ new.pc = "done"),
           new.items \subseteq export[e].items \cup rows,
           new.got \subseteq new.items,
           content' = content \/ content' = [content EXCEPT ![e] = Archive(e)],
           new.pc \in {"flushed", "done"} =>
               \A k \in new.items : k \in new.missing \/ ContentOf(k) \subseteq content'[e]
    PROVE  IInv'
<1> USE DEF IInv
<1>1. \A x \in Export : export'[x] = IF x = e THEN new ELSE export[x]
  BY DEF TypeOK
<1>2. \A x \in Export : x # e => content'[x] = content[x]
  BY DEF TypeOK
<1>3. \A k \in export[e].got : k \in Key /\ Committed(k) /\ ContentOf(k) \subseteq Upload
  BY DEF CommittedFlow, ContentOf, Key, TypeOK
<1>4. \A u \in Archive(e) : u \in Upload /\ Committed(u)
  <2> SUFFICES ASSUME NEW k \in export[e].got, NEW u \in ContentOf(k)
               PROVE  u \in Upload /\ Committed(u)
    BY DEF Archive
  <2> QED
    BY <1>3 DEF CommittedFlow, ContentOf, Key
<1>5. \A x \in Export : content'[x] = content[x] \/ (x = e /\ content'[x] = Archive(e))
  BY DEF TypeOK
<1>6. TypeOK'
  <2>1. content' \in [Export -> SUBSET Upload]
    BY <1>4 DEF TypeOK
  <2>2. rows' \subseteq Key
    BY DEF TypeOK, Key
  <2> QED
    BY <2>1, <2>2 DEF TypeOK
<1>7. ScansKept' /\ NothingInfectedWanted'
  BY DEF ScansKept, NothingInfectedWanted
<1>8. CommittedStays
  <2> SUFFICES ASSUME NEW k \in Key, Committed(k)
               PROVE  Committed(k)' /\ ContentOf(k)' = ContentOf(k)
    BY DEF CommittedStays
  <2>1. CASE k \in Upload
    BY <2>1 DEF Committed, ContentOf
  <2>2. CASE k \notin Upload
    <3>1. k \in Export /\ k # e
      BY <2>2 DEF Key, Committed
    <3> QED
      BY <1>1, <1>2, <2>2, <3>1 DEF Committed, ContentOf
  <2> QED
    BY <2>1, <2>2
<1>9. CommittedFlow'
  <2>1. \A k \in rows' : k \in Key /\ Committed(k)'
    <3>1. new.pc = "done" => e \in Key /\ Committed(e)'
      BY <1>1, EvidenceStoreAssumption DEF Committed, Key
    <3> QED
      BY <1>8, <3>1 DEF CommittedFlow, CommittedStays
  <2>2. \A k \in wanted \cup delivered : k \in Key /\ Committed(k)'
    BY <1>8 DEF CommittedFlow, CommittedStays
  <2>3. ASSUME NEW x \in Export PROVE \A k \in export'[x].items : k \in Key /\ Committed(k)'
    BY <1>1, <1>8 DEF CommittedFlow, CommittedStays
  <2>4. \A x \in Export : export'[x].got \subseteq export'[x].items
    BY <1>1 DEF CommittedFlow
  <2>5. ASSUME NEW x \in Export PROVE \A u \in content'[x] : u \in Upload /\ Committed(u)'
    BY <1>4, <1>5, <1>8 DEF CommittedFlow, CommittedStays, Key
  <2> QED
    BY <2>1, <2>2, <2>3, <2>4, <2>5 DEF CommittedFlow
<1>10. PackagesHoldItems'
  <2> SUFFICES ASSUME NEW x \in Export, export'[x].pc \in {"flushed", "done"},
                      NEW k \in export'[x].items
               PROVE  k \in export'[x].missing \/ ContentOf(k)' \subseteq content'[x]
    BY DEF PackagesHoldItems
  <2>1. ContentOf(k)' = ContentOf(k)
    BY <1>1, <1>8 DEF CommittedFlow, CommittedStays
  <2> QED
    BY <1>1, <1>2, <2>1 DEF PackagesHoldItems
<1> QED
  BY <1>6, <1>7, <1>9, <1>10

LEMMA UploadStepKeepsIInv ==
    ASSUME IInv, NEW u \in Upload, UploadStep(u)
    PROVE  IInv'
<1> USE DEF IInv
<1>1. upload[u] \in UploadState /\ upload[u].scan \in Scan
  BY DEF TypeOK, UploadState
<1>2. \A to \in {"checked", "stored", "flushed", "done", "failed"} :
          [upload[u] EXCEPT !.pc = to] = [pc |-> to, scan |-> upload[u].scan]
          /\ [pc |-> to, scan |-> upload[u].scan] \in UploadState
  BY <1>1 DEF UploadState
<1>3. ASSUME NEW to \in {"checked", "stored", "flushed", "done", "failed"},
             upload' = [upload EXCEPT ![u].pc = to],
             upload[u].pc # "done",
             to \in Scanned => upload[u].pc \in Scanned,
             UNCHANGED <<project, export, content, wanted, delivered>>,
             store' \subseteq Key,
             rows' = rows \/ (rows' = rows \cup {u} /\ to = "done")
      PROVE  IInv'
  <2> DEFINE new == [pc |-> to, scan |-> upload[u].scan]
  <2>1. new \in UploadState /\ new.pc = to /\ new.scan = upload[u].scan
    BY <1>2
  <2>2. upload' = [upload EXCEPT ![u] = new]
    BY <1>2, <1>3
  <2>3. new.pc \in Scanned /\ Scanning /\ u \in Infected => new.scan # "clean"
    BY <1>3, <2>1 DEF ScansKept
  <2> HIDE DEF new
  <2>4. rows' = rows \/ (rows' = rows \cup {u} /\ new.pc = "done")
    BY <1>3, <2>1
  <2>5. UNCHANGED <<project, export, content, wanted, delivered>> /\ store' \subseteq Key
    BY <1>3
  <2>6. upload[u].pc # "done"
    BY <1>3
  <2> QED
    BY <2>1, <2>2, <2>3, <2>4, <2>5, <2>6, UploadSteps
<1>4. store \subseteq Key /\ store \cup {u} \subseteq Key
  BY DEF TypeOK, Key
<1>5. CASE CheckUpload(u)
  BY <1>3, <1>4, <1>5 DEF CheckUpload, UploadMoves, Scanned
<1>6. CASE PutUpload(u)
  BY <1>3, <1>4, <1>6 DEF PutUpload, UploadMoves, Scanned
<1>7. CASE ScanUpload(u)
  <2>1. PICK s \in ScanOutcomes(u) : upload' = [upload EXCEPT ![u] = [pc |-> "scanned", scan |-> s]]
    BY <1>7 DEF ScanUpload
  <2> DEFINE new == [pc |-> "scanned", scan |-> s]
  <2>2. new \in UploadState /\ new.pc = "scanned" /\ new.scan = s
    BY DEF UploadState, Scan, ScanOutcomes
  <2>3. Scanning /\ u \in Infected => s # "clean"
    BY DEF ScanOutcomes
  <2>4. upload' = [upload EXCEPT ![u] = new] /\ upload[u].pc # "done"
    BY <1>7, <2>1 DEF ScanUpload
  <2>5. rows' = rows /\ store' \subseteq Key /\ UNCHANGED <<project, export, content, wanted, delivered>>
    BY <1>4, <1>7 DEF ScanUpload
  <2> HIDE DEF new
  <2> QED
    BY <2>2, <2>3, <2>4, <2>5, UploadSteps
<1>8. CASE FlushUpload(u)
  BY <1>3, <1>4, <1>8 DEF FlushUpload, UploadMoves, Scanned
<1>9. CASE CommitUpload(u)
  BY <1>3, <1>4, <1>9 DEF CommitUpload, UploadMoves, Scanned
<1>10. CASE UploadFails(u)
  BY <1>3, <1>4, <1>10 DEF UploadFails, Scanned
<1> QED
  BY <1>5, <1>6, <1>7, <1>8, <1>9, <1>10 DEF UploadStep

LEMMA ExportStepKeepsIInv ==
    ASSUME IInv, NEW e \in Export, ExportStep(e)
    PROVE  IInv'
<1> USE DEF IInv
<1> DEFINE x == export[e]
<1>1. /\ x \in ExportState /\ x.items \subseteq Key /\ x.got \subseteq Key /\ x.missing \subseteq Key
      /\ x = [pc |-> x.pc, items |-> x.items, got |-> x.got, missing |-> x.missing]
      /\ x.got \subseteq x.items
  BY DEF TypeOK, ExportState, CommittedFlow
<1>2. store \subseteq Key /\ store \cup {e} \subseteq Key
  BY DEF TypeOK, Key
<1>3. ASSUME NEW to \in {"flushed", "done", "failed"},
             ExportBecomes(e, to, x.got, x.missing),
             x.pc # "done",
             UNCHANGED <<project, upload, wanted, delivered>>,
             store' \subseteq Key,
             rows' = rows \/ (rows' = rows \cup {e} /\ to = "done"),
             content' = content \/ content' = [content EXCEPT ![e] = Archive(e)],
             to \in {"flushed", "done"} =>
                 \A k \in x.items : k \in x.missing \/ ContentOf(k) \subseteq content'[e]
      PROVE  IInv'
  <2> DEFINE new == [pc |-> to, items |-> x.items, got |-> x.got, missing |-> x.missing]
  <2>1. new \in ExportState /\ new.pc = to /\ new.items = x.items /\ new.got = x.got
        /\ new.missing = x.missing
    BY <1>1 DEF ExportState
  <2>2. export' = [export EXCEPT ![e] = new]
    BY <1>3 DEF ExportBecomes
  <2> HIDE DEF new
  <2> QED
    BY <1>1, <1>3, <2>1, <2>2, ExportSteps
<1>4. CASE SelectRows(e)
  <2> DEFINE new == [pc |-> "selected", items |-> Selected, got |-> {}, missing |-> {}]
  <2>1. new \in ExportState /\ new.pc = "selected" /\ new.items = Selected /\ new.got = {}
    BY DEF ExportState, Selected, TypeOK
  <2>2. Selected \subseteq rows
    BY DEF Selected
  <2> HIDE DEF new
  <2>3. export' = [export EXCEPT ![e] = new] /\ export[e].pc # "done"
    BY <1>4 DEF SelectRows, new
  <2> QED
    BY <1>2, <1>4, <2>1, <2>2, <2>3, ExportSteps DEF SelectRows
<1>5. ASSUME NEW k \in Key, GetObject(e, k) PROVE IInv'
  <2> DEFINE new == [pc |-> "selected", items |-> x.items, got |-> x.got \cup {k}, missing |-> x.missing]
  <2>1. k \in x.items /\ x.pc = "selected"
    BY <1>5 DEF GetObject, ToPack
  <2>2. new \in ExportState /\ new.pc = "selected" /\ new.items = x.items /\ new.got \subseteq new.items
    BY <1>1, <2>1 DEF ExportState
  <2>3. export' = [export EXCEPT ![e] = new]
    BY <1>5 DEF GetObject, ExportBecomes
  <2> HIDE DEF new
  <2> QED
    BY <1>2, <1>5, <2>1, <2>2, <2>3, ExportSteps DEF GetObject
<1>6. ASSUME NEW k \in Key, ObjectUnavailable(e, k) PROVE IInv'
  <2> DEFINE new == [pc |-> "selected", items |-> x.items, got |-> x.got, missing |-> x.missing \cup {k}]
  <2>1. x.pc = "selected"
    BY <1>6 DEF ObjectUnavailable
  <2>2. new \in ExportState /\ new.pc = "selected" /\ new.items = x.items /\ new.got \subseteq new.items
    BY <1>1 DEF ExportState
  <2>3. export' = [export EXCEPT ![e] = new]
    BY <1>6 DEF ObjectUnavailable, ExportBecomes
  <2> HIDE DEF new
  <2> QED
    BY <1>2, <1>6, <2>1, <2>2, <2>3, ExportSteps DEF ObjectUnavailable
<1>7. CASE PutPackage(e)
  <2>1. content'[e] = Archive(e)
    BY <1>7 DEF PutPackage, TypeOK
  <2>2. \A k \in x.items : k \in x.missing \/ ContentOf(k) \subseteq content'[e]
    BY <1>7, <2>1 DEF PutPackage, ToPack, Archive
  <2> QED
    BY <1>2, <1>3, <1>7, <2>2 DEF PutPackage, ExportMoves
<1>8. CASE CommitPackage(e)
  <2>1. \A k \in x.items : k \in x.missing \/ ContentOf(k) \subseteq content'[e]
    BY <1>8 DEF CommitPackage, ExportMoves, PackagesHoldItems
  <2> QED
    BY <1>2, <1>3, <1>8, <2>1 DEF CommitPackage, ExportMoves
<1>9. CASE ExportFails(e)
  BY <1>2, <1>3, <1>9 DEF ExportFails
<1> QED
  BY <1>4, <1>5, <1>6, <1>7, <1>8, <1>9 DEF ExportStep

\* Downloads and the deletion of the project move keys between rows, wanted and delivered only.
LEMMA KeysMove ==
    ASSUME IInv, UNCHANGED <<upload, export, store, content>>, project' \in BOOLEAN,
           rows' \subseteq rows,
           wanted' \cup delivered' \subseteq wanted \cup delivered \cup rows,
           Scanning => Infected \cap (wanted' \cup delivered') = {}
    PROVE  IInv'
<1> USE DEF IInv
<1>1. \A k : Committed(k)' = Committed(k) /\ ContentOf(k)' = ContentOf(k)
  BY DEF Committed, ContentOf
<1>2. TypeOK'
  BY DEF TypeOK
<1>3. ScansKept' /\ NothingInfectedWanted'
  BY DEF ScansKept, NothingInfectedWanted
<1>4. CommittedFlow'
  <2>1. \A k \in rows' \cup wanted' \cup delivered' : k \in Key /\ Committed(k)'
    BY <1>1 DEF CommittedFlow
  <2> QED
    BY <1>1, <2>1 DEF CommittedFlow
<1>5. PackagesHoldItems'
  BY <1>1 DEF PackagesHoldItems
<1> QED
  BY <1>2, <1>3, <1>4, <1>5

LEMMA IInvNext == IInv /\ [Next]_vars => IInv'
<1> SUFFICES ASSUME IInv, [Next]_vars PROVE IInv'
  OBVIOUS
<1> USE DEF IInv
<1>1. ASSUME NEW k \in Key, RequestDownload(k) PROVE IInv'
  <2>1. Scanning => k \notin Infected
    <3> SUFFICES ASSUME Scanning, k \in Infected PROVE FALSE
      OBVIOUS
    <3>1. k \in Upload /\ Committed(k)
      BY <1>1, EvidenceStoreAssumption DEF RequestDownload, CommittedFlow
    <3> QED
      BY <1>1, <3>1 DEF RequestDownload, Committed, ScansKept, Scanned, ScanOf
  <2> QED
    BY <1>1, <2>1, KeysMove DEF RequestDownload, NothingInfectedWanted, TypeOK
<1>2. ASSUME NEW k \in Key, SendObject(k) PROVE IInv'
  BY <1>2, KeysMove DEF SendObject, NothingInfectedWanted, TypeOK
<1>3. CASE DeleteProject
  BY <1>3, KeysMove DEF DeleteProject, NothingInfectedWanted, TypeOK
<1>4. CASE UNCHANGED vars
  BY <1>4, KeysMove DEF vars, NothingInfectedWanted, TypeOK
<1> QED
  BY <1>1, <1>2, <1>3, <1>4, UploadStepKeepsIInv, ExportStepKeepsIInv DEF Next

-----------------------------------------------------------------------------
(***************************************************************************)
(* The invariant holds of all uploads, exports, downloads and deletions    *)
(* that upload_evidence, export_auditor_package and download_evidence can  *)
(* interleave.                                                             *)
(***************************************************************************)
THEOREM Inductive == Spec => []IInv
BY IInvInit, IInvNext, PTL DEF Spec

(***************************************************************************)
(* Rows, objects and requests in progress have their types; in particular  *)
(* a scan status is one of the three that download_evidence knows.         *)
(***************************************************************************)
THEOREM TypeCorrect == Spec => []TypeOK
<1>1. IInv => TypeOK
  BY DEF IInv
<1> QED
  BY <1>1, Inductive, PTL

(***************************************************************************)
(* The object an upload or export leaves behind when it fails after its    *)
(* put is never sent, alone or packed.                                     *)
(***************************************************************************)
THEOREM OrphansNeverLeave == Spec => []OrphansStay
<1>1. IInv => OrphansStay
  <2> SUFFICES ASSUME IInv, NEW k \in delivered
               PROVE  Committed(k) /\ \A u \in ContentOf(k) : Committed(u)
    BY DEF OrphansStay
  <2>1. k \in Key /\ Committed(k)
    BY DEF IInv, CommittedFlow
  <2> QED
    BY <2>1 DEF IInv, CommittedFlow, ContentOf, Key
<1> QED
  BY <1>1, Inductive, PTL

(***************************************************************************)
(* Behind scan_upload_activity, download_evidence never sends an upload in *)
(* which the scanner finds something.                                      *)
(***************************************************************************)
THEOREM InfectedUploadsAreNotSent == Spec => []NoInfectedDownload
<1>1. IInv => NoInfectedDownload
  BY DEF IInv, NothingInfectedWanted, NoInfectedDownload
<1> QED
  BY <1>1, Inductive, PTL

(***************************************************************************)
(* build_auditor_package accounts for all that the selected rows hold,     *)
(* packages inside packages included.                                      *)
(***************************************************************************)
THEOREM PackagesAreComplete == Spec => []PackagesAccountForRows
<1>1. IInv => PackagesAccountForRows
  BY DEF IInv, PackagesHoldItems, PackagesAccountForRows
<1> QED
  BY <1>1, Inductive, PTL
=============================================================================

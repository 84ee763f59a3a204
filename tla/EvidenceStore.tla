--------------------------- MODULE EvidenceStore ---------------------------
(***************************************************************************)
(* Uploaded evidence and auditor packages of one run: table                *)
(* evidence_items and the object store, written by upload_evidence and     *)
(* export_auditor_package, read by download_evidence.                      *)
(*                                                                         *)
(* An upload puts its object, has it scanned, signs a manifest, and only   *)
(* then inserts its row; whatever fails in between leaves the object       *)
(* without a row.  An export reads the rows of the run once, gets their    *)
(* objects one by one, packs them into an archive and stores the archive   *)
(* as evidence of the same run.  Keys are drawn anew for every object, so  *)
(* a request stands for the key it puts.  Report rows are in AuditRun and  *)
(* RunExport.                                                              *)
(***************************************************************************)
EXTENDS Naturals, FiniteSets

CONSTANTS
    Upload,    \* upload requests, each with contents of its own
    Export,    \* export requests
    Attached,  \* the uploads that name the run (audit_run_id)
    Infected,  \* the uploads in which the scanner finds something
    Scanning   \* is the scanner switched on (feature_upload_av_scan)?

ASSUME EvidenceStoreAssumption ==
    /\ Upload \cap Export = {}
    /\ Attached \subseteq Upload
    /\ Infected \subseteq Upload
    /\ Scanning \in BOOLEAN

VARIABLES
    project,    \* does the project, and with it the run, exist?
    upload,     \* per upload: how far it is, and what the scan said
    export,     \* per export: how far it is, what it selected and has packed
    store,      \* keys with an object
    content,    \* per key of a package: the uploads inside it
    rows,       \* keys of committed rows of evidence_items
    wanted,     \* downloads that passed their checks
    delivered   \* keys whose object was sent to a user

vars == <<project, upload, export, store, content, rows, wanted, delivered>>

Key == Upload \cup Export

Scan == {"clean", "infected", "scan_error"}

UploadState ==
    [pc : {"new", "checked", "stored", "scanned", "flushed", "done", "failed"}, scan : Scan]

ExportState ==
    [pc : {"new", "selected", "flushed", "done", "failed"},
     items : SUBSET Key, got : SUBSET Key, missing : SUBSET Key]

TypeOK ==
    /\ project \in BOOLEAN
    /\ upload \in [Upload -> UploadState]
    /\ export \in [Export -> ExportState]
    /\ store \subseteq Key
    /\ content \in [Export -> SUBSET Upload]
    /\ rows \subseteq Key
    /\ wanted \subseteq Key
    /\ delivered \subseteq Key

Init ==
    /\ project = TRUE
    /\ upload = [u \in Upload |-> [pc |-> "new", scan |-> "clean"]]
    /\ export = [e \in Export |-> [pc |-> "new", items |-> {}, got |-> {}, missing |-> {}]]
    /\ store = {}
    /\ content = [e \in Export |-> {}]
    /\ rows = {}
    /\ wanted = {}
    /\ delivered = {}

ContentOf(k) == IF k \in Upload THEN {k} ELSE content[k]

\* The scan status a row is inserted with; a package leaves the column to its default.
ScanOf(k) == IF k \in Upload THEN upload[k].scan ELSE "clean"

-----------------------------------------------------------------------------
(* Uploads                                                                 *)

UploadMoves(u, from, to) ==
    /\ upload[u].pc = from
    /\ upload' = [upload EXCEPT ![u].pc = to]

\* The project is looked up; permission, size and media type are checked.
CheckUpload(u) ==
    /\ project
    /\ UploadMoves(u, "new", "checked")
    /\ UNCHANGED <<project, export, store, content, rows, wanted, delivered>>

PutUpload(u) ==
    /\ UploadMoves(u, "checked", "stored")
    /\ store' = store \cup {u}
    /\ UNCHANGED <<project, export, content, rows, wanted, delivered>>

\* Mutant of ScanOutcomes: a scanner that cannot be reached lets uploads pass.
ScanOutcomesOpen(u) == {IF u \in Infected THEN "infected" ELSE "clean", "clean"}

\* Mutant of ScanOutcomes: the failure is stored under a name nobody looks for.
ScanOutcomesUnmapped(u) == {IF u \in Infected THEN "infected" ELSE "clean", "timeout"}

\* scan_upload_activity: no answer, or one it does not know, is a scan_error.
ScanOutcomes(u) ==
    IF Scanning THEN {IF u \in Infected THEN "infected" ELSE "clean", "scan_error"} ELSE {"clean"}

ScanUpload(u) ==
    /\ upload[u].pc = "stored"
    /\ \E s \in ScanOutcomes(u) : upload' = [upload EXCEPT ![u] = [pc |-> "scanned", scan |-> s]]
    /\ UNCHANGED <<project, export, store, content, rows, wanted, delivered>>

\* sign_manifest, then the flush, which the foreign key to the project may refuse.
FlushUpload(u) ==
    /\ UploadMoves(u, "scanned", IF project THEN "flushed" ELSE "failed")
    /\ UNCHANGED <<project, export, store, content, rows, wanted, delivered>>

CommitUpload(u) ==
    /\ UploadMoves(u, "flushed", "done")
    /\ rows' = rows \cup {u}
    /\ UNCHANGED <<project, export, store, content, wanted, delivered>>

\* A put, the signing key, a statement or the connection fails; the object stays.
UploadFails(u) ==
    /\ upload[u].pc \in {"checked", "stored", "scanned", "flushed"}
    /\ upload' = [upload EXCEPT ![u].pc = "failed"]
    /\ UNCHANGED <<project, export, store, content, rows, wanted, delivered>>

-----------------------------------------------------------------------------
(* Packages                                                                *)

ExportBecomes(e, pc, got, missing) ==
    export' = [export EXCEPT ![e] =
                   [pc |-> pc, items |-> export[e].items, got |-> got, missing |-> missing]]

ExportMoves(e, from, to) ==
    /\ export[e].pc = from
    /\ ExportBecomes(e, to, export[e].got, export[e].missing)

\* Mutant of Selected: the archive is made of the objects under the run's prefix.
SelectedByPrefix == store \cap (Attached \cup Export)

\* All rows of the run, earlier packages and quarantined uploads included.
Selected == rows \cap (Attached \cup Export)

SelectRows(e) ==
    /\ export[e].pc = "new"
    /\ project
    /\ export' = [export EXCEPT ![e] = [pc |-> "selected", items |-> Selected, got |-> {}, missing |-> {}]]
    /\ UNCHANGED <<project, upload, store, content, rows, wanted, delivered>>

ToPack(e) == export[e].items \ (export[e].got \cup export[e].missing)

GetObject(e, k) ==
    /\ export[e].pc = "selected"
    /\ k \in ToPack(e) \cap store
    /\ ExportBecomes(e, "selected", export[e].got \cup {k}, export[e].missing)
    /\ UNCHANGED <<project, upload, store, content, rows, wanted, delivered>>

\* Whatever the store answers, the archive gets a placeholder.
ObjectUnavailable(e, k) ==
    /\ export[e].pc = "selected"
    /\ k \in ToPack(e)
    /\ ExportBecomes(e, "selected", export[e].got, export[e].missing \cup {k})
    /\ UNCHANGED <<project, upload, store, content, rows, wanted, delivered>>

\* Mutant of Archive: what earlier packages hold is left out.
ArchiveFlat(e) == export[e].got \cap Upload

Archive(e) == UNION {ContentOf(k) : k \in export[e].got}

\* The archive is put, then the rows are flushed; the foreign keys may refuse them.
PutPackage(e) ==
    /\ ToPack(e) = {}
    /\ ExportMoves(e, "selected", IF project THEN "flushed" ELSE "failed")
    /\ store' = store \cup {e}
    /\ content' = [content EXCEPT ![e] = Archive(e)]
    /\ UNCHANGED <<project, upload, rows, wanted, delivered>>

CommitPackage(e) ==
    /\ ExportMoves(e, "flushed", "done")
    /\ rows' = rows \cup {e}
    /\ UNCHANGED <<project, upload, store, content, wanted, delivered>>

ExportFails(e) ==
    /\ export[e].pc \in {"selected", "flushed"}
    /\ ExportBecomes(e, "failed", export[e].got, export[e].missing)
    /\ UNCHANGED <<project, upload, store, content, rows, wanted, delivered>>

-----------------------------------------------------------------------------
(* Downloads, and the deletion of the project                              *)

\* The row is read and its scan status checked; anything but clean is a 423.
RequestDownload(k) ==
    /\ k \in rows
    /\ ScanOf(k) = "clean"
    /\ wanted' = wanted \cup {k}
    /\ UNCHANGED <<project, upload, export, store, content, rows, delivered>>

\* The object is got and sent; one that is missing is a 404.
SendObject(k) ==
    /\ k \in wanted
    /\ wanted' = wanted \ {k}
    /\ delivered' = IF k \in store THEN delivered \cup {k} ELSE delivered
    /\ UNCHANGED <<project, upload, export, store, content, rows>>

\* Flushed rows hold a lock on the project's row; objects are never deleted.
DeleteProject ==
    /\ project
    /\ \A u \in Upload : upload[u].pc # "flushed"
    /\ \A e \in Export : export[e].pc # "flushed"
    /\ project' = FALSE
    /\ rows' = {}
    /\ UNCHANGED <<upload, export, store, content, wanted, delivered>>

-----------------------------------------------------------------------------
UploadStep(u) ==
    CheckUpload(u) \/ PutUpload(u) \/ ScanUpload(u) \/ FlushUpload(u) \/ CommitUpload(u) \/ UploadFails(u)

ExportStep(e) ==
    \/ SelectRows(e) \/ PutPackage(e) \/ CommitPackage(e) \/ ExportFails(e)
    \/ \E k \in Key : GetObject(e, k) \/ ObjectUnavailable(e, k)

Next ==
    \/ \E u \in Upload : UploadStep(u)
    \/ \E e \in Export : ExportStep(e)
    \/ \E k \in Key : RequestDownload(k) \/ SendObject(k)
    \/ DeleteProject

Spec == Init /\ [][Next]_vars

-----------------------------------------------------------------------------
Committed(k) == IF k \in Upload THEN upload[k].pc = "done" ELSE export[k].pc = "done"

(***************************************************************************)
(* What a failed upload or export leaves in the store leaves it neither by *)
(* download nor inside a package, however the requests overlap: all that   *)
(* was sent, with all that is packed inside it, has had a committed row.   *)
(***************************************************************************)
OrphansStay ==
    \A k \in delivered : Committed(k) /\ \A u \in ContentOf(k) : Committed(u)

(***************************************************************************)
(* With the scanner on, no upload in which it finds something is ever sent *)
(* by a download of its own, also when the scanner could not be reached.   *)
(***************************************************************************)
NoInfectedDownload == Scanning => Infected \cap delivered = {}

(***************************************************************************)
(* A package that was committed accounts for every row it selected: all    *)
(* that the row's object holds, packages inside packages included, is in   *)
(* the archive, or the archive has a placeholder for it.                   *)
(***************************************************************************)
PackagesAccountForRows ==
    \A e \in Export : export[e].pc = "done" =>
        \A k \in export[e].items : k \in export[e].missing \/ ContentOf(k) \subseteq content[e]

(***************************************************************************)
(* "Infected/scan-error evidence remains quarantined" (docs/               *)
(* enterprise_roadmap.md): nothing that is sent holds such an upload.  The *)
(* code packs quarantined objects, and a package has no scan of its own.   *)
(***************************************************************************)
QuarantineHolds == \A k \in delivered : \A u \in ContentOf(k) : upload[u].scan = "clean"
=============================================================================

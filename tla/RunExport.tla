----------------------------- MODULE RunExport -----------------------------
(***************************************************************************)
(* The export of an auditor package (export_auditor_package and            *)
(* build_auditor_package) beside the audit run it packs.                   *)
(*                                                                         *)
(* The handler reads the run, the project, the findings, the tasks and the *)
(* evidence rows in statements of their own at READ COMMITTED, then gets   *)
(* the object of every row, and at last puts the archive and commits its   *)
(* rows.  It does not look at the run's status, and the workflow, the      *)
(* users and the deletion of the project go on between any two steps.      *)
(*                                                                         *)
(* Of the run's evidence the report rows are modelled; uploads and earlier *)
(* packages have keys of their own, which nothing overwrites.              *)
(***************************************************************************)
EXTENDS AuditRun

VARIABLE pkg   \* the export in progress, or the package it made

exportVars == <<vars, pkg>>

NoExport == [pc |-> "none"]

Placeholder == MaxRenames + 3   \* packed for an object that the store did not return

\* An evidence row with what was packed for the object under its key.
Packed == [row : ReportRow, bytes : Name \cup {Unknown, Placeholder}]

Package ==
    [pc : {"run", "project", "findings", "tasks", "evidence", "ready"},
     status : Status, report : Attempt \cup {0},
     findings : SUBSET FindingKey, tasks : SUBSET Task,
     rows : SUBSET ReportRow, packed : SUBSET Packed]

ExportTypeOK == pkg \in {NoExport} \cup Package

ExportInit == Init /\ pkg = NoExport

\* Mutant of SelectRun: a run that does not exist is exported all the same.
SelectRunUnchecked ==
    /\ pkg = NoExport
    /\ pkg' = [pc |-> "run", status |-> run.status, report |-> run.report,
               findings |-> {}, tasks |-> {}, rows |-> {}, packed |-> {}]

\* The select of the run; its columns are not read again.
SelectRun ==
    /\ pkg = NoExport
    /\ run.status # NoRow
    /\ pkg' = [pc |-> "run", status |-> run.status, report |-> run.report,
               findings |-> {}, tasks |-> {}, rows |-> {}, packed |-> {}]

\* A project deleted in the meantime is a 404.
SelectProject ==
    /\ pkg.pc = "run"
    /\ pkg' = IF project.exists THEN [pkg EXCEPT !.pc = "project"] ELSE NoExport

SelectFindings ==
    /\ pkg.pc = "project"
    /\ pkg' = [pkg EXCEPT !.pc = "findings", !.findings = {KeyOf(f) : f \in findings}]

SelectTasks ==
    /\ pkg.pc = "findings"
    /\ pkg' = [pkg EXCEPT !.pc = "tasks", !.tasks = tasks]

SelectEvidence ==
    /\ pkg.pc = "tasks"
    /\ pkg' = [pkg EXCEPT !.pc = "evidence", !.rows = evidence]

Unpacked == pkg.rows \ {p.row : p \in pkg.packed}

\* build_auditor_package gets the objects one by one, and swallows every error of the store.
PackObject ==
    /\ pkg.pc = "evidence"
    /\ \E row \in Unpacked : \E b \in {objects[row.kind], Placeholder} :
           pkg' = [pkg EXCEPT !.packed = @ \cup {[row |-> row, bytes |-> b]}]

\* Mutant of CommitPackage: the run is refreshed before its columns are written down.
CommitPackageRefreshed ==
    /\ pkg.pc = "evidence"
    /\ Unpacked = {}
    /\ pkg' = IF run.status = NoRow
              THEN NoExport
              ELSE [pkg EXCEPT !.pc = "ready", !.status = run.status, !.report = run.report]

\* The archive is put under a new key; the foreign keys refuse its rows when the run is gone.
CommitPackage ==
    /\ pkg.pc = "evidence"
    /\ Unpacked = {}
    /\ pkg' = IF run.status = NoRow THEN NoExport ELSE [pkg EXCEPT !.pc = "ready"]

\* Any statement or put may raise; nothing was written.
ExportRaises ==
    /\ pkg.pc \notin {"none", "ready"}
    /\ pkg' = NoExport

ExportStep ==
    \/ SelectRun \/ SelectProject \/ SelectFindings \/ SelectTasks \/ SelectEvidence
    \/ PackObject \/ CommitPackage \/ ExportRaises

ExportNext ==
    \/ Next /\ UNCHANGED pkg
    \/ ExportStep /\ UNCHANGED vars

ExportSpec == ExportInit /\ [][ExportNext]_exportVars

-----------------------------------------------------------------------------
\* The run page offers the export of a run it has seen completed.
OfCompletedRun == pkg.pc = "ready" /\ pkg.status = "completed"

(***************************************************************************)
(* The package of a completed run contains the report that run named, both *)
(* files with the bytes their rows hash (or a placeholder, where the store *)
(* did not answer), whatever is retried, times out or is renamed while the *)
(* statements of the export run.                                           *)
(***************************************************************************)
PackageHasReport ==
    OfCompletedRun =>
        \A k \in {"html", "pdf"} : \E p \in pkg.packed :
            /\ p.row.kind = k
            /\ p.row.attempt = pkg.report
            /\ p.bytes \in {p.row.sha, Placeholder}

(***************************************************************************)
(* The package of a completed run is a snapshot: at the commit of its rows *)
(* the database still holds the report, the report rows, the findings and  *)
(* the tasks that were read in statements of their own, however the run    *)
(* went on between them.  (After a commit in doubt the results are written *)
(* again, and the findings and tasks of an export in between may be torn.) *)
(***************************************************************************)
PackagesAreSnapshots ==
    [][ pkg.pc = "evidence" /\ pkg'.pc = "ready" /\ pkg'.status = "completed" =>
            /\ pkg'.report = run.report
            /\ pkg'.rows = evidence
            /\ "lostack" \notin faults =>
                   pkg'.findings = {KeyOf(f) : f \in findings} /\ pkg'.tasks = tasks ]_exportVars

(***************************************************************************)
(* Without commits in doubt no package, of a run in whatever status, holds *)
(* a report that differs from the hash packed beside it, although attempts *)
(* overwrite the objects the export has yet to get.                        *)
(***************************************************************************)
PackedBytesMatch ==
    pkg # NoExport /\ "lostack" \notin faults =>
        \A p \in pkg.packed : p.bytes \in {p.row.sha, Placeholder}
=============================================================================

-------------------------- MODULE RunExportProofs --------------------------
(***************************************************************************)
(* Proofs about a package export beside the run it packs, for any catalog, *)
(* retry limit and set of faults.                                          *)
(*                                                                         *)
(* The export writes nothing that the run reads, so IInv of AuditRunProofs *)
(* holds beside it.  ExportInv adds that a run which was read as completed *)
(* is Settled, that is, past everything which writes objects, report rows  *)
(* or results, and what the statements of the export have read by then is  *)
(* therefore still so, unless the project is gone and the package with it. *)
(***************************************************************************)
EXTENDS RunExport, AuditRunProofs

\* No attempt puts report objects any more, and none ever will.
Settled ==
    /\ wf.pc \notin {"none", "created"}
    /\ ~ (wf.pc = "stage" /\ wf.stage < 8)
    /\ work.pc \notin ReportPc

Keys == {KeyOf(f) : f \in findings}

\* The export has read a completed run.
Seen == pkg # NoExport /\ pkg.status = "completed"

\* Report rows are committed after their objects, and objects stay.
ObjectsPut ==
    evidence # {} \/ (pkg # NoExport /\ pkg.rows # {}) =>
        \A k \in {"html", "pdf"} : objects[k] # NoBytes

\* Unless a commit is in doubt, nothing runs after the results were persisted.
PersistedOnce ==
    "lostack" \notin faults /\ Logged("completed") =>
        wf.pc \notin {"none", "created", "stage"} /\ work.pc \notin Running

RowsPacked ==
    pkg # NoExport =>
        /\ \A p \in pkg.packed : p.row \in pkg.rows
        /\ pkg.pc \notin {"evidence", "ready"} => pkg.rows = {}
        /\ pkg.pc = "ready" => \A row \in pkg.rows : \E p \in pkg.packed : p.row = row

\* Unless a commit is in doubt, rows are selected only when their objects are final.
RowsWhenOrderly ==
    pkg # NoExport /\ "lostack" \notin faults =>
        /\ pkg.rows # {} => Settled
        /\ \A row \in pkg.rows : objects[row.kind] = row.sha

\* The report of a completed run is selected, or its rows are gone, and its objects are final.
ReportSeen ==
    Seen =>
        /\ Settled
        /\ run.status # NoRow => HasReport(pkg.report)
        /\ (pkg.pc = "evidence" /\ run.status # NoRow) \/ pkg.pc = "ready" =>
               \A k \in {"html", "pdf"} :
                   [attempt |-> pkg.report, kind |-> k, sha |-> objects[k]] \in pkg.rows
        /\ \A p \in pkg.packed : p.bytes \in {objects[p.row.kind], Placeholder}

\* The results of a completed run that were selected are still the rows, or these are gone.
ResultsSeen ==
    Seen /\ "lostack" \notin faults =>
        /\ Logged("completed")
        /\ run.status # NoRow /\ pkg.pc \in {"findings", "tasks", "evidence"} => pkg.findings = Keys
        /\ run.status # NoRow /\ pkg.pc \in {"tasks", "evidence"} => pkg.tasks = tasks

\* Unless a commit was in doubt, the package of a completed run is one picture of its results.
PackageIsWhole ==
    OfCompletedRun /\ "lostack" \notin faults =>
        LET failing == {c \in Controls : results[c] # "pass"}
        IN  /\ {f.control : f \in pkg.findings} = failing
            /\ {t.control : t \in pkg.tasks} = failing
            /\ \A t \in pkg.tasks :
                   t.finding \in pkg.findings /\ t.finding.control = t.control

ExportInv ==
    /\ IInv
    /\ ExportTypeOK
    /\ ObjectsPut
    /\ PersistedOnce
    /\ RowsPacked
    /\ RowsWhenOrderly
    /\ ReportSeen
    /\ ResultsSeen
    /\ PackageIsWhole
    /\ PackedBytesMatch

-----------------------------------------------------------------------------
(* The run                                                                 *)

\* What a run that is settled can still do.
LEMMA SettledStays ==
    ASSUME IInv, [Next]_vars, Settled
    PROVE  /\ Settled'
           /\ objects' = objects /\ results' = results
           /\ run'.status # NoRow => run.status # NoRow /\ evidence' = evidence
<1> USE DEF IInv
<1>1. Settled'
  <2>1. wf'.pc \notin {"none", "created"} /\ ~ (wf'.pc = "stage" /\ wf'.stage < 8)
    BY WorkflowMoves DEF Settled
  <2>2. ReadProjectName => wf.pc = "stage" /\ wf.stage < 8
    BY StageFacts DEF ReadProjectName, CanBegin, InStage, TypeOK, Position
  <2>3. PutHtml \/ PutPdf => work.pc \in ReportPc
    BY DEF PutHtml, PutPdf, PutObject, ReportPc
  <2>4. work'.pc \notin ReportPc
    BY <2>2, <2>3, WorkFrame DEF Settled, NoWork, Lost, ReportPc
  <2> QED
    BY <2>1, <2>4 DEF Settled
<1>2. objects' = objects
  BY Frame DEF PutHtml, PutPdf, PutObject, ReportPc, Settled
<1>3. results' = results
  <2>1. EvaluateControls => wf.pc = "stage" /\ wf.stage < 8
    BY StageFacts DEF EvaluateControls, CanBegin, InStage, TypeOK, Position
  <2> QED
    BY <2>1, Frame DEF Settled
<1>4. run'.status # NoRow => run.status # NoRow
  BY RunFrame DEF Settled
<1>5. run'.status # NoRow => evidence' = evidence
  <2>1. CommitReport => work.pc \in ReportPc
    BY DEF CommitReport, ReportPc
  <2>2. DeleteProject => run'.status = NoRow
    BY DEF DeleteProject, NoRun
  <2> QED
    BY <2>1, <2>2, Frame DEF Settled
<1> QED
  BY <1>1, <1>2, <1>3, <1>4, <1>5

LEMMA CompletedIsSettled ==
    ASSUME IInv, run.status = "completed"
    PROVE  Settled /\ HasReport(run.report) /\ Logged("completed")
<1> USE DEF IInv
<1>1. Settled
  BY DEF BeforePersist, ReportCarried, Settled
<1>2. HasReport(run.report)
  BY DEF ReportCarried, NoRow
<1>3. Logged("completed")
  BY DEF TerminalLogged, Terminal
<1> QED
  BY <1>1, <1>2, <1>3

LEMMA LoggedStays ==
    ASSUME IInv, [Next]_vars, NEW a, Logged(a)
    PROVE  Logged(a)'
<1>1. TypeOK
  BY DEF IInv
<1>2. CASE log' = log
  BY <1>2 DEF Logged
<1>3. CASE log' # log
  <2>1. PICK b \in {"create"} \cup Terminal : LogAction(b)
    BY <1>1, <1>3, LogFrame DEF Terminal
  <2> QED
    BY <1>1, <2>1, LogFacts
<1> QED
  BY <1>2, <1>3

LEMMA WaivingKeepsKeys ==
    ASSUME WaiveFinding
    PROVE  Keys' = Keys /\ tasks' = tasks
<1>1. PICK f \in findings : findings' = (findings \ {f}) \cup {[f EXCEPT !.accepted = TRUE]}
  BY DEF WaiveFinding
<1> DEFINE g == [f EXCEPT !.accepted = TRUE]
<1>2. KeyOf(g) = KeyOf(f)
  BY DEF KeyOf
<1>3. Keys' = Keys
  BY <1>1, <1>2 DEF Keys
<1> QED
  BY <1>3 DEF WaiveFinding

LEMMA PersistedOnceStep ==
    ASSUME IInv, PersistedOnce, [Next]_vars
    PROVE  PersistedOnce'
<1> USE DEF IInv
<1> SUFFICES ASSUME "lostack" \notin faults, Logged("completed")'
             PROVE  wf'.pc \notin {"none", "created", "stage"} /\ work'.pc \notin Running
  BY Frame DEF PersistedOnce
<1>1. CASE Logged("completed")
  <2>1. wf.pc \notin {"none", "created", "stage"} /\ work.pc \notin Running
    BY <1>1 DEF PersistedOnce
  <2>2. wf'.pc \notin {"none", "created", "stage"}
    BY <2>1, WorkflowMoves
  <2>3. ~ (ReadRunForSnapshot \/ ReadProjectName \/ ReadRunForPersist \/ PutHtml \/ PutPdf)
    BY <2>1 DEF ReadRunForSnapshot, ReadProjectName, ReadRunForPersist, CanBegin, InStage,
                PutHtml, PutPdf, PutObject, Running, ReportPc
  <2> QED
    BY <2>1, <2>2, <2>3, WorkFrame DEF NoWork, Lost, Running, ReportPc
<1>2. CASE ~ Logged("completed")
  <2>1. CommitPersist /\ run.status # NoRow
    <3>1. log' # log
      BY <1>2 DEF Logged
    <3>2. ~ LogAction("create") /\ ~ LogAction("failed")
      BY <1>2, LogFacts DEF Terminal
    <3> QED
      BY <3>1, <3>2, LogFrame
  <2>2. wf.pc \in {"stage", "marking", "failed", "abandoned"}
    BY <2>1 DEF CommitPersist, WorkPlaced, Running
  <2> QED
    BY <2>1, <2>2, EffectiveCommits DEF Running, ReportPc
<1> QED
  BY <1>1, <1>2

\* Once the results are persisted, they stay, unless the project goes.
LEMMA ResultsStay ==
    ASSUME IInv, PersistedOnce, [Next]_vars, "lostack" \notin faults, Logged("completed"),
           run'.status # NoRow
    PROVE  Keys' = Keys /\ tasks' = tasks
<1>1. ~ CommitPersist
  BY DEF CommitPersist, PersistedOnce, Running
<1>2. ~ DeleteProject
  BY DEF DeleteProject, NoRun
<1> QED
  BY <1>1, <1>2, Frame, WaivingKeepsKeys DEF Keys

LEMMA NamesAreBytes ==
    /\ \A n \in Name \cup {Unknown} : n # NoBytes /\ n # Placeholder
    /\ NoBytes # Placeholder
  BY AuditRunAssumption DEF Name, Unknown, NoBytes, Placeholder

LEMMA ObjectsPutStep ==
    ASSUME IInv, ObjectsPut, [Next]_vars, pkg' = pkg
    PROVE  ObjectsPut'
<1> USE DEF IInv
<1>1. CASE PutHtml \/ PutPdf
  <2>1. work.name # NoBytes
    BY <1>1, WorkFacts, NamesAreBytes DEF PutHtml, PutPdf, PutObject, ReportPc
  <2>2. PICK k \in {"html", "pdf"} : objects' = [objects EXCEPT ![k] = work.name]
    BY <1>1 DEF PutHtml, PutPdf, PutObject
  <2>3. evidence' = evidence
    BY <1>1 DEF PutHtml, PutPdf, PutObject, dbVars
  <2> QED
    BY <2>1, <2>2, <2>3 DEF ObjectsPut, TypeOK
<1>2. CASE CommitReport
  <2>1. work.pc = "put_pdf" /\ objects' = objects
    BY <1>2 DEF CommitReport
  <2>2. work.name # NoBytes
    BY <2>1, WorkFacts, NamesAreBytes DEF ReportPc
  <2> QED
    BY <2>1, <2>2 DEF ObjectsPut, ObjectsWritten
<1>3. CASE ~ PutHtml /\ ~ PutPdf /\ ~ CommitReport
  <2>1. objects' = objects /\ evidence' \in {evidence, {}}
    BY <1>3, Frame DEF DeleteProject
  <2> QED
    BY <2>1 DEF ObjectsPut
<1> QED
  BY <1>1, <1>2, <1>3

\* The run moves, the export does not.
LEMMA RunKeeps ==
    ASSUME ExportInv, [Next]_vars, pkg' = pkg
    PROVE  ExportInv'
<1>0. IInv /\ IInv' /\ faults' = faults
  BY IInvNext, Frame DEF ExportInv
<1>1. ExportTypeOK' /\ RowsPacked' /\ PackedBytesMatch'
  BY <1>0 DEF ExportInv, ExportTypeOK, RowsPacked, PackedBytesMatch
<1>2. ObjectsPut'
  BY <1>0, ObjectsPutStep DEF ExportInv
<1>3. PersistedOnce'
  BY <1>0, PersistedOnceStep DEF ExportInv
<1>4. RowsWhenOrderly'
  <2> SUFFICES ASSUME pkg # NoExport, "lostack" \notin faults, pkg.rows # {}
               PROVE  Settled' /\ \A row \in pkg.rows : objects'[row.kind] = row.sha
    BY <1>0 DEF RowsWhenOrderly
  <2>1. Settled /\ \A row \in pkg.rows : objects[row.kind] = row.sha
    BY DEF ExportInv, RowsWhenOrderly
  <2> QED
    BY <1>0, <2>1, SettledStays
<1>5. Seen => Settled' /\ objects' = objects /\ results' = results
              /\ (run'.status # NoRow => run.status # NoRow /\ evidence' = evidence)
  BY <1>0, SettledStays DEF ExportInv, ReportSeen
<1>6. ReportSeen'
  BY <1>5 DEF ExportInv, ReportSeen, Seen, HasReport
<1>7. ResultsSeen'
  <2> SUFFICES ASSUME Seen, "lostack" \notin faults
               PROVE  /\ Logged("completed")'
                      /\ run'.status # NoRow => Keys' = Keys /\ tasks' = tasks /\ run.status # NoRow
    BY <1>0 DEF ExportInv, ResultsSeen, Seen
  <2>1. Logged("completed")
    BY DEF ExportInv, ResultsSeen
  <2> QED
    BY <1>0, <1>5, <2>1, LoggedStays, ResultsStay DEF ExportInv
<1>8. PackageIsWhole'
  <2>1. OfCompletedRun => Seen
    BY DEF OfCompletedRun, Seen, NoExport
  <2> QED
    BY <1>0, <1>5, <2>1 DEF ExportInv, PackageIsWhole, OfCompletedRun
<1> QED
  BY <1>0, <1>1, <1>2, <1>3, <1>4, <1>6, <1>7, <1>8 DEF ExportInv

-----------------------------------------------------------------------------
(* The export                                                              *)

\* What a step of the export leaves as it is.
LEMMA RunUntouched ==
    ASSUME ExportInv, UNCHANGED vars
    PROVE  /\ IInv' /\ PersistedOnce'
           /\ UNCHANGED <<faults, project, run, results, evidence, objects, findings, tasks>>
           /\ Settled' <=> Settled
           /\ Logged("completed")' <=> Logged("completed")
           /\ \A no : HasReport(no)' <=> HasReport(no)
           /\ Keys' = Keys
<1>1. IInv' /\ PersistedOnce'
  BY IInvNext, PersistedOnceStep DEF ExportInv
<1>2. UNCHANGED <<faults, project, run, results, evidence, objects, findings, tasks, wf, work, log>>
  BY DEF vars, dbVars, flowVars
<1> QED
  BY <1>1, <1>2 DEF Settled, Logged, HasReport, Keys

\* An export that ends without a package, or has not begun.
LEMMA NothingSelected ==
    ASSUME ExportInv, UNCHANGED vars, pkg' = NoExport
    PROVE  ExportInv'
<1>1. /\ ExportTypeOK' /\ RowsPacked' /\ RowsWhenOrderly' /\ ReportSeen' /\ ResultsSeen'
      /\ PackageIsWhole' /\ PackedBytesMatch'
  BY DEF ExportTypeOK, RowsPacked, RowsWhenOrderly, ReportSeen, ResultsSeen, Seen,
         PackageIsWhole, PackedBytesMatch, OfCompletedRun, NoExport
<1>2. ObjectsPut'
  BY RunUntouched DEF ExportInv, ObjectsPut
<1> QED
  BY <1>1, <1>2, RunUntouched DEF ExportInv

LEMMA SelectRunKeeps ==
    ASSUME ExportInv, UNCHANGED vars, SelectRun
    PROVE  ExportInv'
<1>1. /\ pkg' \in Package /\ pkg'.pc = "run" /\ pkg'.rows = {} /\ pkg'.packed = {}
      /\ pkg'.status = run.status /\ pkg'.report = run.report /\ pkg' # NoExport
  BY DEF SelectRun, Package, NoExport, ExportInv, IInv, TypeOK, RunRow
<1>2. ExportTypeOK' /\ RowsPacked' /\ RowsWhenOrderly' /\ PackageIsWhole' /\ PackedBytesMatch'
  BY <1>1 DEF ExportTypeOK, RowsPacked, RowsWhenOrderly, PackageIsWhole, PackedBytesMatch,
              OfCompletedRun
<1>3. ObjectsPut'
  BY <1>1, RunUntouched DEF ExportInv, ObjectsPut
<1>4. Seen' => run.status = "completed"
  BY <1>1 DEF Seen
<1>5. ReportSeen' /\ ResultsSeen'
  BY <1>1, <1>4, CompletedIsSettled, RunUntouched DEF ExportInv, ReportSeen, ResultsSeen
<1> QED
  BY <1>2, <1>3, <1>5, RunUntouched DEF ExportInv

LEMMA SelectProjectKeeps ==
    ASSUME ExportInv, UNCHANGED vars, SelectProject
    PROVE  ExportInv'
<1>1. CASE pkg' = NoExport
  BY <1>1, NothingSelected
<1>2. CASE pkg' # NoExport
  <2>1. /\ pkg \in Package /\ pkg.pc = "run" /\ pkg' = [pkg EXCEPT !.pc = "project"]
        /\ pkg # NoExport
    BY <1>2 DEF SelectProject, ExportInv, ExportTypeOK, NoExport
  <2>2. /\ pkg' \in Package /\ pkg'.pc = "project" /\ pkg'.status = pkg.status
        /\ pkg'.report = pkg.report /\ pkg'.rows = pkg.rows /\ pkg'.packed = pkg.packed
    BY <2>1 DEF Package
  <2>3. ExportTypeOK' /\ RowsPacked' /\ PackageIsWhole'
    BY <1>2, <2>1, <2>2 DEF ExportInv, ExportTypeOK, RowsPacked, PackageIsWhole, OfCompletedRun
  <2>4. ObjectsPut' /\ RowsWhenOrderly' /\ PackedBytesMatch'
    BY <1>2, <2>1, <2>2, RunUntouched DEF ExportInv, ObjectsPut, RowsWhenOrderly, PackedBytesMatch
  <2>5. Seen' => Seen
    BY <2>1, <2>2 DEF Seen
  <2>6. ReportSeen' /\ ResultsSeen'
    BY <2>1, <2>2, <2>5, RunUntouched DEF ExportInv, ReportSeen, ResultsSeen
  <2> QED
    BY <2>3, <2>4, <2>6, RunUntouched DEF ExportInv
<1> QED
  BY <1>1, <1>2

LEMMA SelectFindingsKeeps ==
    ASSUME ExportInv, UNCHANGED vars, SelectFindings
    PROVE  ExportInv'
<1>1. pkg \in Package /\ pkg.pc = "project" /\ pkg # NoExport
  BY DEF SelectFindings, ExportInv, ExportTypeOK, NoExport
<1>2. Keys \subseteq FindingKey
  BY DEF Keys, KeyOf, FindingKey, Finding, ExportInv, IInv, TypeOK
<1>3. /\ pkg' \in Package /\ pkg'.pc = "findings" /\ pkg'.findings = Keys
      /\ pkg'.status = pkg.status /\ pkg'.report = pkg.report
      /\ pkg'.rows = pkg.rows /\ pkg'.packed = pkg.packed
  BY <1>1, <1>2 DEF SelectFindings, Package, Keys
<1>4. pkg' # NoExport
  BY <1>3 DEF NoExport
<1>5. ExportTypeOK' /\ RowsPacked' /\ PackageIsWhole'
  BY <1>1, <1>3, <1>4 DEF ExportInv, ExportTypeOK, RowsPacked, PackageIsWhole, OfCompletedRun
<1>6. ObjectsPut' /\ RowsWhenOrderly' /\ PackedBytesMatch'
  BY <1>1, <1>3, RunUntouched DEF ExportInv, ObjectsPut, RowsWhenOrderly, PackedBytesMatch
<1>7. Seen' => Seen
  BY <1>1, <1>3 DEF Seen
<1>8. ReportSeen' /\ ResultsSeen'
  BY <1>1, <1>3, <1>7, RunUntouched DEF ExportInv, ReportSeen, ResultsSeen
<1> QED
  BY <1>5, <1>6, <1>8, RunUntouched DEF ExportInv

LEMMA SelectTasksKeeps ==
    ASSUME ExportInv, UNCHANGED vars, SelectTasks
    PROVE  ExportInv'
<1>1. pkg \in Package /\ pkg.pc = "findings" /\ pkg # NoExport
  BY DEF SelectTasks, ExportInv, ExportTypeOK, NoExport
<1>2. tasks \subseteq Task
  BY DEF ExportInv, IInv, TypeOK
<1>3. /\ pkg' \in Package /\ pkg'.pc = "tasks" /\ pkg'.findings = pkg.findings /\ pkg'.tasks = tasks
      /\ pkg'.status = pkg.status /\ pkg'.report = pkg.report
      /\ pkg'.rows = pkg.rows /\ pkg'.packed = pkg.packed
  BY <1>1, <1>2 DEF SelectTasks, Package
<1>4. pkg' # NoExport
  BY <1>3 DEF NoExport
<1>5. ExportTypeOK' /\ RowsPacked' /\ PackageIsWhole'
  BY <1>1, <1>3, <1>4 DEF ExportInv, ExportTypeOK, RowsPacked, PackageIsWhole, OfCompletedRun
<1>6. ObjectsPut' /\ RowsWhenOrderly' /\ PackedBytesMatch'
  BY <1>1, <1>3, RunUntouched DEF ExportInv, ObjectsPut, RowsWhenOrderly, PackedBytesMatch
<1>7. Seen' => Seen
  BY <1>1, <1>3 DEF Seen
<1>8. ReportSeen' /\ ResultsSeen'
  BY <1>1, <1>3, <1>7, RunUntouched DEF ExportInv, ReportSeen, ResultsSeen
<1> QED
  BY <1>5, <1>6, <1>8, RunUntouched DEF ExportInv

LEMMA SelectEvidenceKeeps ==
    ASSUME ExportInv, UNCHANGED vars, SelectEvidence
    PROVE  ExportInv'
<1>1. pkg \in Package /\ pkg.pc = "tasks" /\ pkg # NoExport
  BY DEF SelectEvidence, ExportInv, ExportTypeOK, NoExport
<1>2. evidence \subseteq ReportRow
  BY DEF ExportInv, IInv, TypeOK
<1>3. /\ pkg' \in Package /\ pkg'.pc = "evidence" /\ pkg'.rows = evidence
      /\ pkg'.status = pkg.status /\ pkg'.report = pkg.report
      /\ pkg'.findings = pkg.findings /\ pkg'.tasks = pkg.tasks /\ pkg'.packed = pkg.packed
  BY <1>1, <1>2 DEF SelectEvidence, Package
<1>4. pkg' # NoExport
  BY <1>3 DEF NoExport
<1>5. pkg.packed = {}
  BY <1>1 DEF ExportInv, RowsPacked
<1>6. ExportTypeOK' /\ RowsPacked' /\ PackageIsWhole' /\ PackedBytesMatch'
  BY <1>3, <1>4, <1>5 DEF ExportTypeOK, RowsPacked, PackageIsWhole, PackedBytesMatch, OfCompletedRun
<1>7. ObjectsPut'
  BY <1>3, RunUntouched DEF ExportInv, ObjectsPut
<1>8. RowsWhenOrderly'
  <2> SUFFICES ASSUME "lostack" \notin faults, evidence # {}
               PROVE  Settled /\ \A row \in evidence : objects[row.kind] = row.sha
    BY <1>3, RunUntouched DEF RowsWhenOrderly
  <2> QED
    BY DEF ExportInv, IInv, Unstarted, EvidenceWhenOrderly, ReportRowsMatchObjects, Settled
<1>9. Seen' => Seen
  BY <1>1, <1>3 DEF Seen
<1>10. ReportSeen' /\ ResultsSeen'
  BY <1>1, <1>3, <1>5, <1>9, RunUntouched DEF ExportInv, ReportSeen, ResultsSeen, HasReport
<1> QED
  BY <1>6, <1>7, <1>8, <1>10, RunUntouched DEF ExportInv

LEMMA PackObjectKeeps ==
    ASSUME ExportInv, UNCHANGED vars, PackObject
    PROVE  ExportInv'
<1>1. pkg \in Package /\ pkg.pc = "evidence" /\ pkg # NoExport
  BY DEF PackObject, ExportInv, ExportTypeOK, NoExport
<1>0. PICK row \in pkg.rows : \E b \in {objects[row.kind], Placeholder} :
          pkg' = [pkg EXCEPT !.packed = @ \cup {[row |-> row, bytes |-> b]}]
  BY DEF PackObject, Unpacked
<1>2. PICK b \in {objects[row.kind], Placeholder} :
          pkg' = [pkg EXCEPT !.packed = @ \cup {[row |-> row, bytes |-> b]}]
  BY <1>0
<1> DEFINE p == [row |-> row, bytes |-> b]
<1>3. row \in ReportRow /\ row.kind \in {"html", "pdf"}
  BY <1>1 DEF Package, ReportRow
<1>4. p \in Packed
  <2>1. objects[row.kind] # NoBytes
    BY <1>1, <1>3 DEF ExportInv, ObjectsPut
  <2>2. objects[row.kind] \in Name \cup {Unknown, NoBytes}
    BY <1>3 DEF ExportInv, IInv, TypeOK
  <2> QED
    BY <1>3, <2>1, <2>2 DEF Packed
<1>5. /\ pkg' \in Package /\ pkg'.pc = "evidence" /\ pkg'.rows = pkg.rows
      /\ pkg'.status = pkg.status /\ pkg'.report = pkg.report
      /\ pkg'.findings = pkg.findings /\ pkg'.tasks = pkg.tasks /\ pkg'.packed = pkg.packed \cup {p}
  <2> HIDE DEF p
  <2>1. pkg' = [pkg EXCEPT !.packed = pkg.packed \cup {p}]
    BY <1>1, <1>2 DEF p, Package
  <2> QED
    BY <1>1, <1>4, <2>1 DEF Package
<1>6. pkg' # NoExport
  BY <1>5 DEF NoExport
<1>7. ExportTypeOK' /\ RowsPacked' /\ PackageIsWhole'
  BY <1>1, <1>5, <1>6 DEF ExportInv, ExportTypeOK, RowsPacked, PackageIsWhole, OfCompletedRun
<1>8. ObjectsPut' /\ RowsWhenOrderly'
  BY <1>1, <1>5, RunUntouched DEF ExportInv, ObjectsPut, RowsWhenOrderly
<1>9. PackedBytesMatch'
  <2> SUFFICES ASSUME "lostack" \notin faults, NEW q \in pkg.packed \cup {p}
               PROVE  q.bytes \in {q.row.sha, Placeholder}
    BY <1>5, RunUntouched DEF PackedBytesMatch
  <2>1. objects[row.kind] = row.sha
    BY <1>1 DEF ExportInv, RowsWhenOrderly
  <2> QED
    BY <1>1, <1>2, <2>1 DEF ExportInv, PackedBytesMatch
<1>10. Seen' => Seen
  BY <1>1, <1>5 DEF Seen
<1>11. ReportSeen'
  <2>1. p.bytes \in {objects[p.row.kind], Placeholder}
    BY <1>2
  <2> HIDE DEF p
  <2> QED
    BY <1>1, <1>5, <1>10, <2>1, RunUntouched DEF ExportInv, ReportSeen
<1>12. ResultsSeen'
  BY <1>1, <1>5, <1>10, RunUntouched DEF ExportInv, ResultsSeen
<1> QED
  BY <1>7, <1>8, <1>9, <1>11, <1>12, RunUntouched DEF ExportInv

LEMMA CommitPackageKeeps ==
    ASSUME ExportInv, UNCHANGED vars, CommitPackage
    PROVE  ExportInv'
<1>1. CASE run.status = NoRow
  BY <1>1, NothingSelected DEF CommitPackage
<1>2. CASE run.status # NoRow
  <2>1. pkg \in Package /\ pkg.pc = "evidence" /\ pkg # NoExport
    BY DEF CommitPackage, ExportInv, ExportTypeOK, NoExport
  <2>2. /\ pkg' \in Package /\ pkg'.pc = "ready" /\ pkg'.rows = pkg.rows
        /\ pkg'.status = pkg.status /\ pkg'.report = pkg.report
        /\ pkg'.findings = pkg.findings /\ pkg'.tasks = pkg.tasks /\ pkg'.packed = pkg.packed
    BY <1>2, <2>1 DEF CommitPackage, Package
  <2>3. pkg' # NoExport
    BY <2>2 DEF NoExport
  <2>4. ExportTypeOK'
    BY <2>2 DEF ExportTypeOK
  <2>5. RowsPacked'
    <3>1. \A row \in pkg.rows : \E p \in pkg.packed : p.row = row
      BY DEF CommitPackage, Unpacked
    <3> QED
      BY <2>1, <2>2, <3>1 DEF ExportInv, RowsPacked
  <2>6. ObjectsPut' /\ RowsWhenOrderly' /\ PackedBytesMatch'
    BY <2>1, <2>2, RunUntouched DEF ExportInv, ObjectsPut, RowsWhenOrderly, PackedBytesMatch
  <2>7. Seen' => Seen
    BY <2>1, <2>2 DEF Seen
  <2>8. ReportSeen' /\ ResultsSeen'
    BY <1>2, <2>1, <2>2, <2>7, RunUntouched DEF ExportInv, ReportSeen, ResultsSeen
  <2>9. PackageIsWhole'
    <3> DEFINE failing == {c \in Controls : results[c] # "pass"}
    <3>1. CASE Seen /\ "lostack" \notin faults
      <4>1. pkg.findings = Keys /\ pkg.tasks = tasks /\ Logged("completed")
        BY <1>2, <2>1, <3>1 DEF ExportInv, ResultsSeen
      <4>2. FindingsMatchResults
        BY DEF ExportInv, IInv
      <4>3. /\ {f.control : f \in findings} = failing
            /\ {t.control : t \in tasks} = failing
            /\ \A t \in tasks : \E f \in findings : t.finding = KeyOf(f) /\ t.control = f.control
        BY <1>2, <4>1, <4>2 DEF FindingsMatchResults
      <4> HIDE DEF failing
      <4>0. \A f : KeyOf(f).control = f.control
        BY DEF KeyOf
      <4>4. {k.control : k \in Keys} = failing
        <5>1. {k.control : k \in Keys} = {f.control : f \in findings}
          BY <4>0 DEF Keys
        <5> QED
          BY <4>3, <5>1
      <4>5. \A t \in tasks : t.finding \in Keys /\ t.finding.control = t.control
        BY <4>0, <4>3 DEF Keys
      <4>6. /\ {f.control : f \in pkg'.findings} = failing
            /\ {t.control : t \in pkg'.tasks} = failing
            /\ \A t \in pkg'.tasks : t.finding \in pkg'.findings /\ t.finding.control = t.control
        BY <2>2, <4>1, <4>3, <4>4, <4>5
      <4>7. failing' = failing
        BY RunUntouched DEF failing
      <4> QED
        BY <4>6, <4>7 DEF PackageIsWhole, failing
    <3>2. CASE ~ (Seen /\ "lostack" \notin faults)
      <4>1. OfCompletedRun' => Seen
        BY <2>1, <2>2 DEF OfCompletedRun, Seen
      <4> QED
        BY <3>2, <4>1, RunUntouched DEF PackageIsWhole
    <3> QED
      BY <3>1, <3>2
  <2> QED
    BY <2>4, <2>5, <2>6, <2>8, <2>9, RunUntouched DEF ExportInv
<1> QED
  BY <1>1, <1>2

-----------------------------------------------------------------------------
(* The whole                                                               *)

LEMMA ExportInvInit == ExportInit => ExportInv
<1> SUFFICES ASSUME ExportInit PROVE ExportInv
  OBVIOUS
<1>1. IInv /\ pkg = NoExport /\ evidence = {} /\ log = <<>>
  BY IInvInit DEF ExportInit, Init
<1>2. /\ ExportTypeOK /\ ObjectsPut /\ RowsPacked /\ RowsWhenOrderly /\ ReportSeen /\ ResultsSeen
      /\ PackageIsWhole /\ PackedBytesMatch
  BY <1>1 DEF ExportTypeOK, ObjectsPut, RowsPacked, RowsWhenOrderly, ReportSeen, ResultsSeen, Seen,
              PackageIsWhole, PackedBytesMatch, OfCompletedRun, NoExport
<1>3. PersistedOnce
  BY <1>1 DEF PersistedOnce, Logged
<1> QED
  BY <1>1, <1>2, <1>3 DEF ExportInv

LEMMA ExportInvNext == ExportInv /\ [ExportNext]_exportVars => ExportInv'
<1> SUFFICES ASSUME ExportInv, [ExportNext]_exportVars PROVE ExportInv'
  OBVIOUS
<1>1. CASE (Next /\ UNCHANGED pkg) \/ UNCHANGED exportVars
  BY <1>1, RunKeeps DEF exportVars
<1>2. CASE ExportStep /\ UNCHANGED vars
  <2>1. CASE ExportRaises
    BY <1>2, <2>1, NothingSelected DEF ExportRaises
  <2> QED
    BY <1>2, <2>1, SelectRunKeeps, SelectProjectKeeps, SelectFindingsKeeps, SelectTasksKeeps,
       SelectEvidenceKeeps, PackObjectKeeps, CommitPackageKeeps DEF ExportStep
<1> QED
  BY <1>1, <1>2 DEF ExportNext

\* Whatever the run and the export do in turn, ExportInv holds between their steps.
THEOREM ExportInductive == ExportSpec => []ExportInv
<1> QED
  BY ExportInvInit, ExportInvNext, PTL DEF ExportSpec

(***************************************************************************)
(* What an export holds between its statements has the types of its        *)
(* queries: it never packs an object that nobody has put.                  *)
(***************************************************************************)
THEOREM ExportTypeCorrect == ExportSpec => []ExportTypeOK
<1>1. ExportInv => ExportTypeOK
  BY DEF ExportInv
<1> QED
  BY <1>1, ExportInductive, PTL

(***************************************************************************)
(* The package of a completed run contains the report that run names, with *)
(* the bytes its rows hash or a placeholder, under any faults.             *)
(***************************************************************************)
THEOREM PackagesHaveReports == ExportSpec => []PackageHasReport
<1>1. ExportInv => PackageHasReport
  <2> SUFFICES ASSUME ExportInv, OfCompletedRun, NEW k \in {"html", "pdf"}
               PROVE  \E p \in pkg.packed :
                          /\ p.row.kind = k
                          /\ p.row.attempt = pkg.report
                          /\ p.bytes \in {p.row.sha, Placeholder}
    BY DEF PackageHasReport
  <2>1. Seen /\ pkg.pc = "ready" /\ pkg # NoExport
    BY DEF OfCompletedRun, Seen, NoExport
  <2> DEFINE row == [attempt |-> pkg.report, kind |-> k, sha |-> objects[k]]
  <2>2. row \in pkg.rows
    BY <2>1 DEF ExportInv, ReportSeen
  <2>3. PICK p \in pkg.packed : p.row = row
    BY <2>1, <2>2 DEF ExportInv, RowsPacked
  <2>4. p.bytes \in {objects[p.row.kind], Placeholder}
    BY <2>1 DEF ExportInv, ReportSeen
  <2> QED
    BY <2>3, <2>4
<1> QED
  BY <1>1, ExportInductive, PTL

(***************************************************************************)
(* Unless a commit was in doubt, the package of a completed run is one     *)
(* picture of its results, whatever goes on between the export's           *)
(* statements.                                                             *)
(***************************************************************************)
THEOREM PackagesAreWhole == ExportSpec => []PackageIsWhole
<1>1. ExportInv => PackageIsWhole
  BY DEF ExportInv
<1> QED
  BY <1>1, ExportInductive, PTL

(***************************************************************************)
(* Unless a commit was in doubt, no export packs a report that differs     *)
(* from the hash beside it.                                                *)
(***************************************************************************)
THEOREM PackedBytesAreHashed == ExportSpec => []PackedBytesMatch
<1>1. ExportInv => PackedBytesMatch
  BY DEF ExportInv
<1> QED
  BY <1>1, ExportInductive, PTL

\* The report a completed run names, and its rows, are those that were selected, or all is gone.
SelectionHolds ==
    Seen /\ run.status # NoRow =>
        /\ pkg.report = report /\ run.report = report
        /\ pkg.pc = "evidence" => pkg.rows = evidence

LEMMA SelectionHoldsStep ==
    ASSUME ExportInv, SelectionHolds, [ExportNext]_exportVars
    PROVE  SelectionHolds'
<1> SUFFICES ASSUME Seen', run'.status # NoRow
             PROVE  /\ pkg'.report = report' /\ run'.report = report'
                    /\ pkg'.pc = "evidence" => pkg'.rows = evidence'
  BY DEF SelectionHolds
<1>1. CASE (Next /\ UNCHANGED pkg) \/ UNCHANGED exportVars
  <2>1. [Next]_vars /\ pkg' = pkg /\ IInv /\ Seen
    BY <1>1 DEF exportVars, ExportInv, Seen
  <2>2. Settled
    BY <2>1 DEF ExportInv, ReportSeen
  <2>3. run.status # NoRow /\ evidence' = evidence
    BY <2>1, <2>2, SettledStays
  <2>4. report' = report
    <3>1. CommitReport => work.pc \in ReportPc
      BY DEF CommitReport, ReportPc
    <3> QED
      BY <2>1, <2>2, <3>1, Frame DEF Settled
  <2>5. run'.report = report
    <3>1. TypeOK
      BY <2>1 DEF IInv
    <3>2. ~ CreateRun
      BY <2>2 DEF CreateRun, Settled
    <3> QED
      BY <2>1, <2>3, <3>1, <3>2, RunFrame DEF SelectionHolds
  <2> QED
    BY <2>1, <2>3, <2>4, <2>5 DEF SelectionHolds
<1>2. CASE ExportStep /\ UNCHANGED vars
  <2>1. UNCHANGED <<run, report, evidence>> /\ run.status # NoRow
    BY <1>2 DEF vars, dbVars, flowVars
  <2>2. pkg' # NoExport /\ pkg'.status = "completed"
    BY DEF Seen
  <2>3. ~ ExportRaises
    BY <2>2 DEF ExportRaises
  <2>4. CASE SelectRun
    <3>1. pkg'.status = run.status /\ pkg'.report = run.report /\ pkg'.pc = "run"
      BY <2>4 DEF SelectRun
    <3>2. run.report = report
      BY <2>2, <3>1 DEF ExportInv, IInv, ReportCarried
    <3> QED
      BY <2>1, <3>1, <3>2
  <2>5. CASE ~ SelectRun
    <3>1. pkg \in Package /\ pkg # NoExport
      BY <1>2, <2>3, <2>5
         DEF ExportStep, SelectProject, SelectFindings, SelectTasks, SelectEvidence, PackObject,
             CommitPackage, ExportInv, ExportTypeOK, NoExport
    <3>2. /\ pkg'.status = pkg.status /\ pkg'.report = pkg.report
          /\ pkg'.pc = "evidence" => \/ SelectEvidence /\ pkg'.rows = evidence
                                     \/ pkg.pc = "evidence" /\ pkg'.rows = pkg.rows
      <4>1. CASE SelectProject \/ CommitPackage
        BY <2>2, <3>1, <4>1 DEF SelectProject, CommitPackage, Package
      <4>2. CASE SelectFindings \/ SelectTasks
        <5>1. /\ pkg'.status = pkg.status /\ pkg'.report = pkg.report
              /\ pkg'.pc \in {"findings", "tasks"}
          BY <3>1, <4>2 DEF SelectFindings, SelectTasks, Package
        <5> QED
          BY <5>1
      <4>4. CASE SelectEvidence
        <5>1. pkg' = [pkg EXCEPT !.pc = "evidence", !.rows = evidence]
          BY <4>4 DEF SelectEvidence
        <5>2. pkg'.rows = evidence /\ pkg'.status = pkg.status /\ pkg'.report = pkg.report
          BY <3>1, <5>1 DEF Package
        <5> QED
          BY <4>4, <5>2
      <4>3. CASE PackObject
        <5>1. PICK x : pkg' = [pkg EXCEPT !.packed = x] /\ pkg.pc = "evidence"
          BY <4>3 DEF PackObject
        <5> QED
          BY <3>1, <5>1 DEF Package
      <4> QED
        BY <1>2, <2>3, <2>5, <4>1, <4>2, <4>3, <4>4 DEF ExportStep
    <3>3. Seen
      BY <2>2, <3>1, <3>2 DEF Seen
    <3> QED
      BY <2>1, <3>2, <3>3 DEF SelectionHolds
  <2> QED
    BY <2>4, <2>5
<1> QED
  BY <1>1, <1>2 DEF ExportNext

(***************************************************************************)
(* A package that is committed as that of a completed run shows one state  *)
(* of the database, that of its commit: nothing the export read before has *)
(* changed, under any faults as to the report, and unless a commit is in   *)
(* doubt as to the findings and tasks (export_auditor_package).            *)
(***************************************************************************)
THEOREM CommittedPackagesAreSnapshots == ExportSpec => PackagesAreSnapshots
<1> DEFINE Snapshot ==
        pkg.pc = "evidence" /\ pkg'.pc = "ready" /\ pkg'.status = "completed" =>
            /\ pkg'.report = run.report
            /\ pkg'.rows = evidence
            /\ "lostack" \notin faults =>
                   pkg'.findings = {KeyOf(f) : f \in findings} /\ pkg'.tasks = tasks
<1>1. ExportInit => SelectionHolds
  BY DEF ExportInit, SelectionHolds, Seen
<1>2. ExportInv /\ SelectionHolds /\ [ExportNext]_exportVars => SelectionHolds'
  BY SelectionHoldsStep
<1>3. ExportInv /\ SelectionHolds /\ [ExportNext]_exportVars => [Snapshot]_exportVars
  <2> SUFFICES ASSUME ExportInv, SelectionHolds, [ExportNext]_exportVars,
                      pkg.pc = "evidence", pkg'.pc = "ready", pkg'.status = "completed"
               PROVE  /\ pkg'.report = run.report
                      /\ pkg'.rows = evidence
                      /\ "lostack" \notin faults => pkg'.findings = Keys /\ pkg'.tasks = tasks
    BY DEF Keys
  <2>1. CommitPackage
    <3>1. ExportStep
      BY DEF ExportNext, exportVars
    <3>2. ~ ExportRaises
      BY DEF ExportRaises, NoExport
    <3>3. ~ (SelectRun \/ SelectProject \/ SelectFindings \/ SelectTasks \/ SelectEvidence)
      BY DEF SelectRun, NoExport, SelectProject, SelectFindings, SelectTasks, SelectEvidence
    <3>4. ~ PackObject
      <4>1. pkg \in Package
        BY DEF ExportInv, ExportTypeOK, NoExport
      <4> QED
        BY <4>1 DEF PackObject, Package
    <3> QED
      BY <3>1, <3>2, <3>3, <3>4 DEF ExportStep
  <2>2. run.status # NoRow
    BY <2>1 DEF CommitPackage, NoExport
  <2>3. pkg \in Package /\ pkg # NoExport
    BY DEF ExportInv, ExportTypeOK, NoExport
  <2>4. pkg'.report = pkg.report /\ pkg'.rows = pkg.rows /\ pkg'.status = pkg.status
        /\ pkg'.findings = pkg.findings /\ pkg'.tasks = pkg.tasks
    BY <2>1, <2>2, <2>3 DEF CommitPackage, Package
  <2>5. Seen
    BY <2>3, <2>4 DEF Seen
  <2>6. pkg.report = run.report /\ pkg.rows = evidence
    BY <2>2, <2>5 DEF SelectionHolds
  <2>7. "lostack" \notin faults => pkg.findings = Keys /\ pkg.tasks = tasks
    BY <2>2, <2>5 DEF ExportInv, ResultsSeen
  <2> QED
    BY <2>4, <2>6, <2>7
<1> HIDE DEF Snapshot
<1>4. ExportSpec => [][Snapshot]_exportVars
  BY <1>1, <1>2, <1>3, ExportInductive, PTL DEF ExportSpec
<1> QED
  BY <1>4, PTL DEF PackagesAreSnapshots, Snapshot
=============================================================================

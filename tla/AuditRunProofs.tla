--------------------------- MODULE AuditRunProofs ---------------------------
(***************************************************************************)
(* Proofs about an audit run, for any catalog, retry limit and set of      *)
(* faults.                                                                 *)
(*                                                                         *)
(* The inductive invariant IInv adds to the properties of AuditRun where   *)
(* an attempt may be while the workflow is somewhere else (WorkPlaced,     *)
(* MarkPlaced), what holds before a stage has committed (BeforePersist,    *)
(* EvidenceWhenOrderly, FindingsWhenOrderly), what an attempt relies on    *)
(* between its steps (ObjectsWritten, ReportCarried), and how the status   *)
(* an attempt has read relates to the row's, which depends on the faults   *)
(* the deployment meets (SeenWithoutLostAck, SeenWithoutTimeout).          *)
(***************************************************************************)
EXTENDS AuditRun, FiniteSetTheorems, TLAPS

ReportPc == {"render", "put_html", "put_pdf"}
Running  == {"snapshot", "persist"} \cup ReportPc

\* A live attempt of a stage belongs to the workflow's stage, or outlived it.
WorkPlaced ==
    /\ work.pc \in Running => wf.pc \in {"stage", "marking", "failed", "abandoned"}
    /\ work.pc \in Running /\ "timeout" \notin faults => wf.pc = "stage"
    /\ work.pc = "lost" => wf.pc = "stage"
    /\ work.pc = "snapshot" /\ wf.pc = "stage" => wf.stage = 1
    /\ work.pc \in ReportPc /\ wf.pc = "stage" => wf.stage = 7
    /\ work.pc = "persist" /\ wf.pc = "stage" => wf.stage = 8

AttemptCounted ==
    /\ wf.pc \in {"none", "created"} => wf.stage = 1
    /\ wf.pc \in {"none", "created", "stage"} => wf.attempt \in Attempt

MarkPlaced ==
    /\ mark.pc = "read" => wf.pc \in {"marking", "abandoned"}
    /\ mark.pc = "read" /\ "timeout" \notin faults => wf.pc = "marking"
    /\ mark.pc = "lost" => wf.pc = "marking"

\* Before its workflow starts, a run has no past.
Unstarted ==
    /\ wf.pc = "none" => run.status = NoRow
    /\ wf.pc \in {"none", "created"} => findings = {} /\ evidence = {}

BeforePersist ==
    wf.pc \in {"none", "created"} \/ (wf.pc = "stage" /\ wf.stage < 8) =>
        run.status # "completed" /\ ~ Logged("completed")

\* What an attempt of the report stage has put under the report keys so far.
ObjectsWritten ==
    /\ work.pc \in {"put_html", "put_pdf"} => objects["html"] = work.name
    /\ work.pc = "put_pdf" => objects["pdf"] = work.name

HasReport(no) ==
    \A k \in {"html", "pdf"} : [attempt |-> no, kind |-> k, sha |-> objects[k]] \in evidence

\* From the persist stage on, the report the workflow carries is stored and stays as it is.
ReportCarried ==
    /\ (wf.pc = "stage" /\ wf.stage = 8) \/ work.pc = "persist" \/ run.status = "completed" =>
           /\ work.pc \notin ReportPc
           /\ run.status # NoRow => HasReport(report)
    /\ run.status = "completed" => run.report = report

\* Unless a commit is in doubt, a report in preparation is the first.
EvidenceWhenOrderly ==
    "lostack" \notin faults =>
        ((wf.pc = "stage" /\ wf.stage < 8) \/ work.pc \in ReportPc => evidence = {})

\* Unless a commit is in doubt, results are persisted once.
FindingsWhenOrderly ==
    "lostack" \notin faults => (wf.pc = "stage" \/ work.pc = "persist" => findings = {})

\* Unless a commit is in doubt, nobody reads the terminal status it is about to write.
SeenWithoutLostAck ==
    "lostack" \notin faults =>
        /\ wf.pc = "stage" => run.status # "completed"
        /\ work.pc = "persist" => work.seen # "completed"
        /\ wf.pc \in {"created", "stage", "marking"} => run.status # "failed"
        /\ mark.pc = "read" => mark.seen # "failed"

\* Unless an attempt outlives its activity, the status it has read is still the row's.
SeenWithoutTimeout ==
    "timeout" \notin faults =>
        /\ work.pc \in {"snapshot", "persist"} => run.status \in {work.seen, NoRow}
        /\ mark.pc = "read" => run.status \in {mark.seen, NoRow}

\* Where neither happens, the status tells how far the workflow is.
StatusFollowsWorkflow ==
    {"lostack", "timeout"} \cap faults = {} =>
        /\ wf.pc \in {"created", "stage", "marking"} => run.status \in {"queued", "running", NoRow}
        /\ wf.pc = "stage" /\ wf.stage > 1 => run.status \in {"running", NoRow}

TerminalLogged == run.status \in Terminal => Logged(run.status)

EndsInOrder ==
    run.status \in Terminal /\ ~ {"lostack", "timeout"} \subseteq faults =>
        run.stage = run.status /\ LastLogged = run.status

\* A waiver names a finding that exists and is accepted (foreign key, create_waiver).
WaiversHaveFindings ==
    \A k \in waivers : \E f \in findings : KeyOf(f) = k /\ f.accepted

IInv ==
    /\ TypeOK
    /\ WorkPlaced
    /\ MarkPlaced
    /\ AttemptCounted
    /\ Unstarted
    /\ BeforePersist
    /\ ObjectsWritten
    /\ ReportCarried
    /\ EvidenceWhenOrderly
    /\ FindingsWhenOrderly
    /\ SeenWithoutLostAck
    /\ SeenWithoutTimeout
    /\ StatusFollowsWorkflow
    /\ TerminalLogged
    /\ FindingsMatchResults
    /\ WaiversHaveFindings
    /\ EndsInOrder
    /\ ReportRowsMatchObjects

-----------------------------------------------------------------------------
(* Values                                                                  *)

LEMMA StageFacts ==
    /\ Len(Stage) = 8
    /\ \A i \in 1 .. 8 : /\ Stage[i] = "snapshot" <=> i = 1
                         /\ Stage[i] \in {"github", "google", "manual", "risk"} => i \in 2 .. 6
                         /\ Stage[i] = "evaluate" <=> i = 5
                         /\ Stage[i] = "report" <=> i = 7
                         /\ Stage[i] = "persist" <=> i = 8
BY DEF Stage

LEMMA ConstantFacts ==
    /\ \A i \in 1 .. Len(Catalog) : Catalog[i] \in Controls
    /\ Len(Catalog) \in Nat
    /\ AttemptLimit \in Attempt
    /\ 1 \in Attempt
BY AuditRunAssumption DEF Controls, AttemptLimit, Attempt

\* The shape of an attempt in progress.
LEMMA WorkFacts ==
    ASSUME TypeOK
    PROVE  /\ work.pc \in {"idle", "lost"} \cup Running
           /\ work = NoWork <=> work.pc = "idle"
           /\ work = Lost <=> work.pc = "lost"
           /\ work.pc \in {"snapshot", "persist"} =>
                 work = [pc |-> work.pc, no |-> work.no, seen |-> work.seen]
                 /\ work.no \in Attempt /\ work.seen \in Status
           /\ work.pc \in ReportPc =>
                 work = [pc |-> work.pc, no |-> work.no, name |-> work.name]
                 /\ work.no \in Attempt /\ work.name \in Name \cup {Unknown}
<1>1. CASE work \in {NoWork, Lost}
  BY <1>1 DEF NoWork, Lost, Running, ReportPc
<1>2. CASE work \in [pc : {"snapshot", "persist"}, no : Attempt, seen : Status]
  BY <1>2 DEF NoWork, Lost, Running, ReportPc
<1>3. CASE work \in [pc : ReportPc, no : Attempt, name : Name \cup {Unknown}]
  BY <1>3 DEF NoWork, Lost, Running, ReportPc
<1> QED
  BY <1>1, <1>2, <1>3 DEF TypeOK, WorkState, ReportPc

LEMMA MarkFacts ==
    ASSUME TypeOK
    PROVE  /\ mark.pc \in {"idle", "lost", "read"}
           /\ mark = NoWork <=> mark.pc = "idle"
           /\ mark = Lost <=> mark.pc = "lost"
           /\ mark.pc = "read" => mark.seen \in Status
<1>1. CASE mark \in {NoWork, Lost}
  BY <1>1 DEF NoWork, Lost
<1>2. CASE mark \in [pc : {"read"}, seen : Status]
  BY <1>2 DEF NoWork, Lost
<1> QED
  BY <1>1, <1>2 DEF TypeOK, MarkState

\* What becomes of the workflow when an attempt returns.
LEMMA ReturnFacts ==
    ASSUME TypeOK, StageReturns
    PROVE  /\ work' = NoWork /\ wf' \in Position
           /\ wf.pc # "stage" => wf' = wf
           /\ wf.pc = "stage" /\ wf.stage = 8 => wf'.pc = "completed"
           /\ wf.pc = "stage" /\ wf.stage < 8 =>
                 wf'.pc = "stage" /\ wf'.stage = wf.stage + 1 /\ wf'.attempt = 1
           /\ wf.stage \in 1 .. 8
<1>1. wf \in Position /\ wf.stage \in 1 .. 8 /\ Len(Stage) = 8
  BY StageFacts DEF TypeOK, Position
<1>2. CASE wf.pc # "stage"
  BY <1>1, <1>2 DEF StageReturns
<1>3. CASE wf.pc = "stage" /\ wf.stage = 8
  BY <1>1, <1>3 DEF StageReturns, Position, Terminal
<1>4. CASE wf.pc = "stage" /\ wf.stage < 8
  BY <1>1, <1>4 DEF StageReturns, Position, At
<1> QED
  BY <1>1, <1>2, <1>3, <1>4 DEF StageReturns

\* What becomes of the workflow when an attempt raises.
LEMMA RaiseFacts ==
    ASSUME TypeOK, StageRaises
    PROVE  /\ work' = NoWork /\ wf' \in Position /\ wf'.stage = wf.stage
           /\ wf.pc # "stage" => wf' = wf
           /\ wf.pc = "stage" =>
                 \/ wf'.pc = "stage" /\ wf'.attempt \in Attempt
                 \/ wf'.pc = "marking"
           /\ wf.stage \in 1 .. 8
<1>1. wf \in Position /\ wf.stage \in 1 .. 8 /\ Len(Stage) = 8 /\ wf.attempt \in Nat \ {0}
  BY StageFacts DEF TypeOK, Position
<1>2. CASE wf.pc # "stage"
  BY <1>1, <1>2 DEF StageRaises
<1>3. CASE wf.pc = "stage" /\ wf.attempt < AttemptLimit
  <2>1. wf' = [wf EXCEPT !.attempt = @ + 1]
    BY <1>3 DEF StageRaises
  <2>2. wf.attempt + 1 \in Attempt
    BY <1>1, <1>3, ConstantFacts, AuditRunAssumption DEF Attempt
  <2> QED
    BY <1>1, <1>3, <2>1, <2>2 DEF StageRaises, Position, Attempt
<1>4. CASE wf.pc = "stage" /\ ~ (wf.attempt < AttemptLimit)
  BY <1>1, <1>4 DEF StageRaises, Position, At
<1> QED
  BY <1>1, <1>2, <1>3, <1>4 DEF StageRaises

\* What becomes of the workflow when an attempt to mark the run failed ends.
LEMMA MarkRaiseFacts ==
    ASSUME TypeOK, MarkRaises
    PROVE  /\ mark' = NoWork /\ wf' \in Position /\ wf'.stage = wf.stage
           /\ wf.pc # "marking" => wf' = wf
           /\ wf.pc = "marking" => wf'.pc \in {"marking", "abandoned"}
<1>1. wf \in Position /\ wf.attempt + 1 \in Nat \ {0}
  BY DEF TypeOK, Position
<1>2. CASE wf.pc # "marking"
  BY <1>1, <1>2 DEF MarkRaises
<1>3. CASE wf.pc = "marking"
  BY <1>1, <1>3 DEF MarkRaises, Position
<1> QED
  BY <1>2, <1>3

LEMMA MarkReturnFacts ==
    ASSUME TypeOK, MarkReturns
    PROVE  /\ mark' = NoWork /\ wf' \in Position /\ wf'.stage = wf.stage
           /\ wf.pc # "marking" => wf' = wf
           /\ wf.pc = "marking" => wf'.pc = "failed"
<1>1. wf \in Position
  BY DEF TypeOK
<1> QED
  BY <1>1 DEF MarkReturns, Position, Terminal

\* The rows an attempt commits.
LEMMA RowFacts ==
    ASSUME TypeOK
    PROVE  /\ NoRun \in RunRow
           /\ work.pc = "put_pdf" => ReportRows \subseteq ReportRow
           /\ work.pc = "persist" => CompletedRow \in RunRow
           /\ work.pc = "persist" => NewFindings(work.no) \subseteq Finding
           /\ work.pc = "persist" => NewTasks(work.no) \subseteq Task
           /\ mark.pc = "read" => FailedRow \in RunRow
<1>1. NoRun \in RunRow
  BY DEF NoRun, RunRow, NoRow
<1>2. work.pc = "put_pdf" => ReportRows \subseteq ReportRow
  BY WorkFacts DEF ReportRows, ReportRow, ReportPc
<1>3. work.pc = "persist" => CompletedRow \in RunRow
  BY DEF TypeOK, CompletedRow, RunRow, Status, Terminal
<1>4. work.pc = "persist" => NewFindings(work.no) \subseteq Finding
  <2> SUFFICES ASSUME work.pc = "persist", NEW i \in 1 .. Len(Catalog)
               PROVE  [attempt |-> work.no, control |-> Catalog[i], accepted |-> FALSE] \in Finding
    BY DEF NewFindings, FailingControls
  <2>1. work.no \in Attempt /\ Catalog[i] \in Controls
    BY WorkFacts, ConstantFacts
  <2> QED
    BY <2>1 DEF Finding
<1>5. work.pc = "persist" => NewTasks(work.no) \subseteq Task
  <2> SUFFICES ASSUME work.pc = "persist", NEW i \in DerivedTasks
               PROVE  LinkedFinding(work.no, i) \in FindingKey \cup {NoFinding}
    BY WorkFacts, ConstantFacts DEF NewTasks, Task, DerivedTasks
  <2>1. CASE SameIndex(i) = {}
    BY <2>1 DEF LinkedFinding
  <2>2. CASE SameIndex(i) # {}
    <3>1. PICK j \in 1 .. Len(Catalog) : LinkedFinding(work.no, i) = [attempt |-> work.no, control |-> Catalog[j]]
      BY <2>2 DEF LinkedFinding, SameIndex, FailingControls
    <3> QED
      BY <3>1, WorkFacts, ConstantFacts DEF FindingKey
  <2> QED
    BY <2>1, <2>2
<1>6. mark.pc = "read" => FailedRow \in RunRow
  BY DEF TypeOK, FailedRow, RunRow, Status, Terminal
<1> QED
  BY <1>1, <1>2, <1>3, <1>4, <1>5, <1>6

-----------------------------------------------------------------------------
(* Types                                                                   *)

LEMMA TypeStep ==
    ASSUME TypeOK, AttemptCounted, [Next]_vars
    PROVE  TypeOK'
<1> USE DEF dbVars, flowVars, vars
<1>1. CASE CreateRun
  BY <1>1, RowFacts DEF CreateRun, LogAction, TypeOK, RunRow, Position, NoRun, Status
<1>2. CASE Launch
  BY <1>2 DEF Launch, TypeOK, Position
<1>3. CASE LaunchFails
  BY <1>3 DEF LaunchFails, TypeOK, Position
<1>4. CASE RenameProject
  BY <1>4, AuditRunAssumption DEF RenameProject, TypeOK, Name
<1>5. CASE DeleteProject
  BY <1>5, RowFacts DEF DeleteProject, TypeOK
<1>6. CASE WaiveFinding
  <2>1. PICK f \in findings :
            /\ waivers' = waivers \cup {KeyOf(f)}
            /\ findings' = (findings \ {f}) \cup {[f EXCEPT !.accepted = TRUE]}
            /\ UNCHANGED <<mode, faults, project, run, flowVars, work, mark,
                           evidence, objects, tasks, log>>
    BY <1>6 DEF WaiveFinding
  <2>2. f \in Finding
    BY DEF TypeOK
  <2>3. KeyOf(f) \in FindingKey /\ [f EXCEPT !.accepted = TRUE] \in Finding
    BY <2>2 DEF KeyOf, FindingKey, Finding
  <2> QED
    BY <2>1, <2>3 DEF TypeOK
<1>7. CASE ReadRunForSnapshot
  <2>1. work' \in WorkState /\ wf' \in Position
    <3>1. CASE run.status = NoRow
      BY <1>7, <3>1, ReturnFacts DEF ReadRunForSnapshot, WorkState
    <3>2. CASE run.status # NoRow
      <4>1. wf.attempt \in Attempt /\ run.status \in Status
        BY <1>7, <3>2 DEF ReadRunForSnapshot, CanBegin, InStage, AttemptCounted, TypeOK, RunRow
      <4> QED
        BY <1>7, <3>2, <4>1 DEF ReadRunForSnapshot, WorkState, TypeOK
    <3> QED
      BY <3>1, <3>2
  <2> QED
    BY <1>7, <2>1 DEF ReadRunForSnapshot, TypeOK
<1>8. CASE CommitSnapshot
  <2>1. work' \in WorkState /\ wf' \in Position
    BY <1>8, ReturnFacts, RaiseFacts DEF CommitSnapshot, WorkState
  <2>2. run' \in RunRow
    BY <1>8 DEF CommitSnapshot, TypeOK, RunRow, Status
  <2> QED
    BY <1>8, <2>1, <2>2 DEF CommitSnapshot, TypeOK
<1>9. CASE ReadOnlyStage
  BY <1>9, ReturnFacts DEF ReadOnlyStage, TypeOK, WorkState
<1>10. CASE EvaluateControls
  BY <1>10, ReturnFacts DEF EvaluateControls, TypeOK, WorkState
<1>11. CASE ReadProjectName
  <2>1. wf.attempt \in Attempt
    BY <1>11 DEF ReadProjectName, CanBegin, InStage, AttemptCounted
  <2>2. work' \in WorkState
    BY <1>11, <2>1 DEF ReadProjectName, WorkState, TypeOK
  <2> QED
    BY <1>11, <2>2 DEF ReadProjectName, TypeOK
<1>12. CASE PutHtml
  <2>1. work.name \in Name \cup {Unknown} /\ work.no \in Attempt
        /\ work' = [pc |-> "put_html", no |-> work.no, name |-> work.name]
    BY <1>12, WorkFacts DEF PutHtml, PutObject, ReportPc
  <2>2. work' \in WorkState
    BY <2>1 DEF WorkState
  <2> QED
    BY <1>12, <2>1, <2>2 DEF PutHtml, PutObject, TypeOK
<1>13. CASE PutPdf
  <2>1. work.name \in Name \cup {Unknown} /\ work.no \in Attempt
        /\ work' = [pc |-> "put_pdf", no |-> work.no, name |-> work.name]
    BY <1>13, WorkFacts DEF PutPdf, PutObject, ReportPc
  <2>2. work' \in WorkState
    BY <2>1 DEF WorkState
  <2> QED
    BY <1>13, <2>1, <2>2 DEF PutPdf, PutObject, TypeOK
<1>14. CASE CommitReport
  <2>1. work' = NoWork /\ wf' \in Position
    BY <1>14, ReturnFacts, RaiseFacts DEF CommitReport, CommitAcked
  <2>2. evidence' \subseteq ReportRow /\ report' \in Attempt \cup {0}
    BY <1>14, RowFacts, WorkFacts DEF CommitReport, ReportPc, TypeOK
  <2> QED
    BY <1>14, <2>1, <2>2 DEF CommitReport, TypeOK, WorkState
<1>15. CASE ReadRunForPersist
  <2>1. work' \in WorkState /\ wf' \in Position
    <3>1. CASE run.status = NoRow
      BY <1>15, <3>1, RaiseFacts DEF ReadRunForPersist, WorkState
    <3>2. CASE run.status # NoRow
      <4>1. wf.attempt \in Attempt /\ run.status \in Status
        BY <1>15, <3>2 DEF ReadRunForPersist, CanBegin, InStage, AttemptCounted, TypeOK, RunRow
      <4> QED
        BY <1>15, <3>2, <4>1 DEF ReadRunForPersist, WorkState, TypeOK
    <3> QED
      BY <3>1, <3>2
  <2> QED
    BY <1>15, <2>1 DEF ReadRunForPersist, TypeOK
<1>16. CASE CommitPersist
  <2>1. work' = NoWork /\ wf' \in Position
    BY <1>16, ReturnFacts, RaiseFacts DEF CommitPersist, CommitAcked
  <2>2. /\ run' \in RunRow /\ findings' \subseteq Finding /\ tasks' \subseteq Task
        /\ waivers' \subseteq FindingKey /\ log' \in Seq({"create"} \cup Terminal)
    BY <1>16, RowFacts DEF CommitPersist, LogAction, CascadeToWaivers, TypeOK, Terminal
  <2> QED
    BY <1>16, <2>1, <2>2 DEF CommitPersist, TypeOK, WorkState
<1>17. CASE AttemptRaises
  BY <1>17, RaiseFacts DEF AttemptRaises, TypeOK, WorkState
<1>18. CASE ReadRunForMark
  <2>1. mark' \in MarkState /\ wf' \in Position
    <3>1. CASE run.status = NoRow
      BY <1>18, <3>1, MarkReturnFacts DEF ReadRunForMark, MarkState
    <3>2. CASE run.status # NoRow
      BY <1>18, <3>2 DEF ReadRunForMark, MarkState, TypeOK, RunRow
    <3> QED
      BY <3>1, <3>2
  <2> QED
    BY <1>18, <2>1 DEF ReadRunForMark, TypeOK
<1>19. CASE CommitMark
  <2>1. mark' = NoWork /\ wf' \in Position
    BY <1>19, MarkReturnFacts, MarkRaiseFacts DEF CommitMark
  <2>2. run' \in RunRow /\ log' \in Seq({"create"} \cup Terminal)
    BY <1>19, RowFacts DEF CommitMark, LogAction, TypeOK, Terminal
  <2> QED
    BY <1>19, <2>1, <2>2 DEF CommitMark, TypeOK, MarkState
<1>20. CASE MarkAttemptRaises
  BY <1>20, MarkRaiseFacts DEF MarkAttemptRaises, TypeOK, MarkState
<1>21. CASE TimeoutStage
  BY <1>21 DEF TimeoutStage, Abandon, At, TypeOK, Position, WorkState
<1>22. CASE TimeoutMark
  BY <1>22 DEF TimeoutMark, Abandon, TypeOK, Position, MarkState
<1>23. CASE KillStageAttempt
  BY <1>23 DEF KillStageAttempt, TypeOK, WorkState
<1>24. CASE KillMarkAttempt
  BY <1>24 DEF KillMarkAttempt, TypeOK, MarkState
<1>25. CASE KillInlineRun
  BY <1>25 DEF KillInlineRun, TypeOK, Position, WorkState, MarkState
<1>26. CASE UNCHANGED vars
  BY <1>26 DEF TypeOK
<1> QED
  BY <1>1, <1>2, <1>3, <1>4, <1>5, <1>6, <1>7, <1>8, <1>9, <1>10, <1>11, <1>12, <1>13,
     <1>14, <1>15, <1>16, <1>17, <1>18, <1>19, <1>20, <1>21, <1>22, <1>23, <1>24, <1>25, <1>26
     DEF Next, StageStep, MarkStep, Timeout, Environment, Quiescent

-----------------------------------------------------------------------------
(* Where attempts are                                                      *)

LEMMA WorkPlacedStep ==
    ASSUME TypeOK, WorkPlaced, [Next]_vars
    PROVE  WorkPlaced'
<1> USE WorkFacts DEF dbVars, flowVars, vars
<1>1. CASE work' = NoWork
  BY <1>1 DEF WorkPlaced, NoWork, Running, ReportPc
<1>2. CASE UNCHANGED <<wf, work, faults>>
  BY <1>2 DEF WorkPlaced
<1>3. CASE CreateRun \/ Launch \/ LaunchFails
  <2>1. wf.pc \in {"none", "created"} /\ work' = work
    BY <1>3 DEF CreateRun, Launch, LaunchFails
  <2>2. work.pc \notin Running \cup {"lost"}
    BY <2>1 DEF WorkPlaced
  <2> QED
    BY <2>1, <2>2 DEF WorkPlaced, Running, ReportPc
<1>4. CASE ReadRunForSnapshot /\ wf' = wf
  BY <1>4, StageFacts DEF ReadRunForSnapshot, CanBegin, InStage, TypeOK, Position,
                          WorkPlaced, Running, ReportPc, StageReturns, NoWork
<1>5. CASE ReadProjectName
  BY <1>5, StageFacts DEF ReadProjectName, CanBegin, InStage, TypeOK, Position,
                          WorkPlaced, Running, ReportPc
<1>6. CASE ReadRunForPersist /\ wf' = wf
  BY <1>6, StageFacts DEF ReadRunForPersist, CanBegin, InStage, TypeOK, Position,
                          WorkPlaced, Running, ReportPc, StageRaises, NoWork
<1>7. CASE PutHtml \/ PutPdf
  <2>1. work.pc \in ReportPc /\ work'.pc \in ReportPc /\ wf' = wf /\ faults' = faults
    BY <1>7 DEF PutHtml, PutPdf, PutObject, ReportPc
  <2> QED
    BY <2>1 DEF WorkPlaced, Running, ReportPc
<1>8. CASE MarkStep \/ TimeoutMark
  <2>1. work' = work /\ faults' = faults
    BY <1>8 DEF MarkStep, ReadRunForMark, CommitMark, MarkAttemptRaises, TimeoutMark
  <2>2. wf' = wf \/ (wf.pc = "marking" /\ wf'.pc \in {"marking", "failed", "abandoned"})
    BY <1>8, MarkRaiseFacts, MarkReturnFacts
       DEF MarkStep, ReadRunForMark, CommitMark, MarkAttemptRaises, TimeoutMark, TypeOK, Position
  <2>3. wf.pc = "marking" => work.pc # "lost" /\ (work.pc \in Running => "timeout" \in faults)
    BY DEF WorkPlaced
  <2> QED
    BY <2>1, <2>2, <2>3 DEF WorkPlaced
<1>9. CASE TimeoutStage
  <2>1. wf'.pc = "marking" /\ faults' = faults
    BY <1>9 DEF TimeoutStage, At
  <2>2. CASE work = Lost
    BY <1>1, <1>9, <2>2 DEF TimeoutStage, Abandon
  <2>3. CASE work # Lost
    <3>1. work' = work /\ "timeout" \in faults /\ work.pc # "lost"
      BY <1>9, <2>3 DEF TimeoutStage, Abandon
    <3> QED
      BY <2>1, <3>1 DEF WorkPlaced
  <2> QED
    BY <2>2, <2>3
<1>10. CASE KillStageAttempt
  BY <1>10 DEF KillStageAttempt, WorkPlaced, Lost, NoWork, Running, ReportPc
<1>11. ReadRunForSnapshot => work' = NoWork \/ wf' = wf
  BY DEF ReadRunForSnapshot, StageReturns
<1>12. ReadRunForPersist => work' = NoWork \/ wf' = wf
  BY DEF ReadRunForPersist, StageRaises
<1>13. CommitSnapshot \/ ReadOnlyStage \/ EvaluateControls \/ CommitReport \/ CommitPersist
       \/ AttemptRaises \/ KillInlineRun => work' = NoWork
  BY DEF CommitSnapshot, ReadOnlyStage, EvaluateControls, CommitReport, CommitPersist,
         AttemptRaises, KillInlineRun, StageReturns, StageRaises, CommitAcked
<1>14. RenameProject \/ DeleteProject \/ WaiveFinding \/ KillMarkAttempt => UNCHANGED <<wf, work, faults>>
  BY DEF RenameProject, DeleteProject, WaiveFinding, KillMarkAttempt
<1> QED
  BY <1>1, <1>2, <1>3, <1>4, <1>5, <1>6, <1>7, <1>8, <1>9, <1>10, <1>11, <1>12, <1>13, <1>14
     DEF Next, StageStep, Timeout, Environment, Quiescent

LEMMA MarkPlacedStep ==
    ASSUME TypeOK, MarkPlaced, [Next]_vars
    PROVE  MarkPlaced'
<1> USE MarkFacts DEF dbVars, flowVars, vars
<1>1. CASE mark' = NoWork
  BY <1>1 DEF MarkPlaced, NoWork
<1>2. CASE mark' = mark /\ faults' = faults /\ (wf.pc \in {"marking", "abandoned"} => wf' = wf)
  BY <1>2 DEF MarkPlaced
<1>3. CASE ReadRunForMark
  BY <1>1, <1>3 DEF ReadRunForMark, MarkReturns, MarkPlaced
<1>4. CASE TimeoutMark
  BY <1>4 DEF TimeoutMark, Abandon, MarkPlaced, NoWork, TypeOK, Position
<1>5. CASE KillMarkAttempt
  BY <1>5 DEF KillMarkAttempt, MarkPlaced, Lost, NoWork
<1>6. StageStep => mark' = mark /\ faults' = faults /\ (wf.pc \in {"marking", "abandoned"} => wf' = wf)
  BY ReturnFacts, RaiseFacts
     DEF StageStep, ReadRunForSnapshot, CommitSnapshot, ReadOnlyStage, EvaluateControls,
         ReadProjectName, PutHtml, PutPdf, PutObject, CommitReport, ReadRunForPersist,
         CommitPersist, AttemptRaises, CanBegin, InStage, CommitAcked
<1>7. CommitMark \/ MarkAttemptRaises \/ KillInlineRun => mark' = NoWork
  BY DEF CommitMark, MarkAttemptRaises, KillInlineRun, MarkReturns, MarkRaises
<1>8. CreateRun \/ Launch \/ LaunchFails \/ RenameProject \/ DeleteProject \/ WaiveFinding
      \/ TimeoutStage \/ KillStageAttempt
         => mark' = mark /\ faults' = faults /\ (wf.pc \in {"marking", "abandoned"} => wf' = wf)
  BY DEF CreateRun, Launch, LaunchFails, RenameProject, DeleteProject, WaiveFinding,
         TimeoutStage, KillStageAttempt
<1> QED
  BY <1>1, <1>2, <1>3, <1>4, <1>5, <1>6, <1>7, <1>8 DEF Next, MarkStep, Timeout, Environment, Quiescent

\* Moves of the workflow: it never goes back, and attempts of a stage are counted from 1.
LEMMA WorkflowMoves ==
    ASSUME TypeOK, WorkPlaced, AttemptCounted, [Next]_vars
    PROVE  /\ wf'.pc = "none" => wf' = wf
           /\ wf'.pc = "created" => wf.pc \in {"none", "created"} /\ (wf' = wf \/ CreateRun)
           /\ wf'.pc = "stage" => \/ wf.pc = "stage" /\ wf.stage <= wf'.stage
                                  \/ Launch /\ wf.pc = "created"
           /\ wf'.pc = "marking" => wf.pc \in {"stage", "marking"}
           /\ AttemptCounted'
           /\ wf.stage \in 1 .. 8 /\ wf'.stage \in 1 .. 8
<1> USE WorkFacts DEF dbVars, flowVars, vars
<1>0. wf.stage \in 1 .. 8 /\ (wf' \in Position => wf'.stage \in 1 .. 8)
  BY StageFacts DEF TypeOK, Position
<1>1. CASE wf' = wf
  BY <1>0, <1>1 DEF AttemptCounted
<1>2. CASE CreateRun \/ Launch \/ LaunchFails
  BY <1>0, <1>2 DEF CreateRun, Launch, LaunchFails, AttemptCounted, TypeOK, Position
<1>3. StageStep => wf' = wf \/ StageReturns \/ StageRaises
  BY DEF StageStep, ReadRunForSnapshot, CommitSnapshot, ReadOnlyStage, EvaluateControls,
         ReadProjectName, PutHtml, PutPdf, PutObject, CommitReport, ReadRunForPersist,
         CommitPersist, AttemptRaises, CommitAcked
<1>4. CASE StageReturns
  BY <1>0, <1>1, <1>4, ReturnFacts, ConstantFacts DEF AttemptCounted
<1>5. CASE StageRaises
  BY <1>0, <1>1, <1>5, RaiseFacts DEF AttemptCounted
<1>6. MarkStep => wf' = wf \/ MarkReturns \/ MarkRaises
  BY DEF MarkStep, ReadRunForMark, CommitMark, MarkAttemptRaises
<1>7. CASE MarkReturns \/ MarkRaises
  BY <1>0, <1>1, <1>7, MarkReturnFacts, MarkRaiseFacts DEF AttemptCounted
<1>8. CASE TimeoutStage \/ TimeoutMark \/ KillInlineRun
  BY <1>0, <1>8 DEF TimeoutStage, TimeoutMark, KillInlineRun, At, AttemptCounted, TypeOK, Position
<1>9. RenameProject \/ DeleteProject \/ WaiveFinding \/ KillStageAttempt \/ KillMarkAttempt => wf' = wf
  BY DEF RenameProject, DeleteProject, WaiveFinding, KillStageAttempt, KillMarkAttempt
<1> QED
  BY <1>1, <1>2, <1>3, <1>4, <1>5, <1>6, <1>7, <1>8, <1>9 DEF Next, Timeout, Environment, Quiescent

\* Which steps take the workflow to its next stage.
LEMMA StageAdvances ==
    ASSUME TypeOK, WorkPlaced, [Next]_vars, wf'.pc = "stage", wf'.stage # wf.stage
    PROVE  /\ wf.pc = "stage" /\ wf'.stage = wf.stage + 1
           /\ \/ wf.stage = 1 /\ ReadRunForSnapshot /\ run.status = NoRow
              \/ wf.stage = 1 /\ CommitSnapshot
              \/ wf.stage \in 2 .. 6 /\ work' = NoWork
              \/ wf.stage = 7 /\ CommitReport
<1> USE WorkFacts DEF dbVars, flowVars, vars
<1>1. wf \in Position /\ wf.stage \in 1 .. 8
  BY StageFacts DEF TypeOK, Position
<1>2. ~ (CreateRun \/ Launch \/ LaunchFails)
  BY <1>1 DEF CreateRun, Launch, LaunchFails, Position
<1>3. ~ StageRaises /\ ~ MarkReturns /\ ~ MarkRaises
  BY RaiseFacts, MarkReturnFacts, MarkRaiseFacts
<1>4. ~ (MarkStep \/ TimeoutStage \/ TimeoutMark \/ KillInlineRun)
  BY <1>1, <1>3 DEF MarkStep, ReadRunForMark, CommitMark, MarkAttemptRaises, TimeoutStage, TimeoutMark,
                    KillInlineRun, At, Position
<1>5. ~ (RenameProject \/ DeleteProject \/ WaiveFinding \/ KillStageAttempt \/ KillMarkAttempt
         \/ ReadProjectName \/ PutHtml \/ PutPdf \/ UNCHANGED vars)
  BY DEF RenameProject, DeleteProject, WaiveFinding, KillStageAttempt, KillMarkAttempt,
         ReadProjectName, PutHtml, PutPdf, PutObject
<1>6. ~ AttemptRaises /\ ~ ReadRunForPersist
  BY <1>3 DEF AttemptRaises, ReadRunForPersist
<1>7. StageReturns /\ \/ ReadRunForSnapshot /\ run.status = NoRow
                      \/ CommitSnapshot \/ ReadOnlyStage \/ EvaluateControls
                      \/ CommitReport \/ CommitPersist
  <2>1. ReadRunForSnapshot \/ CommitSnapshot \/ ReadOnlyStage \/ EvaluateControls
        \/ CommitReport \/ CommitPersist
    BY <1>2, <1>4, <1>5, <1>6 DEF Next, StageStep, Timeout, Environment, Quiescent
  <2> QED
    BY <1>3, <2>1 DEF ReadRunForSnapshot, CommitSnapshot, ReadOnlyStage, EvaluateControls,
                      CommitReport, CommitPersist, CommitAcked
<1>8. wf.pc = "stage" /\ wf'.stage = wf.stage + 1 /\ wf.stage < 8 /\ work' = NoWork
  BY <1>1, <1>7, ReturnFacts
<1>9. CASE ReadRunForSnapshot
  BY <1>1, <1>7, <1>8, <1>9, StageFacts DEF ReadRunForSnapshot, CanBegin, InStage,
       CommitSnapshot, ReadOnlyStage, EvaluateControls, CommitReport, CommitPersist, NoWork
<1>10. CASE CommitSnapshot
  BY <1>8, <1>10 DEF CommitSnapshot, WorkPlaced
<1>11. CASE ReadOnlyStage \/ EvaluateControls
  BY <1>1, <1>8, <1>11, StageFacts DEF ReadOnlyStage, EvaluateControls, CanBegin, InStage
<1>12. CASE CommitReport
  BY <1>8, <1>12 DEF CommitReport, WorkPlaced, ReportPc
<1>13. CASE CommitPersist
  BY <1>8, <1>13 DEF CommitPersist, WorkPlaced
<1> QED
  BY <1>7, <1>8, <1>9, <1>10, <1>11, <1>12, <1>13

-----------------------------------------------------------------------------
(* What each step may change                                               *)

LEMMA Frame ==
    ASSUME [Next]_vars
    PROVE  /\ UNCHANGED <<mode, faults>>
           /\ \/ CreateRun \/ DeleteProject \/ CommitSnapshot \/ CommitPersist \/ CommitMark
              \/ run' = run
           /\ CreateRun \/ CommitPersist \/ CommitMark \/ log' = log
           /\ DeleteProject \/ CommitReport \/ evidence' = evidence
           /\ PutHtml \/ PutPdf \/ objects' = objects
           /\ EvaluateControls \/ results' = results
           /\ CommitReport \/ report' = report
           /\ DeleteProject \/ WaiveFinding \/ CommitPersist \/ UNCHANGED <<findings, tasks, waivers>>
<1> USE DEF dbVars, flowVars, vars
<1>1. CASE Launch \/ Timeout \/ UNCHANGED vars
  BY <1>1 DEF Launch, Timeout, TimeoutStage, TimeoutMark
<1>2. CASE Environment
  BY <1>2 DEF Environment, CreateRun, LaunchFails, RenameProject, DeleteProject, WaiveFinding,
              KillStageAttempt, KillMarkAttempt, KillInlineRun
<1>3. CASE StageStep
  BY <1>3 DEF StageStep, ReadRunForSnapshot, CommitSnapshot, ReadOnlyStage, EvaluateControls,
              ReadProjectName, PutHtml, PutPdf, PutObject, CommitReport, ReadRunForPersist,
              CommitPersist, AttemptRaises
<1>4. CASE MarkStep
  BY <1>4 DEF MarkStep, ReadRunForMark, CommitMark, MarkAttemptRaises
<1> QED
  BY <1>1, <1>2, <1>3, <1>4 DEF Next, Quiescent

\* How an attempt of a stage may begin, move on or end.
LEMMA WorkFrame ==
    ASSUME TypeOK, [Next]_vars
    PROVE  \/ work' \in {work, NoWork, Lost}
           \/ /\ ReadRunForSnapshot /\ wf' = wf
              /\ work'.pc = "snapshot" /\ work'.seen = run.status
           \/ ReadProjectName /\ work'.pc = "render"
           \/ PutHtml /\ work'.pc = "put_html" /\ work'.name = work.name
           \/ PutPdf /\ work'.pc = "put_pdf" /\ work'.name = work.name
           \/ /\ ReadRunForPersist /\ wf' = wf
              /\ work'.pc = "persist" /\ work'.seen = run.status
<1> USE DEF dbVars, flowVars, vars
<1>1. CASE Launch \/ Timeout \/ MarkStep \/ UNCHANGED vars
  BY <1>1 DEF Launch, Timeout, TimeoutStage, TimeoutMark, Abandon, MarkStep,
              ReadRunForMark, CommitMark, MarkAttemptRaises
<1>2. CASE Environment
  BY <1>2 DEF Environment, CreateRun, LaunchFails, RenameProject, DeleteProject, WaiveFinding,
              KillStageAttempt, KillMarkAttempt, KillInlineRun
<1>3. CASE ReadRunForSnapshot \/ ReadRunForPersist \/ ReadProjectName
  BY <1>3 DEF ReadRunForSnapshot, ReadRunForPersist, ReadProjectName, StageReturns, StageRaises
<1>4. CASE PutHtml \/ PutPdf
  <2>1. work.pc \in ReportPc
    BY <1>4 DEF PutHtml, PutPdf, PutObject, ReportPc
  <2> QED
    BY <1>4, <2>1, WorkFacts DEF PutHtml, PutPdf, PutObject
<1>5. CASE CommitSnapshot \/ ReadOnlyStage \/ EvaluateControls \/ CommitReport \/ CommitPersist
           \/ AttemptRaises
  BY <1>5 DEF CommitSnapshot, ReadOnlyStage, EvaluateControls, CommitReport, CommitPersist,
              AttemptRaises, StageReturns, StageRaises, CommitAcked
<1> QED
  BY <1>1, <1>2, <1>3, <1>4, <1>5 DEF Next, StageStep, Quiescent

LEMMA MarkFrame ==
    ASSUME TypeOK, [Next]_vars
    PROVE  \/ mark' \in {mark, NoWork, Lost}
           \/ ReadRunForMark /\ wf' = wf /\ mark'.pc = "read" /\ mark'.seen = run.status
<1> USE DEF dbVars, flowVars, vars
<1>1. CASE Launch \/ Timeout \/ MarkStep \/ UNCHANGED vars
  BY <1>1 DEF Launch, Timeout, TimeoutStage, TimeoutMark, Abandon, MarkStep,
              ReadRunForMark, CommitMark, MarkAttemptRaises, MarkReturns, MarkRaises
<1>2. CASE Environment
  BY <1>2 DEF Environment, CreateRun, LaunchFails, RenameProject, DeleteProject, WaiveFinding,
              KillStageAttempt, KillMarkAttempt, KillInlineRun
<1>3. CASE StageStep
  BY <1>3 DEF StageStep, ReadRunForSnapshot, CommitSnapshot, ReadOnlyStage, EvaluateControls,
              ReadProjectName, PutHtml, PutPdf, PutObject, CommitReport, ReadRunForPersist,
              CommitPersist, AttemptRaises
<1> QED
  BY <1>1, <1>2, <1>3 DEF Next, Quiescent

\* The writes of the run's row, by the statuses they may lead to.
LEMMA RunFrame ==
    ASSUME TypeOK, [Next]_vars
    PROVE  \/ run' = run
           \/ CreateRun /\ run'.status = "queued" /\ wf'.pc = "created" /\ wf.pc = "none"
           \/ DeleteProject /\ run'.status = NoRow
           \/ /\ CommitSnapshot /\ work.pc = "snapshot" /\ run.status # NoRow
              /\ run'.status = "running" /\ run'.report = run.report
           \/ /\ CommitPersist /\ work.pc = "persist" /\ run.status # NoRow
              /\ run'.status = (IF work.seen # "completed" THEN "completed" ELSE run.status)
              /\ run'.stage = "completed" /\ run'.report = report
           \/ /\ CommitMark /\ mark.pc = "read" /\ run.status # NoRow
              /\ run'.status = (IF mark.seen # "failed" THEN "failed" ELSE run.status)
              /\ run'.stage = "failed" /\ run'.report = run.report
<1>1. CASE CreateRun
  BY <1>1 DEF CreateRun, NoRun, TypeOK, Position
<1>2. CASE DeleteProject
  BY <1>2 DEF DeleteProject, NoRun
<1>3. CASE CommitSnapshot
  BY <1>3 DEF CommitSnapshot, TypeOK, RunRow
<1>4. CASE CommitPersist
  BY <1>4 DEF CommitPersist, CompletedRow
<1>5. CASE CommitMark
  BY <1>5 DEF CommitMark, FailedRow
<1> QED
  BY <1>1, <1>2, <1>3, <1>4, <1>5, Frame

LEMMA LogFacts ==
    ASSUME TypeOK, NEW a, LogAction(a), a \in {"create"} \cup Terminal
    PROVE  /\ Len(log') \in Nat \ {0} /\ log'[Len(log')] = a
           /\ \A b : Logged(b)' <=> Logged(b) \/ b = a
<1>1. log \in Seq({"create"} \cup Terminal) /\ log' = Append(log, a)
  BY DEF TypeOK, LogAction
<1>2. /\ Len(log) \in Nat /\ Len(log') = Len(log) + 1
      /\ \A i \in 1 .. Len(log) : log'[i] = log[i]
      /\ log'[Len(log) + 1] = a
  BY <1>1
<1>3. \A b : Logged(b)' <=> Logged(b) \/ b = a
  BY <1>2 DEF Logged
<1> QED
  BY <1>2, <1>3

\* The log entries a step may add.
LEMMA LogFrame ==
    ASSUME TypeOK, [Next]_vars
    PROVE  \/ log' = log
           \/ CreateRun /\ LogAction("create")
           \/ CommitPersist /\ run.status # NoRow /\ LogAction("completed")
           \/ CommitMark /\ run.status # NoRow /\ LogAction("failed")
BY Frame DEF CreateRun, CommitPersist, CommitMark

-----------------------------------------------------------------------------
(* The rest of the invariant, one part at a time                           *)

LEMMA UnstartedStep ==
    ASSUME IInv, [Next]_vars
    PROVE  Unstarted'
<1> USE DEF IInv
<1>1. /\ wf'.pc = "none" => wf.pc = "none" /\ wf' = wf
      /\ wf'.pc \in {"none", "created"} => wf.pc \in {"none", "created"}
  BY WorkflowMoves
<1>2. wf.pc \in {"none", "created"} => work.pc \notin Running /\ mark.pc # "read"
  BY DEF WorkPlaced, MarkPlaced
<1>3. wf'.pc = "none" => run'.status = NoRow
  <2>1. CreateRun => wf'.pc = "created"
    BY DEF CreateRun, TypeOK, Position
  <2> QED
    BY <1>1, <1>2, <2>1, RunFrame DEF Unstarted, Running
<1>4. wf'.pc \in {"none", "created"} => findings' = {}
  <2>1. DeleteProject => findings' = {}
    BY DEF DeleteProject
  <2>2. WaiveFinding => findings # {}
    BY DEF WaiveFinding
  <2>3. CommitPersist => work.pc \in Running
    BY DEF CommitPersist, Running
  <2> QED
    BY <1>1, <1>2, <2>1, <2>2, <2>3, Frame DEF Unstarted
<1>5. wf'.pc \in {"none", "created"} => evidence' = {}
  <2>1. DeleteProject => evidence' = {}
    BY DEF DeleteProject
  <2>2. CommitReport => work.pc \in Running
    BY DEF CommitReport, Running, ReportPc
  <2> QED
    BY <1>1, <1>2, <2>1, <2>2, Frame DEF Unstarted
<1> QED
  BY <1>3, <1>4, <1>5 DEF Unstarted

LEMMA BeforePersistStep ==
    ASSUME IInv, [Next]_vars
    PROVE  BeforePersist'
<1> USE DEF IInv
<1> DEFINE Before == wf.pc \in {"none", "created"} \/ (wf.pc = "stage" /\ wf.stage < 8)
<1>1. Before' => Before
  BY WorkflowMoves
<1>2. Before => work.pc # "persist"
  BY DEF WorkPlaced, Running
<1>3. Before' => run'.status # "completed"
  BY <1>1, <1>2, RunFrame DEF BeforePersist, NoRow
<1>4. Before' => ~ Logged("completed")'
  <2>1. CASE log' = log
    BY <1>1, <2>1 DEF BeforePersist, Logged
  <2>2. CASE LogAction("create") \/ LogAction("failed")
    BY <1>1, <2>2, LogFacts DEF BeforePersist, Terminal
  <2>3. CASE CommitPersist
    BY <1>1, <1>2, <2>3 DEF CommitPersist
  <2> QED
    BY <2>1, <2>2, <2>3, LogFrame
<1> QED
  BY <1>3, <1>4 DEF BeforePersist

LEMMA ObjectsWrittenStep ==
    ASSUME IInv, [Next]_vars
    PROVE  ObjectsWritten'
<1> USE DEF IInv
<1>1. CASE PutHtml
  <2>1. work'.pc = "put_html" /\ work'.name = work.name
    BY <1>1, WorkFacts DEF PutHtml, PutObject, ReportPc
  <2> QED
    BY <1>1, <2>1 DEF PutHtml, PutObject, TypeOK, ObjectsWritten
<1>2. CASE PutPdf
  BY <1>2, WorkFrame DEF PutPdf, PutObject, TypeOK, ObjectsWritten
<1>3. CASE ~ PutHtml /\ ~ PutPdf
  <2>1. objects' = objects
    BY <1>3, Frame
  <2> QED
    BY <1>3, <2>1, WorkFrame DEF ObjectsWritten, NoWork, Lost
<1> QED
  BY <1>1, <1>2, <1>3

LEMMA ReportCarriedStep ==
    ASSUME IInv, [Next]_vars
    PROVE  ReportCarried'
<1> USE DEF IInv
<1> DEFINE Past == (wf.pc = "stage" /\ wf.stage = 8) \/ work.pc = "persist" \/ run.status = "completed"
<1>1. CASE CommitReport
  <2>1. work.pc = "put_pdf" /\ work'.pc = "idle" /\ run' = run /\ objects' = objects
    BY <1>1, ReturnFacts, RaiseFacts DEF CommitReport, CommitAcked, NoWork
  <2>2. ~ Past /\ run.status # "completed"
    BY <2>1 DEF ReportCarried, ReportPc
  <2>3. CASE run.status = NoRow
    BY <2>1, <2>2, <2>3 DEF ReportCarried, ReportPc
  <2>4. CASE run.status # NoRow
    <3>1. evidence' = evidence \cup ReportRows /\ CommitAcked
          /\ report' = IF wf'.stage # wf.stage THEN work.no ELSE report
      BY <1>1, <2>4 DEF CommitReport
    <3>2. CASE wf'.stage = wf.stage
      <4>1. ~ Past'
        BY <2>1, <2>2, <3>1, <3>2, ReturnFacts, RaiseFacts DEF CommitAcked
      <4> QED
        BY <2>1, <2>2, <4>1 DEF ReportCarried
    <3>3. CASE wf'.stage # wf.stage
      <4>1. \A k \in {"html", "pdf"} :
                [attempt |-> work.no, kind |-> k, sha |-> objects[k]] \in ReportRows
        BY <2>1 DEF ObjectsWritten, ReportRows
      <4>2. HasReport(report)'
        BY <2>1, <3>1, <3>3, <4>1 DEF HasReport
      <4> QED
        BY <2>1, <2>2, <4>2 DEF ReportCarried, ReportPc
    <3> QED
      BY <3>2, <3>3
  <2> QED
    BY <2>3, <2>4
<1>2. CASE PutHtml \/ PutPdf
  <2>1. work.pc \in ReportPc /\ work'.pc \in ReportPc /\ wf' = wf /\ run' = run
    BY <1>2, WorkFacts DEF PutHtml, PutPdf, PutObject, ReportPc, flowVars, dbVars
  <2>2. ~ Past /\ run.status # "completed"
    BY <2>1 DEF ReportCarried
  <2> QED
    BY <2>1, <2>2 DEF ReportCarried, ReportPc
<1>3. CASE CommitPersist
  <2>1. work.pc = "persist" /\ work'.pc = "idle"
    BY <1>3, ReturnFacts, RaiseFacts DEF CommitPersist, CommitAcked, NoWork
  <2>2. UNCHANGED <<report, objects, evidence>>
    BY <1>3 DEF CommitPersist
  <2>3. run.status # NoRow => HasReport(report)'
    BY <2>1, <2>2 DEF ReportCarried, HasReport
  <2>4. \/ run' = run
        \/ run.status # NoRow /\ run'.report = report
    BY <1>3 DEF CommitPersist, CompletedRow
  <2> QED
    BY <2>1, <2>2, <2>3, <2>4 DEF ReportCarried, ReportPc
<1>4. CASE ~ CommitReport /\ ~ PutHtml /\ ~ PutPdf /\ ~ CommitPersist
  <2>1. UNCHANGED <<report, objects>>
    BY <1>4, Frame
  <2>2. run'.status = "completed" => run.status = "completed" /\ run'.report = run.report
    BY <1>4, RunFrame DEF NoRow
  <2>3. run'.status # NoRow /\ Past => run.status # NoRow /\ evidence' = evidence
    <3>1. wf.pc = "none" => ~ Past
      BY DEF BeforePersist, WorkPlaced, Running
    <3>2. DeleteProject => run'.status = NoRow
      BY DEF DeleteProject, NoRun
    <3> QED
      BY <1>4, <3>1, <3>2, RunFrame, Frame
  <2>4. wf'.pc = "stage" /\ wf'.stage = 8 => wf.pc = "stage" /\ wf.stage = 8
    BY <1>4, StageAdvances, WorkflowMoves, StageFacts DEF AttemptCounted, CreateRun, TypeOK, Position
  <2>5. work'.pc = "persist" => Past
    BY <1>4, WorkFrame, StageFacts DEF NoWork, Lost, ReadRunForPersist, CanBegin, InStage, TypeOK, Position
  <2>6. Past' => Past
    BY <2>2, <2>4, <2>5
  <2>7. Past /\ work'.pc \in ReportPc => work.pc \in ReportPc
    <3>1. ReadProjectName => ~ Past
      BY StageFacts DEF ReadProjectName, CanBegin, InStage, TypeOK, Position, BeforePersist, NoWork
    <3> QED
      BY <1>4, <3>1, WorkFrame DEF NoWork, Lost, ReportPc
  <2> QED
    BY <2>1, <2>2, <2>3, <2>6, <2>7 DEF ReportCarried, HasReport
<1> QED
  BY <1>1, <1>2, <1>3, <1>4

LEMMA EvidenceWhenOrderlyStep ==
    ASSUME IInv, [Next]_vars
    PROVE  EvidenceWhenOrderly'
<1> USE DEF IInv
<1> DEFINE Before == (wf.pc = "stage" /\ wf.stage < 8) \/ work.pc \in ReportPc
<1> SUFFICES ASSUME "lostack" \notin faults, Before'
             PROVE  evidence' = {}
  BY Frame DEF EvidenceWhenOrderly
<1>1. evidence = {}
  <2>1. CASE work'.pc \in ReportPc
    <3>1. ReadProjectName => wf.pc = "stage" /\ wf.stage < 8
      BY StageFacts DEF ReadProjectName, CanBegin, InStage, TypeOK, Position
    <3>2. PutHtml \/ PutPdf => work.pc \in ReportPc
      BY DEF PutHtml, PutPdf, PutObject, ReportPc
    <3> QED
      BY <2>1, <3>1, <3>2, WorkFrame DEF EvidenceWhenOrderly, NoWork, Lost, ReportPc
  <2>2. CASE wf'.pc = "stage" /\ wf'.stage < 8
    BY <2>2, WorkflowMoves DEF EvidenceWhenOrderly, Unstarted
  <2> QED
    BY <2>1, <2>2
<1>2. CASE CommitReport
  <2>1. work.pc = "put_pdf" /\ work'.pc = "idle"
    BY <1>2, ReturnFacts, RaiseFacts DEF CommitReport, CommitAcked, NoWork
  <2>2. wf.pc = "stage" => wf.stage = 7
    BY <2>1 DEF WorkPlaced, ReportPc
  <2>3. CASE run.status = NoRow
    BY <1>1, <1>2, <2>3 DEF CommitReport
  <2>4. CASE run.status # NoRow
    <3>1. StageReturns
      BY <1>2, <2>4 DEF CommitReport, CommitAcked
    <3> QED
      BY <2>1, <2>2, <3>1, ReturnFacts DEF ReportPc
  <2> QED
    BY <2>3, <2>4
<1>3. DeleteProject => evidence' = {}
  BY DEF DeleteProject
<1> QED
  BY <1>1, <1>2, <1>3, Frame

LEMMA FindingsWhenOrderlyStep ==
    ASSUME IInv, [Next]_vars
    PROVE  FindingsWhenOrderly'
<1> USE DEF IInv
<1> SUFFICES ASSUME "lostack" \notin faults, wf'.pc = "stage" \/ work'.pc = "persist"
             PROVE  findings' = {}
  BY Frame DEF FindingsWhenOrderly
<1>1. findings = {}
  <2>1. CASE wf'.pc = "stage"
    BY <2>1, WorkflowMoves DEF FindingsWhenOrderly, Unstarted
  <2>2. CASE work'.pc = "persist"
    BY <2>2, WorkFrame DEF FindingsWhenOrderly, NoWork, Lost, ReadRunForPersist, CanBegin, InStage
  <2> QED
    BY <2>1, <2>2
<1>2. CASE CommitPersist
  <2>1. work.pc = "persist" /\ work'.pc = "idle"
    BY <1>2, ReturnFacts, RaiseFacts DEF CommitPersist, CommitAcked, NoWork
  <2>2. wf.pc = "stage" => wf.stage = 8
    BY <2>1 DEF WorkPlaced
  <2>3. CASE run.status = NoRow
    BY <1>1, <1>2, <2>3 DEF CommitPersist
  <2>4. CASE run.status # NoRow
    <3>1. StageReturns
      BY <1>2, <2>4 DEF CommitPersist, CommitAcked
    <3> QED
      BY <2>1, <2>2, <3>1, ReturnFacts
  <2> QED
    BY <2>3, <2>4
<1>3. DeleteProject => findings' = {}
  BY DEF DeleteProject
<1>4. ~ WaiveFinding
  BY <1>1 DEF WaiveFinding
<1> QED
  BY <1>1, <1>2, <1>3, <1>4, Frame

\* An attempt that commits takes its workflow out of the stage, unless the acknowledgement is lost.
LEMMA EffectiveCommits ==
    ASSUME TypeOK, WorkPlaced, MarkPlaced, "lostack" \notin faults, run.status # NoRow
    PROVE  /\ CommitPersist => wf'.pc # "stage" /\ (wf'.pc = wf.pc \/ wf'.pc = "completed") /\ work'.pc = "idle"
           /\ CommitMark => wf'.pc \in {"failed", "abandoned"} /\ mark'.pc = "idle"
<1>1. CommitPersist => StageReturns /\ work.pc = "persist"
  BY DEF CommitPersist, CommitAcked
<1>2. CommitMark => MarkReturns /\ mark.pc = "read"
  BY DEF CommitMark
<1>3. work.pc = "persist" /\ wf.pc = "stage" => wf.stage = 8
  BY DEF WorkPlaced
<1>4. mark.pc = "read" => wf.pc \in {"marking", "abandoned"}
  BY DEF MarkPlaced
<1> QED
  BY <1>1, <1>2, <1>3, <1>4, ReturnFacts, MarkReturnFacts DEF NoWork

LEMMA SeenWithoutLostAckStep ==
    ASSUME IInv, [Next]_vars
    PROVE  SeenWithoutLostAck'
<1> USE DEF IInv
<1> SUFFICES ASSUME "lostack" \notin faults
             PROVE  /\ wf'.pc = "stage" => run'.status # "completed"
                    /\ work'.pc = "persist" => work'.seen # "completed"
                    /\ wf'.pc \in {"created", "stage", "marking"} => run'.status # "failed"
                    /\ mark'.pc = "read" => mark'.seen # "failed"
  BY Frame DEF SeenWithoutLostAck
<1>1. wf'.pc = "stage" => run'.status # "completed"
  <2>1. wf'.pc = "stage" => run.status # "completed"
    BY WorkflowMoves DEF SeenWithoutLostAck, BeforePersist
  <2> QED
    BY <2>1, RunFrame, EffectiveCommits DEF NoRow
<1>2. work'.pc = "persist" => work'.seen # "completed"
  BY WorkFrame DEF SeenWithoutLostAck, NoWork, Lost, ReadRunForPersist, CanBegin, InStage
<1>3. wf'.pc \in {"created", "stage", "marking"} => run'.status # "failed"
  <2>1. wf'.pc \in {"created", "stage", "marking"} =>
            wf.pc = "none" \/ run.status # "failed"
    BY WorkflowMoves DEF SeenWithoutLostAck
  <2>2. wf.pc = "none" => run.status # "failed"
    BY DEF Unstarted, NoRow
  <2> QED
    BY <2>1, <2>2, RunFrame, EffectiveCommits DEF NoRow, SeenWithoutLostAck
<1>4. mark'.pc = "read" => mark'.seen # "failed"
  BY MarkFrame DEF SeenWithoutLostAck, NoWork, Lost, ReadRunForMark
<1> QED
  BY <1>1, <1>2, <1>3, <1>4

LEMMA SeenWithoutTimeoutStep ==
    ASSUME IInv, [Next]_vars
    PROVE  SeenWithoutTimeout'
<1> USE DEF IInv
<1> SUFFICES ASSUME "timeout" \notin faults
             PROVE  /\ work'.pc \in {"snapshot", "persist"} => run'.status \in {work'.seen, NoRow}
                    /\ mark'.pc = "read" => run'.status \in {mark'.seen, NoRow}
  BY Frame DEF SeenWithoutTimeout
<1>1. work.pc \in Running => wf.pc = "stage" /\ mark.pc # "read"
  BY DEF WorkPlaced, MarkPlaced
<1>2. mark.pc = "read" => wf.pc = "marking"
  BY DEF MarkPlaced
<1>3. work'.pc \in {"snapshot", "persist"} => run'.status \in {work'.seen, NoRow}
  <2>1. CASE work' = work
    <3>1. CommitSnapshot \/ CommitPersist => work'.pc = "idle"
      BY ReturnFacts, RaiseFacts DEF CommitSnapshot, CommitPersist, CommitAcked, NoWork
    <3> QED
      BY <1>1, <2>1, <3>1, RunFrame DEF SeenWithoutTimeout, Running
  <2>2. CASE work' # work
    <3>1. ReadRunForSnapshot \/ ReadRunForPersist => run' = run
      BY DEF ReadRunForSnapshot, ReadRunForPersist, dbVars
    <3> QED
      BY <2>2, <3>1, WorkFrame DEF NoWork, Lost
  <2> QED
    BY <2>1, <2>2
<1>4. mark'.pc = "read" => run'.status \in {mark'.seen, NoRow}
  <2>1. CASE mark' = mark
    <3>1. CommitMark => mark'.pc = "idle"
      BY MarkReturnFacts, MarkRaiseFacts DEF CommitMark, NoWork
    <3> QED
      BY <1>1, <1>2, <2>1, <3>1, RunFrame DEF SeenWithoutTimeout, Running
  <2>2. CASE mark' # mark
    <3>1. ReadRunForMark => run' = run
      BY DEF ReadRunForMark, dbVars
    <3> QED
      BY <2>2, <3>1, MarkFrame DEF NoWork, Lost
  <2> QED
    BY <2>1, <2>2
<1> QED
  BY <1>3, <1>4

LEMMA StatusFollowsWorkflowStep ==
    ASSUME IInv, [Next]_vars
    PROVE  StatusFollowsWorkflow'
<1> USE DEF IInv
<1> SUFFICES ASSUME "lostack" \notin faults, "timeout" \notin faults
             PROVE  /\ wf'.pc \in {"created", "stage", "marking"} =>
                           run'.status \in {"queued", "running", NoRow}
                    /\ wf'.pc = "stage" /\ wf'.stage > 1 => run'.status \in {"running", NoRow}
  BY Frame DEF StatusFollowsWorkflow
<1>1. work.pc \in Running => wf.pc = "stage"
  BY DEF WorkPlaced
<1>2. CommitPersist => run.status = NoRow \/ wf'.pc = "completed"
  <2>1. CommitPersist => wf.pc = "stage" /\ work.pc = "persist"
    BY <1>1 DEF CommitPersist, Running
  <2> QED
    BY <2>1, EffectiveCommits
<1>3. wf'.pc \in {"created", "stage", "marking"} => run'.status \in {"queued", "running", NoRow}
  <2>1. wf'.pc \in {"created", "stage", "marking"} => run.status \in {"queued", "running", NoRow}
    BY WorkflowMoves DEF StatusFollowsWorkflow, Unstarted
  <2> QED
    BY <1>2, <2>1, RunFrame, EffectiveCommits
<1>4. wf'.pc = "stage" /\ wf'.stage > 1 => run'.status \in {"running", NoRow}
  <2> SUFFICES ASSUME wf'.pc = "stage", wf'.stage > 1
               PROVE  run'.status \in {"running", NoRow}
    OBVIOUS
  <2>1. CASE CommitSnapshot
    <3>1. run'.status = "running" \/ (run' = run /\ (work.seen = "running" \/ run.status = NoRow))
      BY <2>1 DEF CommitSnapshot, TypeOK, RunRow
    <3> QED
      BY <2>1, <3>1 DEF SeenWithoutTimeout, CommitSnapshot
  <2>2. CASE ~ CommitSnapshot
    <3>1. run.status \in {"running", NoRow}
      BY <2>2, StageAdvances, WorkflowMoves DEF StatusFollowsWorkflow, AttemptCounted
    <3> QED
      BY <1>2, <2>2, <3>1, RunFrame, EffectiveCommits
  <2> QED
    BY <2>1, <2>2
<1> QED
  BY <1>3, <1>4

-----------------------------------------------------------------------------
(* The properties                                                          *)

LEMMA TerminalLoggedStep ==
    ASSUME IInv, [Next]_vars
    PROVE  TerminalLogged'
<1> USE DEF IInv
<1> SUFFICES ASSUME NEW b \in Terminal, run'.status = b
             PROVE  Logged(b)'
  BY DEF TerminalLogged, Logged
<1>1. CASE CommitPersist /\ run.status # NoRow
  BY <1>1, RunFrame, LogFacts DEF CommitPersist, CompletedRow, TerminalLogged, Terminal
<1>2. CASE CommitMark /\ run.status # NoRow
  BY <1>2, LogFacts DEF CommitMark, FailedRow, TerminalLogged, Terminal
<1>3. CASE ~ (CommitPersist /\ run.status # NoRow) /\ ~ (CommitMark /\ run.status # NoRow)
  <2>1. run'.status = run.status
    BY <1>3, RunFrame DEF Terminal, NoRow
  <2>2. ~ CreateRun
    BY <1>3, RunFrame, Frame DEF CreateRun, NoRun, Terminal
  <2>3. log' = log
    BY <1>3, <2>2, LogFrame
  <2> QED
    BY <2>1, <2>3 DEF TerminalLogged, Logged
<1> QED
  BY <1>1, <1>2, <1>3

LEMMA WaiversHaveFindingsStep ==
    ASSUME IInv, [Next]_vars
    PROVE  WaiversHaveFindings'
<1> USE DEF IInv
<1>1. CASE WaiveFinding
  <2>1. PICK f \in findings :
            /\ waivers' = waivers \cup {KeyOf(f)}
            /\ findings' = (findings \ {f}) \cup {[f EXCEPT !.accepted = TRUE]}
    BY <1>1 DEF WaiveFinding
  <2>2. f \in Finding
    BY DEF TypeOK
  <2>3. PICK g : g = [f EXCEPT !.accepted = TRUE]
    OBVIOUS
  <2>4. KeyOf(g) = KeyOf(f) /\ g.accepted
    BY <2>2, <2>3 DEF KeyOf, Finding
  <2>5. SUFFICES ASSUME NEW k \in waivers'
                 PROVE  \E h \in findings' : KeyOf(h) = k /\ h.accepted
    BY DEF WaiversHaveFindings, KeyOf
  <2>6. CASE k = KeyOf(f)
    BY <2>1, <2>3, <2>4, <2>6
  <2>7. CASE k # KeyOf(f)
    BY <2>1, <2>7 DEF WaiversHaveFindings
  <2> QED
    BY <2>6, <2>7
<1>2. CASE CommitPersist
  BY <1>2 DEF CommitPersist, CascadeToWaivers, WaiversHaveFindings, KeyOf
<1>3. CASE DeleteProject
  BY <1>3 DEF DeleteProject, WaiversHaveFindings
<1>4. CASE UNCHANGED <<findings, tasks, waivers>>
  BY <1>4 DEF WaiversHaveFindings, KeyOf
<1> QED
  BY <1>1, <1>2, <1>3, <1>4, Frame

LEMMA ReportRowsMatchObjectsStep ==
    ASSUME IInv, [Next]_vars
    PROVE  ReportRowsMatchObjects'
<1> USE DEF IInv
<1> SUFFICES ASSUME "lostack" \notin faults
             PROVE  \A e \in evidence' : objects'[e.kind] = e.sha
  BY Frame DEF ReportRowsMatchObjects
<1>1. CASE PutHtml \/ PutPdf
  <2>1. evidence = {} /\ evidence' = evidence
    BY <1>1 DEF PutHtml, PutPdf, PutObject, EvidenceWhenOrderly, ReportPc, dbVars
  <2> QED
    BY <2>1
<1>2. CASE CommitReport
  <2>1. work.pc = "put_pdf" /\ objects' = objects /\ evidence = {}
    BY <1>2 DEF CommitReport, EvidenceWhenOrderly, ReportPc
  <2>2. \A e \in ReportRows : objects[e.kind] = e.sha
    BY <2>1 DEF ReportRows, ObjectsWritten
  <2> QED
    BY <1>2, <2>1, <2>2 DEF CommitReport
<1>3. CASE DeleteProject
  BY <1>3 DEF DeleteProject
<1>4. CASE UNCHANGED <<evidence, objects>>
  BY <1>4 DEF ReportRowsMatchObjects
<1> QED
  BY <1>1, <1>2, <1>3, <1>4, Frame

LEMMA EndsInOrderStep ==
    ASSUME IInv, [Next]_vars
    PROVE  EndsInOrder'
<1> USE DEF IInv
<1> SUFFICES ASSUME run'.status \in Terminal, "lostack" \notin faults \/ "timeout" \notin faults
             PROVE  run'.stage = run'.status /\ log'[Len(log')] = run'.status
  BY Frame DEF EndsInOrder, LastLogged
<1>1. CASE CommitPersist /\ run.status # NoRow
  <2>1. work.pc = "persist" /\ LogAction("completed")
        /\ run'.status = (IF work.seen # "completed" THEN "completed" ELSE run.status)
        /\ run'.stage = "completed"
    BY <1>1 DEF CommitPersist, CompletedRow
  <2>2. run'.status = "completed"
    BY <1>1, <2>1 DEF SeenWithoutLostAck, SeenWithoutTimeout
  <2> QED
    BY <2>1, <2>2, LogFacts DEF Terminal
<1>2. CASE CommitMark /\ run.status # NoRow
  <2>1. mark.pc = "read" /\ LogAction("failed")
        /\ run'.status = (IF mark.seen # "failed" THEN "failed" ELSE run.status)
        /\ run'.stage = "failed"
    BY <1>2 DEF CommitMark, FailedRow
  <2>2. run'.status = "failed"
    BY <1>2, <2>1 DEF SeenWithoutLostAck, SeenWithoutTimeout
  <2> QED
    BY <2>1, <2>2, LogFacts DEF Terminal
<1>3. CASE ~ (CommitPersist /\ run.status # NoRow) /\ ~ (CommitMark /\ run.status # NoRow)
  <2>1. run' = run
    BY <1>3, RunFrame DEF Terminal, NoRow
  <2>2. ~ CreateRun
    BY DEF CreateRun, NoRun, Terminal
  <2>3. log' = log
    BY <1>3, <2>2, LogFrame
  <2> QED
    BY <2>1, <2>3 DEF EndsInOrder, LastLogged
<1> QED
  BY <1>1, <1>2, <1>3

\* Positions in a list are known by their index.
LEMMA IndexInjective ==
    ASSUME NEW list \in SUBSET (1 .. Len(Catalog)), NEW i \in list, NEW j \in list,
           Index(i, list) = Index(j, list)
    PROVE  i = j
<1> DEFINE Below(k) == {m \in list : m < k}
<1>0. Len(Catalog) \in Int /\ \A m \in list : m \in Int
  BY ConstantFacts
<1>1. IsFiniteSet(list)
  <2>1. IsFiniteSet(1 .. Len(Catalog))
    BY <1>0, FS_Interval
  <2> QED
    BY <2>1, FS_Subset
<1>2. \A m, k \in list : m < k => Index(m, list) # Index(k, list)
  <2> SUFFICES ASSUME NEW m \in list, NEW k \in list, m < k, Index(m, list) = Index(k, list)
               PROVE  FALSE
    OBVIOUS
  <2>1. Below(m) \subseteq Below(k) /\ m \in Below(k) \ Below(m)
    <3>1. m \in Int /\ k \in Int /\ m < k /\ ~ (m < m)
      BY <1>0
    <3>2. \A x \in list : x < m => x < k
      BY <1>0, <3>1
    <3> QED
      BY <3>1, <3>2
  <2>2. IsFiniteSet(Below(k))
    BY <1>1, FS_Subset
  <2> HIDE DEF Below
  <2>3. Cardinality(Below(m)) # Cardinality(Below(k))
    BY <2>1, <2>2, FS_Subset
  <2> QED
    BY <2>3 DEF Index, Below
<1> QED
  BY <1>0, <1>2

\* The rows persist_results_activity writes.
LEMMA PersistedRows ==
    ASSUME NEW no
    PROVE  /\ \A c : (\E f \in NewFindings(no) : f.control = c) <=> c \in Controls /\ results[c] # "pass"
           /\ \A c : (\E t \in NewTasks(no) : t.control = c) <=> c \in Controls /\ results[c] # "pass"
           /\ \A f, g \in NewFindings(no) : f.control = g.control => f = g
           /\ \A t, u \in NewTasks(no) : t.control = u.control => t = u
           /\ \A t \in NewTasks(no) : \E f \in NewFindings(no) :
                  t.finding = KeyOf(f) /\ t.control = f.control
<1>1. DerivedTasks = FailingControls /\ FailingControls \in SUBSET (1 .. Len(Catalog))
  BY DEF DerivedTasks, FailingControls
<1>2. ASSUME NEW i \in FailingControls
      PROVE  LinkedFinding(no, i) = [attempt |-> no, control |-> Catalog[i]]
  <2>1. i \in SameIndex(i)
    BY <1>1 DEF SameIndex
  <2>2. \A j \in SameIndex(i) : j = i
    BY <1>1, IndexInjective DEF SameIndex
  <2> QED
    BY <2>1, <2>2 DEF LinkedFinding
<1>3. \A c : (\E i \in FailingControls : Catalog[i] = c) <=> c \in Controls /\ results[c] # "pass"
  BY DEF FailingControls, Controls
<1> DEFINE F(i) == [attempt |-> no, control |-> Catalog[i], accepted |-> FALSE]
           T(i) == [attempt |-> no, control |-> Catalog[i], finding |-> LinkedFinding(no, i)]
<1>4. /\ \A i : F(i).control = Catalog[i] /\ KeyOf(F(i)) = [attempt |-> no, control |-> Catalog[i]]
      /\ \A i : T(i).control = Catalog[i] /\ T(i).finding = LinkedFinding(no, i)
  BY DEF KeyOf
<1>5. NewFindings(no) = {F(i) : i \in FailingControls} /\ NewTasks(no) = {T(i) : i \in FailingControls}
  BY <1>1 DEF NewFindings, NewTasks
<1> HIDE DEF F, T
<1>6. \A c : (\E f \in NewFindings(no) : f.control = c) <=> c \in Controls /\ results[c] # "pass"
  BY <1>3, <1>4, <1>5
<1>7. \A c : (\E t \in NewTasks(no) : t.control = c) <=> c \in Controls /\ results[c] # "pass"
  BY <1>3, <1>4, <1>5
<1>8. \A i, j \in FailingControls : Catalog[i] = Catalog[j] => i = j
  BY <1>1, AuditRunAssumption
<1>9. \A f, g \in NewFindings(no) : f.control = g.control => f = g
  BY <1>8, <1>4, <1>5
<1>10. \A t, u \in NewTasks(no) : t.control = u.control => t = u
  BY <1>8, <1>4, <1>5
<1>11. \A t \in NewTasks(no) : \E f \in NewFindings(no) : t.finding = KeyOf(f) /\ t.control = f.control
  BY <1>2, <1>4, <1>5
<1> QED
  BY <1>6, <1>7, <1>9, <1>10, <1>11

\* Once persisted, the results do not change, and the rows change only by waivers.
LEMMA FindingsMatchResultsStep ==
    ASSUME IInv, [Next]_vars
    PROVE  FindingsMatchResults'
<1> USE DEF IInv
<1> DEFINE Matched ==
        /\ \A c : (\E f \in findings : f.control = c) <=> c \in Controls /\ results[c] # "pass"
        /\ \A c : (\E t \in tasks : t.control = c) <=> c \in Controls /\ results[c] # "pass"
        /\ \A f, g \in findings : f.control = g.control => f = g
        /\ \A t, u \in tasks : t.control = u.control => t = u
        /\ \A t \in tasks : \E f \in findings : t.finding = KeyOf(f) /\ t.control = f.control
<1>1. FindingsMatchResults <=> (Logged("completed") /\ run.status # NoRow => Matched)
  BY DEF FindingsMatchResults
<1>2. FindingsMatchResults' <=> (Logged("completed")' /\ run'.status # NoRow => Matched')
  BY DEF FindingsMatchResults
<1> SUFFICES ASSUME Logged("completed")', run'.status # NoRow
             PROVE  Matched'
  BY <1>2
<1>3. CASE CommitPersist
  <2>1. run.status # NoRow
    BY <1>3 DEF CommitPersist
  <2>2. findings' = NewFindings(work.no) /\ tasks' = NewTasks(work.no) /\ results' = results
    BY <1>3, <2>1 DEF CommitPersist
  <2> QED
    BY <2>2, PersistedRows DEF KeyOf
<1>4. CASE ~ CommitPersist
  <2>1. Logged("completed")
    <3>1. CASE log' = log
      BY <3>1 DEF Logged
    <3>2. CASE LogAction("create") \/ LogAction("failed")
      BY <3>2, LogFacts DEF Terminal
    <3> QED
      BY <1>4, <3>1, <3>2, LogFrame
  <2>2. run.status # NoRow
    BY <2>1, RunFrame DEF BeforePersist
  <2>3. Matched
    BY <1>1, <2>1, <2>2
  <2>4. results' = results
    BY <2>1, Frame, StageFacts DEF EvaluateControls, CanBegin, InStage, BeforePersist, TypeOK, Position
  <2>5. CASE WaiveFinding
    <3>1. PICK f \in findings : findings' = (findings \ {f}) \cup {[f EXCEPT !.accepted = TRUE]}
      BY <2>5 DEF WaiveFinding
    <3>2. f \in Finding /\ tasks' = tasks
      BY <2>5 DEF TypeOK, WaiveFinding
    <3>3. PICK g : g = [f EXCEPT !.accepted = TRUE]
      OBVIOUS
    <3>4. g.control = f.control /\ KeyOf(g) = KeyOf(f)
      BY <3>2, <3>3 DEF KeyOf, Finding
    <3>5. findings' = (findings \ {f}) \cup {g}
      BY <3>1, <3>3
    <3>6. /\ \A h \in findings : \E k \in findings' : k.control = h.control /\ KeyOf(k) = KeyOf(h)
          /\ \A k \in findings' : \E h \in findings : k.control = h.control
      BY <3>4, <3>5
    <3>7. \A h, k \in findings' : h.control = k.control => h = k
      BY <2>3, <3>4, <3>5
    <3>8. \A c : (\E h \in findings' : h.control = c) <=> c \in Controls /\ results[c] # "pass"
      BY <2>3, <3>6
    <3>9. \A t \in tasks : \E k \in findings' : t.finding = KeyOf(k) /\ t.control = k.control
      BY <2>3, <3>6
    <3> QED
      BY <2>3, <2>4, <3>2, <3>7, <3>8, <3>9 DEF KeyOf
  <2>6. CASE UNCHANGED <<findings, tasks, waivers>>
    BY <2>3, <2>4, <2>6 DEF KeyOf
  <2>7. ~ DeleteProject
    BY DEF DeleteProject, NoRun
  <2> QED
    BY <1>4, <2>5, <2>6, <2>7, Frame
<1> QED
  BY <1>3, <1>4

-----------------------------------------------------------------------------
(* The inductive invariant                                                 *)

LEMMA IInvInit == Init => IInv
<1> SUFFICES ASSUME Init PROVE IInv
  OBVIOUS
<1>1. TypeOK
  <2>1. project \in [exists : BOOLEAN, name : Name] /\ NoBytes \in Name \cup {Unknown, NoBytes}
    BY AuditRunAssumption DEF Init, Name
  <2>2. wf \in Position
    BY StageFacts DEF Init, Position
  <2>3. run \in RunRow
    BY DEF Init, NoRun, RunRow, NoRow
  <2>4. results \in [Controls -> Result] /\ log \in Seq({"create"} \cup Terminal)
    BY DEF Init, Result
  <2> QED
    BY <2>1, <2>2, <2>3, <2>4 DEF Init, TypeOK, WorkState, MarkState
<1>2. work.pc = "idle" /\ mark.pc = "idle" /\ wf.pc = "none" /\ wf.stage = 1 /\ wf.attempt = 1
      /\ run.status = NoRow /\ ~ Logged("completed") /\ evidence = {} /\ findings = {} /\ waivers = {}
  BY DEF Init, NoWork, NoRun, Logged
<1>3. WorkPlaced /\ MarkPlaced /\ AttemptCounted /\ Unstarted
  BY <1>2, ConstantFacts DEF WorkPlaced, MarkPlaced, AttemptCounted, Unstarted, Running, ReportPc
<1>4. BeforePersist /\ ObjectsWritten /\ ReportCarried
  BY <1>2 DEF BeforePersist, ObjectsWritten, ReportCarried, NoRow
<1>5. EvidenceWhenOrderly /\ FindingsWhenOrderly
  BY <1>2 DEF EvidenceWhenOrderly, FindingsWhenOrderly
<1>6. SeenWithoutLostAck /\ SeenWithoutTimeout /\ StatusFollowsWorkflow
  BY <1>2 DEF SeenWithoutLostAck, SeenWithoutTimeout, StatusFollowsWorkflow
<1>7. TerminalLogged /\ FindingsMatchResults /\ EndsInOrder
  BY <1>2 DEF TerminalLogged, FindingsMatchResults, EndsInOrder, Terminal, NoRow
<1>8. WaiversHaveFindings /\ ReportRowsMatchObjects
  BY <1>2 DEF WaiversHaveFindings, ReportRowsMatchObjects
<1> QED
  BY <1>1, <1>3, <1>4, <1>5, <1>6, <1>7, <1>8 DEF IInv

LEMMA IInvNext == IInv /\ [Next]_vars => IInv'
<1> SUFFICES ASSUME IInv, [Next]_vars PROVE IInv'
  OBVIOUS
<1>1. TypeOK /\ WorkPlaced /\ MarkPlaced /\ AttemptCounted
  BY DEF IInv
<1>2. TypeOK' /\ WorkPlaced' /\ MarkPlaced' /\ AttemptCounted'
  BY <1>1, TypeStep, WorkPlacedStep, MarkPlacedStep, WorkflowMoves
<1>3. Unstarted' /\ BeforePersist' /\ ObjectsWritten' /\ ReportCarried'
  BY UnstartedStep, BeforePersistStep, ObjectsWrittenStep, ReportCarriedStep
<1>4. EvidenceWhenOrderly' /\ FindingsWhenOrderly'
  BY EvidenceWhenOrderlyStep, FindingsWhenOrderlyStep
<1>5. SeenWithoutLostAck' /\ SeenWithoutTimeout' /\ StatusFollowsWorkflow'
  BY SeenWithoutLostAckStep, SeenWithoutTimeoutStep, StatusFollowsWorkflowStep
<1>6. TerminalLogged' /\ FindingsMatchResults' /\ EndsInOrder'
  BY TerminalLoggedStep, FindingsMatchResultsStep, EndsInOrderStep
<1>7. WaiversHaveFindings' /\ ReportRowsMatchObjects'
  BY WaiversHaveFindingsStep, ReportRowsMatchObjectsStep
<1> QED
  BY <1>2, <1>3, <1>4, <1>5, <1>6, <1>7 DEF IInv

-----------------------------------------------------------------------------
(* The theorems                                                            *)

\* Every reachable state satisfies the inductive invariant.
THEOREM Inductive == Spec => []IInv
BY IInvInit, IInvNext, PTL DEF Spec

(***************************************************************************)
(* Types: rows, attempts and the workflow's position keep their shape      *)
(* under every interleaving of attempts, users and faults.                 *)
(***************************************************************************)
THEOREM TypeCorrect == Spec => []TypeOK
<1>1. IInv => TypeOK
  BY DEF IInv
<1> QED
  BY Inductive, <1>1, PTL

(***************************************************************************)
(* A completed run has the report rows it names, and the objects stored    *)
(* under the report keys are what these rows hash, under every fault       *)
(* (generate_report_activity, persist_results_activity).                   *)
(***************************************************************************)
THEOREM CompletedRunsHaveReports == Spec => []CompletedRunHasReport
<1>1. IInv => CompletedRunHasReport
  BY DEF IInv, CompletedRunHasReport, ReportCarried, HasReport, NoRow
<1> QED
  BY Inductive, <1>1, PTL

(***************************************************************************)
(* For every catalog and every vector of results: one finding and one task *)
(* per control that did not pass, linked to each other by control          *)
(* (persist_results_activity, _derive_remediation).                        *)
(***************************************************************************)
THEOREM FindingsAreTheResults == Spec => []FindingsMatchResults
<1>1. IInv => FindingsMatchResults
  BY DEF IInv
<1> QED
  BY Inductive, <1>1, PTL

(***************************************************************************)
(* A terminal status is always backed by an audit log entry of its name    *)
(* (persist_results_activity, mark_audit_failed), and unless a commit is   *)
(* in doubt and an attempt outlives its activity in the same run, status,  *)
(* stage and last log entry agree on how it ended (_update_run_progress).  *)
(***************************************************************************)
THEOREM EndRecordsAgree == Spec => []TerminalRecordsAgree
<1>1. IInv => TerminalRecordsAgree
  <2> SUFFICES ASSUME IInv PROVE TerminalRecordsAgree
    OBVIOUS
  <2>1. TerminalLogged /\ EndsInOrder
    BY DEF IInv
  <2> QED
    BY <2>1 DEF TerminalLogged, EndsInOrder, TerminalRecordsAgree
<1> QED
  BY Inductive, <1>1, PTL

(***************************************************************************)
(* Where no commit is in doubt, report rows hash the objects they point    *)
(* to, late attempts included (generate_report_activity).                  *)
(***************************************************************************)
THEOREM ReportRowsHashObjects == Spec => []ReportRowsMatchObjects
<1>1. IInv => ReportRowsMatchObjects
  BY DEF IInv
<1> QED
  BY Inductive, <1>1, PTL

(***************************************************************************)
(* Where no commit is in doubt, no step of the workflow deletes a waiver:  *)
(* persisting replaces no finding a user could have seen.                  *)
(***************************************************************************)
THEOREM WaiversOutliveTheRun == Spec => WaiversSurvive
<1>1. IInv /\ [Next]_vars =>
          ["lostack" \notin faults => waivers \subseteq waivers' \/ ~ project'.exists]_vars
  <2> SUFFICES ASSUME IInv, [Next]_vars, "lostack" \notin faults
               PROVE  waivers \subseteq waivers' \/ ~ project'.exists
    OBVIOUS
  <2> USE DEF IInv
  <2>1. CommitPersist => waivers = {}
    BY DEF CommitPersist, FindingsWhenOrderly, WaiversHaveFindings
  <2>2. DeleteProject => ~ project'.exists
    BY DEF DeleteProject, TypeOK
  <2>3. WaiveFinding => waivers \subseteq waivers'
    BY DEF WaiveFinding
  <2> QED
    BY <2>1, <2>2, <2>3, Frame
<1> QED
  BY <1>1, Inductive, PTL DEF Spec, WaiversSurvive

-----------------------------------------------------------------------------
(* The row implements the abstract life of a run                           *)

LEMMA LifecycleStep ==
    ASSUME IInv, Orderly, [Next]_vars
    PROVE  Lifecycle!Next \/ run'.status = run.status
<1> USE DEF IInv, Lifecycle!Next, Lifecycle!Create, Lifecycle!Begin, Lifecycle!Complete,
            Lifecycle!Fail, Lifecycle!Remove, Lifecycle!Move
<1>0. StatusWhenOrderly = run.status /\ StatusWhenOrderly' = run'.status
  BY Frame DEF Orderly, StatusWhenOrderly
<1> USE <1>0
<1>1. "lostack" \notin faults /\ "timeout" \notin faults
  BY DEF Orderly
<1>2. work.pc \in Running => wf.pc = "stage"
  BY <1>1 DEF WorkPlaced
<1>3. CASE run' = run
  BY <1>3
<1>4. CASE CreateRun
  BY <1>4, RunFrame DEF Unstarted, NoRow, CreateRun, NoRun
<1>5. CASE DeleteProject
  BY <1>5 DEF DeleteProject, NoRun, NoRow, TypeOK, RunRow, Status
<1>6. CASE CommitSnapshot
  <2>1. wf.pc = "stage" /\ work.pc = "snapshot"
    BY <1>2, <1>6 DEF CommitSnapshot, Running
  <2>2. run.status \in {"queued", "running", NoRow}
    BY <1>1, <2>1 DEF StatusFollowsWorkflow
  <2> QED
    BY <1>6, <2>2 DEF CommitSnapshot, TypeOK, RunRow, NoRow
<1>7. CASE CommitPersist
  <2>1. wf.pc = "stage" /\ work.pc = "persist"
    BY <1>2, <1>7 DEF CommitPersist, Running
  <2>2. wf.stage = 8 /\ work.seen # "completed"
    BY <1>1, <2>1 DEF WorkPlaced, SeenWithoutLostAck
  <2>3. run.status \in {"running", NoRow}
    BY <1>1, <2>1, <2>2 DEF StatusFollowsWorkflow
  <2> QED
    BY <1>7, <2>2, <2>3 DEF CommitPersist, CompletedRow
<1>8. CASE CommitMark
  <2>1. mark.pc = "read" /\ wf.pc = "marking" /\ mark.seen # "failed"
    BY <1>1, <1>8 DEF CommitMark, MarkPlaced, SeenWithoutLostAck
  <2>2. run.status \in {"queued", "running", NoRow}
    BY <1>1, <2>1 DEF StatusFollowsWorkflow
  <2> QED
    BY <1>8, <2>1, <2>2 DEF CommitMark, FailedRow
<1> QED
  BY <1>3, <1>4, <1>5, <1>6, <1>7, <1>8, Frame

(***************************************************************************)
(* Where no commit is in doubt and no attempt outlives its activity, the   *)
(* run implements RunLifecycle, whatever crashes, raises or is retried: in *)
(* particular a terminal status is final.                                  *)
(***************************************************************************)
THEOREM ImplementsLifecycle == Spec => LifecycleSpec
<1>1. Init => Lifecycle!Init
  BY DEF Init, NoRun, NoRow, Lifecycle!Init, StatusWhenOrderly
<1>2. IInv /\ [Next]_vars => [Lifecycle!Next]_(StatusWhenOrderly)
  <2> SUFFICES ASSUME IInv, [Next]_vars
               PROVE  [Lifecycle!Next]_(StatusWhenOrderly)
    OBVIOUS
  <2>1. faults' = faults
    BY Frame
  <2>2. CASE ~ Orderly
    BY <2>1, <2>2 DEF Orderly, StatusWhenOrderly
  <2>3. CASE Orderly
    <3>1. Lifecycle!Next \/ run'.status = run.status
      BY <2>3, LifecycleStep
    <3> QED
      BY <2>1, <2>3, <3>1 DEF Orderly, StatusWhenOrderly
  <2> QED
    BY <2>2, <2>3
<1> QED
  BY <1>1, <1>2, Inductive, PTL DEF Spec, LifecycleSpec, Lifecycle!Spec
-----------------------------------------------------------------------------
(* What a closed workflow leaves behind                                    *)

\* While its activity waits for it, an attempt that has read completed is right, or the row is gone.
SeenPersisted ==
    work.pc = "persist" /\ wf.pc = "stage" /\ work.seen = "completed" =>
        run.status \in {"completed", NoRow}

LEMMA SeenPersistedStep ==
    ASSUME IInv, SeenPersisted, [Next]_vars
    PROVE  SeenPersisted'
<1> SUFFICES ASSUME work'.pc = "persist", wf'.pc = "stage", work'.seen = "completed"
             PROVE  run'.status \in {"completed", NoRow}
  BY DEF SeenPersisted
<1>1. TypeOK /\ WorkPlaced /\ MarkPlaced /\ AttemptCounted
  BY DEF IInv
<1>2. CASE work' = work
  <2>1. wf.pc = "stage"
    BY <1>1, <1>2, WorkflowMoves DEF WorkPlaced, Running
  <2>2. CommitPersist => work'.pc = "idle"
    BY <1>1, ReturnFacts, RaiseFacts DEF CommitPersist, CommitAcked, NoWork
  <2>3. mark.pc # "read"
    BY <1>1, <2>1 DEF MarkPlaced
  <2> QED
    BY <1>1, <1>2, <2>1, <2>2, <2>3, RunFrame DEF SeenPersisted
<1>3. CASE work' # work
  <2>1. ReadRunForPersist /\ work'.seen = run.status
    BY <1>1, <1>3, WorkFrame DEF NoWork, Lost
  <2> QED
    BY <2>1 DEF ReadRunForPersist, dbVars
<1> QED
  BY <1>2, <1>3

LEMMA OutcomesRecordedStep ==
    ASSUME IInv, SeenPersisted, OutcomesRecorded, [Next]_vars
    PROVE  OutcomesRecorded'
<1>1. TypeOK /\ WorkPlaced /\ MarkPlaced /\ AttemptCounted
  BY DEF IInv
<1>2. UNCHANGED <<mode, faults>>
  BY Frame
<1>3. wf.pc \in Terminal => wf' = wf
  <2> SUFFICES ASSUME wf.pc \in Terminal PROVE wf' = wf
    OBVIOUS
  <2> USE DEF Terminal
  <2>1. CASE StageStep
    BY <2>1, ReturnFacts, RaiseFacts, <1>1
       DEF StageStep, ReadRunForSnapshot, CommitSnapshot, ReadOnlyStage, EvaluateControls,
           ReadProjectName, PutHtml, PutPdf, PutObject, CommitReport, ReadRunForPersist,
           CommitPersist, AttemptRaises, CanBegin, InStage, CommitAcked, flowVars
  <2>2. CASE MarkStep
    BY <2>2, MarkReturnFacts, MarkRaiseFacts, <1>1
       DEF MarkStep, ReadRunForMark, CommitMark, MarkAttemptRaises
  <2>3. CASE Launch \/ Timeout \/ Environment \/ UNCHANGED vars
    BY <2>3 DEF Launch, Timeout, TimeoutStage, TimeoutMark, Environment, CreateRun, LaunchFails,
                RenameProject, DeleteProject, WaiveFinding, KillStageAttempt, KillMarkAttempt,
                KillInlineRun, flowVars, vars
  <2> QED
    BY <2>1, <2>2, <2>3 DEF Next, Quiescent
<1>4. wf'.pc = "completed" /\ wf.pc # "completed" =>
          CommitPersist /\ run.status # NoRow /\ wf.pc = "stage"
  <2> SUFFICES ASSUME wf'.pc = "completed", wf.pc # "completed"
               PROVE  CommitPersist /\ run.status # NoRow /\ wf.pc = "stage"
    OBVIOUS
  <2>1. StageRaises => FALSE
    BY RaiseFacts, <1>1
  <2>2. StageReturns => wf.pc = "stage" /\ wf.stage = 8
    BY ReturnFacts, <1>1
  <2>3. CASE StageStep
    <3>1. work.pc = "snapshot" /\ wf.pc = "stage" => wf.stage = 1
      BY <1>1 DEF WorkPlaced
    <3>2. work.pc \in ReportPc /\ wf.pc = "stage" => wf.stage = 7
      BY <1>1 DEF WorkPlaced
    <3>3. ~ (ReadRunForSnapshot \/ ReadOnlyStage \/ EvaluateControls)
      BY <2>1, <2>2, StageFacts
         DEF ReadRunForSnapshot, ReadOnlyStage, EvaluateControls, CanBegin, InStage
    <3>4. ~ (CommitSnapshot \/ CommitReport)
      BY <2>1, <2>2, <3>1, <3>2 DEF CommitSnapshot, CommitReport, CommitAcked, ReportPc
    <3>5. ~ (ReadProjectName \/ PutHtml \/ PutPdf \/ ReadRunForPersist \/ AttemptRaises)
      BY <2>1 DEF ReadProjectName, PutHtml, PutPdf, PutObject, ReadRunForPersist, AttemptRaises, flowVars
    <3>6. CommitPersist
      BY <2>3, <3>3, <3>4, <3>5 DEF StageStep
    <3> QED
      BY <2>1, <2>2, <3>6 DEF CommitPersist, CommitAcked
  <2>4. CASE MarkStep
    BY <2>4, MarkReturnFacts, MarkRaiseFacts, <1>1
       DEF MarkStep, ReadRunForMark, CommitMark, MarkAttemptRaises
  <2>5. CASE Launch \/ Timeout \/ Environment \/ UNCHANGED vars
    BY <2>5, <1>1
       DEF Launch, Timeout, TimeoutStage, TimeoutMark, Environment, CreateRun, LaunchFails,
           RenameProject, DeleteProject, WaiveFinding, KillStageAttempt, KillMarkAttempt,
           KillInlineRun, flowVars, vars, At, TypeOK, Position
  <2> QED
    BY <2>3, <2>4, <2>5 DEF Next, Quiescent
<1>5. wf'.pc = "failed" /\ wf.pc # "failed" =>
          /\ wf.pc = "marking"
          /\ \/ ReadRunForMark /\ run.status = NoRow
             \/ CommitMark /\ run.status # NoRow
  <2> SUFFICES ASSUME wf'.pc = "failed", wf.pc # "failed"
               PROVE  /\ wf.pc = "marking"
                      /\ \/ ReadRunForMark /\ run.status = NoRow
                         \/ CommitMark /\ run.status # NoRow
    OBVIOUS
  <2>1. ~ MarkRaises
    BY MarkRaiseFacts, <1>1
  <2>2. MarkReturns => wf.pc = "marking"
    BY MarkReturnFacts, <1>1
  <2>3. CASE StageStep
    BY <2>3, ReturnFacts, RaiseFacts, <1>1
       DEF StageStep, ReadRunForSnapshot, CommitSnapshot, ReadOnlyStage, EvaluateControls,
           ReadProjectName, PutHtml, PutPdf, PutObject, CommitReport, ReadRunForPersist,
           CommitPersist, AttemptRaises, CanBegin, InStage, CommitAcked, flowVars
  <2>4. CASE MarkStep
    BY <2>1, <2>2, <2>4 DEF MarkStep, ReadRunForMark, CommitMark, MarkAttemptRaises
  <2>5. CASE Launch \/ Timeout \/ Environment \/ UNCHANGED vars
    BY <2>5, <1>1
       DEF Launch, Timeout, TimeoutStage, TimeoutMark, Environment, CreateRun, LaunchFails,
           RenameProject, DeleteProject, WaiveFinding, KillStageAttempt, KillMarkAttempt,
           KillInlineRun, flowVars, vars, At, TypeOK, Position
  <2> QED
    BY <2>3, <2>4, <2>5 DEF Next, Quiescent
<1>6. ASSUME wf'.pc = "completed"
      PROVE  run'.status \in {"completed", NoRow} /\ LastLogged' = "completed"
  <2>1. CASE wf.pc = "completed"
    <3>1. work.pc \notin Running /\ mark.pc # "read"
      BY <1>1, <2>1 DEF WorkPlaced, MarkPlaced
    <3>2. ~ (CreateRun \/ CommitSnapshot \/ CommitPersist \/ CommitMark)
      BY <2>1, <3>1 DEF CreateRun, CommitSnapshot, CommitPersist, CommitMark, Running
    <3>3. run' = run \/ run'.status = NoRow
      BY <1>1, <3>2, RunFrame
    <3>4. log' = log
      BY <3>2, Frame
    <3> QED
      BY <2>1, <3>3, <3>4 DEF OutcomesRecorded, LastLogged
  <2>2. CASE wf.pc # "completed"
    <3>1. CommitPersist /\ run.status # NoRow /\ wf.pc = "stage" /\ work.pc = "persist"
      BY <1>4, <1>6, <2>2 DEF CommitPersist
    <3>2. LogAction("completed") /\ run' = CompletedRow
      BY <3>1 DEF CommitPersist
    <3>3. LastLogged' = "completed"
      BY <1>1, <3>2, LogFacts DEF LastLogged, Terminal
    <3>4. run'.status = IF work.seen # "completed" THEN "completed" ELSE run.status
      BY <3>2 DEF CompletedRow
    <3>5. work.seen = "completed" => run.status = "completed"
      BY <3>1 DEF SeenPersisted
    <3> QED
      BY <3>3, <3>4, <3>5
  <2> QED
    BY <2>1, <2>2
<1>7. ASSUME wf'.pc = "failed"
      PROVE  Logged("failed")' \/ run'.status = NoRow
  <2>1. CASE wf.pc = "failed"
    <3>1. Logged("failed") => Logged("failed")'
      <4>1. log' = log => (Logged("failed")' <=> Logged("failed"))
        BY DEF Logged
      <4> QED
        BY <1>1, <4>1, LogFrame, LogFacts DEF Terminal
    <3>2. run.status = NoRow => run'.status = NoRow
      BY <1>1, <2>1, RunFrame
    <3> QED
      BY <2>1, <3>1, <3>2 DEF OutcomesRecorded
  <2>2. CASE wf.pc # "failed"
    <3>1. CASE ReadRunForMark /\ run.status = NoRow
      BY <3>1 DEF ReadRunForMark, dbVars
    <3>2. CASE CommitMark /\ run.status # NoRow
      <4>1. LogAction("failed")
        BY <3>2 DEF CommitMark
      <4> QED
        BY <1>1, <4>1, LogFacts DEF Terminal
    <3> QED
      BY <1>5, <1>7, <2>2, <3>1, <3>2
  <2> QED
    BY <2>1, <2>2
<1>8. ASSUME wf'.pc = "failed", "timeout" \notin faults
      PROVE  run'.status \in {"failed", NoRow}
  <2>1. CASE wf.pc = "failed"
    <3>1. work.pc \notin Running /\ mark.pc # "read"
      BY <1>1, <1>8, <2>1 DEF WorkPlaced, MarkPlaced
    <3>2. run' = run \/ run'.status = NoRow
      BY <1>1, <2>1, <3>1, RunFrame DEF Running
    <3> QED
      BY <1>8, <2>1, <3>2 DEF OutcomesRecorded
  <2>2. CASE wf.pc # "failed"
    <3>1. CASE ReadRunForMark /\ run.status = NoRow
      BY <3>1 DEF ReadRunForMark, dbVars
    <3>2. CASE CommitMark /\ run.status # NoRow
      <4>1. mark.pc = "read" /\ run' = FailedRow
        BY <3>2 DEF CommitMark
      <4>2. run.status \in {mark.seen, NoRow}
        BY <1>8, <4>1 DEF IInv, SeenWithoutTimeout
      <4> QED
        BY <3>2, <4>1, <4>2 DEF FailedRow
    <3> QED
      BY <1>5, <1>8, <2>2, <3>1, <3>2
  <2> QED
    BY <2>1, <2>2
<1> QED
  BY <1>2, <1>6, <1>7, <1>8 DEF OutcomesRecorded

(***************************************************************************)
(* A workflow that is closed as completed leaves a completed run behind,   *)
(* and one that is closed as failed a failed one, whatever was retried or  *)
(* in doubt; where attempts outlive their activities, the failure is still *)
(* in the audit log (AuditRunWorkflow.run, mark_audit_failed).             *)
(***************************************************************************)
THEOREM ClosedWorkflowsRecordTheirOutcome == Spec => []OutcomesRecorded
<1>1. Init => SeenPersisted /\ OutcomesRecorded
  BY DEF Init, NoWork, SeenPersisted, OutcomesRecorded
<1>2. IInv /\ SeenPersisted /\ OutcomesRecorded /\ [Next]_vars
          => SeenPersisted' /\ OutcomesRecorded'
  BY SeenPersistedStep, OutcomesRecordedStep
<1> QED
  BY <1>1, <1>2, Inductive, PTL DEF Spec

-----------------------------------------------------------------------------
(* The run winds down: StepsLeft is a ranking function                     *)

MarksCounted == wf.pc = "marking" => wf.attempt \in 1 .. MaxMarkAttempts

LEMMA MarksCountedStep ==
    ASSUME IInv, MarksCounted, [Next]_vars
    PROVE  MarksCounted'
<1>1. TypeOK /\ WorkPlaced /\ AttemptCounted /\ MaxMarkAttempts \in Nat \ {0}
  BY AuditRunAssumption DEF IInv
<1>2. CASE wf' = wf
  BY <1>2 DEF MarksCounted
<1>3. StageStep => wf' = wf \/ StageReturns \/ StageRaises
  BY DEF StageStep, ReadRunForSnapshot, CommitSnapshot, ReadOnlyStage, EvaluateControls,
         ReadProjectName, PutHtml, PutPdf, PutObject, CommitReport, ReadRunForPersist,
         CommitPersist, AttemptRaises, CommitAcked, flowVars
<1>4. CASE StageReturns
  BY <1>1, <1>2, <1>4, ReturnFacts DEF MarksCounted
<1>5. CASE StageRaises
  <2>1. wf.pc = "stage" => wf'.pc = "stage" \/ wf' = At("marking", wf.stage, 1)
    BY <1>1, <1>5 DEF StageRaises, TypeOK, Position
  <2>2. wf.pc # "stage" => wf' = wf
    BY <1>5 DEF StageRaises
  <2> QED
    BY <1>1, <1>2, <2>1, <2>2 DEF MarksCounted, At
<1>6. MarkStep => wf' = wf \/ MarkReturns \/ MarkRaises
  BY DEF MarkStep, ReadRunForMark, CommitMark, MarkAttemptRaises
<1>7. CASE MarkReturns
  BY <1>1, <1>2, <1>7, MarkReturnFacts DEF MarksCounted
<1>8. CASE MarkRaises
  <2>1. wf.attempt \in Nat /\ wf \in Position
    BY <1>1 DEF TypeOK, Position
  <2> QED
    BY <1>1, <1>2, <1>8, <2>1 DEF MarkRaises, MarksCounted, Position
<1>9. CASE TimeoutStage
  BY <1>1, <1>9 DEF TimeoutStage, At, MarksCounted
<1>10. CASE CreateRun \/ Launch \/ LaunchFails \/ TimeoutMark \/ KillInlineRun
  BY <1>1, <1>10 DEF CreateRun, Launch, LaunchFails, TimeoutMark, KillInlineRun,
                     MarksCounted, TypeOK, Position
<1>11. RenameProject \/ DeleteProject \/ WaiveFinding \/ KillStageAttempt \/ KillMarkAttempt
       \/ UNCHANGED vars => wf' = wf
  BY DEF RenameProject, DeleteProject, WaiveFinding, KillStageAttempt, KillMarkAttempt, flowVars, vars
<1> QED
  BY <1>2, <1>3, <1>4, <1>5, <1>6, <1>7, <1>8, <1>9, <1>10, <1>11
     DEF Next, Timeout, Environment, Quiescent

\* What the attempts in progress have left, before and after a step.
LEMMA AttemptSteps ==
    ASSUME TypeOK, TypeOK'
    PROVE  /\ WorkLeft \in 0 .. 4 /\ WorkLeft' \in 0 .. 4
           /\ work.pc \in Running => WorkLeft \in 1 .. 3
           /\ work = NoWork => WorkLeft = (IF wf.pc = "stage" THEN 4 ELSE 0)
           /\ work = Lost => WorkLeft = 0
           /\ work' = NoWork => WorkLeft' = (IF wf'.pc = "stage" THEN 4 ELSE 0)
           /\ work' = Lost => WorkLeft' = 0
           /\ work'.pc \in Running => WorkLeft' \in 1 .. 3
           /\ work' = work /\ (wf'.pc = wf.pc \/ work.pc # "idle") => WorkLeft' = WorkLeft
           /\ MarkLeft \in 0 .. 3 /\ MarkLeft' \in 0 .. 3
           /\ mark.pc = "read" => MarkLeft = 2
           /\ mark.pc = "lost" => MarkLeft = 0
           /\ mark.pc = "idle" /\ wf.pc = "marking" => MarkLeft >= 1
           /\ mark.pc # "read" /\ wf.pc # "marking" => MarkLeft = 0
           /\ mark'.pc = "read" => MarkLeft' = 2
           /\ mark'.pc = "lost" => MarkLeft' = 0
           /\ mark'.pc # "read" /\ wf'.pc # "marking" => MarkLeft' = 0
           /\ mark'.pc = "idle" /\ run'.status = NoRow => MarkLeft' <= 1
           /\ mark' = mark /\ wf'.pc = wf.pc /\ (run'.status = NoRow \/ run.status # NoRow)
                  => MarkLeft' <= MarkLeft
<1>1. /\ work.pc \in {"idle", "lost", "snapshot", "persist", "render", "put_html", "put_pdf"}
      /\ work = NoWork <=> work.pc = "idle"
      /\ work = Lost <=> work.pc = "lost"
  BY WorkFacts DEF Running, ReportPc
<1>2. /\ work'.pc \in {"idle", "lost", "snapshot", "persist", "render", "put_html", "put_pdf"}
      /\ work' = NoWork <=> work'.pc = "idle"
      /\ work' = Lost <=> work'.pc = "lost"
  <2>1. CASE work' \in {NoWork, Lost}
    BY <2>1 DEF NoWork, Lost
  <2>2. CASE work' \notin {NoWork, Lost}
    BY <2>2 DEF TypeOK, WorkState, NoWork, Lost
  <2> QED
    BY <2>1, <2>2
<1>3. /\ mark.pc \in {"idle", "lost", "read"}
      /\ mark = NoWork <=> mark.pc = "idle"
  BY MarkFacts
<1>4. /\ mark'.pc \in {"idle", "lost", "read"}
      /\ mark' = NoWork <=> mark'.pc = "idle"
  BY DEF TypeOK, MarkState, NoWork, Lost
<1>5. /\ WorkLeft \in 0 .. 4
      /\ work.pc \in Running => WorkLeft \in 1 .. 3
      /\ work = NoWork => WorkLeft = (IF wf.pc = "stage" THEN 4 ELSE 0)
      /\ work = Lost => WorkLeft = 0
  BY <1>1 DEF WorkLeft, Running, ReportPc
<1>6. /\ WorkLeft' \in 0 .. 4
      /\ work'.pc \in Running => WorkLeft' \in 1 .. 3
      /\ work' = NoWork => WorkLeft' = (IF wf'.pc = "stage" THEN 4 ELSE 0)
      /\ work' = Lost => WorkLeft' = 0
      /\ work' = work /\ (wf'.pc = wf.pc \/ work.pc # "idle") => WorkLeft' = WorkLeft
  BY <1>1, <1>2 DEF WorkLeft, Running, ReportPc
<1>7. /\ MarkLeft \in 0 .. 3
      /\ mark.pc = "read" => MarkLeft = 2
      /\ mark.pc = "lost" => MarkLeft = 0
      /\ mark.pc = "idle" /\ wf.pc = "marking" => MarkLeft >= 1
      /\ mark.pc # "read" /\ wf.pc # "marking" => MarkLeft = 0
  BY <1>3 DEF MarkLeft
<1>8. /\ MarkLeft' \in 0 .. 3
      /\ mark'.pc = "read" => MarkLeft' = 2
      /\ mark'.pc = "lost" => MarkLeft' = 0
      /\ mark'.pc # "read" /\ wf'.pc # "marking" => MarkLeft' = 0
      /\ mark'.pc = "idle" /\ run'.status = NoRow => MarkLeft' <= 1
  BY <1>4 DEF MarkLeft
<1>9. mark' = mark /\ wf'.pc = wf.pc /\ (run'.status = NoRow \/ run.status # NoRow)
          => MarkLeft' <= MarkLeft
  BY <1>3, <1>4 DEF MarkLeft
<1> QED
  BY <1>5, <1>6, <1>7, <1>8, <1>9

\* What the workflow itself has left, by its position.
LEMMA WorkflowSteps ==
    ASSUME TypeOK, AttemptCounted, MarksCounted
    PROVE  /\ WorkflowLeft \in Nat
           /\ wf.pc = "stage" => /\ AttemptsLeft \in Nat
                                 /\ WorkflowLeft = 4 * AttemptsLeft + 3 * MaxMarkAttempts + 2
                                 /\ AttemptsLeft <= 8 * MaxAttempts - 1
           /\ wf.pc = "marking" => WorkflowLeft = 3 * (MaxMarkAttempts - wf.attempt) + 1
           /\ wf.pc = "none" => WorkflowLeft = 32 * MaxAttempts + 3 * MaxMarkAttempts + 4
           /\ wf.pc = "created" => WorkflowLeft = 32 * MaxAttempts + 3 * MaxMarkAttempts + 3
           /\ wf.pc \in {"completed", "failed", "abandoned"} => WorkflowLeft = 0
<1>1. MaxAttempts \in Nat \ {0} /\ MaxMarkAttempts \in Nat \ {0} /\ Len(Stage) = 8
  BY AuditRunAssumption, StageFacts
<1>2. wf.pc \in {"none", "created", "stage", "marking", "abandoned", "completed", "failed"}
      /\ wf.stage \in 1 .. 8 /\ wf.attempt \in Nat \ {0}
  BY <1>1 DEF TypeOK, Position, Terminal
<1>3. CASE wf.pc = "stage"
  <2>1. wf.attempt \in 1 .. MaxAttempts
    BY <1>3 DEF AttemptCounted, Attempt
  <2>2. \A s \in 1 .. 8 : MaxAttempts * (8 - s) \in 0 .. 7 * MaxAttempts
    BY <1>1
  <2>3. AttemptsLeft = MaxAttempts * (8 - wf.stage) + MaxAttempts - wf.attempt
    BY <1>1 DEF AttemptsLeft
  <2>4. MaxAttempts * (8 - wf.stage) \in 0 .. 7 * MaxAttempts
    BY <1>2, <2>2
  <2>5. AttemptsLeft \in Nat /\ AttemptsLeft <= 8 * MaxAttempts - 1
    BY <1>1, <2>1, <2>3, <2>4
  <2> QED
    BY <1>1, <1>3, <2>5 DEF WorkflowLeft
<1>4. CASE wf.pc = "marking"
  BY <1>1, <1>4 DEF WorkflowLeft, MarksCounted
<1>5. CASE wf.pc \in {"none", "created"}
  BY <1>1, <1>5 DEF WorkflowLeft
<1>6. CASE wf.pc \in {"completed", "failed", "abandoned"}
  BY <1>6 DEF WorkflowLeft
<1> QED
  BY <1>2, <1>3, <1>4, <1>5, <1>6

\* The same after a step.
LEMMA WorkflowStepsNext ==
    ASSUME TypeOK', AttemptCounted', MarksCounted'
    PROVE  /\ WorkflowLeft' \in Nat
           /\ wf'.pc = "stage" => /\ AttemptsLeft' \in Nat
                                  /\ WorkflowLeft' = 4 * AttemptsLeft' + 3 * MaxMarkAttempts + 2
                                  /\ AttemptsLeft' <= 8 * MaxAttempts - 1
           /\ wf'.pc = "marking" => WorkflowLeft' = 3 * (MaxMarkAttempts - wf'.attempt) + 1
           /\ wf'.pc = "none" => WorkflowLeft' = 32 * MaxAttempts + 3 * MaxMarkAttempts + 4
           /\ wf'.pc = "created" => WorkflowLeft' = 32 * MaxAttempts + 3 * MaxMarkAttempts + 3
           /\ wf'.pc \in {"completed", "failed", "abandoned"} => WorkflowLeft' = 0
<1>1. MaxAttempts \in Nat \ {0} /\ MaxMarkAttempts \in Nat \ {0} /\ Len(Stage) = 8
  BY AuditRunAssumption, StageFacts
<1>2. wf'.pc \in {"none", "created", "stage", "marking", "abandoned", "completed", "failed"}
      /\ wf'.stage \in 1 .. 8 /\ wf'.attempt \in Nat \ {0}
  BY <1>1 DEF TypeOK, Position, Terminal
<1>3. CASE wf'.pc = "stage"
  <2>1. wf'.attempt \in 1 .. MaxAttempts
    BY <1>3 DEF AttemptCounted, Attempt
  <2>2. \A s \in 1 .. 8 : MaxAttempts * (8 - s) \in 0 .. 7 * MaxAttempts
    BY <1>1
  <2>3. AttemptsLeft' = MaxAttempts * (8 - wf'.stage) + MaxAttempts - wf'.attempt
    BY <1>1 DEF AttemptsLeft
  <2>4. MaxAttempts * (8 - wf'.stage) \in 0 .. 7 * MaxAttempts
    BY <1>2, <2>2
  <2>5. AttemptsLeft' \in Nat /\ AttemptsLeft' <= 8 * MaxAttempts - 1
    BY <1>1, <2>1, <2>3, <2>4
  <2> QED
    BY <1>1, <1>3, <2>5 DEF WorkflowLeft
<1>4. CASE wf'.pc = "marking"
  BY <1>1, <1>4 DEF WorkflowLeft, MarksCounted
<1>5. CASE wf'.pc \in {"none", "created"}
  BY <1>1, <1>5 DEF WorkflowLeft
<1>6. CASE wf'.pc \in {"completed", "failed", "abandoned"}
  BY <1>6 DEF WorkflowLeft
<1> QED
  BY <1>2, <1>3, <1>4, <1>5, <1>6

RankInv == TypeOK /\ WorkPlaced /\ MarkPlaced /\ AttemptCounted /\ MarksCounted

\* An attempt of a stage ends: the workflow gives up more than the next attempt gets.
LEMMA StageEnds ==
    ASSUME RankInv, RankInv', wf.pc = "stage", StageReturns \/ StageRaises
    PROVE  /\ wf'.pc = "stage" => WorkflowLeft' + 4 <= WorkflowLeft
           /\ wf'.pc = "marking" => WorkflowLeft' + 4 <= WorkflowLeft
           /\ wf'.pc \in {"stage", "marking", "completed"}
           /\ wf'.pc = "completed" => WorkflowLeft' = 0
<1>1. MaxAttempts \in Nat \ {0} /\ MaxMarkAttempts \in Nat \ {0} /\ Len(Stage) = 8
  BY AuditRunAssumption, StageFacts
<1>2. TypeOK /\ AttemptCounted /\ MarksCounted /\ TypeOK' /\ AttemptCounted' /\ MarksCounted'
  BY DEF RankInv
<1>3. wf \in Position /\ wf.stage \in 1 .. 8 /\ wf.attempt \in 1 .. MaxAttempts
  BY <1>1, <1>2 DEF TypeOK, Position, AttemptCounted, Attempt
<1>4. CASE wf'.pc = "completed"
  BY <1>2, <1>4, WorkflowStepsNext
<1>5. CASE StageReturns /\ wf.stage < 8
  <2>1. wf'.pc = "stage" /\ wf'.stage = wf.stage + 1 /\ wf'.attempt = 1
    BY <1>2, <1>5, ReturnFacts
  <2>2. MaxAttempts * (8 - (wf.stage + 1)) = MaxAttempts * (8 - wf.stage) - MaxAttempts
        /\ MaxAttempts * (8 - wf.stage) \in Int
    <3>1. \A s \in 1 .. 8 : MaxAttempts * (8 - (s + 1)) = MaxAttempts * (8 - s) - MaxAttempts
                            /\ MaxAttempts * (8 - s) \in Int
      BY <1>1
    <3> QED
      BY <1>3, <3>1
  <2>3. AttemptsLeft = MaxAttempts * (8 - wf.stage) + MaxAttempts - wf.attempt
    BY <1>1 DEF AttemptsLeft
  <2>4. AttemptsLeft' = MaxAttempts * (8 - (wf.stage + 1)) + MaxAttempts - 1
    BY <1>1, <2>1 DEF AttemptsLeft
  <2>5. AttemptsLeft' + 1 <= AttemptsLeft
    BY <1>1, <1>3, <2>2, <2>3, <2>4
  <2> QED
    BY <1>1, <1>2, <2>1, <2>5, WorkflowSteps, WorkflowStepsNext
<1>6. CASE StageReturns /\ wf.stage = 8
  BY <1>2, <1>4, <1>6, ReturnFacts
<1>7. CASE StageRaises /\ wf.attempt < AttemptLimit
  <2>1. wf' = [wf EXCEPT !.attempt = @ + 1]
    BY <1>7 DEF StageRaises
  <2>2. wf'.pc = "stage" /\ wf'.stage = wf.stage /\ wf'.attempt = wf.attempt + 1
    BY <1>3, <2>1 DEF Position
  <2>3. AttemptsLeft' + 1 = AttemptsLeft
    <3>1. \A s \in 1 .. 8 : MaxAttempts * (8 - s) \in Int
      BY <1>1
    <3>2. AttemptsLeft = MaxAttempts * (8 - wf.stage) + MaxAttempts - wf.attempt
      BY <1>1 DEF AttemptsLeft
    <3>3. AttemptsLeft' = MaxAttempts * (8 - wf.stage) + MaxAttempts - (wf.attempt + 1)
      BY <1>1, <2>2 DEF AttemptsLeft
    <3> QED
      BY <1>1, <1>3, <3>1, <3>2, <3>3
  <2> QED
    BY <1>1, <1>2, <2>2, <2>3, WorkflowSteps, WorkflowStepsNext
<1>8. CASE StageRaises /\ ~ (wf.attempt < AttemptLimit)
  <2>1. wf'.pc = "marking" /\ wf'.attempt = 1
    BY <1>8 DEF StageRaises, At
  <2> QED
    BY <1>1, <1>2, <2>1, WorkflowSteps, WorkflowStepsNext
<1> QED
  BY <1>3, <1>5, <1>6, <1>7, <1>8

\* An attempt to mark the run failed ends.
LEMMA MarkEnds ==
    ASSUME RankInv, RankInv', wf.pc = "marking", MarkReturns \/ MarkRaises
    PROVE  \/ wf'.pc \in {"failed", "abandoned"} /\ WorkflowLeft' = 0 /\ WorkflowLeft >= 1
           \/ wf'.pc = "marking" /\ WorkflowLeft' + 3 <= WorkflowLeft
           \/ wf' = wf /\ ~ CanRetryMark /\ WorkflowLeft' = WorkflowLeft
<1>1. MaxMarkAttempts \in Nat \ {0}
  BY AuditRunAssumption
<1>2. TypeOK /\ AttemptCounted /\ MarksCounted /\ TypeOK' /\ AttemptCounted' /\ MarksCounted'
  BY DEF RankInv
<1>3. wf \in Position /\ wf.attempt \in 1 .. MaxMarkAttempts
  BY <1>2 DEF TypeOK, MarksCounted
<1>4. WorkflowLeft = 3 * (MaxMarkAttempts - wf.attempt) + 1 /\ WorkflowLeft >= 1
  BY <1>1, <1>2, <1>3, WorkflowSteps
<1>5. CASE MarkReturns
  BY <1>2, <1>4, <1>5, MarkReturnFacts, WorkflowStepsNext
<1>6. CASE MarkRaises /\ mode = "inline"
  <2>1. wf'.pc = "abandoned"
    BY <1>3, <1>6 DEF MarkRaises, Position
  <2> QED
    BY <1>2, <1>4, <2>1, WorkflowStepsNext
<1>7. CASE MarkRaises /\ mode # "inline" /\ wf.attempt < MaxMarkAttempts
  <2>1. wf'.pc = "marking" /\ wf'.attempt = wf.attempt + 1
    BY <1>3, <1>7 DEF MarkRaises, Position
  <2>2. WorkflowLeft' = 3 * (MaxMarkAttempts - (wf.attempt + 1)) + 1
    BY <1>2, <2>1, WorkflowStepsNext
  <2> QED
    BY <1>1, <1>3, <1>4, <2>1, <2>2
<1>8. CASE MarkRaises /\ mode # "inline" /\ ~ (wf.attempt < MaxMarkAttempts)
  <2>1. wf' = wf
    BY <1>8 DEF MarkRaises
  <2>2. WorkflowLeft' = 3 * (MaxMarkAttempts - wf.attempt) + 1
    BY <1>2, <2>1, WorkflowStepsNext
  <2> QED
    BY <1>4, <1>8, <2>1, <2>2 DEF CanRetryMark
<1> QED
  BY <1>5, <1>6, <1>7, <1>8

LEMMA RankTypes ==
    ASSUME RankInv, RankInv'
    PROVE  /\ WorkflowLeft \in Nat /\ WorkLeft \in Nat /\ MarkLeft \in Nat
           /\ WorkflowLeft' \in Nat /\ WorkLeft' \in Nat /\ MarkLeft' \in Nat
           /\ StepsLeft = WorkflowLeft + WorkLeft + MarkLeft
           /\ StepsLeft' = WorkflowLeft' + WorkLeft' + MarkLeft'
<1>1. TypeOK /\ AttemptCounted /\ MarksCounted /\ TypeOK' /\ AttemptCounted' /\ MarksCounted'
  BY DEF RankInv
<1>2. WorkflowLeft \in Nat /\ WorkflowLeft' \in Nat
  BY <1>1, WorkflowSteps, WorkflowStepsNext
<1>3. WorkLeft \in Nat /\ WorkLeft' \in Nat /\ MarkLeft \in Nat /\ MarkLeft' \in Nat
  BY <1>1, AttemptSteps
<1> QED
  BY <1>2, <1>3 DEF StepsLeft

\* Every step of an attempt of a stage uses up one of the steps left.
LEMMA StageStepCounts ==
    ASSUME RankInv, RankInv', [Next]_vars, StageStep
    PROVE  StepsLeft' < StepsLeft
<1>1. /\ TypeOK /\ WorkPlaced /\ MarkPlaced /\ AttemptCounted /\ MarksCounted
      /\ TypeOK' /\ AttemptCounted' /\ MarksCounted'
  BY DEF RankInv
<1>2. mark' = mark
  BY DEF StageStep, ReadRunForSnapshot, CommitSnapshot, ReadOnlyStage, EvaluateControls,
         ReadProjectName, PutHtml, PutPdf, PutObject, CommitReport, ReadRunForPersist,
         CommitPersist, AttemptRaises
<1>3. \/ /\ StageReturns \/ StageRaises
         /\ work # Lost
         /\ wf.pc = "stage" \/ work.pc \in Running
      \/ wf' = wf /\ work = NoWork /\ work'.pc \in Running /\ wf.pc = "stage"
      \/ wf' = wf /\ work.pc = "render" /\ work'.pc = "put_html"
      \/ wf' = wf /\ work.pc = "put_html" /\ work'.pc = "put_pdf"
  <2>1. CASE ReadRunForSnapshot \/ ReadOnlyStage \/ EvaluateControls \/ ReadProjectName \/ ReadRunForPersist
    BY <2>1 DEF ReadRunForSnapshot, ReadOnlyStage, EvaluateControls, ReadProjectName,
                ReadRunForPersist, CanBegin, InStage, flowVars, NoWork, Lost, Running, ReportPc
  <2>2. CASE PutHtml \/ PutPdf
    BY <1>1, <2>2, WorkFacts DEF PutHtml, PutPdf, PutObject, flowVars, ReportPc
  <2>3. CASE CommitSnapshot \/ CommitReport \/ CommitPersist
    BY <2>3 DEF CommitSnapshot, CommitReport, CommitPersist, CommitAcked, Lost, Running, ReportPc
  <2>4. CASE AttemptRaises
    BY <1>1, <2>4, WorkFacts DEF AttemptRaises
  <2> QED
    BY <2>1, <2>2, <2>3, <2>4 DEF StageStep
<1>4. CASE wf.pc = "stage" /\ (StageReturns \/ StageRaises) /\ work # Lost
  <2>1. work' = NoWork
    BY <1>4 DEF StageReturns, StageRaises
  <2>2. WorkLeft >= 1 /\ WorkLeft' = (IF wf'.pc = "stage" THEN 4 ELSE 0)
    BY <1>1, <1>4, <2>1, AttemptSteps, WorkFacts
  <2>3. MarkLeft = 0 /\ MarkLeft' <= 3 /\ (wf'.pc # "marking" => MarkLeft' = 0)
    BY <1>1, <1>2, <1>4, AttemptSteps DEF MarkPlaced
  <2>4. WorkflowLeft >= 1
    BY <1>1, <1>4, WorkflowSteps, AuditRunAssumption
  <2> QED
    BY <1>4, <2>2, <2>3, <2>4, StageEnds, RankTypes
<1>5. CASE wf.pc # "stage" /\ (StageReturns \/ StageRaises) /\ work.pc \in Running
  <2>1. work' = NoWork /\ wf' = wf
    BY <1>5 DEF StageReturns, StageRaises
  <2>2. WorkLeft >= 1 /\ WorkLeft' = 0
    BY <1>1, <1>5, <2>1, AttemptSteps
  <2>3. run'.status = NoRow \/ run.status # NoRow
    <3>1. wf.pc # "none"
      BY <1>1, <1>5 DEF WorkPlaced
    <3> QED
      BY <1>1, <3>1, RunFrame
  <2>4. MarkLeft' <= MarkLeft
    BY <1>1, <1>2, <2>1, <2>3, AttemptSteps
  <2>5. WorkflowLeft' = WorkflowLeft
    BY <2>1 DEF WorkflowLeft, AttemptsLeft
  <2> QED
    BY <2>2, <2>4, <2>5, RankTypes
<1>6. CASE wf' = wf /\ ~ (StageReturns \/ StageRaises)
  <2>1. run' = run
    BY <1>6 DEF StageStep, ReadRunForSnapshot, CommitSnapshot, ReadOnlyStage, EvaluateControls,
         ReadProjectName, PutHtml, PutPdf, PutObject, CommitReport, ReadRunForPersist,
         CommitPersist, AttemptRaises, CommitAcked, dbVars
  <2>2. MarkLeft' <= MarkLeft
    BY <1>1, <1>2, <1>6, <2>1, AttemptSteps
  <2>3. WorkflowLeft' = WorkflowLeft
    BY <1>6 DEF WorkflowLeft, AttemptsLeft
  <2>4. WorkLeft' < WorkLeft
    <3>1. CASE work = NoWork /\ work'.pc \in Running /\ wf.pc = "stage"
      BY <1>1, <3>1, AttemptSteps
    <3>2. CASE work.pc = "render" /\ work'.pc = "put_html"
      BY <3>2 DEF WorkLeft, NoWork
    <3>3. CASE work.pc = "put_html" /\ work'.pc = "put_pdf"
      BY <3>3 DEF WorkLeft, NoWork
    <3> QED
      BY <1>3, <1>6, <3>1, <3>2, <3>3
  <2> QED
    BY <2>2, <2>3, <2>4, RankTypes
<1>7. StageReturns \/ StageRaises => work'.pc \notin Running
  BY DEF StageReturns, StageRaises, NoWork, Running, ReportPc
<1>8. work'.pc = "put_html" \/ work'.pc = "put_pdf" => work'.pc \in Running
  BY DEF Running, ReportPc
<1> QED
  BY <1>3, <1>4, <1>5, <1>6, <1>7, <1>8

\* So does every step of an attempt to mark the run failed.
LEMMA MarkStepCounts ==
    ASSUME RankInv, RankInv', [Next]_vars, MarkStep
    PROVE  StepsLeft' < StepsLeft
<1>1. /\ TypeOK /\ MarkPlaced /\ TypeOK'
  BY DEF RankInv
<1>2. work' = work
  BY DEF MarkStep, ReadRunForMark, CommitMark, MarkAttemptRaises
<1>3. wf.pc # "stage" /\ wf'.pc # "stage"
  <2>1. MarkReturns \/ MarkRaises => wf'.pc # "stage" \/ wf' = wf
    BY <1>1, MarkReturnFacts, MarkRaiseFacts
  <2> QED
    BY <1>1, <2>1, MarkFacts DEF MarkStep, ReadRunForMark, CommitMark, MarkAttemptRaises, MarkPlaced
<1>4. WorkLeft' = WorkLeft
  BY <1>2, <1>3 DEF WorkLeft
<1>5. CASE ReadRunForMark
  <2>1. wf.pc = "marking" /\ mark.pc = "idle"
    BY <1>5 DEF ReadRunForMark, NoWork
  <2>2. CASE run.status = NoRow
    <3>1. MarkReturns /\ mark' = NoWork
      BY <1>5, <2>2 DEF ReadRunForMark, MarkReturns
    <3>2. MarkLeft >= 1 /\ (wf'.pc # "marking" => MarkLeft' = 0)
      BY <1>1, <2>1, <3>1, AttemptSteps DEF NoWork
    <3>3. wf'.pc = "failed"
      BY <1>1, <2>1, <3>1, MarkReturnFacts
    <3> QED
      BY <1>4, <2>1, <3>1, <3>2, <3>3, MarkEnds, RankTypes
  <2>3. CASE run.status # NoRow
    <3>1. wf' = wf /\ mark'.pc = "read" /\ mark = NoWork
      BY <1>5, <2>3 DEF ReadRunForMark
    <3>2. MarkLeft = 3 /\ MarkLeft' = 2
      BY <2>1, <2>3, <3>1 DEF MarkLeft, NoWork
    <3>3. WorkflowLeft' = WorkflowLeft
      BY <3>1 DEF WorkflowLeft, AttemptsLeft
    <3> QED
      BY <1>4, <3>2, <3>3, RankTypes
  <2> QED
    BY <2>2, <2>3
<1>6. CASE CommitMark \/ MarkAttemptRaises
  <2>1. MarkReturns \/ MarkRaises
    BY <1>6 DEF CommitMark, MarkAttemptRaises
  <2>2. mark' = NoWork /\ mark'.pc = "idle"
    BY <2>1 DEF MarkReturns, MarkRaises, NoWork
  <2>3. CASE wf.pc # "marking"
    <3>1. mark.pc = "read" /\ wf' = wf
      BY <1>1, <1>6, <2>1, <2>3, MarkFacts
         DEF CommitMark, MarkAttemptRaises, MarkReturns, MarkRaises, MarkPlaced
    <3>2. MarkLeft = 2 /\ MarkLeft' = 0
      BY <1>1, <2>2, <2>3, <3>1, AttemptSteps
    <3>3. WorkflowLeft' = WorkflowLeft
      BY <3>1 DEF WorkflowLeft, AttemptsLeft
    <3> QED
      BY <1>4, <3>2, <3>3, RankTypes
  <2>4. CASE wf.pc = "marking"
    <3>1. MarkLeft >= 1 /\ MarkLeft' <= 3
      BY <1>1, <1>6, <2>4, AttemptSteps, MarkFacts DEF CommitMark, MarkAttemptRaises
    <3>2. CASE wf'.pc \in {"failed", "abandoned"} /\ WorkflowLeft' = 0 /\ WorkflowLeft >= 1
      <4>1. MarkLeft' = 0
        BY <1>1, <2>2, <3>2, AttemptSteps
      <4> QED
        BY <1>4, <3>1, <3>2, <4>1, RankTypes
    <3>3. CASE WorkflowLeft' + 3 <= WorkflowLeft
      BY <1>4, <3>1, <3>3, RankTypes
    <3>4. CASE wf' = wf /\ ~ CanRetryMark /\ WorkflowLeft' = WorkflowLeft
      <4>1. CommitMark /\ run.status = NoRow /\ run' = run
        <5>1. ~ MarkReturns
          BY <1>1, <2>4, <3>4, MarkReturnFacts
        <5> QED
          BY <1>6, <3>4, <5>1 DEF CommitMark, MarkAttemptRaises
      <4>2. MarkLeft = 2 /\ MarkLeft' <= 1
        BY <1>1, <2>2, <4>1, AttemptSteps DEF CommitMark
      <4> QED
        BY <1>4, <3>4, <4>2, RankTypes
    <3> QED
      BY <2>1, <2>4, <3>2, <3>3, <3>4, MarkEnds
  <2> QED
    BY <2>3, <2>4
<1> QED
  BY <1>5, <1>6 DEF MarkStep

\* A timeout leaves the failure path no more than the stage still had.
LEMMA TimeoutCounts ==
    ASSUME RankInv, RankInv', Timeout
    PROVE  StepsLeft' < StepsLeft
<1>1. /\ TypeOK /\ WorkPlaced /\ MarkPlaced /\ AttemptCounted /\ MarksCounted
      /\ TypeOK' /\ AttemptCounted' /\ MarksCounted' /\ MaxMarkAttempts \in Nat \ {0}
  BY AuditRunAssumption DEF RankInv
<1>2. CASE TimeoutStage
  <2>1. wf.pc = "stage" /\ wf'.pc = "marking" /\ wf'.attempt = 1 /\ mark' = mark /\ work' = Abandon(work)
    BY <1>2 DEF TimeoutStage, At
  <2>2. WorkflowLeft' + 4 <= WorkflowLeft
    <3>1. WorkflowLeft' = 3 * (MaxMarkAttempts - 1) + 1
      BY <1>1, <2>1, WorkflowStepsNext
    <3>2. WorkflowLeft >= 3 * MaxMarkAttempts + 2
      BY <1>1, <2>1, WorkflowSteps
    <3> QED
      BY <1>1, <3>1, <3>2, RankTypes
  <2>3. WorkLeft' <= WorkLeft
    <3>1. CASE work = Lost \/ work = NoWork
      BY <1>1, <2>1, <3>1, AttemptSteps DEF Abandon, NoWork, Lost
    <3>2. CASE work # Lost /\ work # NoWork
      BY <1>1, <2>1, <3>2, AttemptSteps, WorkFacts DEF Abandon
    <3> QED
      BY <3>1, <3>2
  <2>4. MarkLeft' <= 3
    BY <1>1, AttemptSteps
  <2> QED
    BY <2>2, <2>3, <2>4, RankTypes
<1>3. CASE TimeoutMark
  <2>1. wf.pc = "marking" /\ wf'.pc = "abandoned" /\ mark' = Abandon(mark) /\ work' = work
    BY <1>1, <1>3 DEF TimeoutMark, TypeOK, Position
  <2>2. WorkflowLeft' = 0 /\ WorkflowLeft >= 1
    <3>1. WorkflowLeft' = 0
      BY <1>1, <2>1, WorkflowStepsNext
    <3>2. wf.attempt \in 1 .. MaxMarkAttempts
      BY <1>1, <2>1 DEF MarksCounted
    <3> QED
      BY <1>1, <2>1, <3>1, <3>2, WorkflowSteps
  <2>3. MarkLeft' <= MarkLeft
    BY <1>1, <2>1, AttemptSteps, MarkFacts DEF Abandon, NoWork, Lost
  <2>4. WorkLeft' = WorkLeft
    BY <2>1 DEF WorkLeft
  <2> QED
    BY <2>2, <2>3, <2>4, RankTypes
<1> QED
  BY <1>2, <1>3 DEF Timeout

\* Launching a run, or losing it, takes it nearer to its end as well.
LEMMA LaunchCounts ==
    ASSUME RankInv, RankInv', Launch \/ CreateRun \/ LaunchFails
    PROVE  StepsLeft' < StepsLeft
<1>1. /\ TypeOK /\ WorkPlaced /\ MarkPlaced /\ AttemptCounted /\ MarksCounted
      /\ TypeOK' /\ AttemptCounted' /\ MarksCounted'
      /\ MaxMarkAttempts \in Nat \ {0} /\ MaxAttempts \in Nat \ {0}
  BY AuditRunAssumption DEF RankInv
<1>2. work' = work /\ mark' = mark
  BY DEF Launch, CreateRun, LaunchFails
<1>3. wf.pc \in {"none", "created"}
  BY DEF Launch, CreateRun, LaunchFails
<1>4. work.pc = "idle" /\ mark.pc = "idle" /\ work = NoWork
  BY <1>1, <1>3, WorkFacts, MarkFacts DEF WorkPlaced, MarkPlaced
<1>5. MarkLeft = 0 /\ WorkLeft = 0
  BY <1>1, <1>3, <1>4, AttemptSteps
<1>6. wf'.pc # "marking" => MarkLeft' = 0
  BY <1>1, <1>2, <1>4, AttemptSteps
<1>7. WorkLeft' = (IF wf'.pc = "stage" THEN 4 ELSE 0)
  BY <1>1, <1>2, <1>4, AttemptSteps
<1>8. CASE CreateRun
  <2>1. wf.pc = "none" /\ wf'.pc = "created"
    BY <1>1, <1>8 DEF CreateRun, TypeOK, Position
  <2>2. WorkflowLeft' + 1 = WorkflowLeft
    BY <1>1, <2>1, WorkflowSteps, WorkflowStepsNext
  <2> QED
    BY <1>5, <1>6, <1>7, <2>1, <2>2, RankTypes
<1>9. CASE Launch
  <2>1. wf.pc = "created" /\ wf'.pc = "stage"
    BY <1>1, <1>9 DEF Launch, TypeOK, Position
  <2>2. WorkflowLeft = 32 * MaxAttempts + 3 * MaxMarkAttempts + 3
    BY <1>1, <2>1, WorkflowSteps
  <2>3. AttemptsLeft' \in Nat /\ WorkflowLeft' = 4 * AttemptsLeft' + 3 * MaxMarkAttempts + 2
        /\ AttemptsLeft' <= 8 * MaxAttempts - 1
    BY <1>1, <2>1, WorkflowStepsNext
  <2>4. WorkflowLeft' + 4 < WorkflowLeft
    <3>1. \A n \in Nat : n <= 8 * MaxAttempts - 1 =>
              4 * n + 3 * MaxMarkAttempts + 2 + 4 < 32 * MaxAttempts + 3 * MaxMarkAttempts + 3
      BY AuditRunAssumption
    <3> QED
      BY <2>2, <2>3, <3>1
  <2> QED
    BY <1>5, <1>6, <1>7, <2>1, <2>4, RankTypes
<1>10. CASE LaunchFails
  <2>1. wf.pc = "created" /\ wf'.pc = "abandoned"
    BY <1>1, <1>10 DEF LaunchFails, TypeOK, Position
  <2>2. WorkflowLeft = 32 * MaxAttempts + 3 * MaxMarkAttempts + 3 /\ WorkflowLeft' = 0
    BY <1>1, <2>1, WorkflowSteps, WorkflowStepsNext
  <2> QED
    BY <1>1, <1>5, <1>6, <1>7, <2>1, <2>2, RankTypes
<1> QED
  BY <1>8, <1>9, <1>10

\* A crash never gives an attempt more to do.
LEMMA KillCounts ==
    ASSUME RankInv, RankInv', KillStageAttempt \/ KillMarkAttempt \/ KillInlineRun
    PROVE  StepsLeft' < StepsLeft
<1>1. /\ TypeOK /\ WorkPlaced /\ MarkPlaced /\ AttemptCounted /\ MarksCounted
      /\ TypeOK' /\ AttemptCounted' /\ MarksCounted' /\ MaxMarkAttempts \in Nat \ {0}
  BY AuditRunAssumption DEF RankInv
<1>2. CASE KillStageAttempt
  <2>1. wf' = wf /\ mark' = mark /\ run' = run
    BY <1>2 DEF KillStageAttempt, flowVars, dbVars
  <2>2. WorkflowLeft' = WorkflowLeft /\ MarkLeft' = MarkLeft
    BY <2>1 DEF WorkflowLeft, AttemptsLeft, MarkLeft
  <2>3. WorkLeft >= 1
    BY <1>1, <1>2, AttemptSteps, WorkFacts DEF KillStageAttempt
  <2>4. WorkLeft' = 0
    BY <1>1, <1>2, <2>1, AttemptSteps DEF KillStageAttempt
  <2> QED
    BY <2>2, <2>3, <2>4, RankTypes
<1>3. CASE KillMarkAttempt
  <2>1. wf' = wf /\ work' = work
    BY <1>3 DEF KillMarkAttempt, flowVars
  <2>2. WorkflowLeft' = WorkflowLeft /\ WorkLeft' = WorkLeft
    BY <2>1 DEF WorkflowLeft, AttemptsLeft, WorkLeft
  <2>3. MarkLeft >= 1
    BY <1>1, <1>3, AttemptSteps, MarkFacts DEF KillMarkAttempt
  <2>4. MarkLeft' = 0
    BY <1>1, <1>3, <2>1, AttemptSteps DEF KillMarkAttempt, NoWork, Lost
  <2> QED
    BY <2>2, <2>3, <2>4, RankTypes
<1>4. CASE KillInlineRun
  <2>1. wf.pc \in {"stage", "marking"} /\ wf'.pc = "abandoned" /\ work' = NoWork /\ mark' = NoWork
    BY <1>1, <1>4 DEF KillInlineRun, TypeOK, Position
  <2>2. WorkflowLeft' = 0
    BY <1>1, <2>1, WorkflowStepsNext
  <2>3. WorkflowLeft >= 1
    <3>1. CASE wf.pc = "stage"
      BY <1>1, <3>1, WorkflowSteps
    <3>2. CASE wf.pc = "marking"
      <4>1. wf.attempt \in 1 .. MaxMarkAttempts
        BY <1>1, <3>2 DEF MarksCounted
      <4> QED
        BY <1>1, <3>2, <4>1, WorkflowSteps
    <3> QED
      BY <2>1, <3>1, <3>2
  <2>4. WorkLeft' = 0 /\ MarkLeft' = 0
    BY <1>1, <2>1, AttemptSteps DEF NoWork
  <2> QED
    BY <2>2, <2>3, <2>4, RankTypes
<1> QED
  BY <1>2, <1>3, <1>4

\* What users do changes no attempt, and never adds to the steps left.
LEMMA UsersCountNothing ==
    ASSUME RankInv, RankInv', RenameProject \/ DeleteProject \/ WaiveFinding \/ UNCHANGED vars
    PROVE  /\ StepsLeft' <= StepsLeft
           /\ UNCHANGED <<flowVars, work, mark, objects, log>>
           /\ run' \in {run, NoRun}
<1>1. UNCHANGED <<flowVars, work, mark, objects, log>> /\ run' \in {run, NoRun}
  BY DEF RenameProject, DeleteProject, WaiveFinding, vars, dbVars
<1>2. wf' = wf /\ work' = work /\ mark' = mark
  BY <1>1 DEF flowVars
<1>3. WorkflowLeft' = WorkflowLeft /\ WorkLeft' = WorkLeft
  BY <1>2 DEF WorkflowLeft, AttemptsLeft, WorkLeft
<1>4. MarkLeft' <= MarkLeft
  <2>1. TypeOK /\ TypeOK'
    BY DEF RankInv
  <2>2. run'.status = NoRow \/ run.status # NoRow
    BY <1>1 DEF NoRun
  <2> QED
    BY <1>2, <2>1, <2>2, AttemptSteps
<1> QED
  BY <1>1, <1>3, <1>4, RankTypes

(***************************************************************************)
(* The run winds down: every step of the workflow, of an attempt, of a     *)
(* timer or of a crash makes the bound StepsLeft smaller, and users never  *)
(* make it larger.  With the fairness of Spec this is why WorkflowCloses   *)
(* holds for every retry limit (RetryPolicy, schedule_to_close_timeout).   *)
(***************************************************************************)
THEOREM EveryStepWindsDown == Spec => WorkflowWindsDown
<1>1. Init => MarksCounted
  BY DEF Init, MarksCounted
<1>2. IInv /\ MarksCounted /\ [Next]_vars => MarksCounted'
  BY MarksCountedStep
<1>3. IInv /\ MarksCounted /\ IInv' /\ MarksCounted' /\ [Next]_vars =>
          [\/ StepsLeft' < StepsLeft
           \/ /\ StepsLeft' <= StepsLeft
              /\ UNCHANGED <<flowVars, work, mark, objects, log>>
              /\ run' \in {run, NoRun}]_vars
  <2> SUFFICES ASSUME IInv, MarksCounted, IInv', MarksCounted', [Next]_vars
               PROVE  \/ StepsLeft' < StepsLeft
                      \/ /\ StepsLeft' <= StepsLeft
                         /\ UNCHANGED <<flowVars, work, mark, objects, log>>
                         /\ run' \in {run, NoRun}
    OBVIOUS
  <2>1. RankInv /\ RankInv'
    BY DEF IInv, RankInv
  <2> QED
    BY <2>1, StageStepCounts, MarkStepCounts, TimeoutCounts, LaunchCounts, KillCounts, UsersCountNothing
       DEF Next, Environment, Quiescent
<1> QED
  BY <1>1, <1>2, <1>3, Inductive, PTL DEF Spec, WorkflowWindsDown

(***************************************************************************)
(* A run takes at most as many steps as its configuration allows: four for *)
(* each of the MaxAttempts attempts of each of the eight stages, three for *)
(* each attempt to mark it failed, and four for the rest.                  *)
(***************************************************************************)
THEOREM RunsTakeBoundedlyManySteps ==
    Spec => [](StepsLeft \in 0 .. 4 * MaxAttempts * Len(Stage) + 3 * MaxMarkAttempts + 4)
<1> DEFINE Bounded == StepsLeft \in 0 .. 4 * MaxAttempts * Len(Stage) + 3 * MaxMarkAttempts + 4
<1>1. Init => MarksCounted
  BY DEF Init, MarksCounted
<1>2. IInv /\ MarksCounted /\ [Next]_vars => MarksCounted'
  BY MarksCountedStep
<1>3. IInv /\ IInv' /\ MarksCounted => Bounded
  <2> SUFFICES ASSUME IInv, IInv', MarksCounted
               PROVE  Bounded
    OBVIOUS
  <2>1. /\ TypeOK /\ TypeOK' /\ AttemptCounted /\ WorkPlaced /\ MarkPlaced
        /\ MaxAttempts \in Nat \ {0} /\ MaxMarkAttempts \in Nat \ {0} /\ Len(Stage) = 8
    BY AuditRunAssumption, StageFacts DEF IInv
  <2>2. WorkflowLeft \in Nat /\ WorkLeft \in 0 .. 4 /\ MarkLeft \in 0 .. 3
    BY <2>1, WorkflowSteps, AttemptSteps
  <2>3. StepsLeft = WorkflowLeft + WorkLeft + MarkLeft
    BY DEF StepsLeft
  <2>4. CASE wf.pc \in {"none", "created"}
    <3>1. work.pc = "idle" /\ mark.pc = "idle" /\ work = NoWork
      BY <2>1, <2>4, WorkFacts, MarkFacts DEF WorkPlaced, MarkPlaced
    <3>2. WorkLeft = 0 /\ MarkLeft = 0
      BY <2>1, <2>4, <3>1, AttemptSteps
    <3> QED
      BY <2>1, <2>2, <2>3, <2>4, <3>2, WorkflowSteps
  <2>5. CASE wf.pc = "stage"
    <3>1. MarkLeft = 0
      BY <2>1, <2>5, AttemptSteps DEF MarkPlaced
    <3>2. WorkflowLeft <= 4 * (8 * MaxAttempts - 1) + 3 * MaxMarkAttempts + 2
      <4>1. \A n \in Nat : n <= 8 * MaxAttempts - 1 =>
                4 * n + 3 * MaxMarkAttempts + 2 <= 4 * (8 * MaxAttempts - 1) + 3 * MaxMarkAttempts + 2
        BY AuditRunAssumption
      <4> QED
        BY <2>1, <2>5, <4>1, WorkflowSteps
    <3> QED
      BY <2>1, <2>2, <2>3, <3>1, <3>2
  <2>6. CASE wf.pc = "marking"
    <3>1. wf.attempt \in 1 .. MaxMarkAttempts
      BY <2>6 DEF MarksCounted
    <3>2. WorkflowLeft = 3 * (MaxMarkAttempts - wf.attempt) + 1
      BY <2>1, <2>6, WorkflowSteps
    <3> QED
      BY <2>1, <2>2, <2>3, <3>1, <3>2
  <2>7. CASE wf.pc \in {"completed", "failed", "abandoned"}
    BY <2>1, <2>2, <2>3, <2>7, WorkflowSteps
  <2> QED
    BY <2>1, <2>4, <2>5, <2>6, <2>7 DEF TypeOK, Position, Terminal
<1> HIDE DEF Bounded
<1>4. Spec => []Bounded
  BY <1>1, <1>2, <1>3, Inductive, PTL DEF Spec
<1> QED
  BY <1>4 DEF Bounded
=============================================================================

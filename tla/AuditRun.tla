------------------------------ MODULE AuditRun ------------------------------
(***************************************************************************)
(* One audit run from POST /projects/{id}/audit-runs to its terminal       *)
(* status: the row in audit_runs, the workflow that drives it (a Temporal  *)
(* workflow, or an asyncio task of the API process in inline mode), the    *)
(* attempts of its activities, and what they leave behind: report objects, *)
(* report evidence rows, findings, remediation tasks, audit log entries.   *)
(*                                                                         *)
(* The stages run one after the other.  An attempt of a stage is a short   *)
(* sequence of steps (a read transaction, object puts, a commit) between   *)
(* which other actors move: the API renames or deletes the project and     *)
(* waives findings, a worker is killed, and Temporal closes an activity    *)
(* at its schedule-to-close timeout, after which the attempt, if it is     *)
(* still running, goes on unobserved.  Temporal starts a new attempt only  *)
(* when the last one reported a failure (there is no start-to-close or     *)
(* heartbeat timeout), so at most one attempt of a stage runs at a time.   *)
(*                                                                         *)
(* The object-relational session writes a column only when its value       *)
(* differs from the one it read, and _update_run_progress assigns back the *)
(* very dict it loaded and changed in place: the stage it records is never *)
(* written, the status is when it differs from the one read.               *)
(***************************************************************************)
EXTENDS Naturals, Sequences, FiniteSets

CONSTANTS
    Catalog,          \* the control catalog: a sequence of distinct controls
    Modes,            \* workflow_mode settings explored: inline, temporal
    Faults,           \* sets of faults explored, see Fault
    MaxAttempts,      \* RetryPolicy.maximum_attempts of a stage
    MaxMarkAttempts,  \* bound: attempts of mark_audit_failed within its timeout
    MaxRenames        \* bound: renames of the project

(***************************************************************************)
(* crash    a process dies: the worker or task of an attempt, the API      *)
(*          between the run's commit and its launch                        *)
(* timeout  an activity outlives its schedule-to-close timeout             *)
(* lostack  a commit takes effect but the client sees an error             *)
(* delete   the project is deleted while its run is in progress            *)
(***************************************************************************)
Fault == {"crash", "timeout", "lostack", "delete"}

ASSUME AuditRunAssumption ==
    /\ Catalog \in Seq(STRING)
    /\ \A i, j \in 1 .. Len(Catalog) : Catalog[i] = Catalog[j] => i = j
    /\ Modes \subseteq {"inline", "temporal"}
    /\ Faults \subseteq SUBSET Fault
    /\ MaxAttempts \in Nat \ {0}
    /\ MaxMarkAttempts \in Nat \ {0}
    /\ MaxRenames \in Nat

VARIABLES
    mode,      \* workflow_mode, a deployment setting
    faults,    \* the faults this deployment meets
    project,   \* row of the project: does it exist, which name does it bear
    run,       \* row of the run
    wf,        \* position of the workflow
    results,   \* control results the workflow carries from evaluate on
    report,    \* report_evidence_id it carries from report on; 0 before
    work,      \* the attempt of a stage in progress, if any
    mark,      \* the attempt of mark_audit_failed in progress, if any
    evidence,  \* report rows of evidence_items
    objects,   \* content of the two report keys of the object store
    findings,  \* rows of findings
    tasks,     \* rows of remediation_tasks
    waivers,   \* rows of waivers, each naming a finding
    log        \* the run's entries in the audit log, oldest first

dbVars   == <<run, evidence, findings, tasks, waivers, log>>
flowVars == <<wf, results, report>>
vars     == <<mode, faults, project, dbVars, flowVars, work, mark, objects>>

-----------------------------------------------------------------------------
(* Values                                                                  *)

Controls == {Catalog[i] : i \in 1 .. Len(Catalog)}

Result == {"pass", "partial", "fail"}

Stage == <<"snapshot", "github", "google", "manual",
           "evaluate", "risk", "report", "persist">>

Status   == {"queued", "running", "completed", "failed"}
Terminal == {"completed", "failed"}
NoRow    == "absent"

Name    == 0 .. MaxRenames    \* how often the project was renamed
Unknown == MaxRenames + 1     \* the name a report shows when the project row is gone
NoBytes == MaxRenames + 2     \* nothing was put under a key

Attempt == 1 .. MaxAttempts

RunRow == [status : Status \cup {NoRow}, stage : {"queued"} \cup Terminal, report : Attempt \cup {0}]

Position == [pc : {"none", "created", "stage", "marking", "abandoned"} \cup Terminal,
             stage : 1 .. Len(Stage),
             attempt : Nat \ {0}]

ReportRow == [attempt : Attempt, kind : {"html", "pdf"}, sha : Name \cup {Unknown}]

Finding == [attempt : Attempt, control : Controls, accepted : BOOLEAN]
FindingKey == [attempt : Attempt, control : Controls]
NoFinding == [attempt |-> 0, control |-> "none"]
Task == [attempt : Attempt, control : Controls, finding : FindingKey \cup {NoFinding}]

NoWork == [pc |-> "idle"]
Lost   == [pc |-> "lost"]   \* its process died: Temporal waits for the timeout

WorkState ==
    {NoWork, Lost}
    \cup [pc : {"snapshot", "persist"}, no : Attempt, seen : Status]
    \cup [pc : {"render", "put_html", "put_pdf"}, no : Attempt, name : Name \cup {Unknown}]

MarkState == {NoWork, Lost} \cup [pc : {"read"}, seen : Status]

TypeOK ==
    /\ mode \in Modes
    /\ faults \in Faults
    /\ project \in [exists : BOOLEAN, name : Name]
    /\ run \in RunRow
    /\ wf \in Position
    /\ results \in [Controls -> Result]
    /\ report \in Attempt \cup {0}
    /\ work \in WorkState
    /\ mark \in MarkState
    /\ evidence \subseteq ReportRow
    /\ objects \in [{"html", "pdf"} -> Name \cup {Unknown, NoBytes}]
    /\ findings \subseteq Finding
    /\ tasks \subseteq Task
    /\ waivers \subseteq FindingKey
    /\ log \in Seq({"create"} \cup Terminal)

-----------------------------------------------------------------------------
(* The API                                                                 *)

NoRun == [status |-> NoRow, stage |-> "queued", report |-> 0]

Init ==
    /\ mode \in Modes
    /\ faults \in Faults
    /\ project = [exists |-> TRUE, name |-> 0]
    /\ run = NoRun
    /\ wf = [pc |-> "none", stage |-> 1, attempt |-> 1]
    /\ results = [c \in Controls |-> "pass"]
    /\ report = 0
    /\ work = NoWork
    /\ mark = NoWork
    /\ evidence = {}
    /\ objects = [k \in {"html", "pdf"} |-> NoBytes]
    /\ findings = {}
    /\ tasks = {}
    /\ waivers = {}
    /\ log = <<>>

LogAction(a) == log' = Append(log, a)

\* create_audit_run commits the row before it launches the workflow.
CreateRun ==
    /\ wf.pc = "none"
    /\ project.exists
    /\ run' = [NoRun EXCEPT !.status = "queued"]
    /\ LogAction("create")
    /\ wf' = [wf EXCEPT !.pc = "created"]
    /\ UNCHANGED <<mode, faults, project, results, report, work, mark,
                   evidence, objects, findings, tasks, waivers>>

Launch ==
    /\ wf.pc = "created"
    /\ wf' = [wf EXCEPT !.pc = "stage"]
    /\ UNCHANGED <<mode, faults, project, results, report, work, mark, dbVars, objects>>

\* Temporal cannot be reached, or the API dies first: nothing launches the run later.
LaunchFails ==
    /\ wf.pc = "created"
    /\ "crash" \in faults
    /\ wf' = [wf EXCEPT !.pc = "abandoned"]
    /\ UNCHANGED <<mode, faults, project, results, report, work, mark, dbVars, objects>>

RenameProject ==
    /\ project.exists
    /\ project.name < MaxRenames
    /\ project' = [project EXCEPT !.name = @ + 1]
    /\ UNCHANGED <<mode, faults, flowVars, work, mark, dbVars, objects>>

\* The foreign keys cascade to every row of the run; objects and the audit log stay.
DeleteProject ==
    /\ "delete" \in faults
    /\ project.exists
    /\ run.status # NoRow
    /\ project' = [project EXCEPT !.exists = FALSE]
    /\ run' = NoRun
    /\ evidence' = {}
    /\ findings' = {}
    /\ tasks' = {}
    /\ waivers' = {}
    /\ UNCHANGED <<mode, faults, flowVars, work, mark, objects, log>>

KeyOf(f) == [attempt |-> f.attempt, control |-> f.control]

WaiveFinding ==
    \E f \in findings :
        /\ waivers' = waivers \cup {KeyOf(f)}
        /\ findings' = (findings \ {f}) \cup {[f EXCEPT !.accepted = TRUE]}
        /\ UNCHANGED <<mode, faults, project, run, flowVars, work, mark,
                       evidence, objects, tasks, log>>

-----------------------------------------------------------------------------
(* How an attempt ends                                                     *)

InStage(s) == wf.pc = "stage" /\ Stage[wf.stage] = s

CanBegin(s) == InStage(s) /\ work = NoWork

At(pc, stage, attempt) == [pc |-> pc, stage |-> stage, attempt |-> attempt]

\* Mutant of AttemptLimit: one attempt too many.
AttemptLimitExceeded == IF mode = "inline" THEN 1 ELSE MaxAttempts + 1

\* Inline mode awaits each stage once: the first exception ends the run.
AttemptLimit == IF mode = "inline" THEN 1 ELSE MaxAttempts

\* Mutant of StageReturns: the failure path is a finally, not an except.
StageReturnsThenMarks ==
    /\ work' = NoWork
    /\ wf' = IF wf.pc # "stage" THEN wf
             ELSE IF wf.stage = Len(Stage) THEN At("marking", wf.stage, 1)
             ELSE At("stage", wf.stage + 1, 1)

\* An attempt whose activity was closed at its timeout reports to nobody.
StageReturns ==
    /\ work' = NoWork
    /\ wf' = IF wf.pc # "stage" THEN wf
             ELSE IF wf.stage = Len(Stage) THEN [wf EXCEPT !.pc = "completed"]
             ELSE At("stage", wf.stage + 1, 1)

\* Mutant of StageRaises: the workflow fails without marking its run.
StageRaisesUnmarked ==
    /\ work' = NoWork
    /\ wf' = IF wf.pc # "stage" THEN wf
             ELSE IF wf.attempt < AttemptLimit THEN [wf EXCEPT !.attempt = @ + 1]
             ELSE [wf EXCEPT !.pc = "failed"]

\* Mutant of StageRaises: an attempt that raised is not counted.
StageRaisesUncounted ==
    /\ work' = NoWork
    /\ wf' = IF wf.pc # "stage" THEN wf
             ELSE IF mode = "temporal" THEN wf
             ELSE At("marking", wf.stage, 1)

StageRaises ==
    /\ work' = NoWork
    /\ wf' = IF wf.pc # "stage" THEN wf
             ELSE IF wf.attempt < AttemptLimit THEN [wf EXCEPT !.attempt = @ + 1]
             ELSE At("marking", wf.stage, 1)

\* Mutant of CommitAcked: a call after the commit may raise.
CommitAckedOrRaise == StageReturns \/ StageRaises

\* After an effective commit: the attempt returns, unless the acknowledgement is lost.
CommitAcked == StageReturns \/ ("lostack" \in faults /\ StageRaises)

\* Any call of a stage may raise before it commits: network, database, rendering, signing.
AttemptRaises ==
    /\ work # Lost
    /\ wf.pc = "stage" \/ work # NoWork
    /\ StageRaises
    /\ UNCHANGED <<mode, faults, project, results, report, mark, dbVars, objects>>

-----------------------------------------------------------------------------
(* The stages                                                              *)

\* snapshot_integrations: _update_run_progress, then the select of integrations.
ReadRunForSnapshot ==
    /\ CanBegin("snapshot")
    /\ IF run.status = NoRow
       THEN StageReturns
       ELSE /\ work' = [pc |-> "snapshot", no |-> wf.attempt, seen |-> run.status]
            /\ UNCHANGED wf
    /\ UNCHANGED <<mode, faults, project, results, report, mark, dbVars, objects>>

\* An UPDATE that matches no row raises StaleDataError; the select after it may raise too.
CommitSnapshot ==
    /\ work.pc = "snapshot"
    /\ LET written == work.seen # "running"
       IN  IF written /\ run.status = NoRow
           THEN StageRaises /\ UNCHANGED run
           ELSE /\ run' = IF written THEN [run EXCEPT !.status = "running"] ELSE run
                /\ StageReturns \/ StageRaises
    /\ UNCHANGED <<mode, faults, project, results, report, mark,
                   evidence, objects, findings, tasks, waivers, log>>

\* Stages that read, compute and return: nothing of theirs is written.
ReadOnlyStage ==
    /\ \E s \in {"github", "google", "manual", "risk"} : CanBegin(s)
    /\ StageReturns
    /\ UNCHANGED <<mode, faults, project, results, report, mark, dbVars, objects>>

EvaluateControls ==
    /\ CanBegin("evaluate")
    /\ results' \in [Controls -> Result]
    /\ StageReturns
    /\ UNCHANGED <<mode, faults, project, report, mark, dbVars, objects>>

ReadProjectName ==
    /\ CanBegin("report")
    /\ work' = [pc |-> "render", no |-> wf.attempt,
                name |-> IF project.exists THEN project.name ELSE Unknown]
    /\ UNCHANGED <<mode, faults, project, flowVars, mark, dbVars, objects>>

\* The object keys are the same for every attempt: a put overwrites.
PutObject(from, kind, to) ==
    /\ work.pc = from
    /\ objects' = [objects EXCEPT ![kind] = work.name]
    /\ work' = [work EXCEPT !.pc = to]
    /\ UNCHANGED <<mode, faults, project, flowVars, mark, dbVars>>

PutHtml == PutObject("render", "html", "put_html")
PutPdf  == PutObject("put_html", "pdf", "put_pdf")

\* Mutant of ReportRows: the hash is taken of a report rendered again for the commit.
ReportRowsRehashed ==
    {[attempt |-> work.no, kind |-> k, sha |-> project.name] : k \in {"html", "pdf"}}

ReportRows == {[attempt |-> work.no, kind |-> k, sha |-> work.name] : k \in {"html", "pdf"}}

CommitReport ==
    /\ work.pc = "put_pdf"
    /\ IF run.status = NoRow
       THEN StageRaises /\ UNCHANGED <<evidence, report>>
       ELSE /\ evidence' = evidence \cup ReportRows
            /\ CommitAcked
            /\ report' = IF wf'.stage # wf.stage THEN work.no ELSE report
    /\ UNCHANGED <<mode, faults, project, results, mark,
                   run, objects, findings, tasks, waivers, log>>

\* Lists taken from the results are sets of positions in the catalog.
FailingControls == {i \in 1 .. Len(Catalog) : results[Catalog[i]] # "pass"}

\* Mutant of DerivedTasks: partial results get no task.
DerivedTasksOfFailures == {i \in 1 .. Len(Catalog) : results[Catalog[i]] = "fail"}

\* _derive_remediation: one task per result that is not a pass, in the same order.
DerivedTasks == {i \in 1 .. Len(Catalog) : results[Catalog[i]] # "pass"}

NewFindings(no) ==
    {[attempt |-> no, control |-> Catalog[i], accepted |-> FALSE] : i \in FailingControls}

Index(i, list) == Cardinality({j \in list : j < i})

SameIndex(i) == {j \in FailingControls : Index(j, FailingControls) = Index(i, DerivedTasks)}

\* A task is linked to the finding at its own index, if there is one.
LinkedFinding(no, i) ==
    IF SameIndex(i) = {}
    THEN NoFinding
    ELSE [attempt |-> no, control |-> Catalog[CHOOSE j \in SameIndex(i) : TRUE]]

NewTasks(no) ==
    {[attempt |-> no, control |-> Catalog[i], finding |-> LinkedFinding(no, i)] : i \in DerivedTasks}

ReadRunForPersist ==
    /\ CanBegin("persist")
    /\ IF run.status = NoRow
       THEN StageRaises
       ELSE /\ work' = [pc |-> "persist", no |-> wf.attempt, seen |-> run.status]
            /\ UNCHANGED wf
    /\ UNCHANGED <<mode, faults, project, results, report, mark, dbVars, objects>>

\* Deleting the findings of an earlier attempt deletes their waivers.
CascadeToWaivers == waivers' = {}

CompletedRow ==
    [status |-> IF work.seen # "completed" THEN "completed" ELSE run.status,
     stage  |-> "completed",
     report |-> report]

CommitPersist ==
    /\ work.pc = "persist"
    /\ IF run.status = NoRow
       THEN StageRaises /\ UNCHANGED <<run, findings, tasks, waivers, log>>
       ELSE /\ findings' = NewFindings(work.no)
            /\ tasks' = NewTasks(work.no)
            /\ CascadeToWaivers
            /\ run' = CompletedRow
            /\ LogAction("completed")
            /\ CommitAcked
    /\ UNCHANGED <<mode, faults, project, results, report, mark, evidence, objects>>

-----------------------------------------------------------------------------
(* The failure path                                                        *)

\* Mutant of MarkReturns: a workflow whose run is gone or marked is closed as completed.
MarkReturnsCompleted ==
    /\ mark' = NoWork
    /\ wf' = IF wf.pc = "marking" THEN [wf EXCEPT !.pc = "completed"] ELSE wf

\* The workflow is closed as failed once mark_audit_failed has returned.
MarkReturns ==
    /\ mark' = NoWork
    /\ wf' = IF wf.pc = "marking" THEN [wf EXCEPT !.pc = "failed"] ELSE wf

\* The failure activity has no retry limit; in inline mode nothing retries it.
MarkRaises ==
    /\ mark' = NoWork
    /\ wf' = IF wf.pc # "marking" THEN wf
             ELSE IF mode = "inline" THEN [wf EXCEPT !.pc = "abandoned"]
             ELSE IF wf.attempt < MaxMarkAttempts THEN [wf EXCEPT !.attempt = @ + 1]
             ELSE wf

CanRetryMark == wf.pc = "marking" => wf.attempt < MaxMarkAttempts

MarkAttemptRaises ==
    /\ mark # Lost
    /\ wf.pc = "marking" \/ mark # NoWork
    /\ CanRetryMark
    /\ MarkRaises
    /\ UNCHANGED <<mode, faults, project, results, report, work, dbVars, objects>>

ReadRunForMark ==
    /\ wf.pc = "marking"
    /\ mark = NoWork
    /\ IF run.status = NoRow
       THEN MarkReturns
       ELSE mark' = [pc |-> "read", seen |-> run.status] /\ UNCHANGED wf
    /\ UNCHANGED <<mode, faults, project, results, report, work, dbVars, objects>>

\* Mutant of FailedRow: the progress dict is changed in place and never written.
FailedRowInPlace ==
    [status |-> IF mark.seen # "failed" THEN "failed" ELSE run.status,
     stage  |-> run.stage,
     report |-> run.report]

FailedRow ==
    [status |-> IF mark.seen # "failed" THEN "failed" ELSE run.status,
     stage  |-> "failed",
     report |-> run.report]

CommitMark ==
    /\ mark.pc = "read"
    /\ IF run.status = NoRow
       THEN MarkRaises /\ UNCHANGED <<run, log>>
       ELSE /\ run' = FailedRow
            /\ LogAction("failed")
            /\ MarkReturns \/ ("lostack" \in faults /\ CanRetryMark /\ MarkRaises)
    /\ UNCHANGED <<mode, faults, project, results, report, work,
                   evidence, objects, findings, tasks, waivers>>

-----------------------------------------------------------------------------
(* Timeouts and crashes                                                    *)

\* The attempt that outlives its activity goes on; one whose process died is gone.
Abandon(slot) == IF slot = Lost THEN NoWork ELSE slot

\* Mutant of TimeoutStage: the activity has no schedule-to-close timeout of its own.
TimeoutStageIfRunning ==
    /\ mode = "temporal"
    /\ wf.pc = "stage"
    /\ work # Lost
    /\ "timeout" \in faults
    /\ wf' = At("marking", wf.stage, 1)
    /\ UNCHANGED <<mode, faults, project, results, report, work, mark, dbVars, objects>>

TimeoutStage ==
    /\ mode = "temporal"
    /\ wf.pc = "stage"
    /\ work = Lost \/ "timeout" \in faults
    /\ wf' = At("marking", wf.stage, 1)
    /\ work' = Abandon(work)
    /\ UNCHANGED <<mode, faults, project, results, report, mark, dbVars, objects>>

TimeoutMark ==
    /\ mode = "temporal"
    /\ wf.pc = "marking"
    /\ mark = Lost \/ "timeout" \in faults
    /\ wf' = [wf EXCEPT !.pc = "abandoned"]
    /\ mark' = Abandon(mark)
    /\ UNCHANGED <<mode, faults, project, results, report, work, dbVars, objects>>

KillStageAttempt ==
    /\ mode = "temporal"
    /\ "crash" \in faults
    /\ work # Lost
    /\ wf.pc = "stage" \/ work # NoWork
    /\ work' = IF wf.pc = "stage" THEN Lost ELSE NoWork
    /\ UNCHANGED <<mode, faults, project, flowVars, mark, dbVars, objects>>

KillMarkAttempt ==
    /\ mode = "temporal"
    /\ "crash" \in faults
    /\ mark # Lost
    /\ wf.pc = "marking" \/ mark # NoWork
    /\ mark' = IF wf.pc = "marking" THEN Lost ELSE NoWork
    /\ UNCHANGED <<mode, faults, project, flowVars, work, dbVars, objects>>

\* The asyncio task of an inline run lives and dies with the API process.
KillInlineRun ==
    /\ mode = "inline"
    /\ "crash" \in faults
    /\ wf.pc \in {"stage", "marking"}
    /\ wf' = [wf EXCEPT !.pc = "abandoned"]
    /\ work' = NoWork
    /\ mark' = NoWork
    /\ UNCHANGED <<mode, faults, project, results, report, dbVars, objects>>

-----------------------------------------------------------------------------
(* The whole                                                               *)

StageStep ==
    \/ ReadRunForSnapshot \/ CommitSnapshot
    \/ ReadOnlyStage \/ EvaluateControls
    \/ ReadProjectName \/ PutHtml \/ PutPdf \/ CommitReport
    \/ ReadRunForPersist \/ CommitPersist
    \/ AttemptRaises

MarkStep == ReadRunForMark \/ CommitMark \/ MarkAttemptRaises

Timeout == TimeoutStage \/ TimeoutMark

Environment ==
    \/ CreateRun \/ LaunchFails
    \/ RenameProject \/ DeleteProject \/ WaiveFinding
    \/ KillStageAttempt \/ KillMarkAttempt \/ KillInlineRun

Closed == wf.pc \in Terminal \cup {"abandoned"}

\* Nothing is left to do: the behaviour may end here.
Quiescent ==
    /\ Closed \/ (wf.pc = "none" /\ ~ project.exists)
    /\ work = NoWork
    /\ mark = NoWork
    /\ UNCHANGED vars

Next == Launch \/ StageStep \/ MarkStep \/ Timeout \/ Environment \/ Quiescent

(***************************************************************************)
(* The request handler that created the run goes on to launch it; the      *)
(* event loop or the worker keeps running attempts; the Temporal server    *)
(* keeps its timers.  Nothing is assumed of users, crashes or deletions.   *)
(***************************************************************************)
Fairness ==
    /\ WF_vars(Launch \/ LaunchFails)
    /\ WF_vars(StageStep)
    /\ WF_vars(MarkStep)
    /\ WF_vars(Timeout)

Spec == Init /\ [][Next]_vars /\ Fairness

-----------------------------------------------------------------------------
(* Properties                                                              *)

Logged(a) == \E i \in 1 .. Len(log) : log[i] = a

(***************************************************************************)
(* A run that has the status completed has both report rows of the attempt *)
(* its report_evidence_id names, and the stored objects still have the     *)
(* content those rows hash, although every attempt overwrites them and the *)
(* project may be renamed in between.                                      *)
(***************************************************************************)
CompletedRunHasReport ==
    run.status = "completed" =>
        \A k \in {"html", "pdf"} :
            [attempt |-> run.report, kind |-> k, sha |-> objects[k]] \in evidence

(***************************************************************************)
(* Once results have been persisted, and until the project is deleted, the *)
(* run has one finding per control that did not pass and one task per      *)
(* finding, each task linked to the existing finding of its own control,   *)
(* however often persisting was retried.                                   *)
(***************************************************************************)
FindingsMatchResults ==
    Logged("completed") /\ run.status # NoRow =>
        LET failing == {c \in Controls : results[c] # "pass"}
        IN  /\ {f.control : f \in findings} = failing
            /\ {t.control : t \in tasks} = failing
            /\ \A f, g \in findings : f.control = g.control => f = g
            /\ \A t, u \in tasks : t.control = u.control => t = u
            /\ \A t \in tasks : \E f \in findings :
                   t.finding = KeyOf(f) /\ t.control = f.control

LastLogged == log[Len(log)]

(***************************************************************************)
(* A run is never shown as completed or failed without an entry of that    *)
(* name in the audit log (persist_results_activity, mark_audit_failed),    *)
(* and the three records of its end agree: the status, the stage kept in   *)
(* progress_json and the last entry of the log, although retries and late  *)
(* attempts elide column writes.  (The three may differ when a commit is   *)
(* in doubt and an attempt outlives its activity in the same run: an       *)
(* elided status write leaves failed beside stage completed.)              *)
(***************************************************************************)
TerminalRecordsAgree ==
    run.status \in Terminal =>
        /\ Logged(run.status)
        /\ ~ {"lostack", "timeout"} \subseteq faults =>
               run.stage = run.status /\ LastLogged = run.status

(***************************************************************************)
(* Every report row hashes the object it points to, renames, failed and    *)
(* late attempts included.  (A row whose commit was in doubt is left       *)
(* behind by the retry, which overwrites the objects it names.)            *)
(***************************************************************************)
ReportRowsMatchObjects ==
    "lostack" \notin faults => \A e \in evidence : objects[e.kind] = e.sha

(***************************************************************************)
(* What the polling clients rely on (the run page stops polling at         *)
(* completed or failed): a terminal status does not change any more.       *)
(***************************************************************************)
TerminalIsFinal ==
    [][run.status \in Terminal => run'.status \in {run.status, NoRow}]_vars

(***************************************************************************)
(* A waiver, once granted, is lost only with the project: no step of the   *)
(* workflow deletes the finding under it.  (Persisting again after a       *)
(* commit in doubt replaces the findings users may have waived by then.)   *)
(***************************************************************************)
WaiversSurvive ==
    []["lostack" \notin faults => waivers \subseteq waivers' \/ ~ project'.exists]_vars

(***************************************************************************)
(* Read through its status column, a run of an orderly deployment lives    *)
(* the abstract life of RunLifecycle: queued, running, then one terminal   *)
(* status for good, whatever crashes, raises or is retried.                *)
(***************************************************************************)
Orderly == faults \cap {"lostack", "timeout"} = {}

StatusWhenOrderly == IF Orderly THEN run.status ELSE NoRow

Lifecycle == INSTANCE RunLifecycle WITH status <- StatusWhenOrderly

LifecycleSpec == Lifecycle!Spec

(***************************************************************************)
(* What a closed workflow leaves behind.  One that is closed as completed  *)
(* has a completed run, and nothing is logged after that; one that is      *)
(* closed as failed has an entry failed, and a failed run unless an        *)
(* attempt has outlived its activity: also when the commit of the results  *)
(* was in doubt and the failure path then overwrote them.  (The project    *)
(* may be deleted in the meantime, with the run's row.)                    *)
(***************************************************************************)
OutcomesRecorded ==
    /\ wf.pc = "completed" => run.status \in {"completed", NoRow} /\ LastLogged = "completed"
    /\ wf.pc = "failed" => Logged("failed") \/ run.status = NoRow
    /\ wf.pc = "failed" /\ "timeout" \notin faults => run.status \in {"failed", NoRow}

(***************************************************************************)
(* How many steps the run can still take: those of the attempts in         *)
(* progress, four for every attempt a stage has left, three for every      *)
(* attempt to mark the run failed.                                         *)
(***************************************************************************)
WorkLeft ==
    CASE work.pc = "render" -> 3
      [] work.pc = "put_html" -> 2
      [] work.pc \in {"put_pdf", "snapshot", "persist"} -> 1
      [] work = NoWork /\ wf.pc = "stage" -> 4
      [] OTHER -> 0

MarkLeft ==
    CASE mark.pc = "read" -> 2
      [] mark = NoWork /\ wf.pc = "marking" -> IF run.status = NoRow THEN 1 ELSE 3
      [] OTHER -> 0

AttemptsLeft == MaxAttempts * (Len(Stage) - wf.stage) + MaxAttempts - wf.attempt

WorkflowLeft ==
    CASE wf.pc = "none"    -> 4 * MaxAttempts * Len(Stage) + 3 * MaxMarkAttempts + 4
      [] wf.pc = "created" -> 4 * MaxAttempts * Len(Stage) + 3 * MaxMarkAttempts + 3
      [] wf.pc = "stage"   -> 4 * AttemptsLeft + 3 * MaxMarkAttempts + 2
      [] wf.pc = "marking" -> 3 * (MaxMarkAttempts - wf.attempt) + 1
      [] OTHER -> 0

StepsLeft == WorkflowLeft + WorkLeft + MarkLeft

(***************************************************************************)
(* No retry, timeout, crash or late attempt keeps a run alive for ever:    *)
(* every step of the workflow and of its attempts brings it nearer to its  *)
(* end, also when it raises, and what the users do in between never takes  *)
(* it further away.  Only the users' steps leave StepsLeft as it is, and   *)
(* of the run's row they can only delete all.                              *)
(***************************************************************************)
WorkflowWindsDown ==
    [][\/ StepsLeft' < StepsLeft
       \/ /\ StepsLeft' <= StepsLeft
          /\ UNCHANGED <<flowVars, work, mark, objects, log>>
          /\ run' \in {run, NoRun}]_vars

\* Every launched workflow is closed, whatever crashes, times out or raises.
WorkflowCloses == (wf.pc = "stage") ~> Closed

(***************************************************************************)
(* Where there are no faults at all - no process dies, nothing is deleted, *)
(* no acknowledgement is lost and no attempt outlives its timeout - a run  *)
(* that was created reaches a terminal status that stays, although its     *)
(* stages may raise and be tried again, unless the failure path itself     *)
(* raised in inline mode.                                                  *)
(***************************************************************************)
RunEnds ==
    (wf.pc = "created" /\ faults = {})
        ~> [](run.status \in Terminal \/ wf.pc = "abandoned")
=============================================================================

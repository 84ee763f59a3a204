-------------------------- MODULE FindingDecisions --------------------------
(***************************************************************************)
(* What is decided about a finding: approvals that are requested and then  *)
(* approved or rejected, and waivers.  A decision reads the approval and,  *)
(* to approve, the finding, in queries of their own, and writes at the     *)
(* commit: only the columns that are assigned another value than the one   *)
(* it read.  It asks neither for a pending approval nor for another user   *)
(* than the one who requested it.                                          *)
(*                                                                         *)
(* A run whose results are persisted again replaces its findings by new    *)
(* rows, and the approvals and waivers of the old ones go with them.       *)
(* Findings do not influence each other: one control of one run.           *)
(***************************************************************************)
CONSTANTS
    Approval,       \* approvals of a finding
    Approver,       \* users with the permission (finding, approve)
    Decider         \* requests that may be open at the same time

ASSUME DecisionAssumption == "no one" \notin Approver

VARIABLES
    finding,        \* status of the finding's row, or "none" if there is no finding
    approvals,      \* per approval: status and approved_by_user_id, or NoApproval
    waived,         \* the finding has a waiver
    decider,        \* per request: what it read
    approved,       \* an approval of this finding was approved once (auxiliary)
    last,           \* the last decision committed on each approval (auxiliary)
    overtaken       \* approvals whose last decision read what another one then wrote (auxiliary)

decisionVars == <<finding, approvals, waived, decider, approved, last, overtaken>>

NoOne      == "no one"
NoApproval == [status |-> "none", by |-> NoOne]
Pending    == [status |-> "pending", by |-> NoOne]
Decided    == [status : {"approved", "rejected"}, by : Approver]
Waiting    == [pc |-> "closed"]

(***************************************************************************)
(* An open request holds what its queries found, whether those rows are    *)
(* gone by now (an id is never used again), and whether another decision   *)
(* on the approval was committed since (auxiliary).                        *)
(***************************************************************************)
OpenDecision ==
    [pc : {"approval", "finding"}, approval : Approval, row : Decided \cup {Pending},
     accepted : BOOLEAN, gone : BOOLEAN, disturbed : BOOLEAN]

OpenWaiver == [pc : {"waiver"}, accepted : BOOLEAN, gone : BOOLEAN]

Decision(d, pc, accepted, gone, disturbed) ==
    [pc |-> pc, approval |-> d.approval, row |-> d.row,
     accepted |-> accepted, gone |-> gone, disturbed |-> disturbed]

Waiver(accepted, gone) == [pc |-> "waiver", accepted |-> accepted, gone |-> gone]

DecisionTypeOK ==
    /\ finding \in {"none", "open", "accepted"}
    /\ approvals \in [Approval -> Decided \cup {NoApproval, Pending}]
    /\ waived \in BOOLEAN /\ approved \in BOOLEAN
    /\ decider \in [Decider -> {Waiting} \cup OpenDecision \cup OpenWaiver]
    /\ last \in [Approval -> Decided \cup {NoApproval, Pending}]
    /\ overtaken \subseteq Approval

DecisionInit ==
    /\ finding = "open"
    /\ approvals = [a \in Approval |-> NoApproval]
    /\ waived = FALSE /\ approved = FALSE
    /\ decider = [r \in Decider |-> Waiting]
    /\ last = approvals
    /\ overtaken = {}

-----------------------------------------------------------------------------
(* The run                                                                 *)

\* The rows of the findings are deleted, with what refers to them, and inserted anew.
PersistResults ==
    /\ finding' \in {"none", "open"}
    /\ approvals' = [a \in Approval |-> NoApproval]
    /\ waived' = FALSE /\ approved' = FALSE
    /\ last' = approvals' /\ overtaken' = {}
    /\ decider' = [r \in Decider |->
           IF decider[r] = Waiting THEN Waiting
           ELSE IF decider[r].pc = "waiver" THEN Waiver(decider[r].accepted, TRUE)
           ELSE Decision(decider[r], decider[r].pc, decider[r].accepted, TRUE, decider[r].disturbed)]

-----------------------------------------------------------------------------
(* Reading                                                                 *)

DeciderReads(r, request) ==
    /\ decider' = [decider EXCEPT ![r] = request]
    /\ UNCHANGED <<finding, approvals, waived, approved, last, overtaken>>

BeginDecision(r, a) ==
    /\ decider[r] = Waiting
    /\ approvals[a] # NoApproval
    /\ DeciderReads(r, [pc |-> "approval", approval |-> a, row |-> approvals[a],
                        accepted |-> FALSE, gone |-> FALSE, disturbed |-> FALSE])

\* To approve: db.get(Finding); of a finding that was replaced nothing is found.
ReadFinding(r) ==
    /\ decider[r].pc = "approval"
    /\ ~ decider[r].gone
    /\ DeciderReads(r, Decision(decider[r], "finding", finding = "accepted", FALSE,
                                decider[r].disturbed))

\* 404 when there is no finding.
BeginWaiver(r) ==
    /\ decider[r] = Waiting
    /\ finding # "none"
    /\ DeciderReads(r, Waiver(finding = "accepted", FALSE))

-----------------------------------------------------------------------------
(* Writing                                                                 *)

\* The approval refers to the finding: of one that was replaced it could not be inserted.
RequestApproval(a) ==
    /\ finding # "none"
    /\ approvals[a] = NoApproval
    /\ approvals' = [approvals EXCEPT ![a] = Pending]
    /\ last' = [last EXCEPT ![a] = Pending]
    /\ UNCHANGED <<finding, waived, decider, approved, overtaken>>

\* A column after the flush: written if what is assigned is not what was read.
Elided(now, read, assigned) == IF assigned = read THEN now ELSE assigned

\* Mutant of RowAfter: only who approves is recorded.
RowAfterRecordingApprovers(now, read, decision) ==
    [status |-> Elided(now.status, read.status, decision.status),
     by     |-> IF decision.status = "rejected" THEN now.by
                ELSE Elided(now.by, read.by, decision.by)]

\* The approval after a decision.
RowAfter(now, read, decision) ==
    [status |-> Elided(now.status, read.status, decision.status),
     by     |-> Elided(now.by, read.by, decision.by)]

\* Mutant of StatusAfter: a rejection opens the finding again.
StatusAfterReopening(accepts, read) ==
    IF ~ accepts THEN "open" ELSE IF read THEN finding ELSE "accepted"

\* The finding after an acceptance that read it as accepted, or not.
StatusAfter(accepts, read) == IF accepts /\ ~ read THEN "accepted" ELSE finding

\* The update of a row that is gone fails, and one of no column has no effect: see DeciderRaises.
CommitDecision(r) ==
    /\ decider[r].pc \in {"approval", "finding"}
    /\ ~ decider[r].gone
    /\ \E u \in Approver :
           LET a        == decider[r].approval
               approves == decider[r].pc = "finding"
               decision == [status |-> IF approves THEN "approved" ELSE "rejected", by |-> u]
           IN  /\ approvals' = [approvals EXCEPT ![a] = RowAfter(@, decider[r].row, decision)]
               /\ finding' = StatusAfter(approves, decider[r].accepted)
               /\ approved' = (approved \/ approves)
               /\ last' = [last EXCEPT ![a] = decision]
               /\ overtaken' = IF decider[r].disturbed THEN overtaken \cup {a} ELSE overtaken \ {a}
               /\ decider' = [s \in Decider |->
                      IF s = r THEN Waiting
                      ELSE IF decider[s].pc \in {"approval", "finding"} /\ decider[s].approval = a
                      THEN Decision(decider[s], decider[s].pc, decider[s].accepted,
                                    decider[s].gone, TRUE)
                      ELSE decider[s]]
    /\ UNCHANGED waived

\* A waiver is inserted, and accepts the finding.
CommitWaiver(r) ==
    /\ decider[r].pc = "waiver"
    /\ ~ decider[r].gone
    /\ finding' = StatusAfter(TRUE, decider[r].accepted)
    /\ waived' = TRUE
    /\ decider' = [decider EXCEPT ![r] = Waiting]
    /\ UNCHANGED <<approvals, approved, last, overtaken>>

\* A 403, a row that is gone, a lost connection: the transaction is rolled back.
DeciderRaises(r) == decider[r] # Waiting /\ DeciderReads(r, Waiting)

DeciderStep(r) ==
    \/ \E a \in Approval : BeginDecision(r, a)
    \/ ReadFinding(r) \/ BeginWaiver(r)
    \/ CommitDecision(r) \/ CommitWaiver(r) \/ DeciderRaises(r)

DecisionNext ==
    \/ PersistResults
    \/ \E a \in Approval : RequestApproval(a)
    \/ \E r \in Decider : DeciderStep(r)

DecisionSpec == DecisionInit /\ [][DecisionNext]_decisionVars

-----------------------------------------------------------------------------
(***************************************************************************)
(* A finding is accepted exactly when it has a waiver or one of its        *)
(* approvals was approved once, however the requests are interleaved and   *)
(* whatever columns they leave out; so an approved approval never stands   *)
(* beside an open finding.  (A later rejection does not open it again.)    *)
(***************************************************************************)
AcceptanceHasCause ==
    /\ finding = "accepted" <=> waived \/ approved
    /\ \A a \in Approval : approvals[a].status = "approved" => approved

(***************************************************************************)
(* An approval records the decision that was committed last, its outcome   *)
(* and its author, unless that decision was taken on a row that another    *)
(* one wrote before it was committed: two such decisions may leave the     *)
(* outcome of one with the author of the other.                            *)
(***************************************************************************)
LastDecisionStands == \A a \in Approval \ overtaken : approvals[a] = last[a]
=============================================================================

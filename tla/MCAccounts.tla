----------------------------- MODULE MCAccounts -----------------------------
(***************************************************************************)
(* The components whose requests read rows, check what they found, and     *)
(* write at a commit while other requests commit in between: refresh token *)
(* sessions, SCIM provisioning, the checks in front of sensitive endpoints *)
(* and the decisions about findings.  Their models share no variable       *)
(* (Admission takes SCIM's commits as an environment), so one run checks   *)
(* them side by side: a behaviour is one of the component it picks at its  *)
(* start.                                                                  *)
(*                                                                         *)
(* Sessions: one user who sends one request at a time and one who does     *)
(* not, two requests open at once, three sessions.  Provisioning: two      *)
(* organisations, two roles, two requests.  Admission: a role that has the *)
(* permission and one that has not.  Decisions: two approvals, two users,  *)
(* two requests, and any number of times the run is repeated.              *)
(***************************************************************************)
EXTENDS AuthSessions, Directory, Admission, FindingDecisions, TLC

VARIABLE component

accountVars == <<component, vars, directoryVars, admissionVars, decisionVars>>

AccountsInit ==
    /\ component \in {"sessions", "directory", "admission", "decisions"}
    /\ Init /\ DirectoryInit /\ AdmissionInit /\ DecisionInit
    /\ component # "admission" => enabled /\ ~ strict /\ duty = NoDuty

AccountsNext ==
    /\ \/ /\ component = "sessions" /\ Next
          /\ UNCHANGED <<directoryVars, admissionVars, decisionVars>>
       \/ /\ component = "directory" /\ DirectoryNext
          /\ UNCHANGED <<vars, admissionVars, decisionVars>>
       \/ /\ component = "admission" /\ AdmissionNext
          /\ UNCHANGED <<vars, directoryVars, decisionVars>>
       \/ /\ component = "decisions" /\ DecisionNext
          /\ UNCHANGED <<vars, directoryVars, admissionVars>>
    /\ UNCHANGED component

AccountsSpec == AccountsInit /\ [][AccountsNext]_accountVars

\* The requests of all components have the same names.
Symmetry == Permutations(Request) \cup Permutations(Approval)
=============================================================================

----------------------------- MODULE Admission -----------------------------
(***************************************************************************)
(* The checks in front of a sensitive endpoint: get_current_user,          *)
(* require_mfa and require_permission, each with queries of its own, while *)
(* SCIM, policy and permission requests commit in between.  Calls do not   *)
(* influence each other, and neither do organisations, so one call of one  *)
(* user in one organisation is modelled.                                   *)
(*                                                                         *)
(* A project has no say: the sensitive endpoints either ask for an action  *)
(* that _abac_project_denied does not know, or pass it no project.         *)
(***************************************************************************)
EXTENDS Naturals

CONSTANTS
    Grade,      \* roles
    Allowed     \* roles that have the permission by default

ASSUME AdmissionAssumption == "no grade" \notin Grade

VARIABLES
    enabled,    \* the user's is_active
    duty,       \* the role of the user's membership, or NoDuty
    strict,     \* require_mfa_sensitive of the organisation, or the global flag
    granted,    \* roles with a row for the permission in role_permissions
    call,       \* the call, with the claims of its token
    seen,       \* what spoke for the call at some moment since it began (auxiliary)
    missed      \* what spoke against it (auxiliary)

policyVars    == <<enabled, duty, strict, granted>>
admissionVars == <<policyVars, call, seen, missed>>

NoDuty == "no grade"

Fact == {"enabled", "member", "lenient", "permitted"}

NoCall == [pc |-> "none"]

Call == [pc : {"token", "user", "member", "policy", "admitted", "refused", "mfa required"},
         grade : Grade, mfa : BOOLEAN]

AdmissionTypeOK ==
    /\ enabled \in BOOLEAN /\ strict \in BOOLEAN
    /\ duty \in Grade \cup {NoDuty}
    /\ granted \subseteq Grade
    /\ call \in {NoCall} \cup Call
    /\ seen \subseteq Fact /\ missed \subseteq Fact

AdmissionInit ==
    /\ enabled \in BOOLEAN /\ strict \in BOOLEAN
    /\ duty \in Grade \cup {NoDuty}
    /\ granted = {}
    /\ call = NoCall
    /\ seen = {} /\ missed = {}

-----------------------------------------------------------------------------
\* Mutant of Member: any membership will do, whatever role the token claims.
MemberInAnyRole(d, g) == d # NoDuty

\* trust-but-verify: the token's role must be the membership's.
Member(d, g) == d = g

\* Rows of role_permissions only ever add to the defaults.
Permitted(rights, g) == g \in rights \cup Allowed

\* The facts that speak for a call of grade g, given the rows.
Facts(e, d, s, rights, g) ==
    {f \in Fact : CASE f = "enabled"   -> e
                    [] f = "member"    -> d = g
                    [] f = "lenient"   -> ~ s
                    [] f = "permitted" -> Permitted(rights, g)}

\* Every commit, and the beginning of a call, adds to what spoke for and against it.
Watches(before, against) ==
    IF call' = NoCall
    THEN seen' = {} /\ missed' = {}
    ELSE LET now == Facts(enabled', duty', strict', granted', call'.grade)
         IN  seen' = before \cup now /\ missed' = against \cup (Fact \ now)

-----------------------------------------------------------------------------
(* The call                                                                *)

\* A valid token: of a login, or of the identity provider.
BeginCall ==
    /\ call \in {NoCall} \cup {c \in Call : c.pc \in {"admitted", "refused", "mfa required"}}
    /\ \E g \in Grade, m \in BOOLEAN : call' = [pc |-> "token", grade |-> g, mfa |-> m]
    /\ UNCHANGED policyVars
    /\ Watches({}, {})

\* A query, and what becomes of the call.
Asks(from, to, holds, otherwise) ==
    /\ call.pc = from
    /\ call' = [pc |-> IF holds THEN to ELSE otherwise, grade |-> call.grade, mfa |-> call.mfa]
    /\ UNCHANGED <<policyVars, seen, missed>>

CheckActive == Asks("token", "user", enabled, "refused")

CheckMembership == Asks("user", "member", Member(duty, call.grade), "refused")

\* The UserContext is built without the token's mfa claim.
ContextMfa == FALSE

CheckMfa == Asks("member", "policy", strict => ContextMfa, "mfa required")

CheckPermission == Asks("policy", "admitted", Permitted(granted, call.grade), "refused")

-----------------------------------------------------------------------------
(* The rows change                                                         *)

\* A SCIM request commits: the account, the membership or both.
Provision ==
    /\ enabled' \in BOOLEAN
    /\ duty' \in Grade \cup {duty}
    /\ UNCHANGED <<strict, granted, call>>
    /\ Watches(seen, missed)

UpsertPolicy ==
    /\ strict' \in BOOLEAN
    /\ UNCHANGED <<enabled, duty, granted, call>>
    /\ Watches(seen, missed)

CreatePermission ==
    /\ \E g \in Grade : granted' = granted \cup {g}
    /\ UNCHANGED <<enabled, duty, strict, call>>
    /\ Watches(seen, missed)

CallStep == BeginCall \/ CheckActive \/ CheckMembership \/ CheckMfa \/ CheckPermission

AdmissionNext == CallStep \/ Provision \/ UpsertPolicy \/ CreatePermission

AdmissionSpec == AdmissionInit /\ [][AdmissionNext]_admissionVars

-----------------------------------------------------------------------------
(***************************************************************************)
(* A call is admitted only if, since it began, the user was active, held   *)
(* the very role of the token, was let through by the policy and had the   *)
(* permission: each at some moment, if not all at the same.  It is refused *)
(* only if one of them was missing at some moment.                         *)
(***************************************************************************)
AdmissionsJustified ==
    /\ call.pc = "admitted" => seen = Fact
    /\ call.pc = "refused" => missed \cap (Fact \ {"lenient"}) # {}
    /\ call.pc = "mfa required" => "lenient" \in missed

(***************************************************************************)
(* What the runbook says of the policy: sensitive endpoints are open to    *)
(* tokens with mfa = true.  get_current_user drops the claim.              *)
(***************************************************************************)
MfaTokensAdmitted == call.pc = "mfa required" => ~ call.mfa
=============================================================================

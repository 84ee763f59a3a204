--------------------------- MODULE AccountsProofs ---------------------------
(***************************************************************************)
(* Proofs about the checks in front of sensitive endpoints, the decisions  *)
(* about findings and SCIM provisioning, for any sets of roles, users,     *)
(* organisations and requests.                                             *)
(***************************************************************************)
EXTENDS Admission, FindingDecisions, Directory, TLAPS

-----------------------------------------------------------------------------
(***************************************************************************)
(* Admission.  AdmissionInv: what holds now is among what was seen to hold *)
(* since the call began, and what does not hold among what was missed      *)
(* (Watched); and a call that got past a check has seen its fact (Passed). *)
(***************************************************************************)
Now == Facts(enabled, duty, strict, granted, call.grade)

Watched == call # NoCall => Now \subseteq seen /\ Fact \ Now \subseteq missed

Passed ==
    /\ call.pc = "user" => {"enabled"} \subseteq seen
    /\ call.pc = "member" => {"enabled", "member"} \subseteq seen
    /\ call.pc = "policy" => {"enabled", "member", "lenient"} \subseteq seen

AdmissionInv == AdmissionTypeOK /\ Watched /\ Passed /\ AdmissionsJustified

\* What Facts contains.
LEMMA FactsMeaning ==
    ASSUME NEW e, NEW d, NEW s, NEW rights, NEW g
    PROVE  /\ "enabled" \in Facts(e, d, s, rights, g) <=> e
           /\ "member" \in Facts(e, d, s, rights, g) <=> d = g
           /\ "lenient" \in Facts(e, d, s, rights, g) <=> ~ s
           /\ "permitted" \in Facts(e, d, s, rights, g) <=> Permitted(rights, g)
           /\ Facts(e, d, s, rights, g) \subseteq Fact
  BY DEF Facts, Fact

LEMMA Refusal ==
    ASSUME NEW f \in {"enabled", "member", "permitted"}, f \in missed
    PROVE  missed \cap (Fact \ {"lenient"}) # {}
<1>1. f \in Fact \ {"lenient"}
  BY DEF Fact
<1> QED
  BY <1>1

LEMMA AdmissionStarts == AdmissionInit => AdmissionInv
<1> SUFFICES ASSUME AdmissionInit PROVE AdmissionInv
  OBVIOUS
<1>1. call = NoCall /\ call.pc = "none"
  BY DEF AdmissionInit, NoCall
<1>2. AdmissionTypeOK
  BY DEF AdmissionInit, AdmissionTypeOK
<1> QED
  BY <1>1, <1>2 DEF AdmissionInv, Watched, Passed, AdmissionsJustified

\* A check leaves the rows and what was watched alone.
LEMMA AsksKeeps ==
    ASSUME AdmissionInv, NEW from, NEW to, NEW holds, NEW otherwise,
           Asks(from, to, holds, otherwise),
           from \in {"token", "user", "member", "policy"},
           to \in {"user", "member", "policy", "admitted"},
           otherwise \in {"refused", "mfa required"}
    PROVE  /\ AdmissionTypeOK' /\ Watched'
           /\ call \in Call /\ Now \subseteq seen /\ Fact \ Now \subseteq missed
           /\ seen' = seen /\ missed' = missed /\ seen \subseteq Fact
           /\ call'.pc = IF holds THEN to ELSE otherwise
           /\ call'.grade = call.grade
<1>1. call \in Call /\ call # NoCall
  <2>1. call.pc = from
    BY DEF Asks
  <2>2. call # NoCall
    <3>1. NoCall.pc = "none" /\ from # "none"
      BY DEF NoCall
    <3> QED
      BY <2>1, <3>1
  <2> QED
    BY <2>2 DEF AdmissionInv, AdmissionTypeOK
<1> DEFINE pc == IF holds THEN to ELSE otherwise
<1>2. call' = [pc |-> pc, grade |-> call.grade, mfa |-> call.mfa]
  BY DEF Asks
<1>0. pc \in {"user", "member", "policy", "admitted", "refused", "mfa required"}
  OBVIOUS
<1>3. call' \in Call /\ call'.grade = call.grade /\ call'.pc = pc
  <2> HIDE DEF pc
  <2> QED
    BY <1>1, <1>2, <1>0 DEF Call
<1>4. UNCHANGED <<enabled, duty, strict, granted, seen, missed>>
  BY DEF Asks, policyVars
<1>5. AdmissionTypeOK'
  BY <1>3, <1>4 DEF AdmissionInv, AdmissionTypeOK
<1>6. Now \subseteq seen /\ Fact \ Now \subseteq missed
  BY <1>1 DEF AdmissionInv, Watched
<1>7. Now' = Now
  BY <1>3, <1>4 DEF Now
<1>8. Watched'
  BY <1>4, <1>6, <1>7 DEF Watched
<1> QED
  BY <1>1, <1>2, <1>3, <1>4, <1>5, <1>6, <1>8 DEF AdmissionInv, AdmissionTypeOK

\* A commit of other requests, or the beginning of a call, adds to what was watched.
LEMMA WatchesKeeps ==
    ASSUME NEW before \in SUBSET Fact, NEW against \in SUBSET Fact, Watches(before, against)
    PROVE  /\ Watched'
           /\ seen' \subseteq Fact /\ missed' \subseteq Fact
           /\ call' # NoCall => before \subseteq seen' /\ against \subseteq missed'
<1>1. Now' = Facts(enabled', duty', strict', granted', call'.grade)
  BY DEF Now
<1>2. Now' \subseteq Fact
  BY <1>1, FactsMeaning
<1>3. CASE call' = NoCall
  BY <1>3 DEF Watches, Watched
<1>4. CASE call' # NoCall
  <2>1. seen' = before \cup Now' /\ missed' = against \cup (Fact \ Now')
    BY <1>1, <1>4 DEF Watches
  <2> QED
    BY <1>2, <1>4, <2>1 DEF Watched
<1> QED
  BY <1>3, <1>4

\* A commit of other requests.
LEMMA RowsChangeKeeps ==
    ASSUME AdmissionInv, Watches(seen, missed), call' = call,
           enabled' \in BOOLEAN, strict' \in BOOLEAN,
           duty' \in Grade \cup {NoDuty}, granted' \subseteq Grade
    PROVE  AdmissionInv'
<1>1. seen \in SUBSET Fact /\ missed \in SUBSET Fact
  BY DEF AdmissionInv, AdmissionTypeOK
<1>2. /\ Watched' /\ seen' \subseteq Fact /\ missed' \subseteq Fact
      /\ call' # NoCall => seen \subseteq seen' /\ missed \subseteq missed'
  BY <1>1, WatchesKeeps
<1>3. AdmissionTypeOK'
  BY <1>2 DEF AdmissionInv, AdmissionTypeOK
<1>4. CASE call = NoCall
  BY <1>2, <1>3, <1>4 DEF AdmissionInv, Passed, AdmissionsJustified, NoCall
<1>5. CASE call # NoCall
  BY <1>2, <1>3, <1>5 DEF AdmissionInv, Passed, AdmissionsJustified
<1> QED
  BY <1>4, <1>5

LEMMA AdmissionStepKeeps ==
    ASSUME AdmissionInv, [AdmissionNext]_admissionVars
    PROVE  AdmissionInv'
<1>1. CASE BeginCall
  <2>1. PICK g \in Grade, m \in BOOLEAN : call' = [pc |-> "token", grade |-> g, mfa |-> m]
    BY <1>1 DEF BeginCall
  <2>2. call' \in Call /\ call'.pc = "token" /\ call' # NoCall
    BY <2>1 DEF Call, NoCall
  <2>3. Watches({}, {}) /\ UNCHANGED <<enabled, duty, strict, granted>>
    BY <1>1 DEF BeginCall, policyVars
  <2>4. Watched' /\ seen' \subseteq Fact /\ missed' \subseteq Fact
    BY <2>3, WatchesKeeps
  <2>5. AdmissionTypeOK'
    BY <2>2, <2>3, <2>4 DEF AdmissionInv, AdmissionTypeOK
  <2> QED
    BY <2>2, <2>4, <2>5 DEF AdmissionInv, Passed, AdmissionsJustified
<1>2. CASE CheckActive
  <2>1. /\ AdmissionTypeOK' /\ Watched' /\ seen' = seen /\ missed' = missed
        /\ Now \subseteq seen /\ Fact \ Now \subseteq missed
        /\ call'.pc = IF enabled THEN "user" ELSE "refused"
    BY <1>2, AsksKeeps DEF CheckActive
  <2>2. IF enabled THEN "enabled" \in seen
        ELSE missed \cap (Fact \ {"lenient"}) # {}
    BY <2>1, FactsMeaning, Refusal DEF Now, Fact
  <2> QED
    BY <2>1, <2>2 DEF AdmissionInv, Passed, AdmissionsJustified
<1>3. CASE CheckMembership
  <2>1. /\ AdmissionTypeOK' /\ Watched' /\ seen' = seen /\ missed' = missed
        /\ Now \subseteq seen /\ Fact \ Now \subseteq missed
        /\ call'.pc = IF Member(duty, call.grade) THEN "member" ELSE "refused"
    BY <1>3, AsksKeeps DEF CheckMembership
  <2>2. IF Member(duty, call.grade) THEN "member" \in seen
        ELSE missed \cap (Fact \ {"lenient"}) # {}
    BY <2>1, FactsMeaning, Refusal DEF Now, Fact, Member
  <2>3. "enabled" \in seen
    BY <1>3 DEF AdmissionInv, Passed, CheckMembership, Asks
  <2> QED
    BY <2>1, <2>2, <2>3 DEF AdmissionInv, Passed, AdmissionsJustified
<1>4. CASE CheckMfa
  <2>1. /\ AdmissionTypeOK' /\ Watched' /\ seen' = seen /\ missed' = missed
        /\ Now \subseteq seen /\ Fact \ Now \subseteq missed
        /\ call'.pc = IF strict => ContextMfa THEN "policy" ELSE "mfa required"
    BY <1>4, AsksKeeps DEF CheckMfa
  <2>2. (strict => ContextMfa) <=> ~ strict
    BY DEF ContextMfa
  <2>4. "lenient" \in Now <=> ~ strict
    BY FactsMeaning DEF Now
  <2>5. IF strict => ContextMfa THEN "lenient" \in seen ELSE "lenient" \in missed
    BY <2>1, <2>2, <2>4 DEF Fact
  <2>3. {"enabled", "member"} \subseteq seen
    BY <1>4 DEF AdmissionInv, Passed, CheckMfa, Asks
  <2> QED
    BY <2>1, <2>3, <2>5 DEF AdmissionInv, Passed, AdmissionsJustified
<1>5. CASE CheckPermission
  <2>1. /\ AdmissionTypeOK' /\ Watched' /\ seen' = seen /\ missed' = missed
        /\ Now \subseteq seen /\ Fact \ Now \subseteq missed /\ seen \subseteq Fact
        /\ call'.pc = IF Permitted(granted, call.grade) THEN "admitted" ELSE "refused"
    BY <1>5, AsksKeeps DEF CheckPermission
  <2>2. IF Permitted(granted, call.grade) THEN "permitted" \in seen
        ELSE missed \cap (Fact \ {"lenient"}) # {}
    BY <2>1, FactsMeaning, Refusal DEF Now, Fact
  <2>3. {"enabled", "member", "lenient"} \subseteq seen
    BY <1>5 DEF AdmissionInv, Passed, CheckPermission, Asks
  <2>4. Permitted(granted, call.grade) => seen = Fact
    BY <2>1, <2>2, <2>3 DEF Fact
  <2> QED
    BY <2>1, <2>2, <2>4 DEF AdmissionInv, Passed, AdmissionsJustified
<1>6. CASE Provision
  BY <1>6, RowsChangeKeeps DEF Provision, AdmissionInv, AdmissionTypeOK
<1>7. CASE UpsertPolicy
  BY <1>7, RowsChangeKeeps DEF UpsertPolicy, AdmissionInv, AdmissionTypeOK
<1>8. CASE CreatePermission
  <2>1. granted' \subseteq Grade
    BY <1>8 DEF CreatePermission, AdmissionInv, AdmissionTypeOK
  <2> QED
    BY <1>8, <2>1, RowsChangeKeeps DEF CreatePermission, AdmissionInv, AdmissionTypeOK
<1>9. CASE UNCHANGED admissionVars
  <2>1. UNCHANGED <<enabled, duty, strict, granted, call, seen, missed>>
    BY <1>9 DEF admissionVars, policyVars
  <2> QED
    BY <2>1 DEF AdmissionInv, AdmissionTypeOK, Watched, Passed, AdmissionsJustified, Now
<1>10. CASE CallStep
  BY <1>10, <1>1, <1>2, <1>3, <1>4, <1>5 DEF CallStep
<1> QED
  BY <1>6, <1>7, <1>8, <1>9, <1>10 DEF AdmissionNext

LEMMA AdmissionInvariant == AdmissionSpec => []AdmissionInv
  BY AdmissionStarts, AdmissionStepKeeps, PTL DEF AdmissionSpec

(***************************************************************************)
(* For any roles and permissions: a sensitive call is admitted only on     *)
(* facts that all held since it began, and refused only for want of one.   *)
(***************************************************************************)
THEOREM CallsJustified == AdmissionSpec => []AdmissionsJustified
<1>1. AdmissionInv => AdmissionsJustified
  BY DEF AdmissionInv
<1> QED
  BY <1>1, AdmissionInvariant, PTL

(***************************************************************************)
(* When no commit changed what speaks for a call while its checks queried  *)
(* it, the answer is that of one look at all the rows: whoever is let in   *)
(* has everything it takes, and who is turned away lacks it still.         *)
(***************************************************************************)
THEOREM UndisturbedCallsAreExact ==
    AdmissionSpec => [](seen \cap missed = {} =>
        /\ call.pc = "admitted" =>
               enabled /\ duty = call.grade /\ ~ strict /\ Permitted(granted, call.grade)
        /\ call.pc = "refused" =>
               ~ enabled \/ duty # call.grade \/ ~ Permitted(granted, call.grade)
        /\ call.pc = "mfa required" => strict)
<1> DEFINE Exact == seen \cap missed = {} =>
               /\ call.pc = "admitted" =>
                      enabled /\ duty = call.grade /\ ~ strict /\ Permitted(granted, call.grade)
               /\ call.pc = "refused" =>
                      ~ enabled \/ duty # call.grade \/ ~ Permitted(granted, call.grade)
               /\ call.pc = "mfa required" => strict
<1>1. ASSUME AdmissionInv, seen \cap missed = {}
      PROVE  /\ call.pc = "admitted" =>
                    enabled /\ duty = call.grade /\ ~ strict /\ Permitted(granted, call.grade)
             /\ call.pc = "refused" =>
                    ~ enabled \/ duty # call.grade \/ ~ Permitted(granted, call.grade)
             /\ call.pc = "mfa required" => strict
  <2>1. /\ call.pc \in {"admitted", "refused", "mfa required"} =>
               Now \subseteq seen /\ Fact \ Now \subseteq missed
        /\ AdmissionsJustified
    <3>1. NoCall.pc = "none"
      BY DEF NoCall
    <3>2. call.pc \in {"admitted", "refused", "mfa required"} => call # NoCall
      BY <3>1
    <3> QED
      BY <1>1, <3>2 DEF AdmissionInv, Watched
  <2>2. /\ "enabled" \in Now <=> enabled
        /\ "member" \in Now <=> duty = call.grade
        /\ "lenient" \in Now <=> ~ strict
        /\ "permitted" \in Now <=> Permitted(granted, call.grade)
    BY FactsMeaning DEF Now
  <2>3. Fact = {"enabled", "member", "lenient", "permitted"}
    BY DEF Fact
  <2>4. CASE call.pc = "admitted"
    <3>1. \A f \in Fact : f \in Now
      BY <1>1, <2>1, <2>4 DEF AdmissionsJustified
    <3> QED
      BY <2>2, <2>3, <2>4, <3>1
  <2>5. CASE call.pc = "refused"
    <3>1. PICK f \in Fact \ {"lenient"} : f \in missed
      BY <2>1, <2>5 DEF AdmissionsJustified
    <3>2. f \notin Now
      BY <1>1, <2>1, <2>5, <3>1
    <3> QED
      BY <2>2, <2>3, <2>5, <3>1, <3>2
  <2>6. CASE call.pc = "mfa required"
    <3>1. "lenient" \notin Now
      BY <1>1, <2>1, <2>6 DEF AdmissionsJustified
    <3> QED
      BY <2>2, <2>6, <3>1
  <2> QED
    BY <2>4, <2>5, <2>6
<1>2. AdmissionInv => Exact
  BY <1>1
<1> HIDE DEF Exact
<1>3. AdmissionSpec => []Exact
  BY <1>2, AdmissionInvariant, PTL
<1> QED
  BY <1>3 DEF Exact

-----------------------------------------------------------------------------
(***************************************************************************)
(* Decisions.  DecisionInv: the rows that an open request found are still  *)
(* there unless they are marked as gone; an accepted finding stays so; and *)
(* the approval is as it was read unless a decision on it came between.    *)
(***************************************************************************)
Deciding(r) == decider[r].pc \in {"approval", "finding"}

FoundApproval(r) ==
    LET now == approvals[decider[r].approval]
    IN  /\ now # NoApproval
        /\ decider[r].row # Pending => now # Pending
        /\ ~ decider[r].disturbed => decider[r].row = now

Found ==
    \A r \in Decider : decider[r] # Waiting /\ ~ decider[r].gone =>
        /\ finding # "none"
        /\ decider[r].accepted => finding = "accepted"
        /\ Deciding(r) => FoundApproval(r)

NothingWithoutFinding == finding = "none" => \A a \in Approval : approvals[a] = NoApproval

DecisionInv ==
    /\ DecisionTypeOK
    /\ Found
    /\ NothingWithoutFinding
    /\ AcceptanceHasCause
    /\ LastDecisionStands

LEMMA DecisionStarts == DecisionInit => DecisionInv
<1> SUFFICES ASSUME DecisionInit PROVE DecisionInv
  OBVIOUS
<1> USE DEF DecisionInit
<1>1. NoApproval.status = "none"
  BY DEF NoApproval
<1>2. DecisionTypeOK
  BY DEF DecisionTypeOK
<1>3. Found /\ NothingWithoutFinding
  BY DEF Found, NothingWithoutFinding
<1>4. AcceptanceHasCause /\ LastDecisionStands
  BY <1>1 DEF AcceptanceHasCause, LastDecisionStands
<1> QED
  BY <1>2, <1>3, <1>4 DEF DecisionInv

LEMMA DeciderFacts ==
    ASSUME DecisionTypeOK, NEW r \in Decider
    PROVE  /\ decider[r] # Waiting => decider[r] \in OpenDecision \cup OpenWaiver
           /\ Deciding(r) => decider[r] # Waiting /\ decider[r] \in OpenDecision
           /\ decider[r].pc = "waiver" => decider[r] # Waiting /\ decider[r] \in OpenWaiver
           /\ decider[r] \in OpenDecision => Deciding(r)
<1>1. Waiting.pc = "closed"
  BY DEF Waiting
<1>2. \A d \in OpenDecision : d.pc \in {"approval", "finding"}
  BY DEF OpenDecision
<1>3. \A d \in OpenWaiver : d.pc = "waiver"
  BY DEF OpenWaiver
<1> QED
  BY <1>1, <1>2, <1>3 DEF DecisionTypeOK, Deciding

LEMMA PersistKeeps == DecisionInv /\ PersistResults => DecisionInv'
<1> SUFFICES ASSUME DecisionInv, PersistResults PROVE DecisionInv'
  OBVIOUS
<1>1. \A r \in Decider :
        /\ decider'[r] \in {Waiting} \cup OpenDecision \cup OpenWaiver
        /\ decider'[r] # Waiting => decider'[r].gone
  <2> SUFFICES ASSUME NEW r \in Decider
               PROVE  /\ decider'[r] \in {Waiting} \cup OpenDecision \cup OpenWaiver
                      /\ decider'[r] # Waiting => decider'[r].gone
    OBVIOUS
  <2>0. decider[r] # Waiting => decider[r] \in OpenDecision \cup OpenWaiver
    BY DeciderFacts DEF DecisionInv
  <2>1. CASE decider[r] = Waiting
    BY <2>1 DEF PersistResults
  <2>2. CASE decider[r] # Waiting /\ decider[r].pc = "waiver"
    <3>1. decider[r] \in OpenWaiver
      BY <2>2, DeciderFacts DEF DecisionInv
    <3>2. decider'[r] = Waiver(decider[r].accepted, TRUE)
      BY <2>2 DEF PersistResults
    <3> QED
      BY <3>1, <3>2 DEF Waiver, OpenWaiver
  <2>3. CASE decider[r] # Waiting /\ decider[r].pc # "waiver"
    <3>1. decider[r] \in OpenDecision
      BY <2>0, <2>3 DEF OpenWaiver
    <3>2. decider'[r] = Decision(decider[r], decider[r].pc, decider[r].accepted, TRUE,
                                 decider[r].disturbed)
      BY <2>3 DEF PersistResults
    <3> QED
      BY <3>1, <3>2 DEF Decision, OpenDecision
  <2> QED
    BY <2>1, <2>2, <2>3
<1>2. decider' = [r \in Decider |-> decider'[r]]
  BY DEF PersistResults
<1>3. /\ finding' \in {"none", "open"} /\ approvals' = [a \in Approval |-> NoApproval]
      /\ waived' = FALSE /\ approved' = FALSE
      /\ last' = approvals' /\ overtaken' = {}
  BY DEF PersistResults
<1>4. NoApproval.status = "none"
  BY DEF NoApproval
<1>5. DecisionTypeOK'
  BY <1>1, <1>2, <1>3 DEF DecisionTypeOK
<1>6. Found' /\ NothingWithoutFinding'
  BY <1>1, <1>3 DEF Found, NothingWithoutFinding
<1>7. AcceptanceHasCause' /\ LastDecisionStands'
  BY <1>3, <1>4 DEF AcceptanceHasCause, LastDecisionStands
<1> QED
  BY <1>5, <1>6, <1>7 DEF DecisionInv

LEMMA RequestKeeps ==
    ASSUME DecisionInv, NEW a \in Approval, RequestApproval(a)
    PROVE  DecisionInv'
<1>1. /\ finding # "none" /\ approvals[a] = NoApproval
      /\ approvals' = [approvals EXCEPT ![a] = Pending]
      /\ last' = [last EXCEPT ![a] = Pending]
      /\ UNCHANGED <<finding, waived, decider, approved, overtaken>>
  BY DEF RequestApproval
<1>2. DecisionTypeOK'
  BY <1>1 DEF DecisionInv, DecisionTypeOK
<1>3. Found'
  <2> SUFFICES ASSUME NEW r \in Decider, decider[r] # Waiting, ~ decider[r].gone, Deciding(r)
               PROVE  FoundApproval(r)'
    BY <1>1 DEF Found, DecisionInv, Deciding
  <2>1. FoundApproval(r)
    BY DEF DecisionInv, Found
  <2>2. decider[r].approval # a
    BY <1>1, <2>1 DEF FoundApproval
  <2>3. decider[r].approval \in Approval
    BY DeciderFacts DEF DecisionInv, OpenDecision
  <2> QED
    BY <1>1, <2>1, <2>2, <2>3 DEF FoundApproval, DecisionInv, DecisionTypeOK
<1>4. NothingWithoutFinding'
  BY <1>1 DEF NothingWithoutFinding
<1>5. Pending.status # "approved"
  BY DEF Pending
<1>6. AcceptanceHasCause' /\ LastDecisionStands'
  BY <1>1, <1>5 DEF AcceptanceHasCause, LastDecisionStands, DecisionInv, DecisionTypeOK
<1> QED
  BY <1>2, <1>3, <1>4, <1>6 DEF DecisionInv

\* A request that reads, or gives up.
LEMMA ReadsKeeps ==
    ASSUME DecisionInv, NEW r \in Decider, NEW d, DeciderReads(r, d),
           d \in {Waiting} \cup OpenDecision \cup OpenWaiver,
           d # Waiting /\ ~ d.gone =>
               /\ finding # "none"
               /\ d.accepted => finding = "accepted"
               /\ d.pc \in {"approval", "finding"} =>
                      /\ approvals[d.approval] # NoApproval
                      /\ d.row # Pending => approvals[d.approval] # Pending
                      /\ ~ d.disturbed => d.row = approvals[d.approval]
    PROVE  DecisionInv'
<1>1. /\ decider' = [decider EXCEPT ![r] = d]
      /\ UNCHANGED <<finding, approvals, waived, approved, last, overtaken>>
  BY DEF DeciderReads
<1>2. DecisionTypeOK'
  BY <1>1 DEF DecisionInv, DecisionTypeOK
<1>3. Found'
  <2> SUFFICES ASSUME NEW s \in Decider, (decider[s] # Waiting)', ~ (decider[s].gone)'
               PROVE  /\ finding # "none"
                      /\ (decider[s].accepted)' => finding = "accepted"
                      /\ Deciding(s)' => FoundApproval(s)'
    BY <1>1 DEF Found
  <2>1. CASE s = r
    <3>1. decider'[s] = d
      BY <1>1, <2>1 DEF DecisionInv, DecisionTypeOK
    <3> QED
      BY <1>1, <3>1 DEF Deciding, FoundApproval
  <2>2. CASE s # r
    <3>1. decider'[s] = decider[s]
      BY <1>1, <2>2 DEF DecisionInv, DecisionTypeOK
    <3> QED
      BY <1>1, <3>1 DEF DecisionInv, Found, Deciding, FoundApproval
  <2> QED
    BY <2>1, <2>2
<1>4. NothingWithoutFinding' /\ AcceptanceHasCause' /\ LastDecisionStands'
  BY <1>1 DEF DecisionInv, NothingWithoutFinding, AcceptanceHasCause, LastDecisionStands
<1> QED
  BY <1>2, <1>3, <1>4 DEF DecisionInv

LEMMA BeginDecisionKeeps ==
    ASSUME DecisionInv, NEW r \in Decider, NEW a \in Approval, BeginDecision(r, a)
    PROVE  DecisionInv'
<1> DEFINE d == [pc |-> "approval", approval |-> a, row |-> approvals[a],
                 accepted |-> FALSE, gone |-> FALSE, disturbed |-> FALSE]
<1>1. approvals[a] # NoApproval /\ DeciderReads(r, d)
  BY DEF BeginDecision
<1>2. d \in OpenDecision
  BY <1>1 DEF DecisionInv, DecisionTypeOK, OpenDecision
<1>3. finding # "none"
  BY <1>1 DEF DecisionInv, NothingWithoutFinding
<1>4. d.approval = a /\ d.row = approvals[a] /\ ~ d.accepted
  OBVIOUS
<1> HIDE DEF d
<1> QED
  BY <1>1, <1>2, <1>3, <1>4, ReadsKeeps

LEMMA ReadFindingKeeps ==
    ASSUME DecisionInv, NEW r \in Decider, ReadFinding(r)
    PROVE  DecisionInv'
<1> DEFINE d == Decision(decider[r], "finding", finding = "accepted", FALSE, decider[r].disturbed)
<1>1. decider[r].pc = "approval" /\ ~ decider[r].gone /\ DeciderReads(r, d)
  BY DEF ReadFinding
<1>2. Deciding(r)
  BY <1>1 DEF Deciding
<1>3. decider[r] # Waiting /\ decider[r] \in OpenDecision
  BY <1>2, DeciderFacts DEF DecisionInv
<1>4. d \in OpenDecision
  BY <1>3 DEF OpenDecision, Decision
<1>5. finding # "none" /\ FoundApproval(r)
  BY <1>1, <1>2, <1>3 DEF DecisionInv, Found
<1>6. /\ d.approval = decider[r].approval /\ d.row = decider[r].row
      /\ d.disturbed = decider[r].disturbed /\ d.accepted = (finding = "accepted")
  BY DEF Decision
<1> HIDE DEF d
<1>7. /\ approvals[d.approval] # NoApproval
      /\ d.row # Pending => approvals[d.approval] # Pending
      /\ ~ d.disturbed => d.row = approvals[d.approval]
  BY <1>5, <1>6 DEF FoundApproval
<1> QED
  BY <1>1, <1>4, <1>5, <1>6, <1>7, ReadsKeeps

LEMMA BeginWaiverKeeps ==
    ASSUME DecisionInv, NEW r \in Decider, BeginWaiver(r)
    PROVE  DecisionInv'
<1> DEFINE d == Waiver(finding = "accepted", FALSE)
<1>1. finding # "none" /\ DeciderReads(r, d)
  BY DEF BeginWaiver
<1>2. d \in OpenWaiver /\ d.pc = "waiver" /\ d.accepted = (finding = "accepted")
  BY DEF Waiver, OpenWaiver
<1> HIDE DEF d
<1> QED
  BY <1>1, <1>2, ReadsKeeps

LEMMA DeciderRaisesKeeps ==
    ASSUME DecisionInv, NEW r \in Decider, DeciderRaises(r)
    PROVE  DecisionInv'
  BY ReadsKeeps DEF DeciderRaises

\* The approval's row after a decision.
LEMMA RowAfterFacts ==
    ASSUME NEW now \in Decided \cup {Pending}, NEW read \in Decided \cup {Pending},
           read # Pending => now # Pending, NEW decision \in Decided
    PROVE  /\ RowAfter(now, read, decision) \in Decided
           /\ RowAfter(now, read, decision).status \in {now.status, decision.status}
           /\ now = read => RowAfter(now, read, decision) = decision
<1> DEFINE status == Elided(now.status, read.status, decision.status)
           by     == Elided(now.by, read.by, decision.by)
<1>1. RowAfter(now, read, decision) = [status |-> status, by |-> by]
  BY DEF RowAfter
<1>2. decision.status \in {"approved", "rejected"} /\ decision.by \in Approver
  BY DEF Decided
<1>3. status \in {now.status, decision.status}
  BY DEF Elided
<1>4. status \in {"approved", "rejected"} /\ by \in Approver
  <2>1. CASE now = Pending
    <3>1. read = Pending
      BY <2>1
    <3>2. read.status = "pending" /\ read.by = "no one"
      BY <3>1 DEF Pending, NoOne
    <3>3. status = decision.status /\ by = decision.by
      BY <1>2, <3>2, DecisionAssumption DEF Elided
    <3> QED
      BY <1>2, <3>3
  <2>2. CASE now # Pending
    <3>1. now.status \in {"approved", "rejected"} /\ now.by \in Approver
      BY <2>2 DEF Decided
    <3> QED
      BY <1>2, <3>1 DEF Elided
  <2> QED
    BY <2>1, <2>2
<1>5. now = read => status = decision.status /\ by = decision.by
  BY DEF Elided
<1>6. decision = [status |-> decision.status, by |-> decision.by]
  BY DEF Decided
<1> HIDE DEF status, by
<1>7. [status |-> status, by |-> by] \in Decided
  BY <1>4 DEF Decided
<1> QED
  BY <1>1, <1>3, <1>5, <1>6, <1>7

LEMMA CommitDecisionKeeps ==
    ASSUME DecisionInv, NEW r \in Decider, CommitDecision(r)
    PROVE  DecisionInv'
<1> DEFINE a        == decider[r].approval
           approves == decider[r].pc = "finding"
           dec(u)   == [status |-> IF approves THEN "approved" ELSE "rejected", by |-> u]
           row(u)   == RowAfter(approvals[a], decider[r].row, dec(u))
<1>1. /\ Deciding(r) /\ ~ decider[r].gone
      /\ \E u \in Approver :
             /\ approvals' = [approvals EXCEPT ![a] = row(u)]
             /\ last' = [last EXCEPT ![a] = dec(u)]
      /\ finding' = StatusAfter(approves, decider[r].accepted)
      /\ approved' = (approved \/ approves)
      /\ overtaken' = IF decider[r].disturbed THEN overtaken \cup {a} ELSE overtaken \ {a}
      /\ waived' = waived
  BY DEF CommitDecision, Deciding
<1>2. decider' = [s \in Decider |->
          IF s = r THEN Waiting
          ELSE IF Deciding(s) /\ decider[s].approval = a
          THEN Decision(decider[s], decider[s].pc, decider[s].accepted, decider[s].gone, TRUE)
          ELSE decider[s]]
  BY DEF CommitDecision, Deciding
<1>3. PICK u \in Approver : approvals' = [approvals EXCEPT ![a] = row(u)]
                              /\ last' = [last EXCEPT ![a] = dec(u)]
  BY <1>1
<1>4. decider[r] # Waiting /\ decider[r] \in OpenDecision
  BY <1>1, DeciderFacts DEF DecisionInv
<1>5. a \in Approval /\ decider[r].row \in Decided \cup {Pending}
        /\ decider[r].accepted \in BOOLEAN
  BY <1>4 DEF OpenDecision
<1>6. finding # "none" /\ (decider[r].accepted => finding = "accepted") /\ FoundApproval(r)
  BY <1>1, <1>4 DEF DecisionInv, Found
<1>7. dec(u) \in Decided /\ dec(u).status = IF approves THEN "approved" ELSE "rejected"
  BY DEF Decided
<1>8. approvals[a] \in Decided \cup {Pending}
  BY <1>5, <1>6 DEF FoundApproval, DecisionInv, DecisionTypeOK
<1> DEFINE new == row(u)
           d   == dec(u)
<1>9. /\ new \in Decided /\ new.status \in {approvals[a].status, d.status}
      /\ approvals[a] = decider[r].row => new = d
  BY <1>5, <1>6, <1>7, <1>8, RowAfterFacts DEF FoundApproval
<1>10. /\ d \in Decided /\ d.status = IF approves THEN "approved" ELSE "rejected"
       /\ approvals' = [approvals EXCEPT ![a] = new] /\ last' = [last EXCEPT ![a] = d]
  BY <1>3, <1>7
<1>11. ~ decider[r].disturbed => new = d
  BY <1>6, <1>9 DEF FoundApproval
<1> HIDE DEF new, d, dec, row
<1>12. /\ finding' \in {"open", "accepted"}
       /\ finding' = IF approves THEN "accepted" ELSE finding
  BY <1>1, <1>5, <1>6 DEF StatusAfter, DecisionInv, DecisionTypeOK
<1>13. \A s \in Decider : decider'[s] \in {Waiting} \cup OpenDecision \cup OpenWaiver
  <2> SUFFICES ASSUME NEW s \in Decider
               PROVE  decider'[s] \in {Waiting} \cup OpenDecision \cup OpenWaiver
    OBVIOUS
  <2>1. CASE s # r /\ Deciding(s) /\ decider[s].approval = a
    <3>1. decider'[s] = Decision(decider[s], decider[s].pc, decider[s].accepted,
                                 decider[s].gone, TRUE)
      BY <1>2, <2>1
    <3>2. decider[s] \in OpenDecision
      BY <2>1, DeciderFacts DEF DecisionInv
    <3> QED
      BY <3>1, <3>2 DEF Decision, OpenDecision
  <2>2. CASE s = r \/ ~ (Deciding(s) /\ decider[s].approval = a)
    BY <1>2, <2>2 DEF DecisionInv, DecisionTypeOK
  <2> QED
    BY <2>1, <2>2
<1>14. DecisionTypeOK'
  <2>1. approved' \in BOOLEAN /\ waived' \in BOOLEAN /\ overtaken' \subseteq Approval
    BY <1>1, <1>5 DEF DecisionInv, DecisionTypeOK
  <2>2. /\ approvals' \in [Approval -> Decided \cup {NoApproval, Pending}]
        /\ last' \in [Approval -> Decided \cup {NoApproval, Pending}]
    BY <1>9, <1>10 DEF DecisionInv, DecisionTypeOK
  <2>3. decider' = [s \in Decider |-> decider'[s]]
    BY <1>2
  <2>4. decider' \in [Decider -> {Waiting} \cup OpenDecision \cup OpenWaiver]
    BY <1>13, <2>3
  <2> QED
    BY <1>12, <2>1, <2>2, <2>4 DEF DecisionTypeOK
<1>15. new # NoApproval /\ new # Pending
  BY <1>9 DEF Decided, NoApproval, Pending
<1>16. Found'
  <2> SUFFICES ASSUME NEW s \in Decider, (decider[s] # Waiting)', ~ (decider[s].gone)'
               PROVE  /\ (finding # "none")'
                      /\ (decider[s].accepted => finding = "accepted")'
                      /\ (Deciding(s) => FoundApproval(s))'
    BY DEF Found
  <2>1. s # r
    BY <1>2
  <2>2. CASE Deciding(s) /\ decider[s].approval = a
    <3>1. decider'[s] = Decision(decider[s], decider[s].pc, decider[s].accepted,
                                 decider[s].gone, TRUE)
      BY <1>2, <2>1, <2>2
    <3>2. /\ decider'[s].accepted = decider[s].accepted /\ decider'[s].gone = decider[s].gone
          /\ decider'[s].approval = a /\ decider'[s].disturbed
      BY <2>2, <3>1 DEF Decision
    <3>3. decider[s].accepted => finding = "accepted"
      BY <2>2, <3>2, DeciderFacts DEF DecisionInv, Found
    <3>4. approvals'[a] = new
      BY <1>5, <1>10 DEF DecisionInv, DecisionTypeOK
    <3> QED
      BY <1>12, <1>15, <3>2, <3>3, <3>4 DEF FoundApproval
  <2>3. CASE ~ (Deciding(s) /\ decider[s].approval = a)
    <3>1. decider'[s] = decider[s]
      BY <1>2, <2>1, <2>3
    <3>2. /\ decider[s].accepted => finding = "accepted"
          /\ Deciding(s) => FoundApproval(s) /\ decider[s].approval \in Approval
      BY <3>1, DeciderFacts DEF DecisionInv, Found, OpenDecision
    <3>3. ASSUME Deciding(s)
          PROVE  approvals'[decider[s].approval] = approvals[decider[s].approval]
      BY <1>10, <2>3, <3>2, <3>3 DEF DecisionInv, DecisionTypeOK
    <3> QED
      BY <1>12, <3>1, <3>2, <3>3 DEF Deciding, FoundApproval
  <2> QED
    BY <2>2, <2>3
<1>17. NothingWithoutFinding'
  BY <1>12 DEF NothingWithoutFinding
<1>18. AcceptanceHasCause'
  <2>1. finding' = "accepted" <=> waived' \/ approved'
    BY <1>1, <1>12 DEF DecisionInv, AcceptanceHasCause
  <2>2. ASSUME NEW b \in Approval, approvals'[b].status = "approved" PROVE approved'
    <3>1. CASE b = a
      <4>1. new.status = "approved"
        BY <1>5, <1>10, <2>2, <3>1 DEF DecisionInv, DecisionTypeOK
      <4> QED
        BY <1>1, <1>5, <1>9, <1>10, <4>1 DEF DecisionInv, AcceptanceHasCause
    <3>2. CASE b # a
      BY <1>1, <1>10, <2>2, <3>2 DEF DecisionInv, DecisionTypeOK, AcceptanceHasCause
    <3> QED
      BY <3>1, <3>2
  <2> QED
    BY <2>1, <2>2 DEF AcceptanceHasCause
<1>19. LastDecisionStands'
  <2> SUFFICES ASSUME NEW b \in Approval, b \notin overtaken' PROVE approvals'[b] = last'[b]
    BY DEF LastDecisionStands
  <2>1. CASE b = a
    BY <1>1, <1>10, <1>11, <2>1 DEF DecisionInv, DecisionTypeOK
  <2>2. CASE b # a
    BY <1>1, <1>10, <2>2 DEF DecisionInv, DecisionTypeOK, LastDecisionStands
  <2> QED
    BY <2>1, <2>2
<1> QED
  BY <1>14, <1>16, <1>17, <1>18, <1>19 DEF DecisionInv

LEMMA CommitWaiverKeeps ==
    ASSUME DecisionInv, NEW r \in Decider, CommitWaiver(r)
    PROVE  DecisionInv'
<1>1. /\ decider[r].pc = "waiver" /\ ~ decider[r].gone
      /\ finding' = StatusAfter(TRUE, decider[r].accepted) /\ waived' = TRUE
      /\ decider' = [decider EXCEPT ![r] = Waiting]
      /\ UNCHANGED <<approvals, approved, last, overtaken>>
  BY DEF CommitWaiver
<1>2. decider[r] # Waiting
  BY <1>1, DeciderFacts DEF DecisionInv
<1>3. decider[r].accepted => finding = "accepted"
  BY <1>1, <1>2 DEF DecisionInv, Found
<1>4. finding' = "accepted"
  BY <1>1, <1>3 DEF StatusAfter
<1>5. DecisionTypeOK'
  BY <1>1, <1>4 DEF DecisionInv, DecisionTypeOK
<1>6. Found'
  <2> SUFFICES ASSUME NEW s \in Decider, (decider[s] # Waiting)', ~ (decider[s].gone)'
               PROVE  Deciding(s)' => FoundApproval(s)'
    BY <1>4 DEF Found
  <2>1. decider'[s] = decider[s]
    BY <1>1 DEF DecisionInv, DecisionTypeOK
  <2> QED
    BY <1>1, <2>1 DEF DecisionInv, Found, Deciding, FoundApproval
<1>7. NothingWithoutFinding' /\ AcceptanceHasCause' /\ LastDecisionStands'
  BY <1>1, <1>4 DEF DecisionInv, NothingWithoutFinding, AcceptanceHasCause, LastDecisionStands
<1> QED
  BY <1>5, <1>6, <1>7 DEF DecisionInv

LEMMA DecisionStutters == DecisionInv /\ UNCHANGED decisionVars => DecisionInv'
  BY DEF decisionVars, DecisionInv, DecisionTypeOK, Found, Deciding, FoundApproval,
         NothingWithoutFinding, AcceptanceHasCause, LastDecisionStands

LEMMA DecisionInvariant == DecisionSpec => []DecisionInv
<1>1. DecisionInv /\ [DecisionNext]_decisionVars => DecisionInv'
  BY PersistKeeps, RequestKeeps, BeginDecisionKeeps, ReadFindingKeeps, BeginWaiverKeeps,
     CommitDecisionKeeps, CommitWaiverKeeps, DeciderRaisesKeeps, DecisionStutters
     DEF DecisionNext, DeciderStep
<1> QED
  BY DecisionStarts, <1>1, PTL DEF DecisionSpec

(***************************************************************************)
(* For any approvals, users and requests: a finding is accepted exactly    *)
(* when a waiver or an approval accepted it.                               *)
(***************************************************************************)
THEOREM AcceptancesCaused == DecisionSpec => []AcceptanceHasCause
<1>1. DecisionInv => AcceptanceHasCause
  BY DEF DecisionInv
<1> QED
  BY <1>1, DecisionInvariant, PTL

(***************************************************************************)
(* For any approvals, users and requests: an approval records the decision *)
(* committed last, if that was taken on the approval's last row.           *)
(***************************************************************************)
THEOREM DecisionsStand == DecisionSpec => []LastDecisionStands
<1>1. DecisionInv => LastDecisionStands
  BY DEF DecisionInv
<1> QED
  BY <1>1, DecisionInvariant, PTL

-----------------------------------------------------------------------------
(***************************************************************************)
(* Provisioning.  DirectoryInv: what a request that nobody overtook has    *)
(* read is still so (Undisturbed), so that a column its flush leaves out   *)
(* has the value it assigned all the same.                                 *)
(***************************************************************************)
Undisturbed ==
    \A r \in Scim : scim[r] # Closed /\ ~ scim[r].disturbed =>
        /\ scim[r].op # "group" => scim[r].readAccount = account
        /\ scim[r].pc = "ready" => scim[r].readRole = member[scim[r].org]

DirectoryInv == DirectoryTypeOK /\ Undisturbed /\ TrailTellsDirectory

LEMMA DirectoryStarts == DirectoryInit => DirectoryInv
  BY DEF DirectoryInit, DirectoryInv, DirectoryTypeOK, Undisturbed, TrailTellsDirectory, Account

LEMMA ScimFacts ==
    ASSUME DirectoryTypeOK, NEW r \in Scim, scim[r].pc # "closed" \/ scim[r] # Closed
    PROVE  /\ scim[r] # Closed /\ scim[r] \in OpenScim
           /\ scim[r].pc \in {"account", "inserted", "ready"}
           /\ scim[r].op \in {"create", "patch", "group"}
           /\ scim[r].org \in Tenant
           /\ scim[r].readAccount \in Account
           /\ scim[r].readRole \in Role \cup {NoRole}
           /\ scim[r].disturbed \in BOOLEAN
<1>1. Closed.pc = "closed"
  BY DEF Closed
<1>2. scim[r] # Closed /\ scim[r] \in OpenScim
  BY <1>1 DEF DirectoryTypeOK
<1> QED
  BY <1>2 DEF OpenScim

\* A request that opens, reads on, or gives up.
LEMMA ScimReadsKeeps ==
    ASSUME DirectoryInv, NEW r \in Scim, NEW d \in {Closed} \cup OpenScim,
           scim' = [scim EXCEPT ![r] = d], UNCHANGED <<account, member, told, untold>>,
           d # Closed /\ ~ d.disturbed =>
               /\ d.op # "group" => d.readAccount = account
               /\ d.pc = "ready" => d.readRole = member[d.org]
    PROVE  DirectoryInv'
<1>1. DirectoryTypeOK' /\ TrailTellsDirectory'
  BY DEF DirectoryInv, DirectoryTypeOK, TrailTellsDirectory
<1>2. \A s \in Scim : scim'[s] = IF s = r THEN d ELSE scim[s]
  BY DEF DirectoryInv, DirectoryTypeOK
<1>3. Undisturbed'
  <2> SUFFICES ASSUME NEW s \in Scim, (scim[s] # Closed)', ~ (scim[s].disturbed)'
               PROVE  /\ (scim[s].op # "group" => scim[s].readAccount = account)'
                      /\ (scim[s].pc = "ready" => scim[s].readRole = member[scim[s].org])'
    BY DEF Undisturbed
  <2>1. CASE s = r
    BY <1>2, <2>1
  <2>2. CASE s # r
    BY <1>2, <2>2 DEF DirectoryInv, Undisturbed
  <2> QED
    BY <2>1, <2>2
<1> QED
  BY <1>1, <1>3 DEF DirectoryInv

LEMMA ScimOpensKeeps ==
    ASSUME DirectoryInv, NEW r \in Scim, NEW pc \in {"account", "ready"},
           NEW op \in {"create", "patch", "group"}, NEW o \in Tenant,
           NEW readAccount \in Account, NEW readRole \in Role \cup {NoRole},
           ScimOpens(r, pc, op, o, readAccount, readRole),
           op # "group" => readAccount = account,
           pc = "ready" => readRole = member[o]
    PROVE  DirectoryInv'
<1> DEFINE d == [pc |-> pc, op |-> op, org |-> o,
                 readAccount |-> readAccount, readRole |-> readRole, disturbed |-> FALSE]
<1>1. scim' = [scim EXCEPT ![r] = d] /\ UNCHANGED <<account, member, told, untold>>
  BY DEF ScimOpens, rows
<1>2. d \in OpenScim
  BY DEF OpenScim
<1>3. /\ d.op # "group" => d.readAccount = account
      /\ d.pc = "ready" => d.readRole = member[d.org]
  OBVIOUS
<1> HIDE DEF d
<1> QED
  BY <1>1, <1>2, <1>3, ScimReadsKeeps

LEMMA ScimMovesKeeps ==
    ASSUME DirectoryInv, NEW r \in Scim, scim[r].pc # "closed",
           NEW pc \in {"inserted", "ready"}, NEW readRole \in Role \cup {NoRole},
           ScimMoves(r, pc, readRole),
           pc = "ready" => readRole = member[scim[r].org]
    PROVE  DirectoryInv'
<1> DEFINE d == [pc |-> pc, op |-> scim[r].op, org |-> scim[r].org,
                 readAccount |-> scim[r].readAccount, readRole |-> readRole,
                 disturbed |-> scim[r].disturbed]
<1>1. scim' = [scim EXCEPT ![r] = d] /\ UNCHANGED <<account, member, told, untold>>
  BY DEF ScimMoves, rows
<1>2. scim[r] # Closed /\ d \in OpenScim
  BY ScimFacts DEF DirectoryInv, OpenScim
<1>3. ~ d.disturbed => /\ d.op # "group" => d.readAccount = account
                       /\ d.pc = "ready" => d.readRole = member[d.org]
  BY <1>2 DEF DirectoryInv, Undisturbed
<1> HIDE DEF d
<1> QED
  BY <1>1, <1>2, <1>3, ScimReadsKeeps

LEMMA ScimReading ==
    ASSUME DirectoryInv, NEW r \in Scim,
           \/ \E o \in Tenant : BeginCreate(r, o) \/ BeginPatch(r, o) \/ BeginGroup(r, o)
           \/ InsertAccount(r) \/ ReadMembership(r) \/ ScimRaises(r)
    PROVE  DirectoryInv'
<1>0. account \in Account /\ NoRole \in Role \cup {NoRole} /\ "none" \in Account
        /\ \A o \in Tenant : member[o] \in Role \cup {NoRole}
  BY DEF DirectoryInv, DirectoryTypeOK, Account
<1>1. ASSUME NEW o \in Tenant, BeginCreate(r, o) PROVE DirectoryInv'
  BY <1>0, <1>1, ScimOpensKeeps DEF BeginCreate
<1>2. ASSUME NEW o \in Tenant, BeginPatch(r, o) PROVE DirectoryInv'
  BY <1>0, <1>2, ScimOpensKeeps DEF BeginPatch
<1>3. ASSUME NEW o \in Tenant, BeginGroup(r, o) PROVE DirectoryInv'
  BY <1>0, <1>3, ScimOpensKeeps DEF BeginGroup
<1>4. CASE InsertAccount(r)
  BY <1>0, <1>4, ScimMovesKeeps DEF InsertAccount
<1>5. CASE ReadMembership(r)
  <2>1. scim[r].pc \in {"inserted", "account"} /\ ScimMoves(r, "ready", member[scim[r].org])
    BY <1>5 DEF ReadMembership
  <2>2. member[scim[r].org] \in Role \cup {NoRole}
    BY <1>0, <2>1, ScimFacts DEF DirectoryInv
  <2> QED
    BY <2>1, <2>2, ScimMovesKeeps
<1>6. CASE ScimRaises(r)
  BY <1>6, ScimReadsKeeps DEF ScimRaises, rows
<1> QED
  BY <1>1, <1>2, <1>3, <1>4, <1>5, <1>6

\* What a commit writes is well typed, and leaves everyone else overtaken.
LEMMA CommitFacts ==
    ASSUME DirectoryInv, NEW r \in Scim, scim[r].pc = "ready", Closes(r),
           NEW active \in Active \cup {Same}, NEW role \in Role \cup {Same},
           Writes(r, active, role)
    PROVE  /\ account' \in Account /\ member' \in [Tenant -> Role \cup {NoRole}]
           /\ scim' \in [Scim -> {Closed} \cup OpenScim]
           /\ Undisturbed'
           /\ active = Same => account' = account
           /\ \A o \in Tenant : (o = scim[r].org /\ role # Same) \/ member'[o] = member[o]
<1> DEFINE o == scim[r].org
<1>1. /\ account' = Flushed(account, scim[r].readAccount, active)
      /\ member' = [member EXCEPT ![o] = Flushed(@, scim[r].readRole, role)]
  BY DEF Writes
<1>2. account' \in Account /\ (active = Same => account' = account)
  BY <1>1 DEF Flushed, Active, Account, DirectoryInv, DirectoryTypeOK
<1>3. o \in Tenant
  BY ScimFacts DEF DirectoryInv
<1>4. /\ Flushed(member[o], scim[r].readRole, role) \in Role \cup {NoRole}
      /\ role = Same => Flushed(member[o], scim[r].readRole, role) = member[o]
  BY <1>3 DEF Flushed, DirectoryInv, DirectoryTypeOK
<1>5. /\ member' \in [Tenant -> Role \cup {NoRole}]
      /\ \A p \in Tenant : (p = o /\ role # Same) \/ member'[p] = member[p]
  BY <1>1, <1>3, <1>4 DEF DirectoryInv, DirectoryTypeOK
<1>6. \A s \in Scim : scim'[s] = Closed \/ (scim'[s] \in OpenScim /\ scim'[s].disturbed)
  <2> SUFFICES ASSUME NEW s \in Scim, s # r, scim[s] # Closed
               PROVE  scim'[s] \in OpenScim /\ scim'[s].disturbed
    BY DEF Closes
  <2>1. scim'[s] = [pc |-> scim[s].pc, op |-> scim[s].op, org |-> scim[s].org,
                    readAccount |-> scim[s].readAccount, readRole |-> scim[s].readRole,
                    disturbed |-> TRUE]
    BY DEF Closes
  <2>2. scim[s] \in OpenScim
    BY ScimFacts DEF DirectoryInv
  <2> QED
    BY <2>1, <2>2 DEF OpenScim
<1>7. scim' = [s \in Scim |-> scim'[s]]
  BY DEF Closes
<1>8. scim' \in [Scim -> {Closed} \cup OpenScim]
  BY <1>6, <1>7
<1>9. Undisturbed'
  BY <1>6 DEF Undisturbed
<1> QED
  BY <1>2, <1>5, <1>8, <1>9

LEMMA PayloadFacts ==
    ASSUME NEW op \in {"create", "patch", "group"}, NEW p \in Payloads(op)
    PROVE  p[1] \in Active \cup {Same} /\ p[2] \in Role \cup {Same}
  BY DEF Payloads

LEMMA CommitLoggedKeeps ==
    ASSUME DirectoryInv, NEW r \in Scim, CommitLogged(r)
    PROVE  DirectoryInv'
<1>1. PICK p \in Payloads(scim[r].op) :
        /\ Writes(r, p[1], p[2]) /\ Tells(r, p[1], p[2])
        /\ untold' = IF scim[r].disturbed THEN untold \cup Assigned(r, p[1], p[2])
                     ELSE untold \ Assigned(r, p[1], p[2])
  BY DEF CommitLogged
<1> DEFINE active == p[1]
           role   == p[2]
           o      == scim[r].org
<1>2. scim[r].pc = "ready" /\ scim[r].op \in {"create", "patch"} /\ Closes(r)
  BY DEF CommitLogged
<1>3. active \in Active \cup {Same} /\ role \in Role \cup {Same}
  BY <1>2, PayloadFacts
<1>4. scim[r] # Closed /\ o \in Tenant
  BY <1>2, ScimFacts DEF DirectoryInv
<1>5. /\ Writes(r, active, role) /\ Tells(r, active, role)
      /\ untold' = IF scim[r].disturbed THEN untold \cup Assigned(r, active, role)
                   ELSE untold \ Assigned(r, active, role)
  BY <1>1
<1> HIDE DEF active, role
<1>6. /\ account' \in Account /\ member' \in [Tenant -> Role \cup {NoRole}]
      /\ scim' \in [Scim -> {Closed} \cup OpenScim] /\ Undisturbed'
      /\ active = Same => account' = account
      /\ \A q \in Tenant : (q = o /\ role # Same) \/ member'[q] = member[q]
  BY <1>2, <1>3, <1>5, CommitFacts
<1>7. /\ told'.account = IF active = Same THEN told.account ELSE active
      /\ told'.member = IF role = Same THEN told.member ELSE [told.member EXCEPT ![o] = role]
      /\ told' = [account |-> told'.account, member |-> told'.member]
  BY <1>5 DEF Tells
<1>8. told' \in [account : Account, member : [Tenant -> Role \cup {NoRole}]]
  <2>1. told'.account \in Account
    BY <1>3, <1>7 DEF Active, Account, DirectoryInv, DirectoryTypeOK
  <2>2. told'.member \in [Tenant -> Role \cup {NoRole}]
    BY <1>3, <1>4, <1>7 DEF DirectoryInv, DirectoryTypeOK
  <2> QED
    BY <1>7, <2>1, <2>2
<1>9. /\ "account" \in Assigned(r, active, role) <=> active # Same
      /\ \A q \in Tenant : q \in Assigned(r, active, role) <=> q = o /\ role # Same
      /\ Assigned(r, active, role) \subseteq Column
  BY <1>4, DirectoryAssumption DEF Assigned, Column
<1>10. DirectoryTypeOK'
  BY <1>5, <1>6, <1>8, <1>9 DEF DirectoryInv, DirectoryTypeOK
<1>11. ASSUME ~ scim[r].disturbed
       PROVE  /\ active # Same => account' = active
              /\ role # Same => member'[o] = role
  <2>1. scim[r].readAccount = account /\ scim[r].readRole = member[o]
    BY <1>2, <1>4, <1>11 DEF DirectoryInv, Undisturbed
  <2> QED
    BY <1>4, <1>5, <2>1 DEF Writes, Flushed, DirectoryInv, DirectoryTypeOK
<1>12. ASSUME "account" \notin untold' PROVE told'.account = account'
  <2>1. CASE active = Same
    BY <1>5, <1>6, <1>7, <1>9, <1>12, <2>1 DEF DirectoryInv, TrailTellsDirectory
  <2>2. CASE active # Same
    BY <1>5, <1>7, <1>9, <1>11, <1>12, <2>2
  <2> QED
    BY <2>1, <2>2
<1>13. ASSUME NEW q \in Tenant, q \notin untold' PROVE told'.member[q] = member'[q]
  <2>1. CASE q = o /\ role # Same
    <3>1. ~ scim[r].disturbed
      BY <1>5, <1>9, <1>13, <2>1
    <3>2. told'.member[q] = role
      BY <1>7, <2>1 DEF DirectoryInv, DirectoryTypeOK
    <3> QED
      BY <1>11, <2>1, <3>1, <3>2
  <2>2. CASE ~ (q = o /\ role # Same)
    <3>1. q \notin untold /\ member'[q] = member[q]
      BY <1>5, <1>6, <1>9, <1>13, <2>2
    <3>2. told'.member[q] = told.member[q]
      BY <1>7, <2>2 DEF DirectoryInv, DirectoryTypeOK
    <3> QED
      BY <3>1, <3>2 DEF DirectoryInv, TrailTellsDirectory
  <2> QED
    BY <2>1, <2>2
<1>14. TrailTellsDirectory'
  BY <1>12, <1>13 DEF TrailTellsDirectory
<1> QED
  BY <1>6, <1>10, <1>14 DEF DirectoryInv

LEMMA CommitUnloggedKeeps ==
    ASSUME DirectoryInv, NEW r \in Scim, CommitUnlogged(r)
    PROVE  DirectoryInv'
<1>1. PICK p \in Payloads(scim[r].op) :
        Writes(r, p[1], p[2]) /\ untold' = untold \cup Assigned(r, p[1], p[2])
  BY DEF CommitUnlogged
<1> DEFINE active == p[1]
           role   == p[2]
           o      == scim[r].org
<1>2. scim[r].pc = "ready" /\ scim[r].op \in {"group", "patch"} /\ Closes(r) /\ told' = told
  BY DEF CommitUnlogged
<1>3. active \in Active \cup {Same} /\ role \in Role \cup {Same}
  BY <1>2, PayloadFacts
<1>4. o \in Tenant
  BY <1>2, ScimFacts DEF DirectoryInv
<1>5. Writes(r, active, role) /\ untold' = untold \cup Assigned(r, active, role)
  BY <1>1
<1> HIDE DEF active, role
<1>6. /\ account' \in Account /\ member' \in [Tenant -> Role \cup {NoRole}]
      /\ scim' \in [Scim -> {Closed} \cup OpenScim] /\ Undisturbed'
      /\ active = Same => account' = account
      /\ \A q \in Tenant : (q = o /\ role # Same) \/ member'[q] = member[q]
  BY <1>2, <1>3, <1>5, CommitFacts
<1>7. /\ "account" \in Assigned(r, active, role) <=> active # Same
      /\ \A q \in Tenant : q \in Assigned(r, active, role) <=> q = o /\ role # Same
      /\ Assigned(r, active, role) \subseteq Column
  BY <1>4, DirectoryAssumption DEF Assigned, Column
<1>8. DirectoryTypeOK'
  BY <1>2, <1>5, <1>6, <1>7 DEF DirectoryInv, DirectoryTypeOK
<1>9. TrailTellsDirectory'
  BY <1>2, <1>5, <1>6, <1>7 DEF DirectoryInv, TrailTellsDirectory
<1> QED
  BY <1>6, <1>8, <1>9 DEF DirectoryInv

LEMMA DirectoryStutters == DirectoryInv /\ UNCHANGED directoryVars => DirectoryInv'
  BY DEF directoryVars, rows, DirectoryInv, DirectoryTypeOK, Undisturbed, TrailTellsDirectory

(***************************************************************************)
(* For any organisations, roles and requests: where the audit log's last   *)
(* word on a column was not overtaken or passed over, it is the column's   *)
(* value.                                                                  *)
(***************************************************************************)
THEOREM TrailTells == DirectorySpec => []TrailTellsDirectory
<1>1. DirectoryInv /\ [DirectoryNext]_directoryVars => DirectoryInv'
  BY ScimReading, CommitLoggedKeeps, CommitUnloggedKeeps, DirectoryStutters
     DEF DirectoryNext, ScimStep
<1>2. DirectoryInv => TrailTellsDirectory
  BY DEF DirectoryInv
<1> QED
  BY DirectoryStarts, <1>1, <1>2, PTL DEF DirectorySpec
=============================================================================

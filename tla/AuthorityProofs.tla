--------------------------- MODULE AuthorityProofs ---------------------------
(* What the judgements of Authority say of each other, for every request.   *)
EXTENDS Authority, TLAPS

(* The rules are thirteen records whose decision is never READY. *)
LEMMA RulesShape ==
  ASSUME NEW f \in Facts
  PROVE  /\ DOMAIN Rules(f) = 1..13
         /\ \A i \in 1..13 : Rules(f)[i].decision # "READY"
<1>1. DOMAIN Rules(f) = 1..13
  BY DEF Rules
<1>2. ASSUME NEW i \in 1..13
      PROVE  Rules(f)[i].decision # "READY"
  <2>1. \/ Rules(f)[i] = ProposalSchema(f) \/ Rules(f)[i] = UnrelatedFieldsNull(f)
        \/ Rules(f)[i] = EvidenceContract(f) \/ Rules(f)[i] = RequiredFields(f)
        \/ Rules(f)[i] = IncidentEnums(f) \/ Rules(f)[i] = SystemExact(f)
        \/ Rules(f)[i] = IdentifiersExactSource(f) \/ Rules(f)[i] = RequesterPermission(f)
        \/ Rules(f)[i] = ApproverExactAndAuthorized(f) \/ Rules(f)[i] = ReferencedCaseExact(f)
        \/ Rules(f)[i] = StatusOwnership(f) \/ Rules(f)[i] = PossibleDuplicate(f)
        \/ Rules(f)[i] = RequesterActive(f)
    BY SMTT(30) DEF Rules
  <2> QED
    BY <2>1 DEF Rule, ProposalSchema, UnrelatedFieldsNull, EvidenceContract, RequiredFields,
       IncidentEnums, SystemExact, IdentifiersExactSource, RequesterPermission,
       ApproverExactAndAuthorized, ReferencedCaseExact, StatusOwnership, PossibleDuplicate,
       RequesterActive
<1> QED
  BY <1>1, <1>2

(* There is a first rule that fails. *)
LEMMA FirstFailing ==
  ASSUME NEW f \in Facts, Failing(f) # {}
  PROVE  \E i \in Failing(f) : \A j \in Failing(f) : i <= j
<1>1. Failing(f) \subseteq 1..13
  BY RulesShape DEF Failing
<1> QED
  BY <1>1, SMTT(30)

(* Every rule that fails ends in one of four pairs of decision and run. *)
LEMMA RuleOutcomes ==
  ASSUME NEW f \in Facts, NEW i \in 1..13
  PROVE  <<Rules(f)[i].decision, Rules(f)[i].run>> \in
           {<<"NEEDS_REVIEW", "INVALID_OUTPUT">>, <<"NEEDS_REVIEW", "COMPLETED">>,
            <<"NEEDS_INFORMATION", "COMPLETED">>, <<"REJECTED", "COMPLETED">>}
<1>1. \/ Rules(f)[i] = ProposalSchema(f) \/ Rules(f)[i] = UnrelatedFieldsNull(f)
      \/ Rules(f)[i] = EvidenceContract(f) \/ Rules(f)[i] = RequiredFields(f)
      \/ Rules(f)[i] = IncidentEnums(f) \/ Rules(f)[i] = SystemExact(f)
      \/ Rules(f)[i] = IdentifiersExactSource(f) \/ Rules(f)[i] = RequesterPermission(f)
      \/ Rules(f)[i] = ApproverExactAndAuthorized(f) \/ Rules(f)[i] = ReferencedCaseExact(f)
      \/ Rules(f)[i] = StatusOwnership(f) \/ Rules(f)[i] = PossibleDuplicate(f)
      \/ Rules(f)[i] = RequesterActive(f)
  BY SMTT(30) DEF Rules
<1> QED
  BY <1>1 DEF Rule, ProposalSchema, UnrelatedFieldsNull, EvidenceContract, RequiredFields,
     IncidentEnums, SystemExact, IdentifiersExactSource, RequesterPermission,
     ApproverExactAndAuthorized, ReferencedCaseExact, StatusOwnership, PossibleDuplicate,
     RequesterActive

(* A verdict is READY or one of the outcomes of a rule that fails. *)
LEMMA VerdictOutcome ==
  ASSUME NEW f \in Facts
  PROVE  Verdict(f).decision \in {"READY", "NEEDS_REVIEW", "NEEDS_INFORMATION", "REJECTED"}
<1>1. CASE Failing(f) = {}
  BY <1>1 DEF Verdict, Ready, Rule
<1>2. CASE Failing(f) # {}
  <2> DEFINE first == CHOOSE i \in Failing(f) : \A j \in Failing(f) : i <= j
  <2>1. first \in 1..13
    BY <1>2, FirstFailing, RulesShape DEF Failing
  <2>2. Verdict(f) = Rules(f)[first]
    BY <1>2 DEF Verdict
  <2> QED
    BY <2>1, <2>2, RuleOutcomes
<1> QED
  BY <1>1, <1>2

(* Where a verdict takes the case, and the event it logs. *)
LEMMA VerdictArms ==
  ASSUME NEW f \in Facts
  PROVE  \/ /\ Verdict(f).decision \in {"NEEDS_REVIEW", "NEEDS_INFORMATION", "REJECTED"}
            /\ TargetState(f) = Verdict(f).decision
            /\ EventType(f) \in {"ANALYSIS_NEEDS_INFORMATION", "ANALYSIS_NEEDS_REVIEW",
                                 "ANALYSIS_REJECTED"}
         \/ /\ Verdict(f).decision = "READY" /\ Guarded(f)
            /\ TargetState(f) = "PENDING_APPROVAL" /\ EventType(f) = "APPROVAL_REQUESTED"
         \/ /\ Verdict(f).decision = "READY" /\ f.type = "POLICY_QUESTION"
            /\ TargetState(f) = "ANALYZING" /\ EventType(f) = "ANALYSIS_READY_FOR_RETRIEVAL"
         \/ /\ Verdict(f).decision = "READY" /\ ~Guarded(f) /\ f.type # "POLICY_QUESTION"
            /\ TargetState(f) = "READY_FOR_ACTION" /\ EventType(f) = "ANALYSIS_READY"
<1>1. CASE Verdict(f).decision = "NEEDS_REVIEW"
  <2>1. TargetState(f) = Verdict(f).decision
    BY <1>1 DEF TargetState
  <2>2. EventType(f) = "ANALYSIS_NEEDS_REVIEW"
    BY <1>1 DEF EventType
  <2> QED
    BY <1>1, <2>1, <2>2
<1>2. CASE Verdict(f).decision = "NEEDS_INFORMATION"
  <2>1. TargetState(f) = Verdict(f).decision
    BY <1>2 DEF TargetState
  <2>2. EventType(f) = "ANALYSIS_NEEDS_INFORMATION"
    BY <1>2 DEF EventType
  <2> QED
    BY <1>2, <2>1, <2>2
<1>3. CASE Verdict(f).decision = "REJECTED"
  <2>1. TargetState(f) = Verdict(f).decision
    BY <1>3 DEF TargetState
  <2>2. EventType(f) = "ANALYSIS_REJECTED"
    BY <1>3 DEF EventType
  <2> QED
    BY <1>3, <2>1, <2>2
<1>4. CASE Verdict(f).decision = "READY" /\ Guarded(f)
  <2>1. f.type # "POLICY_QUESTION"
    BY <1>4 DEF Guarded, GuardedType
  <2>2. TargetState(f) = "PENDING_APPROVAL"
    BY <1>4, <2>1 DEF TargetState
  <2>3. EventType(f) = "APPROVAL_REQUESTED"
    BY <1>4, <2>1 DEF EventType
  <2> QED
    BY <1>4, <2>2, <2>3
<1>5. CASE Verdict(f).decision = "READY" /\ f.type = "POLICY_QUESTION"
  <2>1. ~Guarded(f)
    BY <1>5 DEF Guarded, GuardedType
  <2>2. TargetState(f) = "ANALYZING"
    BY <1>5, <2>1 DEF TargetState
  <2>3. EventType(f) = "ANALYSIS_READY_FOR_RETRIEVAL"
    BY <1>5, <2>1 DEF EventType
  <2> QED
    BY <1>5, <2>2, <2>3
<1>6. CASE Verdict(f).decision = "READY" /\ ~Guarded(f) /\ f.type # "POLICY_QUESTION"
  <2>1. TargetState(f) = "READY_FOR_ACTION"
    BY <1>6 DEF TargetState
  <2>2. EventType(f) = "ANALYSIS_READY"
    BY <1>6 DEF EventType
  <2> QED
    BY <1>6, <2>1, <2>2
<1> QED
  BY <1>1, <1>2, <1>3, <1>4, <1>5, <1>6, VerdictOutcome

(* A request is READY exactly when no rule fails. *)
LEMMA ReadyPassesAll ==
  ASSUME NEW f \in Facts
  PROVE  Verdict(f).decision = "READY" <=> Failing(f) = {}
<1>1. CASE Failing(f) = {}
  BY <1>1 DEF Verdict, Ready, Rule
<1>2. CASE Failing(f) # {}
  <2> DEFINE first == CHOOSE i \in Failing(f) : \A j \in Failing(f) : i <= j
  <2>1. first \in Failing(f)
    BY <1>2, FirstFailing
  <2>2. first \in 1..13
    BY <2>1, RulesShape DEF Failing
  <2>3. Verdict(f) = Rules(f)[first]
    BY <1>2 DEF Verdict
  <2> QED
    BY <1>2, <2>2, <2>3, RulesShape
<1> QED
  BY <1>1, <1>2

(* What the rules that look at the reference data leave of a READY request. *)
LEMMA ReadyMeans ==
  ASSUME NEW f \in Facts, Verdict(f).decision = "READY"
  PROVE  /\ NamesSystem(f) => "SYSTEM" \in f.holds
         /\ Guarded(f) => "REQUEST" \in f.holds /\ "APPROVER" \in f.holds
         /\ AsksStatus(f) => /\ "TARGET" \in f.holds
                             /\ "OWNER" \in f.holds \/ "VIEW" \in f.holds
         /\ "REQUESTER" \in f.holds
<1>1. \A i \in 1..13 : Rules(f)[i].passes
  BY ReadyPassesAll, RulesShape DEF Failing
<1>2. /\ SystemExact(f).passes /\ RequesterPermission(f).passes
      /\ ApproverExactAndAuthorized(f).passes /\ ReferencedCaseExact(f).passes
      /\ StatusOwnership(f).passes /\ RequesterActive(f).passes
  BY <1>1 DEF Rules
<1>3. NamesSystem(f) => "SYSTEM" \in f.holds
  BY <1>2 DEF SystemExact, Rule
<1>4. Guarded(f) => "REQUEST" \in f.holds
  BY <1>2 DEF RequesterPermission, Rule
<1>5. Guarded(f) => "APPROVER" \in f.holds
  BY <1>2 DEF ApproverExactAndAuthorized, Rule
<1>6. AsksStatus(f) => "TARGET" \in f.holds
  BY <1>2 DEF ReferencedCaseExact, Rule
<1>7. AsksStatus(f) => "OWNER" \in f.holds \/ "VIEW" \in f.holds
  BY <1>2 DEF StatusOwnership, Rule
<1>8. "REQUESTER" \in f.holds
  BY <1>2 DEF RequesterActive, Rule
<1> QED
  BY <1>3, <1>4, <1>5, <1>6, <1>7, <1>8

(* More grants never forbid an action. *)
LEMMA ActionHoldsMonotone ==
  ASSUME NEW f, NEW g, f.type = g.type, f.holds \subseteq g.holds, ActionHolds(f)
  PROVE  ActionHolds(g)
BY DEF ActionHolds, ApprovedActionHolds, SafeActionHolds, Guarded, AsksStatus

(* Validation promises only what the action will accept: while nothing that  *)
(* was granted is withdrawn, a READY request can be queued and reconciled,   *)
(* unless it is a status the requester only views (ai_analysis.py against    *)
(* downstream_route.py and safe_action.py).                                  *)
THEOREM VerdictGrantsAction ==
  ASSUME NEW f \in Facts, Verdict(f).decision = "READY", ~OnlyViewed(f)
  PROVE  ActionHolds(f)
BY ReadyMeans DEF OnlyViewed, ActionHolds, ApprovedActionHolds, SafeActionHolds, NamesSystem,
   Guarded, AsksStatus

(* The exception is one: a READY request that is only viewed is no action,   *)
(* whatever else is granted.                                                 *)
THEOREM OnlyViewedIsStuck ==
  ASSUME NEW f \in Facts, OnlyViewed(f)
  PROVE  ~ActionHolds(f) /\ ~AgentMayAccept(f)
BY DEF OnlyViewed, ActionHolds, ApprovedActionHolds, SafeActionHolds, AgentMayAccept, Guarded,
   AsksStatus, GuardedType

(* What a service agent may accept is routed, approved and acted on under    *)
(* the same grants (human_decision.py against human_resume_consumers.py,     *)
(* downstream_route.py and safe_action.py): no exception there.              *)
THEOREM AgentGrantsAction ==
  ASSUME NEW f \in Facts, AgentMayAccept(f)
  PROVE  RouteAllowed(f) /\ ActionHolds(f) /\ (Guarded(f) => ApproverMayDecide(f))
BY DEF AgentMayAccept, RouteAllowed, ActionHolds, ApprovedActionHolds, SafeActionHolds,
   ApproverMayDecide, NamesSystem, Guarded, AsksStatus

=============================================================================

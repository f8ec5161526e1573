------------------------------ MODULE Authority ------------------------------
(***************************************************************************)
(* The deterministic rules between a request and its action.  The same     *)
(* request is judged five times, by different code and at different times: *)
(* when the proposal of the model is validated (ai_analysis.py), when a    *)
(* service agent accepts details (human_decision.py), when those are       *)
(* routed (human_resume_consumers.py), when the approver decides, and when *)
(* the action is queued and reconciled (downstream_route.py,               *)
(* safe_action.py).  Each judgement is an operator on the facts of the     *)
(* request at that moment:                                                 *)
(*   type   what is requested                                              *)
(*   flaws  what is wrong with the proposal itself                         *)
(*   holds  what the reference data says of the people and things named    *)
(***************************************************************************)
EXTENDS Naturals, Sequences

GuardedType == {"ACCESS_REQUEST", "DATA_CHANGE_REQUEST"}
SafeType == {"POLICY_QUESTION", "INCIDENT_REPORT", "STATUS_REQUEST"}
RequestType == GuardedType \cup SafeType

Flaw == {"SCHEMA", "UNRELATED", "EVIDENCE", "INCOMPLETE", "ENUM", "IDENTIFIER", "DUPLICATE"}

Grant == {
  "REQUESTER", \* the requester is active and has the role
  "SYSTEM",    \* the system that is named is exactly one active system
  "REQUEST",   \* the requester may request this of the system
  "APPROVER",  \* the approver is active, has the role and may approve it
  "TARGET",    \* the case that is referred to exists
  "OWNER",     \* the requester's own case
  "VIEW"}      \* the requester has VIEW_STATUS on the system of that case

Facts == [type : RequestType, flaws : SUBSET Flaw, holds : SUBSET Grant]

Guarded(f) == f.type \in GuardedType
NamesSystem(f) == f.type \in GuardedType \cup {"INCIDENT_REPORT"}
AsksStatus(f) == f.type = "STATUS_REQUEST"

-----------------------------------------------------------------------------
(* The rules of _validate_proposal.  The first that does not pass ends the   *)
(* validation with its run status and its decision.                          *)

Rule(passes, run, decision) == [passes |-> passes, run |-> run, decision |-> decision]

ProposalSchema(f) == Rule("SCHEMA" \notin f.flaws, "INVALID_OUTPUT", "NEEDS_REVIEW")
UnrelatedFieldsNull(f) == Rule("UNRELATED" \notin f.flaws, "INVALID_OUTPUT", "NEEDS_REVIEW")
EvidenceContract(f) == Rule("EVIDENCE" \notin f.flaws, "INVALID_OUTPUT", "NEEDS_REVIEW")
RequiredFields(f) == Rule("INCOMPLETE" \notin f.flaws, "COMPLETED", "NEEDS_INFORMATION")

IncidentEnums(f) ==
  Rule(f.type = "INCIDENT_REPORT" => "ENUM" \notin f.flaws, "INVALID_OUTPUT", "NEEDS_REVIEW")

(* Mutant: a system that is not known or not active passes. *)
SystemAny(f) == Rule(TRUE, "COMPLETED", "NEEDS_REVIEW")

SystemExact(f) ==
  Rule(NamesSystem(f) => "SYSTEM" \in f.holds, "COMPLETED", "NEEDS_REVIEW")

IdentifiersExactSource(f) == Rule("IDENTIFIER" \notin f.flaws, "COMPLETED", "NEEDS_REVIEW")

RequesterPermission(f) ==
  Rule(Guarded(f) => "REQUEST" \in f.holds, "COMPLETED", "REJECTED")

ApproverExactAndAuthorized(f) ==
  Rule(Guarded(f) => "APPROVER" \in f.holds, "COMPLETED", "NEEDS_REVIEW")

ReferencedCaseExact(f) ==
  Rule(AsksStatus(f) => "TARGET" \in f.holds, "COMPLETED", "NEEDS_REVIEW")

StatusOwnership(f) ==
  Rule(AsksStatus(f) => "OWNER" \in f.holds \/ "VIEW" \in f.holds, "COMPLETED", "REJECTED")

PossibleDuplicate(f) == Rule("DUPLICATE" \notin f.flaws, "COMPLETED", "NEEDS_REVIEW")
RequesterActive(f) == Rule("REQUESTER" \in f.holds, "COMPLETED", "REJECTED")

Rules(f) == <<
  ProposalSchema(f), UnrelatedFieldsNull(f), EvidenceContract(f), RequiredFields(f),
  IncidentEnums(f), SystemExact(f), IdentifiersExactSource(f), RequesterPermission(f),
  ApproverExactAndAuthorized(f), ReferencedCaseExact(f), StatusOwnership(f),
  PossibleDuplicate(f), RequesterActive(f)>>

Failing(f) == {i \in DOMAIN Rules(f) : ~Rules(f)[i].passes}

Ready == Rule(TRUE, "COMPLETED", "READY")

Verdict(f) ==
  IF Failing(f) = {} THEN Ready
  ELSE Rules(f)[CHOOSE i \in Failing(f) : \A j \in Failing(f) : i <= j]

(* _target_state and _event_type of a verdict. *)
TargetState(f) ==
  CASE Verdict(f).decision # "READY" -> Verdict(f).decision
    [] Verdict(f).decision = "READY" /\ Guarded(f) -> "PENDING_APPROVAL"
    [] Verdict(f).decision = "READY" /\ f.type = "POLICY_QUESTION" -> "ANALYZING"
    [] OTHER -> "READY_FOR_ACTION"

EventType(f) ==
  CASE Verdict(f).decision = "NEEDS_INFORMATION" -> "ANALYSIS_NEEDS_INFORMATION"
    [] Verdict(f).decision = "NEEDS_REVIEW" -> "ANALYSIS_NEEDS_REVIEW"
    [] Verdict(f).decision = "REJECTED" -> "ANALYSIS_REJECTED"
    [] Verdict(f).decision = "READY" /\ Guarded(f) -> "APPROVAL_REQUESTED"
    [] Verdict(f).decision = "READY" /\ f.type = "POLICY_QUESTION" -> "ANALYSIS_READY_FOR_RETRIEVAL"
    [] OTHER -> "ANALYSIS_READY"

-----------------------------------------------------------------------------
(* The later judgements *)

(* _resolve_accepted_details: of what a service agent fills in, complete and *)
(* with nothing unrelated.                                                   *)
AgentMayAccept(f) ==
  /\ "REQUESTER" \in f.holds
  /\ NamesSystem(f) => "SYSTEM" \in f.holds
  /\ Guarded(f) => {"REQUEST", "APPROVER"} \subseteq f.holds
  /\ AsksStatus(f) => {"TARGET", "OWNER"} \subseteq f.holds

(* The permissions route_reviewed_case asks for again. *)
RouteAllowed(f) == Guarded(f) => {"REQUESTER", "REQUEST", "APPROVER"} \subseteq f.holds

(* _load_actor, _require_role and the permission in _decide_approval. *)
ApproverMayDecide(f) == "APPROVER" \in f.holds

(* _validate_authority of downstream_route.py. *)
ApprovedActionHolds(f) ==
  /\ Guarded(f)
  /\ {"SYSTEM", "REQUESTER", "REQUEST", "APPROVER"} \subseteq f.holds

(* _load_authority and _build_payload of safe_action.py. *)
SafeActionHolds(f) ==
  /\ ~Guarded(f)
  /\ "REQUESTER" \in f.holds
  /\ f.type = "INCIDENT_REPORT" => "SYSTEM" \in f.holds
  /\ AsksStatus(f) => {"TARGET", "OWNER"} \subseteq f.holds

ActionHolds(f) == ApprovedActionHolds(f) \/ SafeActionHolds(f)

(* Validation also lets a requester ask for a case that is somebody else's   *)
(* but visible through VIEW_STATUS; the agent and the action do not.         *)
OnlyViewed(f) == AsksStatus(f) /\ "OWNER" \notin f.holds

=============================================================================

------------------------------ MODULE HumanLoop ------------------------------
(***************************************************************************)
(* A case and its humans: application/human_decision.py commits a decision *)
(* of the requester, a service agent or an approver; human_resume.py turns *)
(* it into a HUMAN_DECISION_RESUME message, which n8n relays back to the   *)
(* primary application as an acknowledgement; human_resume_consumers.py    *)
(* and the resumed analysis (Analysis) or retrieval (PolicyRetrieval) act  *)
(* on the acknowledgement.  Nothing in the repository calls the consumers  *)
(* on a schedule: they are called at any time and any number of times.     *)
(* Commands for another version or state, replays and conflicts write      *)
(* nothing and are no actions.                                             *)
(*                                                                         *)
(* Messages follow OutboxStatus, which Outbox implements: a request of an  *)
(* attempt may still arrive while another attempt holds the row.  Rows are *)
(* moved one at a time here; a sweep of several is these moves in a row.   *)
(***************************************************************************)
EXTENDS Analysis, PolicyRetrieval, OutboxStatus

CONSTANTS
  Original,  \* the input as the requester first sent it
  MaxVersion \* versions of the case humans may reach (bound of the model)

(* Each decision gives the case a version of its own, which names its        *)
(* messages: HUMAN_DECISION_RESUME and REQUESTER_NOTIFICATION.               *)
Resume(v) == <<"RESUME", v>>
Notice(v) == <<"NOTICE", v>>

ASSUME HumanLoopAssumption ==
  /\ Original \in Input
  /\ MaxVersion \in Nat
  /\ Message = {"RESUME", "NOTICE"} \X (1..MaxVersion)

humanVars == <<caseVars, analysisVars, retrieving, status>>

HumanTypeOK ==
  /\ CaseTypeOK
  /\ AnalysisTypeOK
  /\ RetrievalTypeOK
  /\ status \in [Message -> RowStatus]
  /\ details = NoDetails => approval = "NONE"

Init ==
  /\ CaseInit
  /\ AnalysisInit
  /\ RetrievalInit
  /\ RowInit

-----------------------------------------------------------------------------
(* Evidence in the log *)

DecisionTypes == {"REQUESTER_INFORMATION_SUBMITTED", "SERVICE_AGENT_CORRECTION_ACCEPTED",
                  "SERVICE_AGENT_REJECTED", "APPROVAL_APPROVED", "APPROVAL_REJECTED"}

OfVersion(types, v) ==
  {i \in DOMAIN log : log[i].type \in types /\ log[i].trigger.version = v}

Decision(v) == OfVersion(DecisionTypes, v)

(* The decision of version v is the case's current one. *)
StillDecided(v) == version = v /\ \E i \in Decision(v) : log[i].to = caseState

Evidence(type, v, from, to) ==
  [type |-> type, from |-> from, to |-> to,
   trigger |-> [version |-> v, input |-> NoInput]]

-----------------------------------------------------------------------------
(* Before the humans *)

(* create_or_replay_case and the guarded start that WorkflowStart implements. *)
Receive == ReceiveCase /\ UNCHANGED <<analysisVars, retrieving, status>>

StartAnalysis ==
  /\ caseState = "RECEIVED"
  /\ MoveCase("ANALYZING", version + 1,
              [type |-> "ANALYSIS_STARTED", from |-> "RECEIVED", to |-> "ANALYZING",
               trigger |-> [version |-> version + 1, input |-> Original]])
  /\ UNCHANGED <<acceptedVars, analysisVars, retrieving, status>>

(* A request for the analysis of any trigger in the log. *)
RequestAnalysis(h, t) ==
  /\ ClaimAttempt(h, t) \/ SkipOversized(t) \/ FailFinalLease(t)
  /\ UNCHANGED <<retrieving, status>>

Analyze == AnalysisStep /\ UNCHANGED <<retrieving, status>>

Retrieve == RetrievalStep /\ UNCHANGED <<analysisVars, status>>

-----------------------------------------------------------------------------
(* Decisions *)

(* _append_human_event: every decision moves the case and its version. *)
Decide(type, to, input) ==
  /\ version < MaxVersion
  /\ MoveCase(to, version + 1,
              [type |-> type, from |-> caseState, to |-> to,
               trigger |-> [version |-> version + 1, input |-> input]])
  /\ UNCHANGED <<analysisVars, retrieving, status>>

(* The analysis will read the original text with this information appended, *)
(* so equal texts give equal inputs.                                        *)
SubmitInformation(i) ==
  /\ caseState = "NEEDS_INFORMATION"
  /\ i # Original
  /\ Decide("REQUESTER_INFORMATION_SUBMITTED", "ANALYZING", i)
  /\ UNCHANGED acceptedVars

CorrectReview(kind) ==
  /\ caseState = "NEEDS_REVIEW"
  /\ approval = "NONE"
  /\ Decide("SERVICE_AGENT_CORRECTION_ACCEPTED", "ANALYZING", NoInput)
  /\ details' = [kind |-> kind, by |-> "SERVICE_AGENT"]
  /\ UNCHANGED approval

RejectReview ==
  /\ caseState = "NEEDS_REVIEW"
  /\ Decide("SERVICE_AGENT_REJECTED", "REJECTED", NoInput)
  /\ UNCHANGED acceptedVars

ApproveRequest ==
  /\ caseState = "PENDING_APPROVAL"
  /\ approval = "PENDING"
  /\ Decide("APPROVAL_APPROVED", "READY_FOR_ACTION", NoInput)
  /\ approval' = "APPROVED"
  /\ UNCHANGED details

RejectRequest ==
  /\ caseState = "PENDING_APPROVAL"
  /\ approval = "PENDING"
  /\ Decide("APPROVAL_REJECTED", "REJECTED", NoInput)
  /\ approval' = "REJECTED"
  /\ UNCHANGED details

(* The members a stored proposal may have: an answer outside the schema is   *)
(* replaced by an error, one that breaks a later rule is stored as any other.*)
StoredMembers(run) ==
  {{"request_type", "summary", "fields"}} \cup
    (IF run.status = "INVALID_OUTPUT" THEN {{"error"}} ELSE {})

(* CONFIRM_REVIEW reads the latest stored proposal and wants exactly these   *)
(* members.  The analysis takes the evidence out before it stores one, so    *)
(* no proposal of the code passes and confirming is no action (see the       *)
(* property ReviewConfirmable).                                              *)
Confirmable(run) == {"request_type", "summary", "fields", "evidence"} \in StoredMembers(run)

-----------------------------------------------------------------------------
(* The resume message *)

EnqueueResume(v) ==
  /\ StillDecided(v)
  /\ status[Resume(v)] = "ABSENT"
  /\ MoveRow(Resume(v), "PENDING")
  /\ UNCHANGED <<caseVars, analysisVars, retrieving>>

(* Mutant: the acknowledgement that exists is not looked for. *)
NeverAcknowledged(v) == FALSE

Acknowledged(v) == OfVersion({"HUMAN_DECISION_RESUME_ACKNOWLEDGED"}, v) # {}

(* acknowledge_human_resume: the request of any attempt, however late, is    *)
(* accepted while the message is claimed or after it was sent.               *)
AcknowledgeResume(v) ==
  /\ status[Resume(v)] \in {"PROCESSING", "SENT"}
  /\ ~Acknowledged(v)
  /\ StillDecided(v)
  /\ \E i \in Decision(v) :
       MoveCase(caseState, version,
                [type |-> "HUMAN_DECISION_RESUME_ACKNOWLEDGED",
                 from |-> caseState, to |-> caseState, trigger |-> log[i].trigger])
  /\ UNCHANGED <<acceptedVars, analysisVars, retrieving, status>>

(* A claim is taken, or ends: by the answer of n8n, which is a success only  *)
(* with the reference of the acknowledgement, by another answer, or by       *)
(* recovery.  The local notification inbox takes every notification.         *)
MayConfirm(m) == m[1] = "RESUME" => Acknowledged(m[2])

DispatchMessage(m) ==
  /\ \/ status[m] = "PENDING" /\ MoveRow(m, "PROCESSING")
     \/ status[m] = "PROCESSING" /\ MoveRow(m, "PENDING")
     \/ status[m] = "PROCESSING" /\ MoveRow(m, "FAILED")
     \/ MayConfirm(m) /\ MoveRow(m, "SENT")
  /\ UNCHANGED <<caseVars, analysisVars, retrieving>>

-----------------------------------------------------------------------------
(* Consumers of the acknowledgement *)

(* Mutant: access requests are taken for actions without approval. *)
RouteOfActions(kind) == IF kind = "POLICY" THEN "ANALYZING" ELSE "READY_FOR_ACTION"

RouteOf(kind) ==
  CASE kind = "GUARDED" -> "PENDING_APPROVAL"
    [] kind = "POLICY" -> "ANALYZING"
    [] kind = "SAFE" -> "READY_FOR_ACTION"

(* Mutant: every route counts as a new version of the case. *)
RoutedVersionMoves(to) == version + 1

RoutedVersion(to) == IF to # caseState THEN version + 1 ELSE version

(* Mutant: the route that was taken is not looked for. *)
NeverRouted(v) == FALSE

Routed(v) == OfVersion({"HUMAN_REVIEW_REANALYZED"}, v) # {}

(* route_reviewed_case; whether permissions still allow it is left open. *)
RouteReviewedCase(v) ==
  /\ Acknowledged(v)
  /\ ~Routed(v)
  /\ OfVersion({"SERVICE_AGENT_CORRECTION_ACCEPTED"}, v) # {}
  /\ caseState = "ANALYZING"
  /\ version = v
  /\ details.by = "SERVICE_AGENT"
  /\ LET to == RouteOf(details.kind) IN
       /\ MoveCase(to, RoutedVersion(to),
                   Evidence("HUMAN_REVIEW_REANALYZED", v, "ANALYZING", to))
       /\ IF to = "PENDING_APPROVAL"
          THEN approval = "NONE" /\ approval' = "PENDING"
          ELSE UNCHANGED approval
  /\ UNCHANGED <<details, analysisVars, retrieving, status>>

MaterializeNotification(v) ==
  /\ Acknowledged(v)
  /\ OfVersion({"SERVICE_AGENT_REJECTED", "APPROVAL_REJECTED"}, v) # {}
  /\ caseState = "REJECTED"
  /\ version = v
  /\ status[Notice(v)] = "ABSENT"
  /\ MoveRow(Notice(v), "PENDING")
  /\ log' = Append(log, Evidence("REQUESTER_NOTIFICATION_QUEUED", v, "REJECTED", "REJECTED"))
  /\ UNCHANGED <<caseState, version, acceptedVars, analysisVars, retrieving>>

Reconciled == {"REQUESTER_NOTIFICATION_SENT", "REQUESTER_NOTIFICATION_FAILED"}

ReconcileNotification(v) ==
  /\ OfVersion(Reconciled, v) = {}
  /\ caseState = "REJECTED"
  /\ \/ /\ status[Notice(v)] = "SENT"
        /\ log' = Append(log, Evidence("REQUESTER_NOTIFICATION_SENT", v, "REJECTED", "REJECTED"))
     \/ /\ status[Notice(v)] = "FAILED"
        /\ log' = Append(log, Evidence("REQUESTER_NOTIFICATION_FAILED", v, "REJECTED", "REJECTED"))
  /\ UNCHANGED <<caseState, version, acceptedVars, analysisVars, retrieving, status>>

-----------------------------------------------------------------------------
Triggers == {log[i].trigger : i \in DOMAIN log} \ {NoTrigger}

Next ==
  \/ Receive \/ StartAnalysis \/ Analyze \/ Retrieve
  \/ \E h \in Handler, t \in Triggers : RequestAnalysis(h, t)
  \/ \E i \in Input : SubmitInformation(i)
  \/ \E kind \in Kind : CorrectReview(kind)
  \/ RejectReview \/ ApproveRequest \/ RejectRequest
  \/ \E v \in 1..MaxVersion :
       \/ EnqueueResume(v) \/ AcknowledgeResume(v) \/ RouteReviewedCase(v)
       \/ MaterializeNotification(v) \/ ReconcileNotification(v)
  \/ \E m \in Message : DispatchMessage(m)

Spec == Init /\ [][Next]_humanVars

(* Requests for analysis and retrieval that may run are made again and       *)
(* again, and a model call that does not die ends.                           *)
HumanFairness ==
  /\ WF_humanVars(\E h \in Handler, t \in Triggers : RequestAnalysis(h, t))
  /\ \A h \in Handler :
       WF_humanVars(/\ \/ FinalizeRetryableFailure(h) \/ RejectLateAnswer(h)
                       \/ \E plan \in Plan : FinalizeProviderResult(h, plan)
                    /\ UNCHANGED <<retrieving, status>>)
  /\ WF_humanVars((\E r \in Retriever : ClaimRetrieval(r)) /\ UNCHANGED <<analysisVars, status>>)
  /\ \A r \in Retriever :
       WF_humanVars(/\ \E outcome \in RetrievalOutcome : FinalizeRetrieval(r, outcome)
                    /\ UNCHANGED <<analysisVars, status>>)

FairSpec == Spec /\ HumanFairness

-----------------------------------------------------------------------------
(* Properties *)

(* No action without its authority, whichever of analysis, agent, approver   *)
(* and retrieval brought the case there: an approval is open exactly while   *)
(* the case waits for it, what needs an approval becomes an action only with *)
(* it, and a policy question only with a grounded answer.                    *)
ActionIsAuthorized ==
  /\ caseState = "PENDING_APPROVAL" <=> approval = "PENDING"
  /\ caseState = "READY_FOR_ACTION" =>
       /\ details.kind = "GUARDED" <=> approval = "APPROVED"
       /\ details.kind = "POLICY" <=> Logged("POLICY_RETRIEVAL_READY")

(* Every committed decision is resumed exactly once before the case moves    *)
(* on: neither an analysis request with older evidence, nor a retrieval, nor *)
(* another decision overtakes a decision that was not acknowledged.          *)
EveryDecisionResumed ==
  \A v \in 1..MaxVersion : Decision(v) # {} =>
    LET acks == OfVersion({"HUMAN_DECISION_RESUME_ACKNOWLEDGED"}, v) IN
    /\ Cardinality(acks) <= 1
    /\ version > v => Cardinality(acks) = 1
    /\ \A a \in acks : \A d \in Decision(v) : d < a /\ log[a].to = log[d].to

(* However often the consumers are called, an acknowledgement has one effect *)
(* at most, of the kind its decision calls for, and a notification has one   *)
(* outcome, after it was queued.                                             *)
OneEffectPerDecision ==
  \A v \in 1..MaxVersion :
    LET routed == OfVersion({"HUMAN_REVIEW_REANALYZED"}, v)
        queued == OfVersion({"REQUESTER_NOTIFICATION_QUEUED"}, v)
        told == OfVersion(Reconciled, v)
    IN /\ Cardinality(routed) + Cardinality(queued) <= 1
       /\ Cardinality(told) <= Cardinality(queued)
       /\ \A e \in routed \cup queued :
            \E a \in OfVersion({"HUMAN_DECISION_RESUME_ACKNOWLEDGED"}, v) : a < e
       /\ \A e \in told : \E q \in queued : q < e

PhaseOf(m) ==
  CASE status[m] = "ABSENT" -> "absent"
    [] status[m] \in {"PENDING", "PROCESSING"} -> "open"
    [] status[m] = "SENT" -> "delivered"
    [] status[m] = "FAILED" -> "given_up"

Promise == INSTANCE DeliveryPromise WITH
  Message <- 1..MaxVersion,
  phase <- [v \in 1..MaxVersion |-> PhaseOf(Resume(v))],
  effect <- [v \in 1..MaxVersion |->
               Cardinality(OfVersion({"HUMAN_DECISION_RESUME_ACKNOWLEDGED"}, v))]

(* Decision, enqueuer, dispatcher, n8n and acknowledgement implement         *)
(* DeliveryPromise with the acknowledgement as the effect.                   *)
KeepsPromise == Promise!Spec

(* What the documents say of the code; each is the subject of a violation    *)
(* run.                                                                      *)

(* docs/HUMAN_DECISION_CONTRACT.md:85 "malformed or incomplete proposal data *)
(* cannot be confirmed": of a case in review whose analyses all stored a     *)
(* complete proposal, the agent can confirm one.                             *)
ReviewConfirmable ==
  LET proposed == {i \in Input : Validated(i) /\ Latest(i).status # "SKIPPED"} IN
  (/\ caseState = "NEEDS_REVIEW"
   /\ proposed # {}
   /\ \A i \in proposed : Latest(i).status = "COMPLETED") =>
      \E i \in proposed : Confirmable(Latest(i))

(* docs/HUMAN_RESUME_CONSUMERS_CONTRACT.md:23 "The resulting exact input     *)
(* receives a new SHA-256 analysis identity": information that was           *)
(* acknowledged and not yet analyzed meets no finished run of its input.     *)
FreshIdentity ==
  caseState = "ANALYZING" /\ details = NoDetails =>
    \A i \in OfVersion({"HUMAN_DECISION_RESUME_ACKNOWLEDGED"}, version) :
      log[i].trigger.input # NoInput => ~Validated(log[i].trigger.input)

(* docs/HUMAN_RESUME_CONSUMERS_CONTRACT.md:30 routing "to approval, policy   *)
(* retrieval, or downstream action": where a reviewed policy question was    *)
(* just routed, retrieval accepts it.                                        *)
RoutedPolicyRetrievable ==
  log # <<>> =>
    LET last == log[Len(log)] IN
    last.type = "HUMAN_REVIEW_REANALYZED" /\ last.to = "ANALYZING" => MayRetrieve

(* docs/POLICY_RETRIEVAL_CONTRACT.md:67 "Abandoned-claim recovery remains    *)
(* the later recovery workflow's responsibility": a claimed retrieval ends,  *)
(* also when the process that claimed it dies.                               *)
RetrievalEnds ==
  (caseState = "ANALYZING" /\ RetrievalClaimed) ~> caseState # "ANALYZING"

=============================================================================

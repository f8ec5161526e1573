----------------------------- MODULE ActionRoute -----------------------------
(***************************************************************************)
(* From the accepted request to its outcome: downstream_route.py and       *)
(* safe_action.py queue the action of a case that is READY_FOR_ACTION and  *)
(* later reconcile the case with what became of its message.  Several      *)
(* cases, because main of downstream_route.py takes the oldest candidate   *)
(* and because a status answer tells the state of another case.            *)
(*                                                                         *)
(* What leads to READY_FOR_ACTION is here one action per decision, under   *)
(* the permissions of the moment; how an analysis, a retrieval or a        *)
(* decision comes about, and the resume message before a reviewed case is  *)
(* routed, are Analysis, PolicyRetrieval and HumanLoop.  The message of a  *)
(* case and the Service Desk are a DeliveryPromise, which Delivery         *)
(* implements.  queue_safe_action and the reconcilers are called by        *)
(* nothing but the tests, at any time and any number of times; calls that  *)
(* replay, are not ready or conflict write nothing and are no actions.     *)
(***************************************************************************)
EXTENDS Authority

CONSTANTS
  Case,
  NoCase,
  Requests,  \* what the cases ask for (see Request), one choice per behaviour
  Corrected, \* request types a service agent corrects to
  Volatile,  \* grants the reference data loses and regains over time
  Worker,    \* processes that run main of downstream_route.py
  NoTrigger

Request == [type : RequestType, flaws : SUBSET Flaw,
            holds : SUBSET (Grant \ {"TARGET"}), target : Case \cup {NoCase}]

ASSUME ActionRouteAssumption ==
  /\ NoCase \notin Case
  /\ Requests \subseteq [Case -> Request]
  /\ Corrected \subseteq RequestType
  /\ Volatile \subseteq Grant \ {"TARGET", "OWNER"}
  /\ {"idle", "queued"} \cap Case = {}

VARIABLES
  request,       \* of each case; the text the requester sent
  grants,        \* what the reference data says now
  caseState, version, log, details, approval, \* the rows of each case (CaseStore)
  acknowledged,  \* cases with an acknowledged approval, in event_id order
  payload,       \* outbox_messages.payload: what a later comparison can tell apart
  phase, effect, \* of the message of each case (DeliveryPromise)
  run            \* a worker is idle, has queued, or reconciles a case's message

Row(c) == INSTANCE CaseStore WITH
  caseState <- caseState[c], version <- version[c], log <- log[c],
  details <- details[c], approval <- approval[c], Input <- {}, NoInput <- NoTrigger

Desk == INSTANCE DeliveryPromise WITH Message <- Case

caseRows == <<caseState, version, log, details, approval>>
messageVars == <<payload, phase, effect>>
routeVars == <<request, grants, caseRows, acknowledged, messageVars, run>>

States == Row(NoCase)!CaseState \cup {"ABSENT"}
EventName == {
  "CASE_RECEIVED", "ANALYSIS_STARTED", "ANALYSIS_NEEDS_INFORMATION", "ANALYSIS_NEEDS_REVIEW",
  "ANALYSIS_REJECTED", "APPROVAL_REQUESTED", "ANALYSIS_READY_FOR_RETRIEVAL", "ANALYSIS_READY",
  "POLICY_RETRIEVAL_READY", "POLICY_RETRIEVAL_NEEDS_REVIEW",
  "SERVICE_AGENT_CORRECTION_ACCEPTED", "SERVICE_AGENT_REJECTED", "HUMAN_REVIEW_REANALYZED",
  "APPROVAL_APPROVED", "APPROVAL_REJECTED", "HUMAN_DECISION_RESUME_ACKNOWLEDGED",
  "DOWNSTREAM_ACTION_COMPLETED", "DOWNSTREAM_ACTION_FAILED"}
EventRow == [type : EventName, from : States, to : Row(NoCase)!CaseState,
             trigger : [version : Nat, input : {NoTrigger}]]
NoDetails == [type |-> "NONE", by |-> "NOBODY"]
NoPayload == [version |-> 0, view |-> "NONE"]

TypeOK ==
  /\ request \in Requests
  /\ grants \in [Case -> SUBSET (Grant \ {"TARGET"})]
  /\ caseState \in [Case -> States]
  /\ version \in [Case -> Nat]
  /\ log \in [Case -> Seq(EventRow)]
  /\ details \in [Case -> [type : RequestType, by : {"SYSTEM_RULE", "SERVICE_AGENT"}]
                            \cup {NoDetails}]
  /\ approval \in [Case -> {"NONE", "PENDING", "APPROVED", "REJECTED"}]
  /\ acknowledged \in Seq(Case)
  /\ payload \in [Case -> [version : Nat, view : States \cup {"NONE"}]]
  /\ Desk!TypeOK
  /\ \A c \in Case : phase[c] = "absent" <=> payload[c] = NoPayload
  /\ \A i, j \in DOMAIN acknowledged : acknowledged[i] = acknowledged[j] => i = j
  /\ run \in [Worker -> {"idle", "queued"} \cup Case]

Init ==
  /\ request \in Requests
  /\ grants = [c \in Case |-> request[c].holds]
  /\ caseState = [c \in Case |-> "ABSENT"]
  /\ version = [c \in Case |-> 0]
  /\ log = [c \in Case |-> <<>>]
  /\ details = [c \in Case |-> NoDetails]
  /\ approval = [c \in Case |-> "NONE"]
  /\ acknowledged = <<>>
  /\ payload = [c \in Case |-> NoPayload]
  /\ Desk!Init
  /\ run = [w \in Worker |-> "idle"]

-----------------------------------------------------------------------------
(* The facts of a request, and writes to a case *)

TargetExists(c) == request[c].target \in Case /\ caseState[request[c].target] # "ABSENT"

FactsOf(c, type) ==
  [type |-> type, flaws |-> request[c].flaws,
   holds |-> IF TargetExists(c) THEN grants[c] \cup {"TARGET"} ELSE grants[c]]

Asked(c) == FactsOf(c, request[c].type)
Accepted(c) == FactsOf(c, details[c].type)

(* A new event, with the version of the case its payload gives. *)
NewRow(c, type, from, to) ==
  [Row(c)!Entry(type, from, to) EXCEPT
     !.trigger = [version |-> version'[c], input |-> NoTrigger]]

Record(c, type, from, to) == log' = [log EXCEPT ![c] = Append(@, NewRow(c, type, from, to))]

(* Mutant: the version is forgotten. *)
AdvanceState(c, type, from, to) ==
  /\ caseState' = [caseState EXCEPT ![c] = to]
  /\ UNCHANGED version
  /\ Record(c, type, from, to)

(* A move to another state has a version of its own. *)
Advance(c, type, from, to) ==
  /\ caseState' = [caseState EXCEPT ![c] = to]
  /\ version' = [version EXCEPT ![c] = @ + 1]
  /\ Record(c, type, from, to)

(* Mutant: every event counts as a version. *)
NoteVersion(c, type, at) ==
  /\ version' = [version EXCEPT ![c] = @ + 1]
  /\ Record(c, type, at, at)
  /\ UNCHANGED caseState

Note(c, type, at) == UNCHANGED <<caseState, version>> /\ Record(c, type, at, at)

Accept(c, type, by) == details' = [details EXCEPT ![c] = [type |-> type, by |-> by]]

AskApproval(c) == approval' = [approval EXCEPT ![c] = "PENDING"]

LastIs(c, type) == log[c] # <<>> /\ log[c][Len(log[c])].type = type

Elsewhere == UNCHANGED <<request, grants, acknowledged, messageVars, run>>

-----------------------------------------------------------------------------
(* Up to READY_FOR_ACTION *)

Receive(c) ==
  /\ caseState[c] = "ABSENT"
  /\ Advance(c, "CASE_RECEIVED", "ABSENT", "RECEIVED")
  /\ UNCHANGED <<details, approval>> /\ Elsewhere

StartAnalysis(c) ==
  /\ caseState[c] = "RECEIVED"
  /\ Advance(c, "ANALYSIS_STARTED", "RECEIVED", "ANALYZING")
  /\ UNCHANGED <<details, approval>> /\ Elsewhere

(* The first proposal of the model is validated and its verdict persisted.   *)
Validate(c) ==
  LET f == Asked(c) IN
  /\ LastIs(c, "ANALYSIS_STARTED")
  /\ IF TargetState(f) = "ANALYZING" THEN Note(c, EventType(f), "ANALYZING")
     ELSE Advance(c, EventType(f), "ANALYZING", TargetState(f))
  /\ IF Verdict(f).decision = "READY" THEN Accept(c, f.type, "SYSTEM_RULE") ELSE UNCHANGED details
  /\ IF TargetState(f) = "PENDING_APPROVAL" THEN AskApproval(c) ELSE UNCHANGED approval
  /\ Elsewhere

(* A grounded answer, or none. *)
RetrievePolicy(c, to) ==
  /\ LastIs(c, "ANALYSIS_READY_FOR_RETRIEVAL")
  /\ Advance(c, IF to = "READY_FOR_ACTION" THEN "POLICY_RETRIEVAL_READY"
                ELSE "POLICY_RETRIEVAL_NEEDS_REVIEW", "ANALYZING", to)
  /\ UNCHANGED <<details, approval>> /\ Elsewhere

CorrectReview(c, type) ==
  /\ caseState[c] = "NEEDS_REVIEW"
  /\ approval[c] = "NONE"
  /\ AgentMayAccept(FactsOf(c, type))
  /\ Advance(c, "SERVICE_AGENT_CORRECTION_ACCEPTED", "NEEDS_REVIEW", "ANALYZING")
  /\ Accept(c, type, "SERVICE_AGENT")
  /\ UNCHANGED approval /\ Elsewhere

RejectReview(c) ==
  /\ caseState[c] = "NEEDS_REVIEW"
  /\ Advance(c, "SERVICE_AGENT_REJECTED", "NEEDS_REVIEW", "REJECTED")
  /\ UNCHANGED <<details, approval>> /\ Elsewhere

(* A policy question stays ANALYZING, and no retrieval accepts it then. *)
RouteReviewedCase(c) ==
  LET f == Accepted(c) IN
  /\ LastIs(c, "SERVICE_AGENT_CORRECTION_ACCEPTED")
  /\ RouteAllowed(f)
  /\ CASE Guarded(f) -> Advance(c, "HUMAN_REVIEW_REANALYZED", "ANALYZING", "PENDING_APPROVAL")
       [] f.type = "POLICY_QUESTION" -> Note(c, "HUMAN_REVIEW_REANALYZED", "ANALYZING")
       [] OTHER -> Advance(c, "HUMAN_REVIEW_REANALYZED", "ANALYZING", "READY_FOR_ACTION")
  /\ IF Guarded(f) THEN AskApproval(c) ELSE UNCHANGED approval
  /\ UNCHANGED details /\ Elsewhere

DecideApproval(c, decision) ==
  /\ caseState[c] = "PENDING_APPROVAL"
  /\ approval[c] = "PENDING"
  /\ ApproverMayDecide(Accepted(c))
  /\ IF decision = "APPROVED"
     THEN Advance(c, "APPROVAL_APPROVED", "PENDING_APPROVAL", "READY_FOR_ACTION")
     ELSE Advance(c, "APPROVAL_REJECTED", "PENDING_APPROVAL", "REJECTED")
  /\ approval' = [approval EXCEPT ![c] = decision]
  /\ UNCHANGED details /\ Elsewhere

IsAcknowledged(c) == \E i \in DOMAIN acknowledged : acknowledged[i] = c

(* Mutant: the acknowledgement that exists is not looked for. *)
AcknowledgeAgain(c) ==
  /\ caseState[c] = "READY_FOR_ACTION"
  /\ approval[c] = "APPROVED"
  /\ Note(c, "HUMAN_DECISION_RESUME_ACKNOWLEDGED", "READY_FOR_ACTION")
  /\ acknowledged' = Append(acknowledged, c)
  /\ UNCHANGED <<request, grants, details, approval, messageVars, run>>

(* The acknowledgement of the approval's resume message. *)
AcknowledgeApproval(c) ==
  /\ LastIs(c, "APPROVAL_APPROVED")
  /\ Note(c, "HUMAN_DECISION_RESUME_ACKNOWLEDGED", "READY_FOR_ACTION")
  /\ acknowledged' = Append(acknowledged, c)
  /\ UNCHANGED <<request, grants, details, approval, messageVars, run>>

(* Users, roles, permissions and systems are changed by nothing in the       *)
(* repository but may change.                                                *)
ChangeGrant(c, g) ==
  /\ grants' = [grants EXCEPT ![c] = IF g \in @ THEN @ \ {g} ELSE @ \cup {g}]
  /\ UNCHANGED <<request, caseRows, acknowledged, messageVars, run>>

-----------------------------------------------------------------------------
(* Queueing *)

(* A status answer tells the state the case referred to has now. *)
View(c) ==
  IF AsksStatus(Accepted(c)) THEN caseState[request[c].target] ELSE "NONE"

BuildPayload(c) == [version |-> version[c], view |-> View(c)]

(* _validate_authority: the approval and its acknowledgement, and everybody  *)
(* and everything the action names, now.                                     *)
ApprovedNow(c) ==
  /\ caseState[c] = "READY_FOR_ACTION"
  /\ IsAcknowledged(c)
  /\ approval[c] = "APPROVED"
  /\ ApprovedActionHolds(Accepted(c))

(* Mutant: whoever may view the case referred to is given its state. *)
SafeForViewers(c) ==
  /\ caseState[c] = "READY_FOR_ACTION"
  /\ ~Guarded(Accepted(c))
  /\ "REQUESTER" \in grants[c]

SourceTypes(c) ==
  IF details[c].type = "POLICY_QUESTION" THEN {"POLICY_RETRIEVAL_READY"}
  ELSE {"ANALYSIS_READY", "HUMAN_REVIEW_REANALYZED"}

(* The latest source event brought the case to READY_FOR_ACTION, whoever     *)
(* accepted the details is who it speaks of, and an answer or a routed       *)
(* review is of the version the case still has.                              *)
SourceFits(c) ==
  \E i \in DOMAIN log[c] :
    /\ log[c][i].type \in SourceTypes(c)
    /\ \A j \in DOMAIN log[c] : log[c][j].type \in SourceTypes(c) => j <= i
    /\ log[c][i].to = "READY_FOR_ACTION"
    /\ log[c][i].type # "ANALYSIS_READY" => log[c][i].trigger.version = version[c]
    /\ log[c][i].type = "ANALYSIS_READY" => details[c].by = "SYSTEM_RULE"
    /\ log[c][i].type = "HUMAN_REVIEW_REANALYZED" => details[c].by = "SERVICE_AGENT"

SafeNow(c) ==
  /\ caseState[c] = "READY_FOR_ACTION"
  /\ SafeActionHolds(Accepted(c))
  /\ SourceFits(c)

Queue(c) ==
  /\ Desk!Submit(c)
  /\ payload' = [payload EXCEPT ![c] = BuildPayload(c)]

QueueSafeAction(c) ==
  /\ SafeNow(c)
  /\ Queue(c)
  /\ UNCHANGED <<request, grants, caseRows, acknowledged, run>>

(* Mutant: an acknowledgement whose action was queued is a candidate again. *)
CandidatesQueuedToo ==
  {c \in Case : IsAcknowledged(c) /\ caseState[c] = "READY_FOR_ACTION"}

(* What queue_next_approved_action chooses from. *)
Candidates ==
  {c \in Case : IsAcknowledged(c) /\ caseState[c] = "READY_FOR_ACTION" /\ phase[c] = "absent"}

AcknowledgedBefore(c, d) ==
  \E i, j \in DOMAIN acknowledged : i < j /\ acknowledged[i] = c /\ acknowledged[j] = d

(* main: the oldest candidate is queued.  When it conflicts, the run ends    *)
(* here: later candidates are not queued and no message is delivered.  The   *)
(* candidate is chosen in a transaction of its own; another worker may queue *)
(* it in between, which makes this a replay.                                 *)
QueueNextApproved(w) ==
  /\ run[w] = "idle"
  /\ \E c \in Candidates :
       /\ \A d \in Candidates \ {c} : AcknowledgedBefore(c, d)
       /\ ApprovedNow(c)
       /\ Queue(c)
  /\ run' = [run EXCEPT ![w] = "queued"]
  /\ UNCHANGED <<request, grants, caseRows, acknowledged>>

NothingToQueue(w) ==
  /\ run[w] = "idle"
  /\ Candidates = {}
  /\ run' = [run EXCEPT ![w] = "queued"]
  /\ UNCHANGED <<request, grants, caseRows, acknowledged, messageVars>>

-----------------------------------------------------------------------------
(* Delivery, as DeliveryPromise has it *)

Close(c) == (Desk!Confirm(c) \/ Desk!GiveUp({c})) /\ UNCHANGED payload

(* process_one_message of main closes a message, of whatever case. *)
DeliverOne(w) ==
  /\ run[w] = "queued"
  /\ \E c \in Case : Close(c) /\ run' = [run EXCEPT ![w] = c]
  /\ UNCHANGED <<request, grants, caseRows, acknowledged>>

(* Another worker, main of delivery.py, or the recovery sweep. *)
CloseElsewhere(c) ==
  /\ Close(c)
  /\ UNCHANGED <<request, grants, caseRows, acknowledged, run>>

ServiceDeskActs(c) ==
  /\ Desk!Apply(c)
  /\ UNCHANGED <<request, grants, caseRows, acknowledged, payload, run>>

-----------------------------------------------------------------------------
(* Reconciliation *)

Closed(c) == phase[c] \in {"delivered", "given_up"}

(* Mutant: any message that is no longer open counts as a success. *)
SettleAsDone(c) ==
  Advance(c, "DOWNSTREAM_ACTION_COMPLETED", "READY_FOR_ACTION", "COMPLETED")

(* Mutant: the Service Desk is asked for its record, not the outbox. *)
SettleByRecord(c) ==
  \/ /\ effect[c] = 1
     /\ Advance(c, "DOWNSTREAM_ACTION_COMPLETED", "READY_FOR_ACTION", "COMPLETED")
  \/ /\ effect[c] = 0
     /\ Advance(c, "DOWNSTREAM_ACTION_FAILED", "READY_FOR_ACTION", "FAILED")

Settle(c) ==
  \/ /\ phase[c] = "delivered"
     /\ Advance(c, "DOWNSTREAM_ACTION_COMPLETED", "READY_FOR_ACTION", "COMPLETED")
  \/ /\ phase[c] = "given_up"
     /\ Advance(c, "DOWNSTREAM_ACTION_FAILED", "READY_FOR_ACTION", "FAILED")

(* The message is the case's, and the payload it carries is the one that     *)
(* would be built now.                                                       *)
StillCurrent(c) == Closed(c) /\ payload[c] = BuildPayload(c)

MayReconcile(c) == StillCurrent(c) /\ (ApprovedNow(c) \/ SafeNow(c))

(* reconcile_approved_action, also through reconcile_next_terminal_action,   *)
(* and reconcile_safe_action: each conflicts with the other's messages.      *)
ReconcileApprovedAction(c) ==
  /\ StillCurrent(c)
  /\ ApprovedNow(c)
  /\ Settle(c)
  /\ UNCHANGED <<request, grants, details, approval, acknowledged, messageVars, run>>

ReconcileSafeAction(c) ==
  /\ StillCurrent(c)
  /\ SafeNow(c)
  /\ Settle(c)
  /\ UNCHANGED <<request, grants, details, approval, acknowledged, messageVars, run>>

(* main reconciles the message it has closed. *)
ReconcileOwn(w) ==
  /\ run[w] \in Case
  /\ StillCurrent(run[w])
  /\ ApprovedNow(run[w])
  /\ Settle(run[w])
  /\ run' = [run EXCEPT ![w] = "idle"]
  /\ UNCHANGED <<request, grants, details, approval, acknowledged, messageVars>>

(* The process ends: no message was due or it will be retried, the           *)
(* reconciliation is a replay or conflicts, or the process dies.             *)
EndRun(w) ==
  /\ run[w] # "idle"
  /\ run' = [run EXCEPT ![w] = "idle"]
  /\ UNCHANGED <<request, grants, caseRows, acknowledged, messageVars>>

-----------------------------------------------------------------------------
Judge(c) ==
  \/ Receive(c) \/ StartAnalysis(c) \/ Validate(c)
  \/ \E to \in {"READY_FOR_ACTION", "NEEDS_REVIEW"} : RetrievePolicy(c, to)
  \/ \E type \in Corrected : CorrectReview(c, type)
  \/ RejectReview(c) \/ RouteReviewedCase(c)
  \/ \E decision \in {"APPROVED", "REJECTED"} : DecideApproval(c, decision)
  \/ AcknowledgeApproval(c)

RunMain(w) ==
  QueueNextApproved(w) \/ NothingToQueue(w) \/ DeliverOne(w) \/ ReconcileOwn(w) \/ EndRun(w)

Next ==
  \/ \E c \in Case : Judge(c) \/ QueueSafeAction(c)
  \/ \E c \in Case, g \in Volatile : ChangeGrant(c, g)
  \/ \E c \in Case : CloseElsewhere(c) \/ ServiceDeskActs(c)
  \/ \E c \in Case : ReconcileApprovedAction(c) \/ ReconcileSafeAction(c)
  \/ \E w \in Worker : RunMain(w)

Spec == Init /\ [][Next]_routeVars

(* main is run again and again, and a run ends. *)
FairSpec == Spec /\ \A w \in Worker : WF_routeVars(RunMain(w))

(* Besides, what was queued is delivered and every reconciler is called for  *)
(* every message again and again.                                            *)
TirelessSpec ==
  /\ FairSpec
  /\ \A c \in Case :
       /\ WF_routeVars(ServiceDeskActs(c))
       /\ WF_routeVars(CloseElsewhere(c))
       /\ WF_routeVars(ReconcileApprovedAction(c) \/ ReconcileSafeAction(c))

-----------------------------------------------------------------------------
(* Properties *)

(* The log of each case tells its state (CaseStore), with the queue, the     *)
(* reconcilers and the acknowledgement among its writers.                    *)
CasesTellState == \A c \in Case : Row(c)!LogTellsState

(* Each case follows the lifecycle to its end, and a step of one case leaves *)
(* no other case half moved.                                                 *)
CasesFollowLifecycle == [][\A c \in Case : Row(c)!CaseStep]_caseRows

(* Whatever happened in between, an action took place only for a case whose  *)
(* approver approved and whose approval was acknowledged, for a status the   *)
(* requester owns, for a policy answer that was grounded.                    *)
EffectIsAuthorized ==
  \A c \in Case : effect[c] = 1 =>
    LET f == Accepted(c) IN
    /\ Guarded(f) => approval[c] = "APPROVED" /\ IsAcknowledged(c)
    /\ AsksStatus(f) => "OWNER" \in f.holds
    /\ f.type = "POLICY_QUESTION" => Row(c)!Logged("POLICY_RETRIEVAL_READY")

(* The state of a case that was acted for is the outcome of its delivery.    *)
OutcomeIsDelivered ==
  \A c \in Case :
    /\ caseState[c] = "COMPLETED" => phase[c] = "delivered"
    /\ caseState[c] = "FAILED" => phase[c] = "given_up"

(* A status answer whose case has moved on since it was queued. *)
Outdated(c) == Closed(c) /\ AsksStatus(Accepted(c)) /\ payload[c].view # View(c)

(* The judgements agree.  What validation, agent, router and approver let    *)
(* through is accepted by the queue and then by the reconciler as long as    *)
(* nothing that was granted is withdrawn, with two exceptions: a status that *)
(* is only viewed is never queued, and one whose case moved on is never      *)
(* reconciled.                                                               *)
ActionStaysPossible ==
  \A c \in Case :
    (/\ caseState[c] = "READY_FOR_ACTION"
     /\ Volatile \subseteq grants[c]
     /\ ~OnlyViewed(Accepted(c))
     /\ Guarded(Accepted(c)) => IsAcknowledged(c)) =>
       /\ ApprovedNow(c) \/ SafeNow(c)
       /\ Closed(c) /\ ~Outdated(c) => MayReconcile(c)

Granted ==
  {c \in Case : /\ caseState[c] \in {"READY_FOR_ACTION", "COMPLETED", "FAILED"}
                /\ Guarded(Accepted(c)) => IsAcknowledged(c)}

ToldOutcome ==
  [c \in Case |-> CASE caseState[c] = "COMPLETED" -> "completed"
                   [] caseState[c] = "FAILED" -> "failed"
                   [] OTHER -> "open"]

Promised == INSTANCE ActionOutcome WITH granted <- Granted, outcome <- ToldOutcome

(* Queueing, delivery and reconciliation implement ActionOutcome. *)
KeepsOutcome == Promised!Spec

(* An acknowledged approval is queued, although a candidate that conflicts   *)
(* stops the runs of main, if the grants are in force from some time on.     *)
ApprovalIsQueued ==
  <>[](\A c \in Case : Volatile \subseteq grants[c]) =>
    \A c \in Case : (caseState[c] = "READY_FOR_ACTION" /\ IsAcknowledged(c)) ~> phase[c] # "absent"

(* docs/BUSINESS_PROCESS.md:146 "`READY_FOR_ACTION` | Downstream action      *)
(* succeeds | `COMPLETED`": the subject of a violation run.                  *)
DeliveredCompletes ==
  \A c \in Case : phase[c] = "delivered" ~> caseState[c] = "COMPLETED"

=============================================================================

------------------------------ MODULE CaseStore ------------------------------
(***************************************************************************)
(* One case of the primary database: its row of cases and its rows of      *)
(* case_events in sequence_number order.  Every component that writes the  *)
(* case locks its row first, so its write is one action; the components    *)
(* are the modules that extend this one.                                   *)
(***************************************************************************)
EXTENDS Naturals, Sequences, FiniteSets

CONSTANTS
  Input,     \* canonical analysis inputs (subject and text) of the case
  NoInput,   \* of a decision that brings no new input
  NoTrigger

CaseState == {"RECEIVED", "ANALYZING", "NEEDS_INFORMATION", "NEEDS_REVIEW",
              "PENDING_APPROVAL", "READY_FOR_ACTION", "COMPLETED", "REJECTED", "FAILED"}

(* Evidence a later request must refer to: the version an event gave to the *)
(* case and the input it fixed.                                             *)
Trigger == [version : Nat, input : Input \cup {NoInput}]

(* What was accepted of the request: its type, as far as the routes differ  *)
(* (a policy question, an action that needs an approval, any other), and    *)
(* case_details.accepted_by_type.                                           *)
Kind == {"POLICY", "GUARDED", "SAFE"}
Details == [kind : Kind, by : {"SYSTEM_RULE", "SERVICE_AGENT"}]
NoDetails == [kind |-> "NONE", by |-> "NOBODY"]

(* The types of event the modelled components write. *)
EventType == {
  "CASE_RECEIVED", "ANALYSIS_STARTED",
  "ANALYSIS_ATTEMPT_RECOVERED", "ANALYSIS_RETRY_SCHEDULED", "ANALYSIS_FAILED",
  "ANALYSIS_NEEDS_INFORMATION", "ANALYSIS_NEEDS_REVIEW", "ANALYSIS_REJECTED",
  "APPROVAL_REQUESTED", "ANALYSIS_READY_FOR_RETRIEVAL", "ANALYSIS_READY",
  "REQUESTER_INFORMATION_SUBMITTED", "SERVICE_AGENT_CORRECTION_ACCEPTED",
  "SERVICE_AGENT_REJECTED", "APPROVAL_APPROVED", "APPROVAL_REJECTED",
  "HUMAN_DECISION_RESUME_ACKNOWLEDGED", "HUMAN_REVIEW_REANALYZED",
  "POLICY_RETRIEVAL_STARTED", "POLICY_RETRIEVAL_READY", "POLICY_RETRIEVAL_NEEDS_REVIEW",
  "REQUESTER_NOTIFICATION_QUEUED", "REQUESTER_NOTIFICATION_SENT",
  "REQUESTER_NOTIFICATION_FAILED"}

Event == [type : EventType, from : CaseState \cup {"ABSENT"}, to : CaseState,
          trigger : Trigger \cup {NoTrigger}]

VARIABLES
  caseState, \* cases.current_state, ABSENT before intake
  version,   \* cases.version
  log,       \* case_events
  details,   \* cases.request_type and the row of case_details
  approval   \* approvals.decision, NONE without a row

acceptedVars == <<details, approval>>
caseVars == <<caseState, version, log, acceptedVars>>

CaseTypeOK ==
  /\ caseState \in CaseState \cup {"ABSENT"}
  /\ version \in Nat
  /\ log \in Seq(Event)
  /\ details \in Details \cup {NoDetails}
  /\ approval \in {"NONE", "PENDING", "APPROVED", "REJECTED"}
  /\ caseState = "ABSENT" <=> version = 0

CaseInit ==
  /\ caseState = "ABSENT"
  /\ version = 0
  /\ log = <<>>
  /\ details = NoDetails
  /\ approval = "NONE"

-----------------------------------------------------------------------------
Entry(type, from, to) == [type |-> type, from |-> from, to |-> to, trigger |-> NoTrigger]

(* UPDATE cases and the event that goes with it, in one transaction. *)
MoveCase(to, version2, entry) ==
  /\ caseState' = to
  /\ version' = version2
  /\ log' = Append(log, entry)

(* create_or_replay_case: the row and its first event; a repeated request   *)
(* is a replay that writes nothing.                                         *)
ReceiveCase ==
  /\ caseState = "ABSENT"
  /\ MoveCase("RECEIVED", 1, Entry("CASE_RECEIVED", "ABSENT", "RECEIVED"))
  /\ UNCHANGED acceptedVars

Logged(type) == \E i \in DOMAIN log : log[i].type = type

-----------------------------------------------------------------------------
(* Properties every component that moves the case has to keep *)

(* The event log tells the state: consecutive events join up although each  *)
(* writer fills in its from_state itself, the last one ends in the state of *)
(* the case, and the version counts exactly the events that changed it.     *)
LogTellsState ==
  /\ \A i \in DOMAIN log :
       log[i].from = IF i = 1 THEN "ABSENT" ELSE log[i - 1].to
  /\ log # <<>> => caseState = log[Len(log)].to
  /\ version = Cardinality({i \in DOMAIN log : log[i].from # log[i].to})

AllowedMoves == {
  <<"ABSENT", "RECEIVED">>, <<"RECEIVED", "ANALYZING">>,
  <<"ANALYZING", "NEEDS_INFORMATION">>, <<"ANALYZING", "NEEDS_REVIEW">>,
  <<"ANALYZING", "PENDING_APPROVAL">>, <<"ANALYZING", "READY_FOR_ACTION">>,
  <<"ANALYZING", "REJECTED">>, <<"ANALYZING", "FAILED">>,
  <<"NEEDS_INFORMATION", "ANALYZING">>,
  <<"NEEDS_REVIEW", "ANALYZING">>, <<"NEEDS_REVIEW", "REJECTED">>,
  <<"PENDING_APPROVAL", "READY_FOR_ACTION">>, <<"PENDING_APPROVAL", "REJECTED">>,
  <<"READY_FOR_ACTION", "COMPLETED">>, <<"READY_FOR_ACTION", "FAILED">>}

(* The case follows the transitions of the business process, a version is   *)
(* never used for two states, and events are never rewritten.               *)
CaseStep ==
  /\ caseState' # caseState => <<caseState, caseState'>> \in AllowedMoves
  /\ (caseState' # caseState) <=> version' = version + 1
  /\ (caseState' = caseState) <=> version' = version
  /\ SubSeq(log', 1, Len(log)) = log

Lifecycle == [][CaseStep]_caseVars

=============================================================================

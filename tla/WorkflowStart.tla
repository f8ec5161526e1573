---------------------------- MODULE WorkflowStart ----------------------------
(***************************************************************************)
(* From intake to the verdict on a new case: the WORKFLOW_START message of *)
(* the outbox (Outbox), its dispatcher (application/workflow_start.py),    *)
(* the n8n workflow it calls (n8n/workflow-start-v1.json), the             *)
(* analysis-start endpoint and the analysis that n8n starts once it has    *)
(* heard the acknowledgement (Analysis).  Each attempt of the message is   *)
(* one n8n execution.  A request may be late or never arrive on each of    *)
(* the two hops, either side may stop waiting for the other, and n8n may   *)
(* die between the acknowledgement and the analysis.                       *)
(***************************************************************************)
EXTENDS Outbox, Analysis

CONSTANTS
  Start,    \* the WORKFLOW_START message of the case
  NoReply

HttpStatus == {200, 404, 409, 500, 503}

ASSUME WorkflowStartAssumption ==
  /\ Message = {Start}
  /\ Handler = 1..MaxAttempts
  /\ NoReply \notin HttpStatus

VARIABLES
  flow, \* the n8n execution of each attempt
  reply \* the status a calling dispatcher can still read

startVars == <<outboxVars, caseVars, analysisVars, flow, reply>>

Flow == {"none",     \* not sent
         "received", \* on its way to n8n, or handled by its first nodes
         "asking",   \* n8n waits for the primary application
         "unheard",  \* the request to the primary is on its way, nobody waits
         "continue", \* n8n heard the acknowledgement
         "refused",  \* the primary answered 409
         "over"}

TypeOK ==
  /\ OutboxTypeOK
  /\ CaseTypeOK
  /\ AnalysisTypeOK
  /\ flow \in [1..MaxAttempts -> Flow]
  /\ reply \in [Worker -> HttpStatus \cup {NoReply}]
  /\ \A w \in Worker : reply[w] # NoReply => step[w] = "calling"

Init ==
  /\ OutboxInit
  /\ CaseInit
  /\ AnalysisInit
  /\ flow = [n \in 1..MaxAttempts |-> "none"]
  /\ reply = [w \in Worker |-> NoReply]

-----------------------------------------------------------------------------
(* The dispatcher *)

(* create_or_replay_case: the case and its start message are one transaction. *)
Intake ==
  /\ ReceiveCase
  /\ Enqueue(Start)
  /\ UNCHANGED <<analysisVars, flow, reply>>

ClaimAndCall(w) ==
  /\ Claim(w, Start)
  /\ flow' = [flow EXCEPT ![attemptCount[Start] + 1] = "received"]
  /\ reply' = [reply EXCEPT ![w] = NoReply]
  /\ UNCHANGED <<caseVars, analysisVars>>

(* start_workflow: the outcome a status is read as. *)
Classify(http) ==
  CASE http = 200 -> "SUCCESS"
    [] http \in 500..599 -> "TRANSIENT_FAILURE"
    [] OTHER -> "PERMANENT_FAILURE"

ReceiveAnswer(w) ==
  /\ reply[w] # NoReply
  /\ Answer(w, Classify(reply[w]))
  /\ reply' = [reply EXCEPT ![w] = NoReply]
  /\ UNCHANGED <<caseVars, analysisVars, flow>>

TransportError(w) ==
  /\ Answer(w, "TRANSIENT_FAILURE")
  /\ reply' = [reply EXCEPT ![w] = NoReply]
  /\ UNCHANGED <<caseVars, analysisVars, flow>>

(* Mutant: an answer survives the process it was sent to. *)
DiesWithAnswer(w) == Crash(w) /\ UNCHANGED <<caseVars, analysisVars, flow, reply>>

DispatcherDies(w) ==
  /\ Crash(w)
  /\ reply' = [reply EXCEPT ![w] = NoReply]
  /\ UNCHANGED <<caseVars, analysisVars, flow>>

OutboxOnly ==
  /\ \/ LeaseExpires(Start)
     \/ RecoverExpiredClaims({Start})
     \/ \E w \in Worker :
          Finalize(w) \/ RejectStaleFinalize(w) \/ RecoverAbandoned(w, Start)
  /\ UNCHANGED <<caseVars, analysisVars, flow, reply>>

-----------------------------------------------------------------------------
(* n8n and the primary application *)

Waits(w, n) == step[w] = "calling" /\ claim[w] = [msg |-> Start, number |-> n]

Reply(n, http) == reply' = [w \in Worker |-> IF Waits(w, n) THEN http ELSE reply[w]]

(* n8n is up but has not registered its webhook: HTTP 404. *)
WebhookMissing(n) ==
  /\ flow[n] = "received"
  /\ flow' = [flow EXCEPT ![n] = "over"]
  /\ Reply(n, 404)
  /\ UNCHANGED <<outboxVars, caseVars, analysisVars>>

(* n8n's workflow reaches its call of the primary application. *)
AskPrimary(n) ==
  /\ flow[n] = "received"
  /\ flow' = [flow EXCEPT ![n] = "asking"]
  /\ UNCHANGED <<outboxVars, caseVars, analysisVars, reply>>

(* n8n's own timeout or a broken connection fails the execution: HTTP 500. *)
StopAsking(n) ==
  /\ flow[n] = "asking"
  /\ flow' = [flow EXCEPT ![n] = "unheard"]
  /\ Reply(n, 500)
  /\ UNCHANGED <<outboxVars, caseVars, analysisVars>>

(* n8n dies: its request goes on, its continuation does not. *)
N8nDies(n) ==
  /\ flow[n] \in {"received", "asking", "continue"}
  /\ flow' = [flow EXCEPT ![n] = IF @ = "asking" THEN "unheard" ELSE "over"]
  /\ UNCHANGED <<outboxVars, caseVars, analysisVars, reply>>

(* The status goes to n8n if it still waits, and through it to the dispatcher. *)
AnswerExecution(n, http) ==
  /\ flow' = [flow EXCEPT ![n] =
       CASE http = 409 -> "refused"
         [] @ = "asking" /\ http = 200 -> "continue"
         [] OTHER -> "over"]
  /\ IF flow[n] = "asking" THEN Reply(n, http) ELSE UNCHANGED reply

(* Mutant: a second attempt is taken for a replay. *)
StartedIfRetried == attemptCount[Start] > 1

Started == Logged("ANALYSIS_STARTED")

(* The conditions of a fresh start. *)
MayStart ==
  /\ caseState = "RECEIVED"
  /\ version = 1
  /\ status[Start] = "PROCESSING"
  /\ attemptCount[Start] >= 1

(* The input was fixed at intake; it is chosen here, where it first matters. *)
AnalysisStart(n) ==
  /\ flow[n] \in {"asking", "unheard"}
  /\ ~Started
  /\ MayStart
  /\ \E i \in Input :
       MoveCase("ANALYZING", version + 1,
                [type |-> "ANALYSIS_STARTED", from |-> "RECEIVED", to |-> "ANALYZING",
                 trigger |-> [version |-> version + 1, input |-> i]])
  /\ AnswerExecution(n, 200)
  /\ UNCHANGED <<outboxVars, analysisVars, acceptedVars>>

(* Mutant: a replay counts only once the message is settled. *)
ReplayOnlySent == status[Start] = "SENT"

ReplayBacked == status[Start] \in {"PROCESSING", "SENT"}

(* The event exists and its message is claimed or sent. *)
ReplayStart(n) ==
  /\ flow[n] \in {"asking", "unheard"}
  /\ Started
  /\ ReplayBacked
  /\ AnswerExecution(n, 200)
  /\ UNCHANGED <<outboxVars, caseVars, analysisVars>>

RefuseStart(n) ==
  /\ flow[n] \in {"asking", "unheard"}
  /\ IF Started THEN ~ReplayBacked ELSE ~MayStart
  /\ AnswerExecution(n, 409)
  /\ UNCHANGED <<outboxVars, caseVars, analysisVars>>

(* psycopg.Error: rolled back, HTTP 503. *)
StartUnavailable(n) ==
  /\ flow[n] \in {"asking", "unheard"}
  /\ AnswerExecution(n, 503)
  /\ UNCHANGED <<outboxVars, caseVars, analysisVars>>

(* The continuation asks once for the analysis of version 2, as the start    *)
(* event has it.  The handler of execution n is n; a request that is a       *)
(* replay, or is refused, ends the execution and writes nothing.             *)
Continue(n) ==
  /\ flow[n] = "continue"
  /\ \E t \in [version : {2}, input : Input] :
       /\ HasEvidence(t)
       /\ \/ ClaimAttempt(n, t)
          \/ SkipOversized(t)
          \/ FailFinalLease(t)
          \/ NoNewAttempt(t) /\ UNCHANGED <<caseVars, analysisVars>>
  /\ flow' = [flow EXCEPT ![n] = "over"]
  /\ UNCHANGED <<outboxVars, reply>>

Analyze == AnalysisStep /\ UNCHANGED <<outboxVars, flow, reply>>

Next ==
  \/ Intake
  \/ OutboxOnly
  \/ \E w \in Worker :
       ClaimAndCall(w) \/ ReceiveAnswer(w) \/ TransportError(w) \/ DispatcherDies(w)
  \/ \E n \in 1..MaxAttempts :
       \/ WebhookMissing(n) \/ AskPrimary(n) \/ StopAsking(n) \/ N8nDies(n)
       \/ AnalysisStart(n) \/ ReplayStart(n) \/ RefuseStart(n) \/ StartUnavailable(n)
       \/ Continue(n)
  \/ Analyze

Spec == Init /\ [][Next]_startVars

(***************************************************************************)
(* Fairness: the sweep is run by its schedule and the dispatcher by an     *)
(* operator, again and again; calls end within their timeouts, time        *)
(* passes, requests that n8n or the primary application has received are   *)
(* handled, and so are the answers of the model.  Any process may still    *)
(* die.                                                                    *)
(***************************************************************************)
Fairness ==
  /\ WF_startVars(Intake)
  /\ WF_startVars(OutboxOnly)
  /\ \A w \in Worker :
       WF_startVars(ClaimAndCall(w)) /\ WF_startVars(ReceiveAnswer(w) \/ TransportError(w))
  /\ \A n \in 1..MaxAttempts :
       /\ WF_startVars(AskPrimary(n))
       /\ WF_startVars(AnalysisStart(n) \/ ReplayStart(n) \/ RefuseStart(n))
       /\ WF_startVars(Continue(n))
  /\ WF_startVars(Analyze)

FairSpec == Spec /\ Fairness

-----------------------------------------------------------------------------
(* Properties *)

(* The conflict answer never settles a start: a dispatcher that reads 409    *)
(* has lost its claim already, so however the requests of several attempts   *)
(* cross, a started case is never reported as a permanent failure for it.    *)
StartNeverRefused == \A w \in Worker : reply[w] = 409 => ~StillOwns(w)

PhaseOf(m) ==
  CASE status[m] = "ABSENT" -> "absent"
    [] status[m] \in {"PENDING", "PROCESSING"} -> "open"
    [] status[m] = "SENT" -> "delivered"
    [] status[m] = "FAILED" -> "given_up"

Promise == INSTANCE DeliveryPromise WITH
  phase <- [m \in Message |-> PhaseOf(m)],
  effect <- [m \in Message |->
               Cardinality({i \in DOMAIN log : log[i].type = "ANALYSIS_STARTED"})]

(* The dispatcher, n8n and the guarded start implement DeliveryPromise: the  *)
(* case is started at most once, and SENT only if it was.                    *)
KeepsPromise == Promise!Spec

(* docs/WORKFLOW_START_CONTRACT.md: "If the same event exists, return its    *)
(* original stable reference": a started case never answers 409 to a start.  *)
StartReplayAnswered ==
  [][\A n \in 1..MaxAttempts :
       flow[n] # "refused" /\ flow'[n] = "refused" => ~Started]_startVars

(* docs/ARCHITECTURE.md: "If Ollama is unavailable or returns invalid output, *)
(* the case moves to a clear failure or review state."                       *)
ModelFailureSettles ==
  Logged("ANALYSIS_RETRY_SCHEDULED") ~> caseState # "ANALYZING"

=============================================================================

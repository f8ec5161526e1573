-------------------------- MODULE WorkflowStartProofs --------------------------
(***************************************************************************)
(* Theorems about WorkflowStart.  Its dispatcher is a worker of Outbox and *)
(* its analysis is Analysis, so what OutboxProofs and AnalysisProofs show  *)
(* holds here; what is added is how the message and the case know of each  *)
(* other: the message exists exactly when the case does, a case that was   *)
(* not started is RECEIVED in version 1, and a success on its way to the   *)
(* outbox was sent by a primary application that had started the case.     *)
(***************************************************************************)
EXTENDS WorkflowStart, OutboxProofs, AnalysisProofs

USE WorkflowStartAssumption

LEMMA StartStepIsOutboxStep == [Next]_startVars => [OutboxNext]_outboxVars
<1> SUFFICES ASSUME [Next]_startVars PROVE [OutboxNext]_outboxVars
  OBVIOUS
<1>1. CASE Intake
  BY <1>1 DEF Intake, OutboxNext
<1>2. CASE OutboxOnly
  BY <1>2 DEF OutboxOnly, OutboxNext
<1>3. ASSUME NEW w \in Worker, ClaimAndCall(w) PROVE OutboxNext
  BY <1>3 DEF ClaimAndCall, OutboxNext
<1>4. ASSUME NEW w \in Worker, ReceiveAnswer(w) PROVE OutboxNext
  <2>1. Classify(reply[w]) \in Outcome
    BY DEF Classify, Outcome
  <2> QED
    BY <1>4, <2>1 DEF ReceiveAnswer, OutboxNext
<1>5. ASSUME NEW w \in Worker, TransportError(w) \/ DispatcherDies(w) PROVE OutboxNext
  BY <1>5 DEF TransportError, DispatcherDies, OutboxNext, Outcome
<1>6. ASSUME NEW n \in 1..MaxAttempts,
             \/ WebhookMissing(n) \/ AskPrimary(n) \/ StopAsking(n) \/ N8nDies(n)
             \/ AnalysisStart(n) \/ ReplayStart(n) \/ RefuseStart(n) \/ StartUnavailable(n)
             \/ Continue(n)
      PROVE  UNCHANGED outboxVars
  BY <1>6 DEF WebhookMissing, AskPrimary, StopAsking, N8nDies, AnalysisStart, ReplayStart,
     RefuseStart, StartUnavailable, Continue
<1>7. CASE Analyze
  BY <1>7 DEF Analyze
<1>8. CASE UNCHANGED startVars
  BY <1>8 DEF startVars
<1> QED
  BY <1>1, <1>2, <1>3, <1>4, <1>5, <1>6, <1>7, <1>8 DEF Next

(* The dispatcher of workflow starts is a worker of Outbox: its ledger, its  *)
(* terminal evidence and its single owner hold for WORKFLOW_START as well.   *)
THEOREM ImplementsOutbox == Spec => OutboxSpec
<1>1. Init => OutboxInit
  BY DEF Init
<1> QED
  BY <1>1, StartStepIsOutboxStep, PTL DEF Spec, OutboxSpec

-----------------------------------------------------------------------------
(* The inductive invariant *)

HopsTyped ==
  /\ flow \in [1..MaxAttempts -> Flow]
  /\ reply \in [Worker -> HttpStatus \cup {NoReply}]
  /\ \A w \in Worker : reply[w] # NoReply => step[w] = "calling"

(* The case and its message are inserted together. *)
Together == status[Start] = "ABSENT" <=> caseState = "ABSENT"

(* Only the start moves a new case. *)
NotStarted ==
  /\ ~Started => caseState = "ABSENT" \/ (caseState = "RECEIVED" /\ version = 1)
  /\ ~Logged("HUMAN_DECISION_RESUME_ACKNOWLEDGED")

(* A success on its way to the outbox comes from a case that was started. *)
Success(w) == reply[w] = 200 \/ (step[w] = "answered" /\ outcome[w] = "SUCCESS")

StartKnown ==
  /\ \A w \in Worker : Success(w) => Started
  /\ status[Start] = "SENT" => Started

Starts == Cardinality({i \in DOMAIN log : log[i].type = "ANALYSIS_STARTED"})

StartedOnce == Starts = IF Started THEN 1 ELSE 0

CaseInv == AnalysisInv /\ NotStarted /\ StartedOnce

StartInv ==
  /\ OutboxInv /\ HopsTyped /\ CaseInv
  /\ Together /\ StartKnown /\ StartNeverRefused

-----------------------------------------------------------------------------
(* The case *)

StartEvent == {e \in Event : e.type = "ANALYSIS_STARTED"}

LEMMA CountsStarts == CaseTypeOK => Starts = Count(StartEvent)
<1> SUFFICES ASSUME CaseTypeOK PROVE Starts = Count(StartEvent)
  OBVIOUS
<1>1. {i \in DOMAIN log : log[i].type = "ANALYSIS_STARTED"} = {i \in DOMAIN log : log[i] \in StartEvent}
  BY LogOfEvents DEF StartEvent
<1> QED
  BY <1>1 DEF Count, Starts

LEMMA OneMoreEvent ==
  ASSUME CaseTypeOK, CaseTypeOK', StartedOnce, NEW e \in Event, log' = Append(log, e),
         e.type = "ANALYSIS_STARTED" => ~Started
  PROVE  StartedOnce' /\ (Started' <=> Started \/ e.type = "ANALYSIS_STARTED")
           /\ (Logged("HUMAN_DECISION_RESUME_ACKNOWLEDGED")' <=>
                 \/ Logged("HUMAN_DECISION_RESUME_ACKNOWLEDGED")
                 \/ e.type = "HUMAN_DECISION_RESUME_ACKNOWLEDGED")
<1>1. Started' <=> Started \/ e.type = "ANALYSIS_STARTED"
  BY Grows DEF Started
<1>2. (Starts = Count(StartEvent))'
  BY CountsStarts, PTL
<1>3. Starts' = IF e.type = "ANALYSIS_STARTED" THEN Starts + 1 ELSE Starts
  BY <1>2, CountNew, CountsStarts DEF CaseTypeOK, StartEvent
<1> QED
  BY <1>1, <1>3, Grows DEF StartedOnce

LEMMA CaseUnmoved ==
  ASSUME CaseInv, UNCHANGED <<caseVars, analysisVars>>
  PROVE  CaseInv' /\ (Started' <=> Started)
<1>1. AnalysisInv'
  <2>1. HeldStays /\ UNCHANGED runs
    BY DEF HeldStays, CaseInv, AnalysisInv, AnalysisTypeOK, analysisVars
  <2> QED
    BY <2>1, QuietKeeps DEF CaseInv
<1> QED
  BY <1>1 DEF CaseInv, NotStarted, StartedOnce, Starts, Started, Logged, caseVars

(* A step of the analysis is of a case that was started. *)
LEMMA AnalysisStepKeeps ==
  ASSUME CaseInv, AnalysisStep \/ \E h \in Handler : \E t : Request(h, t)
  PROVE  /\ CaseInv' /\ (Started' <=> Started)
         /\ CaseStep \/ UNCHANGED caseVars
         /\ (caseState # "ABSENT" /\ caseState' # "ABSENT") \/ UNCHANGED caseVars
<1>1. AnalysisInv' /\ CaseEffect
  BY AnalysisKeeps DEF CaseInv
<1>2. CASE UNCHANGED caseVars
  BY <1>1, <1>2 DEF CaseInv, NotStarted, StartedOnce, Starts, Started, Logged, caseVars
<1>3. ASSUME NEW to, NEW e, Writes(to, e), CaseStep
      PROVE  /\ CaseInv' /\ (Started' <=> Started)
             /\ caseState # "ABSENT" /\ caseState' # "ABSENT"
  <2>1. /\ e \in Event /\ log' = Append(log, e) /\ caseState = "ANALYZING" /\ caseState' = to
        /\ to # "ABSENT"
        /\ e.type \notin {"ANALYSIS_STARTED", "HUMAN_DECISION_RESUME_ACKNOWLEDGED"}
    BY <1>3 DEF Writes, MoveCase, AnalysisTypes, VerdictTypes, Plan, NotReady, Ready
  <2>2. Started
    BY <2>1 DEF CaseInv, NotStarted
  <2>3. CaseTypeOK /\ CaseTypeOK' /\ StartedOnce
    BY <1>1 DEF CaseInv, AnalysisInv
  <2> QED
    BY <1>1, <2>1, <2>2, <2>3, OneMoreEvent DEF CaseInv, NotStarted
<1> QED
  BY <1>1, <1>2, <1>3 DEF CaseEffect

LEMMA ReceiveKeeps ==
  ASSUME CaseInv, ReceiveCase, UNCHANGED analysisVars
  PROVE  CaseInv' /\ (Started' <=> Started) /\ CaseStep /\ caseState' = "RECEIVED"
<1> DEFINE e == Entry("CASE_RECEIVED", "ABSENT", "RECEIVED")
<1>1. e \in Event /\ e.from = "ABSENT" /\ e.to = "RECEIVED" /\ e.type = "CASE_RECEIVED"
  <2>1. "CASE_RECEIVED" \in EventType
    BY DEF EventType
  <2> QED
    BY <2>1 DEF Entry, Event, CaseState
<1>2. /\ caseState = "ABSENT" /\ version = 0 /\ UNCHANGED acceptedVars
      /\ MoveCase("RECEIVED", 1, e)
  BY DEF ReceiveCase, CaseInv, AnalysisInv, CaseTypeOK
<1>3. /\ "RECEIVED" \in CaseState /\ 1 = IF "RECEIVED" # caseState THEN version + 1 ELSE version
      /\ <<caseState, "RECEIVED">> \in AllowedMoves
  BY <1>2 DEF CaseState, AllowedMoves
<1>4. e.type \notin VerdictTypes \cup {"ANALYSIS_FAILED"} \cup EvidenceTypes
  BY <1>1 DEF VerdictTypes, Plan, NotReady, Ready, EvidenceTypes
<1> HIDE DEF e
<1>5. details' = details /\ approval' = approval /\ CaseTypeOK /\ caseState' = "RECEIVED"
      /\ version' = 1
  BY <1>2 DEF CaseInv, AnalysisInv, acceptedVars, MoveCase
<1>6. AcceptedOnce'
  BY <1>2, <1>5 DEF CaseInv, AnalysisInv, AcceptedOnce
<1>7. AnalysisInv' /\ CaseStep /\ log' = Append(log, e)
  BY <1>1, <1>2, <1>3, <1>4, <1>5, <1>6, OthersKeep DEF CaseInv, CaseTypeOK
<1>8. CaseTypeOK'
  BY <1>7 DEF AnalysisInv
<1> QED
  BY <1>1, <1>5, <1>7, <1>8, OneMoreEvent DEF CaseInv, NotStarted

LEMMA StartKeeps ==
  ASSUME CaseInv, NEW n \in 1..MaxAttempts, AnalysisStart(n)
  PROVE  CaseInv' /\ ~Started /\ Started' /\ CaseStep
           /\ caseState # "ABSENT" /\ caseState' # "ABSENT"
<1>1. PICK i \in Input :
        MoveCase("ANALYZING", version + 1,
                 [type |-> "ANALYSIS_STARTED", from |-> "RECEIVED", to |-> "ANALYZING",
                  trigger |-> [version |-> version + 1, input |-> i]])
  BY DEF AnalysisStart
<1> DEFINE t == [version |-> version + 1, input |-> i]
           e == [type |-> "ANALYSIS_STARTED", from |-> "RECEIVED", to |-> "ANALYZING",
                 trigger |-> t]
<1>2. /\ caseState = "RECEIVED" /\ version = 1 /\ ~Started
      /\ UNCHANGED <<analysisVars, acceptedVars>> /\ MoveCase("ANALYZING", version + 1, e)
  BY <1>1 DEF AnalysisStart, MayStart
<1>3. t \in Trigger
  BY <1>2 DEF Trigger
<1> HIDE DEF t
<1>4. e \in Event /\ e.from = "RECEIVED" /\ e.to = "ANALYZING"
      /\ e.type = "ANALYSIS_STARTED" /\ e.trigger = t
  <2>1. "ANALYSIS_STARTED" \in EventType
    BY DEF EventType
  <2> QED
    BY <1>3, <2>1 DEF Event, CaseState
<1>5. /\ "ANALYZING" \in CaseState
      /\ version + 1 = IF "ANALYZING" # caseState THEN version + 1 ELSE version
      /\ <<caseState, "ANALYZING">> \in AllowedMoves
  BY <1>2 DEF CaseState, AllowedMoves
<1>6. e.type \notin VerdictTypes \cup {"ANALYSIS_FAILED"}
  BY <1>4 DEF VerdictTypes, Plan, NotReady, Ready
<1> HIDE DEF e
<1>7. \A k \in DOMAIN log : log[k].type \notin EvidenceTypes
  BY <1>2 DEF CaseInv, NotStarted, Started, Logged, EvidenceTypes
<1>8. details = NoDetails /\ approval = "NONE"
  BY <1>2 DEF CaseInv, AnalysisInv, AcceptedOnce
<1>9. details' = NoDetails /\ approval' = "NONE" /\ CaseTypeOK /\ caseState' = "ANALYZING"
  BY <1>2, <1>8 DEF CaseInv, AnalysisInv, acceptedVars, MoveCase
<1>10. AcceptedOnce'
  BY <1>9 DEF AcceptedOnce
<1>11. AnalysisInv' /\ CaseStep /\ log' = Append(log, e)
  BY <1>2, <1>3, <1>4, <1>5, <1>6, <1>7, <1>9, <1>10, OthersKeep DEF CaseInv
<1>12. CaseTypeOK'
  BY <1>11 DEF AnalysisInv
<1> QED
  BY <1>2, <1>4, <1>9, <1>11, <1>12, OneMoreEvent DEF CaseInv, NotStarted

-----------------------------------------------------------------------------
(* What a step does to the case, and to its message. *)

LEMMA CaseSteps ==
  ASSUME CaseInv, [Next]_startVars
  PROVE  /\ CaseInv' /\ (Started => Started')
         /\ CaseStep \/ UNCHANGED caseVars
         /\ Intake \/ (caseState' = "ABSENT" <=> caseState = "ABSENT")
         /\ (Started' <=> Started) \/ \E n \in 1..MaxAttempts : AnalysisStart(n)
<1> DEFINE Goal == /\ CaseInv' /\ (Started => Started')
                   /\ CaseStep \/ UNCHANGED caseVars
                   /\ Intake \/ (caseState' = "ABSENT" <=> caseState = "ABSENT")
                   /\ (Started' <=> Started) \/ \E n \in 1..MaxAttempts : AnalysisStart(n)
<1>1. CASE Intake
  BY <1>1, ReceiveKeeps DEF Intake
<1>2. ASSUME UNCHANGED <<caseVars, analysisVars>> PROVE Goal
  BY <1>2, CaseUnmoved DEF caseVars
<1>3. CASE OutboxOnly
  BY <1>2, <1>3 DEF OutboxOnly
<1>4. ASSUME NEW w \in Worker,
             ClaimAndCall(w) \/ ReceiveAnswer(w) \/ TransportError(w) \/ DispatcherDies(w)
      PROVE  Goal
  BY <1>2, <1>4 DEF ClaimAndCall, ReceiveAnswer, TransportError, DispatcherDies
<1>5. ASSUME NEW n \in 1..MaxAttempts,
             \/ WebhookMissing(n) \/ AskPrimary(n) \/ StopAsking(n) \/ N8nDies(n)
             \/ ReplayStart(n) \/ RefuseStart(n) \/ StartUnavailable(n)
      PROVE  Goal
  BY <1>2, <1>5 DEF WebhookMissing, AskPrimary, StopAsking, N8nDies, ReplayStart,
     RefuseStart, StartUnavailable
<1>6. ASSUME NEW n \in 1..MaxAttempts, AnalysisStart(n) PROVE Goal
  BY <1>6, StartKeeps
<1>7. ASSUME NEW n \in 1..MaxAttempts, Continue(n) PROVE Goal
  <2>1. \/ \E t : Request(n, t)
        \/ UNCHANGED <<caseVars, analysisVars>>
    BY <1>7 DEF Continue, Request
  <2>2. CASE \E t : Request(n, t)
    BY <2>2, AnalysisStepKeeps DEF caseVars
  <2> QED
    BY <1>2, <2>1, <2>2
<1>8. CASE Analyze
  BY <1>8, AnalysisStepKeeps DEF Analyze, caseVars
<1>9. CASE UNCHANGED startVars
  BY <1>2, <1>9 DEF startVars
<1> QED
  BY <1>1, <1>3, <1>4, <1>5, <1>6, <1>7, <1>8, <1>9 DEF Next

LEMMA RowOfStart ==
  ASSUME OutboxTypeOK, [Next]_startVars
  PROVE  /\ RowStep(Start) /\ attemptCount[Start] \in 0..MaxAttempts
         /\ status[Start] = "PROCESSING" => attemptCount[Start] > 0
         /\ \A o \in Outcome : RowRecorded(Start, o) => status'[Start] \in {"PENDING", "SENT", "FAILED"}
<1>1. RowStep(Start) /\ attemptCount[Start] \in 0..MaxAttempts
      /\ (status[Start] = "PROCESSING" => attemptCount[Start] > 0)
  BY RowSteps, StartStepIsOutboxStep DEF OutboxTypeOK
<1>2. ASSUME NEW o \in Outcome, RowRecorded(Start, o)
      PROVE  status'[Start] \in {"PENDING", "SENT", "FAILED"}
  BY <1>1, <1>2, StatusAfterType DEF RowRecorded
<1> QED
  BY <1>1, <1>2

LEMMA TogetherStep ==
  ASSUME OutboxTypeOK, CaseInv, Together, [Next]_startVars
  PROVE  Together'
<1>1. CASE Intake
  <2>1. status'[Start] = "PENDING"
    BY <1>1 DEF Intake, Enqueue, OutboxTypeOK
  <2>2. caseState' = "RECEIVED"
    BY <1>1, ReceiveKeeps DEF Intake
  <2> QED
    BY <2>1, <2>2 DEF Together
<1>2. CASE ~Intake
  <2>1. caseState' = "ABSENT" <=> caseState = "ABSENT"
    BY <1>2, CaseSteps
  <2>2. ASSUME status[Start] = "ABSENT" PROVE status' = status
    <3>1. CASE OutboxOnly
      <4>1. ~LeaseExpires(Start) /\ ~RecoverExpiredClaims({Start})
        BY <2>2 DEF LeaseExpires, RecoverExpiredClaims, Abandoned
      <4>2. ASSUME NEW w \in Worker PROVE ~Finalize(w) /\ ~RecoverAbandoned(w, Start)
        <5>1. step[w] = "answered" => claim[w].msg = Start
          BY DEF OutboxTypeOK, Claims
        <5> QED
          BY <2>2, <5>1 DEF Finalize, StillOwns, RecoverAbandoned, Abandoned
      <4> QED
        BY <3>1, <4>1, <4>2 DEF OutboxOnly, RejectStaleFinalize, rowVars
    <3>2. ASSUME NEW w \in Worker, ClaimAndCall(w) PROVE FALSE
      BY <2>2, <3>2 DEF ClaimAndCall, Claim
    <3>3. ASSUME NEW w \in Worker, ReceiveAnswer(w) \/ TransportError(w) \/ DispatcherDies(w)
          PROVE  status' = status
      BY <3>3 DEF ReceiveAnswer, TransportError, DispatcherDies, Answer, Crash, rowVars
    <3>4. ASSUME NEW n \in 1..MaxAttempts,
                 \/ WebhookMissing(n) \/ AskPrimary(n) \/ StopAsking(n) \/ N8nDies(n)
                 \/ AnalysisStart(n) \/ ReplayStart(n) \/ RefuseStart(n) \/ StartUnavailable(n)
                 \/ Continue(n)
          PROVE  status' = status
      BY <3>4 DEF WebhookMissing, AskPrimary, StopAsking, N8nDies, AnalysisStart, ReplayStart,
         RefuseStart, StartUnavailable, Continue, outboxVars
    <3>5. CASE Analyze \/ UNCHANGED startVars
      BY <3>5 DEF Analyze, startVars, outboxVars
    <3> QED
      BY <1>2, <3>1, <3>2, <3>3, <3>4, <3>5 DEF Next
  <2>3. status'[Start] = "ABSENT" <=> status[Start] = "ABSENT"
    BY <2>2, RowOfStart DEF RowStep, RowKept, RowQueued, RowClaimed, RowRecorded
  <2> QED
    BY <2>1, <2>3 DEF Together
<1> QED
  BY <1>1, <1>2

-----------------------------------------------------------------------------
(* The hops: where executions and answers are. *)

LEMMA HopsStep == OutboxTypeOK /\ HopsTyped /\ [Next]_startVars => HopsTyped'
<1> SUFFICES ASSUME OutboxTypeOK, HopsTyped, [Next]_startVars PROVE HopsTyped'
  OBVIOUS
<1> USE DEF HopsTyped
<1>0. {200, 404, 409, 500, 503} = HttpStatus /\ NoReply \notin HttpStatus
  BY DEF HttpStatus
<1>1. ASSUME UNCHANGED <<step, flow, reply>> PROVE HopsTyped'
  BY <1>1
<1>2. CASE Intake
  BY <1>1, <1>2 DEF Intake, Enqueue, workerVars
<1>3. CASE OutboxOnly
  <2>1. CASE LeaseExpires(Start) \/ RecoverExpiredClaims({Start})
    BY <1>1, <1>3, <2>1 DEF OutboxOnly, LeaseExpires, RecoverExpiredClaims, workerVars
  <2>2. ASSUME NEW w \in Worker, RecoverAbandoned(w, Start) PROVE HopsTyped'
    BY <1>1, <1>3, <2>2 DEF OutboxOnly, RecoverAbandoned, workerVars
  <2>3. ASSUME NEW w \in Worker, Finalize(w) \/ RejectStaleFinalize(w) PROVE HopsTyped'
    BY <1>3, <2>3 DEF OutboxOnly, Finalize, RejectStaleFinalize, Release, OutboxTypeOK
  <2> QED
    BY <1>3, <2>1, <2>2, <2>3 DEF OutboxOnly
<1>4. ASSUME NEW w \in Worker, ClaimAndCall(w) PROVE HopsTyped'
  <2>1. "received" \in Flow
    BY DEF Flow
  <2> QED
    BY <1>4, <2>1 DEF ClaimAndCall, Claim, OutboxTypeOK
<1>5. ASSUME NEW w \in Worker, ReceiveAnswer(w) \/ TransportError(w) PROVE HopsTyped'
  BY <1>5 DEF ReceiveAnswer, TransportError, Answer, OutboxTypeOK
<1>6. ASSUME NEW w \in Worker, DispatcherDies(w) PROVE HopsTyped'
  BY <1>6 DEF DispatcherDies, Crash, Release, OutboxTypeOK
<1>7. ASSUME NEW n \in 1..MaxAttempts, NEW http \in HttpStatus, Reply(n, http), step' = step
      PROVE  /\ reply' \in [Worker -> HttpStatus \cup {NoReply}]
             /\ \A w \in Worker : reply'[w] # NoReply => step'[w] = "calling"
  BY <1>7 DEF Reply, Waits
<1>8. ASSUME NEW n \in 1..MaxAttempts, NEW http \in HttpStatus, AnswerExecution(n, http),
             step' = step
      PROVE  HopsTyped'
  <2>1. flow' \in [1..MaxAttempts -> Flow]
    BY <1>8 DEF AnswerExecution, Flow
  <2> QED
    BY <1>7, <1>8, <2>1 DEF AnswerExecution
<1>9. ASSUME NEW n \in 1..MaxAttempts, WebhookMissing(n) \/ StopAsking(n) PROVE HopsTyped'
  BY <1>0, <1>7, <1>9 DEF WebhookMissing, StopAsking, outboxVars, Flow
<1>10. ASSUME NEW n \in 1..MaxAttempts, AskPrimary(n) \/ N8nDies(n) \/ Continue(n)
       PROVE  HopsTyped'
  BY <1>10 DEF AskPrimary, N8nDies, Continue, outboxVars, Flow
<1>11. ASSUME NEW n \in 1..MaxAttempts,
              AnalysisStart(n) \/ ReplayStart(n) \/ RefuseStart(n) \/ StartUnavailable(n)
       PROVE  HopsTyped'
  BY <1>0, <1>8, <1>11 DEF AnalysisStart, ReplayStart, RefuseStart, StartUnavailable, outboxVars
<1>12. CASE Analyze
  BY <1>1, <1>12 DEF Analyze, outboxVars
<1>13. CASE UNCHANGED startVars
  BY <1>1, <1>13 DEF startVars, outboxVars
<1> QED
  BY <1>2, <1>3, <1>4, <1>5, <1>6, <1>9, <1>10, <1>11, <1>12, <1>13 DEF Next

(* What a step does to the answers: most leave them, some forget one, and    *)
(* the primary application gives one to whoever waits for this execution.    *)
AnswersForget ==
  \A w \in Worker :
    /\ reply'[w] \in {reply[w], NoReply}
    /\ reply'[w] # NoReply => claim'[w] = claim[w]
    /\ step'[w] = "answered" /\ outcome'[w] = "SUCCESS" => Success(w)

AnswersWith(http) ==
  /\ UNCHANGED <<status, attemptCount, step, claim, outcome>>
  /\ \A w \in Worker :
       reply'[w] = reply[w] \/ (reply'[w] = http /\ step[w] = "calling" /\ claim[w] \in Claims)

LEMMA AnswerSteps ==
  ASSUME OutboxTypeOK, HopsTyped, CaseInv, [Next]_startVars
  PROVE  \/ AnswersForget
         \/ \E http \in {404, 500, 503} : AnswersWith(http)
         \/ Started' /\ AnswersWith(200)
         \/ AnswersWith(409) /\ UNCHANGED caseVars /\ IF Started THEN ~ReplayBacked ELSE ~MayStart
<1> DEFINE Goal ==
      \/ AnswersForget
      \/ \E http \in {404, 500, 503} : AnswersWith(http)
      \/ Started' /\ AnswersWith(200)
      \/ AnswersWith(409) /\ UNCHANGED caseVars /\ IF Started THEN ~ReplayBacked ELSE ~MayStart
<1>0. NoReply # 200
  BY DEF HttpStatus
<1>1. ASSUME UNCHANGED <<step, claim, outcome, reply>> PROVE Goal
  BY <1>1 DEF AnswersForget, Success
<1>2. CASE Intake
  BY <1>1, <1>2 DEF Intake, Enqueue, workerVars
<1>3. CASE OutboxOnly
  <2>1. CASE LeaseExpires(Start) \/ RecoverExpiredClaims({Start})
    BY <1>1, <1>3, <2>1 DEF OutboxOnly, LeaseExpires, RecoverExpiredClaims, workerVars
  <2>2. ASSUME NEW w \in Worker, RecoverAbandoned(w, Start) PROVE Goal
    BY <1>1, <1>3, <2>2 DEF OutboxOnly, RecoverAbandoned, workerVars
  <2>3. ASSUME NEW w \in Worker, Finalize(w) \/ RejectStaleFinalize(w) PROVE Goal
    BY <1>3, <2>3 DEF OutboxOnly, Finalize, RejectStaleFinalize, Release, OutboxTypeOK,
       HopsTyped, AnswersForget, Success
  <2> QED
    BY <1>3, <2>1, <2>2, <2>3 DEF OutboxOnly
<1>4. ASSUME NEW w \in Worker, ClaimAndCall(w) PROVE Goal
  BY <1>4 DEF ClaimAndCall, Claim, OutboxTypeOK, HopsTyped, AnswersForget, Success
<1>5. ASSUME NEW w \in Worker, ReceiveAnswer(w) PROVE Goal
  <2>1. Classify(reply[w]) = "SUCCESS" => reply[w] = 200
    BY DEF Classify
  <2> QED
    BY <1>5, <2>1 DEF ReceiveAnswer, Answer, OutboxTypeOK, HopsTyped, AnswersForget, Success
<1>6. ASSUME NEW w \in Worker, TransportError(w) PROVE Goal
  BY <1>6 DEF TransportError, Answer, OutboxTypeOK, HopsTyped, AnswersForget, Success
<1>7. ASSUME NEW w \in Worker, DispatcherDies(w) PROVE Goal
  BY <1>7 DEF DispatcherDies, Crash, Release, OutboxTypeOK, HopsTyped, AnswersForget, Success
<1>8. ASSUME NEW n \in 1..MaxAttempts, NEW http,
             Reply(n, http) \/ UNCHANGED reply, UNCHANGED outboxVars
      PROVE  AnswersWith(http)
  <2>1. ASSUME NEW w \in Worker, Waits(w, n) PROVE step[w] = "calling" /\ claim[w] \in Claims
    BY <2>1 DEF Waits, Claims
  <2> QED
    BY <1>8, <2>1 DEF AnswersWith, Reply, outboxVars
<1>9. ASSUME NEW n \in 1..MaxAttempts, WebhookMissing(n) \/ StopAsking(n) PROVE Goal
  BY <1>8, <1>9 DEF WebhookMissing, StopAsking
<1>10. ASSUME NEW n \in 1..MaxAttempts, AskPrimary(n) \/ N8nDies(n) \/ Continue(n) PROVE Goal
  BY <1>1, <1>10 DEF AskPrimary, N8nDies, Continue, outboxVars
<1>11. ASSUME NEW n \in 1..MaxAttempts, AnalysisStart(n) PROVE Goal
  <2>1. Reply(n, 200) \/ UNCHANGED reply
    BY <1>11 DEF AnalysisStart, AnswerExecution
  <2>2. UNCHANGED outboxVars
    BY <1>11 DEF AnalysisStart
  <2>3. Started' /\ AnswersWith(200)
    BY <1>8, <1>11, <2>1, <2>2, StartKeeps
  <2> QED
    BY <2>3
<1>12. ASSUME NEW n \in 1..MaxAttempts, ReplayStart(n) PROVE Goal
  BY <1>8, <1>12 DEF ReplayStart, AnswerExecution, Started, Logged, caseVars
<1>13. ASSUME NEW n \in 1..MaxAttempts, RefuseStart(n) PROVE Goal
  BY <1>8, <1>13 DEF RefuseStart, AnswerExecution
<1>14. ASSUME NEW n \in 1..MaxAttempts, StartUnavailable(n) PROVE Goal
  BY <1>8, <1>14 DEF StartUnavailable, AnswerExecution
<1>15. CASE Analyze
  BY <1>1, <1>15 DEF Analyze, outboxVars
<1>16. CASE UNCHANGED startVars
  BY <1>1, <1>16 DEF startVars, outboxVars
<1> QED
  BY <1>2, <1>3, <1>4, <1>5, <1>6, <1>7, <1>9, <1>10, <1>11, <1>12, <1>13, <1>14, <1>15, <1>16
     DEF Next

LEMMA SentByWorker ==
  ASSUME OutboxTypeOK, [Next]_startVars, status[Start] # "SENT", status'[Start] = "SENT"
  PROVE  \E w \in Worker : step[w] = "answered" /\ outcome[w] = "SUCCESS"
<1>1. [OutboxNext]_outboxVars
  BY StartStepIsOutboxStep
<1>2. \A n \in 1..MaxAttempts : StatusAfter("TRANSIENT_FAILURE", n) # "SENT"
  BY DEF StatusAfter
<1>3. ASSUME NEW w \in Worker, Finalize(w)
      PROVE  \E v \in Worker : step[v] = "answered" /\ outcome[v] = "SUCCESS"
  <2>1. claim[w] \in Claims
    BY <1>3 DEF Finalize, OutboxTypeOK
  <2>2. StatusAfter(outcome[w], claim[w].number) = "SENT"
    BY <1>3, <2>1 DEF Finalize, RecordAttempt, OutboxTypeOK, Claims
  <2>3. outcome[w] = "SUCCESS"
    BY <2>1, <2>2, StatusAfterType DEF OutboxTypeOK, Claims
  <2> QED
    BY <1>3, <2>3 DEF Finalize
<1>4. ASSUME NEW w \in Worker, NEW m \in Message, RecoverAbandoned(w, m) PROVE FALSE
  <2>1. attemptCount[m] \in 1..MaxAttempts
    BY <1>4 DEF RecoverAbandoned, Abandoned, OutboxTypeOK
  <2> QED
    BY <1>2, <1>4, <2>1 DEF RecoverAbandoned, RecordAttempt, OutboxTypeOK
<1>5. ASSUME NEW batch \in SUBSET Message, RecoverExpiredClaims(batch) PROVE FALSE
  <2>1. Start \in batch => attemptCount[Start] \in 1..MaxAttempts
    BY <1>5 DEF RecoverExpiredClaims, Abandoned, OutboxTypeOK
  <2> QED
    BY <1>2, <1>5, <2>1 DEF RecoverExpiredClaims, SweepRows
<1>6. ASSUME NEW m \in Message, Enqueue(m) \/ LeaseExpires(m) PROVE FALSE
  BY <1>6 DEF Enqueue, LeaseExpires, OutboxTypeOK
<1>7. ASSUME NEW w \in Worker, RejectStaleFinalize(w) \/ Crash(w) PROVE FALSE
  BY <1>7 DEF RejectStaleFinalize, Crash, rowVars
<1>8. ASSUME NEW w \in Worker, NEW m \in Message, Claim(w, m) PROVE FALSE
  BY <1>8 DEF Claim, OutboxTypeOK
<1>9. ASSUME NEW w \in Worker, NEW o \in Outcome, Answer(w, o) PROVE FALSE
  BY <1>9 DEF Answer, rowVars
<1>10. CASE UNCHANGED outboxVars
  BY <1>10 DEF outboxVars
<1> QED
  BY <1>1, <1>3, <1>4, <1>5, <1>6, <1>7, <1>8, <1>9, <1>10 DEF OutboxNext

LEMMA StartKnownStep ==
  ASSUME OutboxTypeOK, HopsTyped, CaseInv, StartKnown, [Next]_startVars
  PROVE  StartKnown'
<1>1. Started => Started'
  BY CaseSteps
<1>2. \A w \in Worker : Success(w)' => Started'
  <2>1. CASE AnswersForget
    <3>1. NoReply # 200
      BY DEF HttpStatus
    <3> QED
      BY <1>1, <2>1, <3>1 DEF AnswersForget, StartKnown, Success
  <2>2. ASSUME NEW http \in {404, 409, 500, 503}, AnswersWith(http)
        PROVE  \A w \in Worker : Success(w)' => Started'
    <3>1. http # 200
      BY <2>2
    <3> QED
      BY <1>1, <2>2, <3>1 DEF AnswersWith, StartKnown, Success
  <2>3. CASE Started'
    BY <2>3
  <2> QED
    BY <2>1, <2>2, <2>3, AnswerSteps
<1>3. status'[Start] = "SENT" => Started'
  BY <1>1, SentByWorker DEF StartKnown, Success
<1> QED
  BY <1>2, <1>3 DEF StartKnown

(* A worker that lost its claim does not get it back. *)
LEMMA StaysLost ==
  ASSUME OutboxTypeOK, SingleOwner, [Next]_startVars,
         NEW w \in Worker, claim[w] \in Claims, claim'[w] = claim[w], ~StillOwns(w)
  PROVE  ~StillOwns(w)'
<1>1. claim[w].msg = Start /\ claim[w] # NoClaim /\ claim[w].number \in Nat
  BY OutboxAssumption DEF Claims
<1>2. claim[w].number <= attemptCount[Start] /\ attemptCount[Start] \in Nat
  BY <1>1 DEF SingleOwner, Holds, OutboxTypeOK
<1>3. CASE RowKept(Start)
  BY <1>1, <1>3 DEF RowKept, StillOwns
<1>4. CASE RowClaimed(Start)
  BY <1>1, <1>2, <1>4 DEF RowClaimed, StillOwns
<1>5. CASE RowQueued(Start) \/ \E o \in Outcome : RowRecorded(Start, o)
  BY <1>1, <1>5, RowOfStart DEF RowQueued, StillOwns
<1> QED
  BY <1>3, <1>4, <1>5, RowOfStart DEF RowStep

LEMMA RefusedStep ==
  ASSUME OutboxTypeOK, SingleOwner, HopsTyped, CaseInv, Together, StartNeverRefused,
         [Next]_startVars
  PROVE  StartNeverRefused'
<1> SUFFICES ASSUME NEW w \in Worker, reply'[w] = 409 PROVE ~StillOwns(w)'
  BY DEF StartNeverRefused
<1>0. NoReply # 409
  BY DEF HttpStatus
<1>1. ASSUME reply[w] = 409, claim'[w] = claim[w] PROVE ~StillOwns(w)'
  <2>1. step[w] = "calling" /\ ~StillOwns(w)
    BY <1>0, <1>1 DEF HopsTyped, StartNeverRefused
  <2>2. claim[w] \in Claims
    BY <2>1 DEF OutboxTypeOK
  <2> QED
    BY <1>1, <2>1, <2>2, StaysLost
<1>2. CASE AnswersForget
  BY <1>0, <1>1, <1>2 DEF AnswersForget
<1>3. ASSUME NEW http \in {200, 404, 500, 503}, AnswersWith(http) PROVE ~StillOwns(w)'
  <2>1. http # 409
    BY <1>3
  <2> QED
    BY <1>1, <1>3, <2>1 DEF AnswersWith
<1>4. ASSUME AnswersWith(409), IF Started THEN ~ReplayBacked ELSE ~MayStart
      PROVE  ~StillOwns(w)'
  <2>1. CASE reply'[w] = reply[w]
    BY <1>1, <1>4, <2>1 DEF AnswersWith
  <2>2. CASE claim[w] \in Claims
    <3>1. claim[w].msg = Start
      BY <2>2 DEF Claims
    <3>2. status[Start] # "PROCESSING"
      <4>1. CASE Started
        BY <1>4, <4>1 DEF ReplayBacked
      <4>2. CASE ~Started
        BY <1>4, <4>2 DEF MayStart, CaseInv, NotStarted, Together, OutboxTypeOK
      <4> QED
        BY <4>1, <4>2
    <3> QED
      BY <1>4, <3>1, <3>2 DEF AnswersWith, StillOwns
  <2> QED
    BY <1>4, <2>1, <2>2 DEF AnswersWith
<1> QED
  BY <1>2, <1>3, <1>4, AnswerSteps

-----------------------------------------------------------------------------

LEMMA StartInit == Init => StartInv
<1> SUFFICES ASSUME Init PROVE StartInv
  OBVIOUS
<1>1. OutboxInv
  BY InitInv DEF Init
<1>2. AnalysisInv
  BY InitKeeps DEF Init
<1>3. log = <<>> /\ DOMAIN log = {} /\ caseState = "ABSENT"
  BY EmptySeq DEF Init, CaseInit
<1>4. \A t : ~Logged(t)
  BY <1>3 DEF Logged
<1>5. StartedOnce
  <2>1. Count(StartEvent) = 0
    BY <1>3, CountNone
  <2> QED
    BY <1>2, <1>4, <2>1, CountsStarts DEF StartedOnce, Started, AnalysisInv
<1>6. CaseInv
  BY <1>2, <1>3, <1>4, <1>5 DEF CaseInv, NotStarted, Started
<1>7. HopsTyped
  BY DEF Init, HopsTyped, Flow
<1>8. Together
  BY <1>3 DEF Together, Init, OutboxInit
<1>9. StartKnown /\ StartNeverRefused
  <2>1. NoReply \notin {200, 409}
    BY DEF HttpStatus
  <2> QED
    BY <2>1 DEF StartKnown, StartNeverRefused, Success, Init, OutboxInit
<1> QED
  BY <1>1, <1>6, <1>7, <1>8, <1>9 DEF StartInv

LEMMA StartStep == StartInv /\ [Next]_startVars => StartInv'
<1> SUFFICES ASSUME StartInv, [Next]_startVars PROVE StartInv'
  OBVIOUS
<1>1. OutboxInv'
  BY StartStepIsOutboxStep, TypeStep, LedgerStep, EvidenceStep, OwnerStep DEF StartInv, OutboxInv
<1>2. OutboxTypeOK /\ SingleOwner
  BY DEF StartInv, OutboxInv
<1>3. HopsTyped'
  BY <1>2, HopsStep DEF StartInv
<1>4. CaseInv'
  BY CaseSteps DEF StartInv
<1>5. Together' /\ StartKnown' /\ StartNeverRefused'
  BY <1>2, TogetherStep, StartKnownStep, RefusedStep DEF StartInv
<1> QED
  BY <1>1, <1>3, <1>4, <1>5 DEF StartInv

(* The invariant the message, the hops and the case need of each other. *)
THEOREM StartInvHolds == Spec => []StartInv
BY StartInit, StartStep, PTL DEF Spec

(* Rows, workers, hops, the case and its attempts are well typed. *)
THEOREM StartTypeCorrect == Spec => []TypeOK
<1>1. StartInv => TypeOK
  BY DEF StartInv, OutboxInv, HopsTyped, CaseInv, AnalysisInv, TypeOK
<1> QED
  BY StartInvHolds, <1>1, PTL

(* Whatever crosses on the way from intake to a verdict, the log of the case *)
(* tells its state and its version counts the changes of state.              *)
THEOREM StartLogTellsState == Spec => []LogTellsState
<1>1. StartInv => LogTellsState
  BY DEF StartInv, CaseInv, AnalysisInv
<1> QED
  BY StartInvHolds, <1>1, PTL

(* One verdict per input, for any number of requests, attempts and lost     *)
(* answers: the verdict events are as many as the validated runs.            *)
THEOREM StartOneVerdict == Spec => []OneVerdict
<1>1. StartInv => OneVerdict
  BY DEF StartInv, CaseInv, AnalysisInv
<1> QED
  BY StartInvHolds, <1>1, PTL

(* A case fails in analysis only with all attempts on an input used up. *)
THEOREM StartFailureIsExhaustion == Spec => []FailureIsExhaustion
<1>1. StartInv => FailureIsExhaustion
  BY DEF StartInv, CaseInv, AnalysisInv
<1> QED
  BY StartInvHolds, <1>1, PTL

(* The insert of a READY plan never conflicts with details. *)
THEOREM StartAcceptanceFits == Spec => []AcceptanceFits
<1>1. StartInv => AcceptanceFits
  BY AcceptanceAlwaysFits DEF StartInv, CaseInv
<1> QED
  BY StartInvHolds, <1>1, PTL

(* A dispatcher that reads 409 has lost its claim already: the conflict      *)
(* answer never settles the message of a start.                              *)
THEOREM NeverRefused == Spec => []StartNeverRefused
<1>1. StartInv => StartNeverRefused
  BY DEF StartInv
<1> QED
  BY StartInvHolds, <1>1, PTL

(* The case follows the transitions of the business process, a version is    *)
(* never used for two states, and no event is rewritten.                     *)
THEOREM StartFollowsLifecycle == Spec => Lifecycle
<1>1. StartInv /\ [Next]_startVars => [CaseStep]_caseVars
  BY CaseSteps DEF StartInv
<1> QED
  BY StartInvHolds, <1>1, PTL DEF Spec, Lifecycle

-----------------------------------------------------------------------------
(* The refinement of DeliveryPromise *)

Phases == [m \in Message |-> PhaseOf(m)]
Effects == [m \in Message |-> Starts]

PhaseAt(s) ==
  IF s = "ABSENT" THEN "absent"
  ELSE IF s \in {"PENDING", "PROCESSING"} THEN "open"
  ELSE IF s = "SENT" THEN "delivered" ELSE "given_up"

LEMMA PhasesAre ==
  /\ OutboxTypeOK => Phases = [m \in Message |-> PhaseAt(status[Start])]
  /\ OutboxTypeOK' => Phases' = [m \in Message |-> PhaseAt(status'[Start])]
<1>1. ASSUME NEW s \in {"ABSENT", "PENDING", "PROCESSING", "SENT", "FAILED"}
      PROVE  (CASE s = "ABSENT" -> "absent"
                [] s \in {"PENDING", "PROCESSING"} -> "open"
                [] s = "SENT" -> "delivered"
                [] s = "FAILED" -> "given_up") = PhaseAt(s)
  BY <1>1 DEF PhaseAt
<1> QED
  BY <1>1 DEF Phases, PhaseOf, OutboxTypeOK, Terminal

LEMMA EffectsAre ==
  /\ StartedOnce => Effects = [m \in Message |-> IF Started THEN 1 ELSE 0]
  /\ StartedOnce' => Effects' = [m \in Message |-> IF Started' THEN 1 ELSE 0]
BY DEF Effects, StartedOnce

LEMMA StartKeepsPromise ==
  ASSUME StartInv, StartInv', [Next]_startVars
  PROVE  [Promise!Next]_<<Phases, Effects>>
<1> DEFINE s == status[Start]
           t == status'[Start]
<1>1. /\ Phases = [m \in Message |-> PhaseAt(s)] /\ Phases' = [m \in Message |-> PhaseAt(t)]
  BY PhasesAre DEF StartInv, OutboxInv
<1>2. /\ Effects = [m \in Message |-> IF Started THEN 1 ELSE 0]
      /\ Effects' = [m \in Message |-> IF Started' THEN 1 ELSE 0]
  BY EffectsAre DEF StartInv, CaseInv
<1>3. RowStep(Start) /\ t \in {"ABSENT", "PENDING", "PROCESSING", "SENT", "FAILED"}
  BY RowOfStart DEF StartInv, OutboxInv, OutboxTypeOK, Terminal
<1>4. t = "SENT" => Started'
  BY DEF StartInv, StartKnown
<1>5. (Started' <=> Started) \/ \E n \in 1..MaxAttempts : AnalysisStart(n)
  BY CaseSteps DEF StartInv
<1>6. ASSUME NEW n \in 1..MaxAttempts, AnalysisStart(n) PROVE Promise!Apply(Start)
  <2>1. ~Started /\ Started'
    BY <1>6, StartKeeps DEF StartInv
  <2>2. s = "PROCESSING" /\ t = s
    BY <1>6 DEF AnalysisStart, MayStart, outboxVars
  <2>3. Effects[Start] = 0 /\ Effects' = [Effects EXCEPT ![Start] = 1]
    BY <1>2, <2>1
  <2>4. Phases[Start] = "open" /\ Phases' = Phases
    BY <1>1, <2>2 DEF PhaseAt
  <2> QED
    BY <2>3, <2>4 DEF Promise!Apply, Phases, Effects, Starts
<1>7. CASE Started' <=> Started
  <2>1. Effects' = Effects
    BY <1>2, <1>7
  <2>2. CASE RowKept(Start) \/ RowClaimed(Start)
    <3>1. PhaseAt(t) = PhaseAt(s)
      BY <2>2 DEF RowKept, RowClaimed, PhaseAt
    <3> QED
      BY <1>1, <2>1, <3>1
  <2>3. CASE RowQueued(Start)
    <3>1. Phases[Start] = "absent" /\ Phases' = [Phases EXCEPT ![Start] = "open"]
      BY <1>1, <2>3 DEF RowQueued, PhaseAt
    <3> QED
      BY <2>1, <3>1 DEF Promise!Next, Promise!Submit, Phases, Effects, Starts
  <2>4. CASE \E o \in Outcome : RowRecorded(Start, o)
    <3>1. s = "PROCESSING" /\ t \in {"PENDING", "SENT", "FAILED"}
      BY <2>4, RowOfStart DEF RowRecorded, StartInv, OutboxInv
    <3>2. Phases[Start] = "open"
      BY <1>1, <3>1 DEF PhaseAt
    <3>3. CASE t = "PENDING"
      <4>1. PhaseAt(t) = PhaseAt(s)
        BY <3>1, <3>3 DEF PhaseAt
      <4> QED
        BY <1>1, <2>1, <4>1
    <3>4. CASE t = "SENT"
      <4>1. Effects[Start] = 1
        BY <1>2, <1>4, <1>7, <3>4
      <4>2. Phases' = [Phases EXCEPT ![Start] = "delivered"]
        BY <1>1, <3>4 DEF PhaseAt
      <4> QED
        BY <2>1, <3>2, <4>1, <4>2 DEF Promise!Next, Promise!Confirm, Phases, Effects, Starts
    <3>5. CASE t = "FAILED"
      <4>1. Phases' = [m \in Message |-> IF m \in {Start} THEN "given_up" ELSE Phases[m]]
        BY <1>1, <3>5 DEF PhaseAt
      <4> QED
        BY <2>1, <3>2, <4>1 DEF Promise!Next, Promise!GiveUp, Phases, Effects, Starts
    <3> QED
      BY <3>1, <3>3, <3>4, <3>5
  <2> QED
    BY <1>3, <2>2, <2>3, <2>4 DEF RowStep
<1> QED
  BY <1>5, <1>6, <1>7 DEF Promise!Next, Phases, Effects, Starts

(* The dispatcher, n8n and the guarded start implement DeliveryPromise: the  *)
(* case is started at most once, however many executions ask for it, and the *)
(* message is SENT only if it was.                                           *)
THEOREM StartImplementsPromise == Spec => KeepsPromise
<1>1. Init => Promise!Init
  <2> SUFFICES ASSUME Init PROVE Promise!Init
    OBVIOUS
  <2>1. StartInv /\ status[Start] = "ABSENT" /\ ~Started
    BY StartInit DEF Init, OutboxInit, CaseInit, Started, Logged
  <2>2. Phases = [m \in Message |-> "absent"]
    BY <2>1, PhasesAre DEF StartInv, OutboxInv, PhaseAt
  <2>3. Effects = [m \in Message |-> 0]
    BY <2>1, EffectsAre DEF StartInv, CaseInv
  <2> QED
    BY <2>2, <2>3 DEF Promise!Init, Phases, Effects, Starts
<1>2. StartInv /\ StartInv' /\ [Next]_startVars => [Promise!Next]_<<Phases, Effects>>
  BY StartKeepsPromise
<1> QED
  BY <1>1, <1>2, StartInvHolds, PTL DEF Spec, KeepsPromise, Promise!Spec, Phases, Effects, Starts

=============================================================================

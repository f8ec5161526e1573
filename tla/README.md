# TLA+ models of the service request automation

The system takes a service request, has a local model propose a structured
reading of it, validates the proposal, brings a human in where that is needed
and carries the approved action out in a Service Desk. It promises that every
step is *durable* (a row in PostgreSQL says what was decided), *done once*
(idempotency keys, unique indexes, immutable events) and *guarded* (a state, a
version and an evidence event are checked under the case lock before anything
is written). This directory models that promise in TLA+, checks it with TLC on
small instances and proves parts of it with TLAPS for every instance.

Paths below are relative to the repository.

## 1. Inventory

| Component | State it keeps | Operations | Talks to |
|---|---|---|---|
| Transactional outbox: `application/delivery.py`, `workflow_start.py`, `human_resume.py`, `recovery.py` | `outbox_messages` (status, attempt_count, lock), `delivery_attempts` | enqueue, claim, finalize, recover one abandoned claim, sweep a batch | destinations below, over HTTP with no transaction open |
| Service Desk delivery: `delivery.py` | none of its own | `create_service_record` and its classification | sandbox |
| Service Desk Sandbox: `sandbox/app.py` | `service_records`, `service_record_events` | create or replay, conflict, controlled failures | its own database |
| Intake: `intake.py` | `cases`, `case_events`, start message | create or replay a case | outbox |
| Case record and audit log | `cases.current_state`, `version`, `case_events` | written by every component below | - |
| Workflow start: `workflow_start.py`, endpoint in `main.py` | start message, start event | dispatch, guarded start, replay, refuse | n8n, which calls back |
| n8n workflows: `n8n/*.json` | running executions (not durable here) | ask for the start, acknowledge, continue with the analysis; five-minute recovery schedule | primary application |
| AI analysis: `ai_analysis.py` | `ai_analysis_runs` (status, 240 s lease, attempt number), `validation_runs`, `case_details`, `approvals` | claim, recover, call the model, finalize | model provider |
| Validation rules: `ai_analysis.py` 859-1506 | none | pure decision over a proposal | reference data |
| Human decisions: `human_decision.py` | decision events, `approvals` | five decision kinds, guarded by the latest proposal and by permissions | case, events |
| Human resume and consumers: `human_resume.py`, `human_resume_consumers.py` | resume message, acknowledgement event | enqueue, dispatch, acknowledge, route | n8n, analysis, actions |
| Approved actions: `downstream_route.py` | action message, completion event | queue, reconcile, `main` (queue, deliver one, reconcile it) | delivery, reference data |
| Safe actions: `safe_action.py` | action message, completion event | queue, reconcile | delivery, reference data |
| Identity and reference data: migration 001 | users, roles, systems, permissions | read by every judgement; changed by nothing in the repository | - |
| Policy retrieval: `policy_retrieval.py` | retrieval events and rows | durable claim, answer, no-answer review | embedding and answer models |
| HTTP application, portal, operations, evaluation, demo, scripts | none of the workflow's | parse, authenticate, forward, read | all of the above |

What is hard about each, and what makes it correct:

* **Outbox.** A worker holds no transaction while it calls, so it may be slower
  than its lease; the sweep or the dispatcher's own recovery then closes its
  attempt and another worker claims the message. Correct: one evidence row per
  attempt, one owner that can finalize, terminal states that stay, and every
  message settled in the end.
* **Delivery and sandbox.** Requests arrive late or twice, answers are lost, the
  sandbox fails on purpose or by accident. Correct: SENT means recorded, one
  record per key, refusals stand.
* **Start and n8n.** Two hops, each with its own timeout, so the case may start
  while both callers believe it did not. Correct: one start event, a live
  attempt never reads a refusal of it.
* **Analysis.** Executions of several start attempts all ask for the analysis;
  answers of the model come after the lease. Correct: one attempt at a time, one
  verdict per input, failure only after all attempts.
* **Human loop.** Decisions are committed by people and take effect only through
  a message, an acknowledgement and a consumer that somebody calls; each of the
  three may be late or repeated. Correct: every committed decision is resumed
  once, before anything else moves the case, and has one effect; nothing reaches
  an action without its approval or its grounded answer.
* **Rules and actions.** The same request is judged five times by different code:
  validation, service agent, router, approver, and queue with reconciler. The
  permissions those judgements read may change between any two of them, and so
  may a case whose state a status answer tells. Correct: the judgements agree,
  an action takes place only with its authority, a case is told the outcome of
  its delivery and nothing else, and an approved action is queued in the end.
* **Retrieval.** A claim without a lease, and an answer that comes minutes later.
  Correct: nobody moves the case meanwhile, and a claimed retrieval ends.

`PROJECT.json` has the list of hazards, each at its line.

## 2. Modules

| Module | Models | Extends / instantiates |
|---|---|---|
| `Outbox` | rows, workers, leases, both recoverers; any destination | refines `OutboxStatus` |
| `ServiceDesk` | the sandbox's `create_or_replay_record` | - |
| `DeliveryPromise` | abstract: a message has at most one effect, is delivered only with it, is settled once | - |
| `Delivery` | `process_one_message` between `Outbox` and `ServiceDesk` | `Outbox`, `ServiceDesk`, refines `DeliveryPromise` |
| `OutboxStatus` | abstract: the order in which a row's status may move | - |
| `CaseStore` | the row, event log, accepted details and approval of one case; intake | - |
| `Analysis` | analysis attempts on that case | `CaseStore` |
| `WorkflowStart` | intake, dispatcher, n8n execution, start endpoint, continuation | `Outbox`, `Analysis`, refines `DeliveryPromise` |
| `PolicyRetrieval` | `retrieve_policy` on that case | `CaseStore` |
| `HumanLoop` | human decisions, resume message, acknowledgement, consumers, resumed analysis and retrieval | `Analysis`, `PolicyRetrieval`, `OutboxStatus`, refines `DeliveryPromise` |
| `Authority` | the rules of validation and the four later judgements, as operators on the facts of a request | - |
| `ActionOutcome` | abstract: nothing is done before it was granted, once at most, and a case is told its outcome once | - |
| `ActionRoute` | several cases from intake to outcome, the queues, `main` of `downstream_route.py`, the reconcilers, permissions that change | `Authority`; `CaseStore` per case, `DeliveryPromise`; refines `ActionOutcome` |
| `OutboxProofs`, `DeliveryProofs`, `PromiseProofs`, `AuthorityProofs`, `ActionRouteProofs` | theorems | `Outbox`, `Delivery` (two), `Authority`, `ActionRoute` |
| `AnalysisProofs`, `WorkflowStartProofs`, `HumanLoopProofs` | theorems, the second and third with the lemmas of the first | `Analysis` with `CaseStore`, `WorkflowStart`, `HumanLoop` |
| `MCOutbox`, `MCDelivery`, `MCWorkflowStart`, `MCHumanLoop`, `MCActionRoute` | instances for TLC | |

### How actions correspond to code

*One transaction, one action.* Every operation on outbox rows, cases or runs is
one PostgreSQL transaction that locks the row it changes, so it is one action;
what lies between two transactions of a process (the call, a crash, a lease that
runs out, somebody else's transaction) is interleaved. `start_or_replay_analysis`
reads the outbox row without locking it, under the case lock; it is one action
all the same, because no outbox step reads the case, so the read commutes with
whatever happens to the row before the start commits.

*Outbox.* `status`, `attemptCount`, `expired` and `attempts` are the columns and
the `delivery_attempts` rows of a message; `expired` stands for "`locked_at` is
before the cutoff", and `LeaseExpires` is time passing. `step`, `claim` and
`outcome` are the local variables of a worker invocation. `Claim`, `Answer`,
`Finalize` and `RejectStaleFinalize` are `claim_next_message`, the client call,
`finalize_delivery` and its `RuntimeError`; the four message types share them,
because the three dispatchers are the same transaction text. `RecoverAbandoned`
is the recovery the start and resume dispatchers try before they claim;
`RecoverExpiredClaims` is the sweep, which locks a bounded batch. `Crash` may
strike wherever a worker is between transactions. `available_at`, the backoff
and the `ORDER BY` say when and in which order a pending message is claimed:
left open, so every order is covered.

*Delivery.* `net` holds requests that have left a worker; nothing ties their
handling to the worker still waiting, so a request can arrive after its timeout,
after a crash, after a later attempt, or never (no fairness on `Arrive`).
`FailToHandle` is an HTTP 500 from the sandbox, which `create_service_record`
reads as permanent. Exceptions it lets through (`ConnectionResetError`,
`RemoteDisconnected`) are `WorkerDies`. `OtherClientPosts` is a second client
that uses the same key with another body.

*CaseStore, Analysis.* `log` is `case_events`; an event that a later request must
refer to carries its trigger, the version it gave and the input it fixed. `runs`
is `ai_analysis_runs` per input, in attempt order; an entry has its status,
whether its lease has passed and whether a `validation_runs` row exists. `held`
is the `_ClaimedAttempt` of a request in its model call. `FinalizeProviderResult`
takes any plan the validation may produce: which one a text gets is data, that
each plan moves state, version and log together is control. A policy question
that is READY leaves the case ANALYZING and its version alone. Replays and
conflicts write nothing; they only end the caller (`NoNewAttempt`).

*WorkflowStart.* Attempt *n* of the start message is n8n execution *n*, and the
analysis request of that execution is handler *n*. `flow` follows the execution
through its nodes: `AskPrimary` is the HTTP node "Commit Analysis Start",
`StopAsking` its five-second timeout, `AnswerExecution` the response node and
the gate before the continuation, `Continue` the one analysis request. The
start transaction may commit after either caller stopped waiting (`unheard`).
Code outside the repository is modelled as it is used: an n8n that is up but has
no registered webhook answers 404, and an n8n that dies drops its continuation.

*HumanLoop.* `details` and `approval` are the rows of `case_details` and
`approvals`; of the request type they keep what the routes tell apart (`Kind`).
A decision gives the case a version of its own, so `Resume(v)` and `Notice(v)`
name its messages and `OfVersion` finds its events. `SubmitInformation`,
`CorrectReview`, `RejectReview`, `ApproveRequest` and `RejectRequest` are the
branches of `execute_human_decision`; `CONFIRM_REVIEW` has no action because no
stored proposal passes its check (`ReviewConfirmable` below). The dispatcher is
reduced to moves of its row by `OutboxStatus`, and a request of any attempt may
acknowledge as long as the row is PROCESSING or SENT. A sweep that closes
several claims is several such moves in a row, and nothing here could tell the
difference. `EnqueueResume` reads case and event without the case lock; it is
one action because the case cannot move before the message it inserts was
acknowledged (`EveryDecisionResumed`). The consumers are called by nobody in the
repository, so they are actions that may happen at any time and again. Resumed
information is an input of its own: `SubmitInformation(i)` with an `i` that was
used before is the same text given again.

*PolicyRetrieval.* `retrieving` is the version a request in its model call will
compare with. The claim is the event in the log and has no lease; a process
that dies leaves it there.

*Authority.* A request is three facts: its type, what is wrong with the proposal
(`flaws`), and what the reference data says of the people and things it names
(`holds`). Each rule of `_validate_proposal` is an operator of its own, in the
order of the code, with the run status and decision it ends with; `Verdict` is
the first that does not pass. `AgentMayAccept`, `RouteAllowed`,
`ApproverMayDecide`, `ApprovedActionHolds` and `SafeActionHolds` are the later
judgements, each asking exactly for what its code joins or selects. How a text
becomes a fact (schema, evidence offsets, name lookup, fingerprint) is data.

*ActionRoute.* Every judgement is an action that reads the grants of its moment;
`ChangeGrant` withdraws and restores one. What `Analysis`, `PolicyRetrieval` and
`HumanLoop` show step by step is here one action per decision, so that several
cases fit: one, because `main` takes the oldest candidate of all, two, because a
status answer tells the state of another case. `payload` keeps of
`outbox_messages.payload` what a later comparison can tell apart, the version
and the state that was told; an event likewise keeps the version its payload gives,
which the safe actions compare with the one of the case (`SourceFits`). `phase` and `effect` are a `DeliveryPromise`: the
run `delivery` and the theorem `PromiseKept` show that the workers and the sandbox
keep it.
`queue_next_approved_action` selects in one transaction and queues in a second,
which repeats every check of the first, so `QueueNextApproved` is one action; when
another process queues the candidate between the two, the second is a replay and
the process goes on as if there had been nothing to queue, or ends (`EndRun`).
`DeliverOne` closes a message of any case: the claim order is left open, and
`CloseElsewhere` is the same done by another process or by the sweep, which
nobody reconciles. `reconcile_next_terminal_action` and
`queue_next_safe_action` choose a case and call what is modelled for every case.

## 3. Runs

| Run | Instance | Distinct states | Shows |
|---|---|---|---|
| `outbox` | 2 messages, 2 workers (one self-recovering), 3 attempts, sweep of 2 | 27,841 | type, `AttemptLedger`, `TerminalEvidence`, `SingleOwner`, `RowHistory`, `RowsMoveInOrder`, `EventuallySettled` |
| `delivery` | 1 message, 2 workers, 3 attempts, own and foreign body | 85,451 | `SentHasRecord`, `OneRecordPerKey`, `RefusalIsFinal`, `KeepsPromise` |
| `workflow_start` | 1 case, 2 dispatchers, 3 n8n executions, 2 inputs (one oversized), 2 model attempts | 548,570 | `LogTellsState`, `Lifecycle`, `OneVerdict`, `FailureIsExhaustion`, `AcceptanceFits`, `StartNeverRefused`, `KeepsPromise` |
| `human_loop` | 1 case up to version 8, 2 analysis requests, 2 retrievals, 3 inputs (one oversized) | 95,380 | `ActionIsAuthorized`, `EveryDecisionResumed`, `OneEffectPerDecision`, `AcceptanceFits`, `RetrievalUndisturbed`, `LogTellsState`, `Lifecycle`, `KeepsPromise` |
| `action_route` | 2 cases, 2 processes of `main`, 7 pairs of requests, 1 grant that comes and goes | 201,568 | `CasesTellState`, `EffectIsAuthorized`, `OutcomeIsDelivered`, `ActionStaysPossible`, `CasesFollowLifecycle`, `KeepsOutcome`, `ApprovalIsQueued` |
| `start_replay` | `workflow_start`, 1 dispatcher | - | violation: `StartReplayAnswered` |
| `model_failure` | `workflow_start`, 1 dispatcher, fair | - | violation: `ModelFailureSettles` |
| `confirm_review` | `human_loop`, 1 request, version 4 | - | violation: `ReviewConfirmable` |
| `same_information` | `human_loop`, 1 request, version 6 | - | violation: `FreshIdentity` |
| `reviewed_policy` | `human_loop`, 1 request, version 4 | - | violation: `RoutedPolicyRetrievable` |
| `retrieval_claim` | `human_loop`, 2 retrievals, version 3, fair | - | violation: `RetrievalEnds` |
| `action_stranded` | `action_route`, 1 process, 1 pair of requests, fair | - | violation: `DeliveredCompletes` |

*Bounds.* `MaxAttempts = 3` and `MaxProviderAttempts = 2` are the values of the
code (`max_attempts` of every INSERT, `MAX_PROVIDER_ATTEMPTS`), so counters are
not cut. Two workers are enough for every race over one claim, since it is
between the holder and whoever overtook it, and with three attempts a message
can have been overtaken twice. Messages touch each other only through the sweep's
batch and the worker they share, so two of them show it. One key is enough for
the sandbox, which never reads two. Two inputs are the two sides of
`MAX_INPUT_CHARACTERS`; the human loop has a third, since information makes
another input of the first. `MaxVersion = 8` is the one bound the code does not
have: versions 1 and 2 are intake and start, and each decision takes the version
that asks for it and its own, so there is room for three decisions in a row (two
rounds of information and an approval, say), with every kind of decision
followed by every kind of route. More rounds repeat the second, for a decision
reads nothing of an earlier one. In `action_route` two cases
are what one judgement can read (a case and the one it refers to) and what one
process can confuse (its candidate and another); two processes are enough to
queue one candidate twice and to reconcile one message twice. The pairs are
chosen so that approved actions compete for a process, a status asks for its
neighbour (own, or only viewed), and requests miss one, two or no condition of
validation; which type a service agent corrects to is open. The volatile grant is
the approver's permission, the one that is read in four judgements; the theorems
below hold for every request and every set of volatile grants. No counter needs
a bound: the lifecycle of a case has no cycle but review, which ends with the
correction. Deadlock is not checked: each system rightly stops once
its messages are settled and its analysis is over.

*Fairness.* The sweep is started again and again by its schedule
(`n8n/recovery-v1.json`, every five minutes). Nothing in the repository schedules
the workers: they do one round and exit, and that they are started again and
again is an assumption on the operator, without which no liveness of the outbox
holds. Calls end within their timeouts, time passes, and received requests are
handled: weak fairness on all these actions. Nothing is assumed about arrivals, about a worker surviving or
about the outcome of a call. `EventuallySettled` still holds, because attempts
are bounded and every abandoned claim counts as one. `HumanLoop` states fairness
only for the run that refutes `RetrievalEnds`: requests for analysis and
retrieval are made again and again and calls that do not die end. People and
hand-called consumers are under no fairness, so no liveness is claimed of them.
`ActionRoute` assumes that `main` is started again and again and that its runs
end (`FairSpec`): it does one round and exits, so without a second start it
serves one message. No file of the repository schedules it, so this is an
assumption on the operator. Nothing is assumed of people, deliveries and
grants. `ApprovalIsQueued` says that then an acknowledged approval is queued, if
from some time on the grants are in force.
Without that condition the conflict of an older candidate ends every run of
`main` before it does anything else. `TirelessSpec` is far more than the
repository offers (every message delivered, every reconciler called for every
case, for ever), so that what `action_stranded` shows cannot be blamed on a call
nobody made.

*Abstract specification.* `DeliveryPromise` says what a reader of the outbox may
rely on: per message a phase (absent, open, delivered, given up) and a number of
effects. `Delivery` implements it with the records of the message as effects,
`WorkflowStart` with the start events, `HumanLoop` with the acknowledgements. In
all a message can be given up while its effect exists or still comes, and the
abstract specification says so: FAILED does not mean "not done". `ActionOutcome` says the same to the requester:
"completed" is told only of what was done, what is told "failed" may have been
done. `ActionRoute` implements it: a case is granted its action when it gets to
READY_FOR_ACTION and, where it needs one, its approval is acknowledged.

### Divergences the models show

* `start_replay`: `docs/WORKFLOW_START_CONTRACT.md` says of a start whose event
  exists "return its original stable reference". `workflow_start.py:210` refuses
  it with 409 unless the message is PROCESSING or SENT. The trace starts the
  case by a request nobody waits for, recovers the claim, and has a request of
  the message arrive while it is PENDING. `StartNeverRefused` shows the
  consequence is limited: the dispatcher that could read such a 409 has lost its
  claim.
* `model_failure`: `docs/ARCHITECTURE.md` says that with the model unavailable
  "the case moves to a clear failure or review state". After the first retryable
  failure the case is ANALYZING with `ANALYSIS_RETRY_SCHEDULED`
  (`ai_analysis.py:2294`), and nothing in the repository asks again: n8n calls
  the endpoint once, and the sweep only repairs outbox claims. The trace is fair
  and ends there.

* `confirm_review`: `docs/HUMAN_DECISION_CONTRACT.md` offers `CONFIRM_REVIEW` for
  a confirmable latest proposal and refuses malformed or incomplete ones.
  `human_decision.py:543` asks for the members request_type, summary, fields and
  evidence; `ai_analysis.py:880` takes the evidence out before it stores the
  proposal, whatever rule it breaks later, and an answer outside the schema is
  stored as an error. No stored proposal passes, so agents can correct or reject only.
* `same_information`: `docs/HUMAN_RESUME_CONSUMERS_CONTRACT.md` says the resumed
  input "receives a new SHA-256 analysis identity". The same information in two
  rounds gives the same identity, `ai_analysis.py:2024` replays the first verdict
  without applying it, and the case stays ANALYZING.
* `reviewed_policy`: the same contract routes a reviewed policy question to
  retrieval. `policy_retrieval.py:337` wants a READY validation, which a case
  that came to review does not have (or whose retrieval is over).
* `retrieval_claim`: `docs/POLICY_RETRIEVAL_CONTRACT.md` leaves abandoned claims
  to the recovery workflow, but `recovery.py` sweeps outbox rows only. A
  retrieval whose process died is "in progress" for good.
* `action_stranded`: `docs/BUSINESS_PROCESS.md` says of a READY_FOR_ACTION case
  whose downstream action succeeds that it is COMPLETED. The payload of a status
  answer holds the state of the case asked for; `safe_action.py:443` builds it
  again at reconciliation and refuses when it differs. The trace delivers an
  answer, moves the case it speaks of, and has every reconciler called for ever.

Three more are recorded here because they are conditions or exceptions of
properties that hold. `docs/BUSINESS_PROCESS.md` rule 9 lets a requester see a
case they are "explicitly allowed to view"; validation does (`VIEW_STATUS`,
`ai_analysis.py:1345`), `safe_action.py:269` wants an own case, so such a request
is READY_FOR_ACTION for good (`ActionStaysPossible` excepts `OnlyViewed`, and the
theorem `OnlyViewedIsStuck` shows that nothing helps). Rule 1 rejects an inactive
requester; the check is the last of thirteen, so one whose request is incomplete
is asked for information and one whose proposal is malformed goes to review. And
line 148 has a FAILED action retried; no code leaves FAILED.

## 4. Proofs

`OutboxProofs`, for all sets of messages and workers, every limit and every
assignment of workers to messages (`OutboxAssumption`):

* `TypeCorrect`, `LedgerCorrect`, `EvidenceCorrect`, `OwnerCorrect`:
  `OutboxSpec => []` of the four invariants. The inductive invariant is
  `OutboxInv`, their conjunction. None is inductive alone: the ledger needs the
  owner's number to be the row's when it finalizes; the evidence needs the
  ledger, for a new attempt row must not stand beside an older one of the same
  number; the owner needs the counter's bounds. The proof has one lemma for
  recording an attempt (used by finalization and both recoverers) and one step
  per action.
* `HistoryCorrect`: the action property `RowHistory`, from `OutboxInv`.
* `ImplementsRows`: `OutboxSpec => RowsMoveInOrder`, the refinement `HumanLoop`
  rests on: initial rows map to initial rows, and by the lemma `RowSteps` each
  step leaves a row alone or moves it as `OutboxStatus` allows, the sweep any
  number of them.

`DeliveryProofs`, from `OutboxAssumption` and `DeliveryAssumption`:

* `ImplementsOutbox`: `Spec => OutboxSpec`, each step of the composition being a
  step of the outbox or a stutter, so that the theorems above hold for delivery.
* `SentCorrect`: `Spec => []SentHasRecord`. The strengthening `SuccessInv` says
  that a success which a worker can still read, or already holds, has its record
  *now*; records are never removed, so it has it when the worker finalizes, even
  if the success answered an earlier request.

`PromiseProofs`, about the same composition and from the same assumptions. The
inductive invariant `SentInv` is made of the outbox's types, `SuccessInv` and
what the sandbox alone guarantees: `OneRecordPerKey`, and `KeyInv`, which says that
the first event of a key fixes its body and that record, refusal and conflict of
one body exclude each other. `OneRecordPerKey` needs it, for a second body of a
recorded key must meet a conflict and not a first request. `Submitted` adds that only
messages that exist are requested or recorded.

* `DeliveryTypeCorrect`, `OneRecordCorrect`, `RefusalCorrect`: `Spec => []` of
  `TypeOK`, `OneRecordPerKey` and `RefusalIsFinal`.
* `PromiseKept`: `Spec => KeepsPromise`, the refinement of `DeliveryPromise` that
  `ActionRoute` takes for granted. Four lemmas: a step that moves one row keeps it,
  so does a sweep that moves several, a call that writes the sandbox, and from
  them every step of `Next`. SENT after a record uses `SuccessInv`.

`AuthorityProofs`, about any request with any flaws and any grants, no assumption:

* `VerdictGrantsAction`: what validation finds READY can be acted for under the
  same grants, unless it is a status that is only viewed. `OnlyViewedIsStuck` is
  the other side of the exception, `AgentGrantsAction` the same of what a service
  agent accepts, where there is none. The lemmas take the verdict apart: which
  rule fails first, which decision that gives, and what holds when none does.

`AnalysisProofs`, from `AnalysisAssumption`, holds `VerdictIsPlan` (every verdict
with its run status, target state and event is one of the plans `Analysis` lets a
finalization carry, so `Analysis`, which allows any plan, covers the rules) and
what the two proofs below share. It has no specification of its own: one lemma per action of
`Analysis` and `CaseStore` says that it preserves `AnalysisInv` and is a
`CaseStep`, whoever composes it. Below them are lemmas about the log, which only
grows at its end, and about counting in it: a set of indexes gains the new one or
stays, so cardinalities move by one or not at all. `AnalysisInv` is

* the types, `LogTellsState`, `OneVerdict` and `FailureIsExhaustion`, which are
  properties of the runs, and `ValidatedRuns` finite, for it is counted;
* `Skipped`: an input over the budget has skipped attempts only, so skipping never
  meets an attempt in progress and no lease runs out on one;
* `Grounded`: a handler in its model call works on an attempt that exists and
  for evidence that is in the log. The attempt may be closed and overtaken
  meanwhile; that it was never removed is what lets the check at finalization mean
  the same attempt;
* `OneInput`: a version of the case allows one input to be analyzed, the start's
  or the acknowledged decision's;
* `AcceptedOnce`: a case that is ANALYZING with details has finished what its
  version allows. With `OneInput` and `Grounded` it gives `AcceptanceFits`, which
  is not inductive, because it speaks of handlers that may finalize later.

`WorkflowStartProofs`, from the assumptions of `WorkflowStart`, `Outbox` and
`Analysis` (any workers, handlers, attempts, inputs and HTTP failures):

* `ImplementsOutbox`: `Spec => OutboxSpec`, so the theorems of `OutboxProofs` hold
  of the start message.
* `StartInvHolds`: `StartInv` is inductive. It is `OutboxInv` and `AnalysisInv` with
  what message and case know of each other: `Together` (one exists when the other does),
  `NotStarted` (a case without start event is RECEIVED in version 1, which is why the
  guarded start of a live attempt never meets a conflict), `StartKnown` (a success on
  its way to the row comes from a started case), `StartedOnce`, and
  `StartNeverRefused` itself, which needs the ledger and the owner of the row: a refusal
  is read by an attempt that is the row's no more.
* From it: `StartTypeCorrect`, `StartLogTellsState`, `StartOneVerdict`,
  `StartFailureIsExhaustion`, `StartAcceptanceFits`, `NeverRefused`, the action
  property `Lifecycle` (`StartFollowsLifecycle`) and the refinement of
  `DeliveryPromise` (`StartImplementsPromise`).

`HumanLoopProofs`, from the assumptions of `HumanLoop` and `Analysis`, for any number
of decisions (`MaxVersion` is any number), inputs, handlers and retrievers.
`HumanInv` is inductive (`HumanInvHolds`): `AnalysisInv`, the type of the rows, and

* `Chronicle`, about each version: one start or decision gave it, and the case
  is still where that put it while the version is the current one; an acknowledgement
  repeats its decision; a version that was left has its decision acknowledged;
  information that is not acknowledged yet finds no details. The last part is what
  `AcceptedOnce` needs when the acknowledgement becomes evidence for a new analysis,
  and the one before is `EveryDecisionResumed` for each version by itself.
* `RetrievalInv`: while a question waits for its answer the case is ANALYZING with
  details accepted by the rules and evidence of its version, and one retriever at most
  works on it. `AnalysisInv` then says that no analysis of this version is open,
  and no decision is offered in ANALYZING, so nobody else moves the case
  (`RetrievalUndisturbed`).
* `AuthorityInv`: an approval, open or given, belongs to guarded details, and an
  approved or grounded case is READY_FOR_ACTION and stays there. `ActionIsAuthorized`
  speaks of two states of the case only and needs these for the ways into them.
* `EffectsInv`: per version one route, one notification, one outcome, each after
  what it follows from, and a notification row exactly when its event exists.
  `OneEffectPerDecision` counts events of the whole log; the proof is per version,
  because a consumer writes one version and leaves the others alone.

Each action has a lemma that it preserves `HumanInv`; appending an event of one
version leaves the sets of the other versions as they are (`OfVersionNew`,
`OfVersionKept`). From it: `HumanTypeCorrect`, `HumanLogTellsState`,
`HumanAcceptanceFits`, `HumanOneVerdict`, `RetrievalIsUndisturbed`,
`ActionsAreAuthorized`, `DecisionsResumed`, `OneEffect`, `HumanFollowsLifecycle` and
the refinement of `DeliveryPromise` by the acknowledgements (`HumanImplementsPromise`).
`RowsMoveInOrder`, proved in `OutboxProofs`, is what allows `HumanLoop` to reduce
its dispatcher to the moves of a row.

`StartInv` and `HumanInv` were checked by TLC as invariants on the instances of
`workflow_start` and `human_loop` before they were proved.

`ActionRouteProofs`, for any cases, requests, corrections, volatile grants and
workers, from `ActionRouteAssumption`. The inductive invariant `IInv` adds to the
type invariant what each case owes to its past:

* `Shape`: the last event of a case says where it is and what was accepted; the
  acknowledgement is looked up by the event alone, so it must determine the state.
* `Sourced`: a ready case that needs no approval has its source event as the
  latest of its kind, of the version the case still has where the payload tells
  one. Without it `SafeNow` could not be concluded from the state.
* `Evidence`: where a message exists, what authorized it is still on record.
  `EffectIsAuthorized` is not inductive without it, for the effect comes later,
  perhaps after the case was closed.
* `Outcome` and `Current`: state and payload follow the message.
* `Lasting`: what was granted at acceptance is in force or volatile. It turns
  `VerdictGrantsAction` and `AgentGrantsAction`, which speak of one moment, into
  `ActionStaysPossible`, which spans the judgements.

Each action moves one case, so there is one lemma per action that says how it
moves it, one (`MoveKeepsInv`) that any such move keeps `IInv`, and one each for
queueing, closing and settling. `RowsMove` sums up how any step writes the rows
of a case; `CasesToldByLog` (`CasesTellState`) follows by induction from it and
from `Shape`, the new event starting in the state the last one ended in. From
`IInv` alone: `TypeCorrect`, `EffectsAreAuthorized`,
`OutcomesAreDelivered`, `ActionsStayPossible`, the action property
`CasesFollowLifecycle` (`LifecycleKept`) and the refinement of `ActionOutcome`
(`OutcomeKept`: initial states map to initial states, each step to a step or a
stutter).

So every invariant, action property and refinement of the passing runs is a
theorem. Model-checked only: liveness (`EventuallySettled`, `ApprovalIsQueued`, and
the violation runs under fairness), which is outside the prover's reach, and the other
violation runs, which refute. Not proved either is what the composition of modules
takes from another by reading and not by a theorem: that `HumanLoop` may treat the
start of the case as one step, and that a decision of `ActionRoute` may stand for
the steps of `HumanLoop` (section 2 says why).

## 5. Not modelled, and why

The rules of validation are modelled as decisions over facts; how a text yields
a fact (the JSON schema, exact evidence offsets, name and alias lookup, the
duplicate fingerprint) is sequential string work with no state, and unit tests
reach it. Model and embedding providers, portal, operations summary and
authentication change no workflow state. Evaluation, demo, showcase, checks and
scripts are tooling around the system. Intake decides a replay, a
conflict and a rejected requester under its advisory lock before it writes, so
they are stutters of `ReceiveCase`; the possible duplicate is a flaw validation
reads. The backoff and claim order
of the outbox are left open. The order in which the reconcilers' and the safe
queue's "next" calls choose is left out, because only tests call them. A process
model of the primary application (async endpoints that block) would need the
scheduling of its event loop, which is not in the repository.

## 6. Plan

Done: `Outbox` with `OutboxStatus`, `ServiceDesk`, `Delivery` with
`DeliveryPromise`, `CaseStore`, `Analysis`, `WorkflowStart`, `PolicyRetrieval`,
`HumanLoop`, `Authority`, `ActionRoute` with `ActionOutcome`; the proofs above.
Next, in this order:

1. Proofs: the case of `ActionRoute` against the case of `HumanLoop`, as far as the two keep
   the same state (a READY_FOR_ACTION case with its details, approval and acknowledgement).
2. The model identity as part of a run's key.
3. The blocking endpoints of the primary application: one process, one event
   loop, the five-second timeouts of both n8n workflows.

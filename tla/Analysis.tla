------------------------------ MODULE Analysis ------------------------------
(***************************************************************************)
(* application/ai_analysis.py on one case: analyze_case and                *)
(* analyze_resumed_case claim an attempt in one transaction, call the      *)
(* model with no transaction open and finalize in another.  Requests of    *)
(* the same trigger may run side by side; a handler may die in its call    *)
(* and leave its attempt PROCESSING until a later request finds its lease  *)
(* expired.  Early returns that write nothing (REPLAY, IN_PROGRESS, the    *)
(* conflicts) are not actions.                                             *)
(***************************************************************************)
EXTENDS CaseStore

CONSTANTS
  Handler,         \* requests to the analysis endpoint
  OversizedInput,  \* inputs beyond MAX_INPUT_CHARACTERS
  MaxProviderAttempts,
  NoRun

Held == [trigger : [version : Nat, input : Input], number : 1..MaxProviderAttempts]

ASSUME AnalysisAssumption ==
  /\ MaxProviderAttempts \in Nat \ {0}
  /\ OversizedInput \subseteq Input
  /\ NoRun \notin Held
  /\ NoTrigger \notin Trigger

VARIABLES
  runs, \* ai_analysis_runs of each input, in attempt_number order, each with
        \* whether its lease has expired and a validation_runs row exists
  held  \* the trigger and attempt a handler is calling the model for

analysisVars == <<runs, held>>

Run == [status : {"PROCESSING", "FAILED", "COMPLETED", "INVALID_OUTPUT", "SKIPPED"},
        expired : BOOLEAN, validated : BOOLEAN]

(* A validated plan: the next state of the case, the event of the plan, how  *)
(* the run ends and the details a READY plan accepts.  READY of a policy     *)
(* question leaves the case ANALYZING for retrieval.                         *)
NotReady(to, type, run) ==
  [to |-> to, type |-> type, run |-> run, accepts |-> NoDetails]
Ready(to, type, kind) ==
  [to |-> to, type |-> type, run |-> "COMPLETED",
   accepts |-> [kind |-> kind, by |-> "SYSTEM_RULE"]]

Plan == {NotReady("NEEDS_INFORMATION", "ANALYSIS_NEEDS_INFORMATION", "COMPLETED"),
         NotReady("NEEDS_REVIEW", "ANALYSIS_NEEDS_REVIEW", "COMPLETED"),
         NotReady("NEEDS_REVIEW", "ANALYSIS_NEEDS_REVIEW", "INVALID_OUTPUT"),
         NotReady("REJECTED", "ANALYSIS_REJECTED", "COMPLETED"),
         Ready("PENDING_APPROVAL", "APPROVAL_REQUESTED", "GUARDED"),
         Ready("ANALYZING", "ANALYSIS_READY_FOR_RETRIEVAL", "POLICY"),
         Ready("READY_FOR_ACTION", "ANALYSIS_READY", "SAFE")}

(* Finished attempts are immutable, at most the newest is open, and only a   *)
(* finished model result or a skipped input has a validation.                *)
AnalysisTypeOK ==
  /\ held \in [Handler -> Held \cup {NoRun}]
  /\ runs \in [Input -> Seq(Run)]
  /\ \A i \in Input :
       /\ Len(runs[i]) <= MaxProviderAttempts
       /\ \A n \in DOMAIN runs[i] :
            /\ runs[i][n].status # "FAILED" => n = Len(runs[i])
            /\ runs[i][n].expired => runs[i][n].status \in {"PROCESSING", "FAILED"}
            /\ runs[i][n].validated <=> runs[i][n].status \in {"COMPLETED", "INVALID_OUTPUT", "SKIPPED"}

AnalysisInit ==
  /\ runs = [i \in Input |-> <<>>]
  /\ held = [h \in Handler |-> NoRun]

-----------------------------------------------------------------------------
(* Claim *)

Latest(i) == runs[i][Len(runs[i])]

LatestIs(i, s) == runs[i] # <<>> /\ Latest(i).status = s

(* Mutant: a finished analysis is not recognized. *)
NeverValidated(i) == FALSE

Validated(i) == runs[i] # <<>> /\ Latest(i).validated

(* Mutant: submitted information is analyzed without its acknowledgement. *)
HasDecision(t) ==
  /\ t.input # NoInput
  /\ \E i \in DOMAIN log :
       /\ log[i].type \in {"ANALYSIS_STARTED", "REQUESTER_INFORMATION_SUBMITTED"}
       /\ log[i].trigger = t

(* _load_case_and_event, _load_resumed_case_and_event: the reference names   *)
(* an event of this case that allows this version to be analyzed, the start  *)
(* or the acknowledgement of information the requester submitted.            *)
HasEvidence(t) ==
  /\ t.input # NoInput
  /\ \E i \in DOMAIN log :
       /\ log[i].type \in {"ANALYSIS_STARTED", "HUMAN_DECISION_RESUME_ACKNOWLEDGED"}
       /\ log[i].trigger = t

(* A request that is neither a replay nor refused for the state or version,  *)
(* and finds no attempt in progress.                                         *)
MayAttempt(t) ==
  /\ HasEvidence(t)
  /\ ~Validated(t.input)
  /\ caseState = "ANALYZING"
  /\ version = t.version
  /\ LatestIs(t.input, "PROCESSING") => Latest(t.input).expired

(* The abandoned attempt, if there is one, is recorded as failed. *)
CloseAbandoned(i) ==
  IF LatestIs(i, "PROCESSING")
  THEN [runs[i] EXCEPT ![Len(runs[i])].status = "FAILED"]
  ELSE runs[i]

RecoveryEvents(i) ==
  IF LatestIs(i, "PROCESSING")
  THEN <<Entry("ANALYSIS_ATTEMPT_RECOVERED", "ANALYZING", "ANALYZING")>>
  ELSE <<>>

(* Replays, and conflicts with the state, the version, an attempt that is in *)
(* progress or the attempt limit.                                            *)
NoNewAttempt(t) ==
  \/ ~MayAttempt(t)
  \/ Len(runs[t.input]) = MaxProviderAttempts /\ ~LatestIs(t.input, "PROCESSING")

NewRun(s) == [status |-> s, expired |-> FALSE, validated |-> s = "SKIPPED"]

(* The attempt is committed as PROCESSING and the model is called. *)
ClaimAttempt(h, t) ==
  /\ held[h] = NoRun
  /\ MayAttempt(t)
  /\ Len(runs[t.input]) < MaxProviderAttempts
  /\ t.input \notin OversizedInput
  /\ runs' = [runs EXCEPT ![t.input] =
                Append(CloseAbandoned(t.input), NewRun("PROCESSING"))]
  /\ log' = log \o RecoveryEvents(t.input)
  /\ held' = [held EXCEPT ![h] = [trigger |-> t, number |-> Len(runs[t.input]) + 1]]
  /\ UNCHANGED <<caseState, version, acceptedVars>>

(* An oversized input goes to review with no model call. *)
SkipOversized(t) ==
  /\ MayAttempt(t)
  /\ Len(runs[t.input]) < MaxProviderAttempts
  /\ t.input \in OversizedInput
  /\ runs' = [runs EXCEPT ![t.input] = Append(@, NewRun("SKIPPED"))]
  /\ MoveCase("NEEDS_REVIEW", version + 1,
              Entry("ANALYSIS_NEEDS_REVIEW", caseState, "NEEDS_REVIEW"))
  /\ UNCHANGED <<held, acceptedVars>>

(* The last attempt was abandoned: the case fails. *)
FailFinalLease(t) ==
  /\ MayAttempt(t)
  /\ LatestIs(t.input, "PROCESSING")
  /\ Len(runs[t.input]) = MaxProviderAttempts
  /\ runs' = [runs EXCEPT ![t.input] = CloseAbandoned(t.input)]
  /\ MoveCase("FAILED", version + 1, Entry("ANALYSIS_FAILED", "ANALYZING", "FAILED"))
  /\ UNCHANGED <<held, acceptedVars>>

(* 240 seconds after it was claimed. *)
RunLeaseExpires(i) ==
  /\ LatestIs(i, "PROCESSING")
  /\ ~Latest(i).expired
  /\ runs' = [runs EXCEPT ![i][Len(runs[i])].expired = TRUE]
  /\ UNCHANGED <<held, caseVars>>

-----------------------------------------------------------------------------
(* Finalization *)

(* Mutant: the UPDATE does not ask for a PROCESSING attempt. *)
StillCurrentCaseOnly(h) ==
  caseState = "ANALYZING" /\ version = held[h].trigger.version

(* What either finalization checks under the case lock. *)
StillCurrent(h) ==
  /\ caseState = "ANALYZING"
  /\ version = held[h].trigger.version
  /\ runs[held[h].trigger.input][held[h].number].status = "PROCESSING"

FinishRun(h, run) ==
  /\ runs' = [runs EXCEPT ![held[h].trigger.input][held[h].number] = run]
  /\ held' = [held EXCEPT ![h] = NoRun]

FailedRun == [status |-> "FAILED", expired |-> FALSE, validated |-> FALSE]
ValidatedRun(s) == [status |-> s, expired |-> FALSE, validated |-> TRUE]

(* Mutant: the case fails with its first failed attempt. *)
FinalAtOnce(n) == n >= 1

FinalAttempt(n) == n = MaxProviderAttempts

(* RetryableProviderError *)
FinalizeRetryableFailure(h) ==
  /\ held[h] # NoRun
  /\ StillCurrent(h)
  /\ FinishRun(h, FailedRun)
  /\ IF FinalAttempt(held[h].number)
     THEN MoveCase("FAILED", version + 1, Entry("ANALYSIS_FAILED", "ANALYZING", "FAILED"))
     ELSE MoveCase("ANALYZING", version,
                   Entry("ANALYSIS_RETRY_SCHEDULED", "ANALYZING", "ANALYZING"))
  /\ UNCHANGED acceptedVars

(* Mutants: every plan counts as a new version of the case, or none does. *)
VersionAlwaysMoves(plan) == version + 1

VersionNeverMoves(plan) == version

VersionAfter(plan) == IF plan.to # caseState THEN version + 1 ELSE version

(* Mutant: the approval is inserted without the details it is about. *)
AcceptApprovalOnly(plan) ==
  /\ approval' = IF plan.accepts.kind = "GUARDED" THEN "PENDING" ELSE approval
  /\ UNCHANGED details

(* The rows a READY plan inserts; case_details and approvals have the case   *)
(* as their key, so a second row aborts the transaction.                     *)
AcceptDetails(plan) ==
  IF plan.accepts = NoDetails THEN UNCHANGED acceptedVars
  ELSE /\ details = NoDetails
       /\ approval = "NONE"
       /\ details' = plan.accepts
       /\ approval' = IF plan.accepts.kind = "GUARDED" THEN "PENDING" ELSE approval

FinalizeProviderResult(h, plan) ==
  /\ held[h] # NoRun
  /\ StillCurrent(h)
  /\ FinishRun(h, ValidatedRun(plan.run))
  /\ AcceptDetails(plan)
  /\ MoveCase(plan.to, VersionAfter(plan), Entry(plan.type, caseState, plan.to))

(* AnalysisConflict: the case moved on or the attempt was recovered, and the *)
(* answer of the model is dropped.                                           *)
RejectLateAnswer(h) ==
  /\ held[h] # NoRun
  /\ ~StillCurrent(h)
  /\ held' = [held EXCEPT ![h] = NoRun]
  /\ UNCHANGED <<runs, caseVars>>

(* The attempt is left PROCESSING: a provider error that is not retryable, a *)
(* final transaction that is lost, a process that dies.                      *)
HandlerDies(h) ==
  /\ held[h] # NoRun
  /\ held' = [held EXCEPT ![h] = NoRun]
  /\ UNCHANGED <<runs, caseVars>>

AnalysisStep ==
  \/ \E i \in Input : RunLeaseExpires(i)
  \/ \E h \in Handler : FinalizeRetryableFailure(h) \/ RejectLateAnswer(h) \/ HandlerDies(h)
  \/ \E h \in Handler, plan \in Plan : FinalizeProviderResult(h, plan)

-----------------------------------------------------------------------------
(* Properties *)

VerdictTypes == {plan.type : plan \in Plan}

(* One verdict per input: however requests, late answers and recoveries of   *)
(* an attempt cross, the verdict events of the log are as many as the runs   *)
(* with a validation, and no input has two.                                  *)
OneVerdict ==
  /\ Cardinality({i \in DOMAIN log : log[i].type \in VerdictTypes}) =
       Cardinality({x \in Input \X (1..MaxProviderAttempts) :
                      x[2] \in DOMAIN runs[x[1]] /\ runs[x[1]][x[2]].validated})
  /\ \A i \in Input : \A m, n \in DOMAIN runs[i] :
       runs[i][m].validated /\ runs[i][n].validated => m = n

(* A case fails in analysis only when all attempts on one input were used    *)
(* up and none of them was validated.                                        *)
FailureIsExhaustion ==
  Logged("ANALYSIS_FAILED") =>
    \E i \in Input : /\ Len(runs[i]) = MaxProviderAttempts
                     /\ \A n \in DOMAIN runs[i] : runs[i][n].status = "FAILED"

(* The insert of a READY plan never conflicts: whoever may still finalize    *)
(* an answer of the model, after whatever other requests, decisions and      *)
(* recoveries, finds no details that were accepted before.                   *)
AcceptanceFits ==
  \A h \in Handler :
    held[h] # NoRun /\ StillCurrent(h) => details = NoDetails /\ approval = "NONE"

=============================================================================

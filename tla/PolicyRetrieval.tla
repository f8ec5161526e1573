--------------------------- MODULE PolicyRetrieval ---------------------------
(***************************************************************************)
(* application/policy_retrieval.py on one case: retrieve_policy claims the *)
(* retrieval of an analysis run by an event, calls the embedding and the   *)
(* answer model with no transaction open and finalizes in another.  The    *)
(* claim has no lease.  Details are inserted once per case, so one run at  *)
(* most is READY for retrieval and events need not name it.  Requests that *)
(* replay a finished retrieval, find one in progress or conflict write     *)
(* nothing.                                                                *)
(***************************************************************************)
EXTENDS CaseStore

CONSTANT Retriever \* requests to the retrieval endpoint

VARIABLE retrieving \* the version each of them answers the question for, 0 for none

RetrievalTypeOK == retrieving \in [Retriever -> Nat]

RetrievalInit == retrieving = [r \in Retriever |-> 0]

(* Mutant: the claim is not looked for. *)
RetrievalNeverClaimed == FALSE

(* A retrieval of the run is in progress or finished. *)
RetrievalClaimed == Logged("POLICY_RETRIEVAL_STARTED")

(* The state and the accepted analysis a new retrieval asks for. *)
MayRetrieve ==
  /\ ~RetrievalClaimed
  /\ Logged("ANALYSIS_READY_FOR_RETRIEVAL")
  /\ caseState = "ANALYZING"
  /\ details.kind = "POLICY"

ClaimRetrieval(r) ==
  /\ retrieving[r] = 0
  /\ MayRetrieve
  /\ log' = Append(log, Entry("POLICY_RETRIEVAL_STARTED", "ANALYZING", "ANALYZING"))
  /\ retrieving' = [retrieving EXCEPT ![r] = version]
  /\ UNCHANGED <<caseState, version, acceptedVars>>

RetrievalOutcome == {
  [to |-> "READY_FOR_ACTION", type |-> "POLICY_RETRIEVAL_READY"],
  [to |-> "NEEDS_REVIEW", type |-> "POLICY_RETRIEVAL_NEEDS_REVIEW"]}

(* A grounded answer, or anything else: no chunk, a citation that was not    *)
(* retrieved, a provider that fails.  That the case changed before is        *)
(* refused too, but while a retrieval runs nothing else may move the case.   *)
FinalizeRetrieval(r, outcome) ==
  /\ retrieving[r] # 0
  /\ caseState = "ANALYZING"
  /\ version = retrieving[r]
  /\ MoveCase(outcome.to, version + 1, Entry(outcome.type, "ANALYZING", outcome.to))
  /\ retrieving' = [retrieving EXCEPT ![r] = 0]
  /\ UNCHANGED acceptedVars

RetrieverDies(r) ==
  /\ retrieving[r] # 0
  /\ retrieving' = [retrieving EXCEPT ![r] = 0]
  /\ UNCHANGED caseVars

RetrievalStep ==
  \/ \E r \in Retriever : ClaimRetrieval(r) \/ RetrieverDies(r)
  \/ \E r \in Retriever, outcome \in RetrievalOutcome : FinalizeRetrieval(r, outcome)

-----------------------------------------------------------------------------
(* Properties *)

(* An answer is never lost to a conflict: whoever still works on a question  *)
(* finds the case as it was claimed, although no lock or lease protects it.  *)
RetrievalUndisturbed ==
  \A r \in Retriever :
    retrieving[r] # 0 => caseState = "ANALYZING" /\ version = retrieving[r]

=============================================================================

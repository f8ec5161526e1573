------------------------------- MODULE Outbox -------------------------------
(***************************************************************************)
(* The durable outbox of the primary database: the rows of outbox_messages *)
(* and delivery_attempts, the workers that claim a message, call the       *)
(* destination with no transaction open and finalize the claim in a second *)
(* transaction, and the two recoverers of claims whose lease has run out.  *)
(*                                                                         *)
(* Every operation of the code on these rows is one PostgreSQL transaction *)
(* that locks the row it changes (FOR UPDATE, or SKIP LOCKED), so each is  *)
(* one action.  What happens between two transactions of a worker (the     *)
(* call, a crash, a lease that runs out, another worker) is interleaved.   *)
(* The call itself is left open: Answer may bring any outcome.  The modules *)
(* that compose this one with a destination say which outcomes it brings,  *)
(* so whatever holds here holds for each of the four message types.        *)
(***************************************************************************)
EXTENDS Naturals, FiniteSets

CONSTANTS
  Message,        \* rows of outbox_messages, one per idempotency key
  Worker,         \* worker processes
  Serves,         \* [Worker -> SUBSET Message]: the type and destination a worker claims
  SelfRecovering, \* workers that recover an expired claim of theirs before they claim
  MaxAttempts,    \* outbox_messages.max_attempts
  SweepLimit,     \* claims one scheduled sweep repairs
  NoClaim

Claims == [msg : Message, number : 1..MaxAttempts]

ASSUME OutboxAssumption ==
  /\ MaxAttempts \in Nat \ {0}
  /\ SweepLimit \in Nat \ {0}
  /\ Serves \in [Worker -> SUBSET Message]
  /\ SelfRecovering \subseteq Worker
  /\ NoClaim \notin Claims

Outcome == {"SUCCESS", "TRANSIENT_FAILURE", "PERMANENT_FAILURE"}
Terminal == {"SENT", "FAILED"}

VARIABLES
  status,       \* outbox_messages.status; ABSENT before the row is inserted
  attemptCount, \* outbox_messages.attempt_count
  expired,      \* locked_at has passed the lease cutoff
  attempts,     \* delivery_attempts: the rows of each message
  step,         \* where a worker process is
  claim,        \* the message and attempt number a worker process holds
  outcome       \* the DeliveryResponse outcome a worker process holds

rowVars == <<status, attemptCount, expired, attempts>>
workerVars == <<step, claim, outcome>>
outboxVars == <<status, attemptCount, expired, attempts, step, claim, outcome>>

Attempt == [number : 1..MaxAttempts, outcome : Outcome]

(* The CHECK constraints of the two tables: among them, only a PROCESSING   *)
(* row carries a lock, and a claimed row has counted its attempt.           *)
OutboxTypeOK ==
  /\ status \in [Message -> {"ABSENT", "PENDING", "PROCESSING"} \cup Terminal]
  /\ attemptCount \in [Message -> 0..MaxAttempts]
  /\ expired \in [Message -> BOOLEAN]
  /\ attempts \in [Message -> SUBSET Attempt]
  /\ step \in [Worker -> {"idle", "calling", "answered"}]
  /\ claim \in [Worker -> Claims \cup {NoClaim}]
  /\ outcome \in [Worker -> Outcome]
  /\ \A m \in Message :
       /\ expired[m] => status[m] = "PROCESSING"
       /\ status[m] = "PROCESSING" => attemptCount[m] > 0
       /\ status[m] = "ABSENT" => attemptCount[m] = 0
  /\ \A w \in Worker : step[w] = "idle" <=> claim[w] = NoClaim

OutboxInit ==
  /\ status = [m \in Message |-> "ABSENT"]
  /\ attemptCount = [m \in Message |-> 0]
  /\ expired = [m \in Message |-> FALSE]
  /\ attempts = [m \in Message |-> {}]
  /\ step = [w \in Worker |-> "idle"]
  /\ claim = [w \in Worker |-> NoClaim]
  /\ outcome = [w \in Worker |-> "TRANSIENT_FAILURE"]

-----------------------------------------------------------------------------
(* Rows *)

(* INSERT of a PENDING row by the transaction that produces the intent; the *)
(* unique idempotency key makes a second INSERT for the intent a replay.    *)
Enqueue(m) ==
  /\ status[m] = "ABSENT"
  /\ status' = [status EXCEPT ![m] = "PENDING"]
  /\ UNCHANGED <<attemptCount, expired, attempts, workerVars>>

(* Mutants: no retry of a transient failure; one attempt too many. *)
StatusWithoutRetry(o, n) == IF o = "SUCCESS" THEN "SENT" ELSE "FAILED"

StatusRetriedTooOften(o, n) ==
  CASE o = "SUCCESS" -> "SENT"
    [] o = "TRANSIENT_FAILURE" /\ n <= MaxAttempts -> "PENDING"
    [] OTHER -> "FAILED"

(* The state a finalized attempt leaves the row in. *)
StatusAfter(o, n) ==
  CASE o = "SUCCESS" -> "SENT"
    [] o = "TRANSIENT_FAILURE" /\ n < MaxAttempts -> "PENDING"
    [] OTHER -> "FAILED"

(* Mutant: the lock of the row is kept. *)
RecordAttemptLocked(m, n, o) ==
  /\ attempts' = [attempts EXCEPT ![m] = @ \cup {[number |-> n, outcome |-> o]}]
  /\ status' = [status EXCEPT ![m] = StatusAfter(o, n)]
  /\ UNCHANGED <<attemptCount, expired>>

(* One attempt row appended and the message row moved, in one transaction. *)
RecordAttempt(m, n, o) ==
  /\ attempts' = [attempts EXCEPT ![m] = @ \cup {[number |-> n, outcome |-> o]}]
  /\ status' = [status EXCEPT ![m] = StatusAfter(o, n)]
  /\ expired' = [expired EXCEPT ![m] = FALSE]
  /\ UNCHANGED attemptCount

-----------------------------------------------------------------------------
(* Workers *)

(* The invocation ends and its local variables with it. *)
Release(w) ==
  /\ step' = [step EXCEPT ![w] = "idle"]
  /\ claim' = [claim EXCEPT ![w] = NoClaim]
  /\ outcome' = [outcome EXCEPT ![w] = "TRANSIENT_FAILURE"]

(* Mutant: the claim does not count the attempt it starts. *)
ClaimUncounted(w, m) ==
  /\ step[w] = "idle"
  /\ m \in Serves[w]
  /\ status[m] = "PENDING"
  /\ status' = [status EXCEPT ![m] = "PROCESSING"]
  /\ attemptCount' = [attemptCount EXCEPT ![m] = IF @ = 0 THEN 1 ELSE @]
  /\ expired' = [expired EXCEPT ![m] = FALSE]
  /\ step' = [step EXCEPT ![w] = "calling"]
  /\ claim' = [claim EXCEPT ![w] = [msg |-> m, number |-> 1]]
  /\ UNCHANGED <<attempts, outcome>>

(* The claim transaction; available_at and the ORDER BY only say when a     *)
(* pending message is claimed, which is left open.                          *)
Claim(w, m) ==
  /\ step[w] = "idle"
  /\ m \in Serves[w]
  /\ status[m] = "PENDING"
  /\ attemptCount[m] < MaxAttempts
  /\ status' = [status EXCEPT ![m] = "PROCESSING"]
  /\ attemptCount' = [attemptCount EXCEPT ![m] = @ + 1]
  /\ expired' = [expired EXCEPT ![m] = FALSE]
  /\ step' = [step EXCEPT ![w] = "calling"]
  /\ claim' = [claim EXCEPT ![w] = [msg |-> m, number |-> attemptCount[m] + 1]]
  /\ UNCHANGED <<attempts, outcome>>

(* The client call returns: the outcome it was classified as. *)
Answer(w, o) ==
  /\ step[w] = "calling"
  /\ step' = [step EXCEPT ![w] = "answered"]
  /\ outcome' = [outcome EXCEPT ![w] = o]
  /\ UNCHANGED <<rowVars, claim>>

(* Mutant: finalization trusts its claim. *)
StillOwnsUnchecked(w) == TRUE

(* What finalization re-checks under the row lock before it writes. *)
StillOwns(w) ==
  /\ status[claim[w].msg] = "PROCESSING"
  /\ attemptCount[claim[w].msg] = claim[w].number

Finalize(w) ==
  /\ step[w] = "answered"
  /\ StillOwns(w)
  /\ RecordAttempt(claim[w].msg, claim[w].number, outcome[w])
  /\ Release(w)

(* RuntimeError: the claim was recovered meanwhile and the answer is dropped. *)
RejectStaleFinalize(w) ==
  /\ step[w] = "answered"
  /\ ~StillOwns(w)
  /\ Release(w)
  /\ UNCHANGED rowVars

(* The worker process dies between its two transactions. *)
Crash(w) ==
  /\ step[w] # "idle"
  /\ Release(w)
  /\ UNCHANGED rowVars

-----------------------------------------------------------------------------
(* Leases and their recovery *)

LeaseExpires(m) ==
  /\ status[m] = "PROCESSING"
  /\ ~expired[m]
  /\ expired' = [expired EXCEPT ![m] = TRUE]
  /\ UNCHANGED <<status, attemptCount, attempts, workerVars>>

(* An expired claim with no result: what both recoverers select. *)
Abandoned(m) ==
  /\ status[m] = "PROCESSING"
  /\ expired[m]
  /\ \A a \in attempts[m] : a.number # attemptCount[m]

(* The dispatcher's own recovery of one message, which ends the invocation. *)
RecoverAbandoned(w, m) ==
  /\ step[w] = "idle"
  /\ w \in SelfRecovering
  /\ m \in Serves[w]
  /\ Abandoned(m)
  /\ RecordAttempt(m, attemptCount[m], "TRANSIENT_FAILURE")
  /\ UNCHANGED workerVars

(* Mutant: the sweep reopens the row and records no attempt. *)
SweepWithoutEvidence(batch) ==
  /\ status' = [m \in Message |-> IF m \in batch THEN "PENDING" ELSE status[m]]
  /\ UNCHANGED attempts

(* What one sweep writes for the rows it locked. *)
SweepRows(batch) ==
  /\ attempts' = [m \in Message |->
       IF m \in batch
       THEN attempts[m] \cup {[number |-> attemptCount[m], outcome |-> "TRANSIENT_FAILURE"]}
       ELSE attempts[m]]
  /\ status' = [m \in Message |->
       IF m \in batch THEN StatusAfter("TRANSIENT_FAILURE", attemptCount[m]) ELSE status[m]]

(* The scheduled sweep: a bounded batch of all message types, one transaction. *)
RecoverExpiredClaims(batch) ==
  /\ batch # {}
  /\ Cardinality(batch) <= SweepLimit
  /\ \A m \in batch : Abandoned(m)
  /\ SweepRows(batch)
  /\ expired' = [m \in Message |-> expired[m] /\ m \notin batch]
  /\ UNCHANGED <<attemptCount, workerVars>>

-----------------------------------------------------------------------------
OutboxNext ==
  \/ \E m \in Message : Enqueue(m) \/ LeaseExpires(m)
  \/ \E w \in Worker : Finalize(w) \/ RejectStaleFinalize(w) \/ Crash(w)
  \/ \E w \in Worker, m \in Message : Claim(w, m) \/ RecoverAbandoned(w, m)
  \/ \E w \in Worker, o \in Outcome : Answer(w, o)
  \/ \E batch \in SUBSET Message : RecoverExpiredClaims(batch)

OutboxSpec == OutboxInit /\ [][OutboxNext]_outboxVars

(***************************************************************************)
(* Fairness: the five-minute sweep is run by its schedule, the bounded     *)
(* workers by an operator, again and again; a call ends within its         *)
(* timeout, and time passes.  A worker may still die at any point of any   *)
(* attempt.                                                                *)
(***************************************************************************)
OutboxFairness ==
  /\ \A m \in Message :
       /\ WF_outboxVars(LeaseExpires(m))
       /\ WF_outboxVars(RecoverExpiredClaims({m}))
       /\ WF_outboxVars(\E w \in Worker : Claim(w, m))
  /\ \A w \in Worker :
       /\ WF_outboxVars(\E o \in Outcome : Answer(w, o))
       /\ WF_outboxVars(Finalize(w) \/ RejectStaleFinalize(w))

OutboxFairSpec == OutboxSpec /\ OutboxFairness

-----------------------------------------------------------------------------
(* Properties *)

(* Attempt ledger: whatever workers and recoverers do to the same claim,    *)
(* every attempt that is over has exactly one delivery_attempts row and the *)
(* attempt in progress has none; so UNIQUE(outbox_message_id,               *)
(* attempt_number) never aborts a finalization or a recovery.               *)
AttemptLedger ==
  \A m \in Message :
    /\ {a.number : a \in attempts[m]} =
         1..(IF status[m] = "PROCESSING" THEN attemptCount[m] - 1 ELSE attemptCount[m])
    /\ \A a, b \in attempts[m] : a.number = b.number => a = b

(* Terminal evidence: the rows the reconcilers read agree with the state.   *)
(* SENT has its one SUCCESS on the last attempt, FAILED a last attempt that *)
(* is permanent or used up the limit, an open message only transient rows.  *)
TerminalEvidence ==
  \A m \in Message : \A a \in attempts[m] :
    /\ a.outcome = "SUCCESS" <=> status[m] = "SENT" /\ a.number = attemptCount[m]
    /\ a.outcome = "PERMANENT_FAILURE" => status[m] = "FAILED" /\ a.number = attemptCount[m]
    /\ (status[m] = "FAILED" /\ a.number = attemptCount[m]) =>
         a.outcome = "PERMANENT_FAILURE" \/ attemptCount[m] = MaxAttempts

Holds(w, m) == claim[w] # NoClaim /\ claim[w].msg = m

(* Single owner: of all the processes that still hold a claim on a message, *)
(* live or overtaken by a recovery, at most one can finalize it, and it     *)
(* holds the newest attempt; the others hold numbers nobody else holds.     *)
SingleOwner ==
  \A m \in Message :
    /\ \A v, w \in Worker :
         Holds(v, m) /\ Holds(w, m) /\ v # w => claim[v].number # claim[w].number
    /\ \A w \in Worker : Holds(w, m) => claim[w].number <= attemptCount[m]

(* Row history: no step reopens a terminal message, drops evidence or moves *)
(* the attempt counter otherwise than by one at a claim.                    *)
RowHistory ==
  [][\A m \in Message :
       /\ status[m] \in Terminal => status'[m] = status[m] /\ attempts'[m] = attempts[m]
       /\ attempts[m] \subseteq attempts'[m]
       /\ attemptCount'[m] # attemptCount[m] =>
            /\ attemptCount'[m] = attemptCount[m] + 1
            /\ status[m] = "PENDING" /\ status'[m] = "PROCESSING"]_outboxVars

(* The rows implement OutboxStatus, the specification that components rely   *)
(* on which only read a status: a terminal row never moves again and a row   *)
(* closes only out of a claim.                                               *)
Rows == INSTANCE OutboxStatus

RowsMoveInOrder == Rows!RowSpec

(* Settlement: every queued message ends SENT or FAILED, however its workers *)
(* die, because the sweep reopens abandoned claims and attempts are bounded. *)
EventuallySettled ==
  \A m \in Message : status[m] = "PENDING" ~> status[m] \in Terminal

=============================================================================

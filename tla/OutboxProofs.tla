---------------------------- MODULE OutboxProofs ----------------------------
(***************************************************************************)
(* Theorems about Outbox for any messages, workers and attempt limit.      *)
(* OutboxTypeOK, AttemptLedger, TerminalEvidence and SingleOwner together  *)
(* are inductive: a finalization is safe because the ledger has no row for *)
(* the attempt in progress, a new claim is the newest because every held   *)
(* number is counted, and evidence stays true because only the attempt in  *)
(* progress is ever written.                                               *)
(***************************************************************************)
EXTENDS Outbox, TLAPS

OutboxInv == OutboxTypeOK /\ AttemptLedger /\ TerminalEvidence /\ SingleOwner

USE OutboxAssumption

(* What an attempt recorded as n leaves in its row, for either writer. *)
LEMMA StatusAfterType ==
  ASSUME NEW o \in Outcome, NEW n \in 1..MaxAttempts
  PROVE  /\ StatusAfter(o, n) \in {"PENDING", "SENT", "FAILED"}
         /\ StatusAfter(o, n) = "SENT" <=> o = "SUCCESS"
         /\ o = "PERMANENT_FAILURE" => StatusAfter(o, n) = "FAILED"
         /\ StatusAfter(o, n) = "FAILED" => o = "PERMANENT_FAILURE" \/ n = MaxAttempts
BY DEF StatusAfter, Outcome

LEMMA InitInv == OutboxInit => OutboxInv
<1> SUFFICES ASSUME OutboxInit PROVE OutboxInv
    OBVIOUS
<1>1. OutboxTypeOK
    BY DEF OutboxInit, OutboxTypeOK, Outcome, Terminal
<1>2. AttemptLedger
    BY DEF OutboxInit, AttemptLedger
<1>3. TerminalEvidence
    BY DEF OutboxInit, TerminalEvidence
<1>4. SingleOwner
    BY DEF OutboxInit, SingleOwner, Holds
<1> QED BY <1>1, <1>2, <1>3, <1>4 DEF OutboxInv

LEMMA TypeStep == OutboxTypeOK /\ [OutboxNext]_outboxVars => OutboxTypeOK'
<1> SUFFICES ASSUME OutboxTypeOK, [OutboxNext]_outboxVars PROVE OutboxTypeOK'
    OBVIOUS
<1> USE DEF OutboxTypeOK, Terminal
<1>0. "TRANSIENT_FAILURE" \in Outcome
    BY DEF Outcome
<1>1. ASSUME NEW m \in Message, Enqueue(m) PROVE OutboxTypeOK'
    BY <1>1 DEF Enqueue, workerVars
<1>2. ASSUME NEW m \in Message, LeaseExpires(m) PROVE OutboxTypeOK'
    BY <1>2 DEF LeaseExpires, workerVars
<1>3. ASSUME NEW w \in Worker, Finalize(w) PROVE OutboxTypeOK'
  <2>1. claim[w] \in Claims
      BY <1>3 DEF Finalize
  <2>2. StatusAfter(outcome[w], claim[w].number) \in {"PENDING", "SENT", "FAILED"}
      BY <2>1, StatusAfterType DEF Claims
  <2>3. [number |-> claim[w].number, outcome |-> outcome[w]] \in Attempt
      BY <2>1 DEF Attempt, Claims
  <2>4. attempts' \in [Message -> SUBSET Attempt]
      BY <1>3, <2>1, <2>3 DEF Finalize, RecordAttempt, Claims
  <2> QED BY <1>0, <1>3, <2>1, <2>2, <2>4 DEF Finalize, RecordAttempt, Release, Claims, StillOwns
<1>4. ASSUME NEW w \in Worker, RejectStaleFinalize(w) PROVE OutboxTypeOK'
    BY <1>0, <1>4 DEF RejectStaleFinalize, Release, rowVars
<1>5. ASSUME NEW w \in Worker, Crash(w) PROVE OutboxTypeOK'
    BY <1>0, <1>5 DEF Crash, Release, rowVars
<1>6. ASSUME NEW w \in Worker, NEW m \in Message, Claim(w, m) PROVE OutboxTypeOK'
  <2>1. attemptCount[m] + 1 \in 1..MaxAttempts
      BY <1>6 DEF Claim
  <2>2. [msg |-> m, number |-> attemptCount[m] + 1] \in Claims
      BY <2>1 DEF Claims
  <2> QED BY <1>6, <2>1, <2>2 DEF Claim
<1>7. ASSUME NEW w \in Worker, NEW m \in Message, RecoverAbandoned(w, m) PROVE OutboxTypeOK'
  <2>1. attemptCount[m] \in 1..MaxAttempts /\ "TRANSIENT_FAILURE" \in Outcome
      BY <1>7 DEF RecoverAbandoned, Abandoned, Outcome
  <2>2. StatusAfter("TRANSIENT_FAILURE", attemptCount[m]) \in {"PENDING", "SENT", "FAILED"}
      BY <2>1, StatusAfterType
  <2>3. [number |-> attemptCount[m], outcome |-> "TRANSIENT_FAILURE"] \in Attempt
      BY <2>1 DEF Attempt
  <2>4. attempts' \in [Message -> SUBSET Attempt]
      BY <1>7, <2>3 DEF RecoverAbandoned, RecordAttempt
  <2> QED BY <1>7, <2>2, <2>4 DEF RecoverAbandoned, RecordAttempt, workerVars
<1>8. ASSUME NEW w \in Worker, NEW o \in Outcome, Answer(w, o) PROVE OutboxTypeOK'
    BY <1>8 DEF Answer, rowVars
<1>9. ASSUME NEW batch \in SUBSET Message, RecoverExpiredClaims(batch) PROVE OutboxTypeOK'
  <2>1. \A m \in batch : /\ attemptCount[m] \in 1..MaxAttempts
                         /\ "TRANSIENT_FAILURE" \in Outcome
      BY <1>9 DEF RecoverExpiredClaims, Abandoned, Outcome
  <2>2. \A m \in batch :
          StatusAfter("TRANSIENT_FAILURE", attemptCount[m]) \in {"PENDING", "SENT", "FAILED"}
      BY <2>1, StatusAfterType
  <2>3. \A m \in batch :
          [number |-> attemptCount[m], outcome |-> "TRANSIENT_FAILURE"] \in Attempt
      BY <2>1 DEF Attempt
  <2>4. attempts' \in [Message -> SUBSET Attempt]
      BY <1>9, <2>3 DEF RecoverExpiredClaims, SweepRows
  <2>5. status' \in [Message -> {"ABSENT", "PENDING", "PROCESSING"} \cup Terminal]
      BY <1>9, <2>2 DEF RecoverExpiredClaims, SweepRows
  <2>6. \A m \in Message : /\ status'[m] = "PROCESSING" => status[m] = "PROCESSING"
                           /\ status'[m] = "ABSENT" => status[m] = "ABSENT"
      BY <1>9, <2>2 DEF RecoverExpiredClaims, SweepRows
  <2>7. \A m \in Message : expired'[m] => status'[m] = "PROCESSING"
      BY <1>9 DEF RecoverExpiredClaims, SweepRows
  <2>8. expired' \in [Message -> BOOLEAN]
      BY <1>9 DEF RecoverExpiredClaims
  <2> QED BY <1>9, <2>4, <2>5, <2>6, <2>7, <2>8 DEF RecoverExpiredClaims, workerVars
<1>10. CASE UNCHANGED outboxVars
    BY <1>10 DEF outboxVars
<1> QED
    BY <1>1, <1>2, <1>3, <1>4, <1>5, <1>6, <1>7, <1>8, <1>9, <1>10 DEF OutboxNext

(* Every reachable row and worker is well typed: a lock only on a row that  *)
(* is PROCESSING, a counted attempt on each claimed row.                    *)
THEOREM TypeCorrect == OutboxSpec => []OutboxTypeOK
<1>1. OutboxInit => OutboxTypeOK
    BY InitInv DEF OutboxInv
<1>2. OutboxTypeOK /\ [OutboxNext]_outboxVars => OutboxTypeOK'
    BY TypeStep
<1> QED BY <1>1, <1>2, PTL DEF OutboxSpec

-----------------------------------------------------------------------------
(* What one step does to one row: nothing that the attempts depend on, the  *)
(* INSERT, a claim, or the record of the attempt in progress.  Workers and  *)
(* recoverers differ only in the outcome they record.                       *)
RowKept(m) ==
  /\ status'[m] = status[m]
  /\ attemptCount'[m] = attemptCount[m]
  /\ attempts'[m] = attempts[m]

RowQueued(m) ==
  /\ status[m] = "ABSENT" /\ status'[m] = "PENDING"
  /\ attemptCount'[m] = attemptCount[m]
  /\ attempts'[m] = attempts[m]

RowClaimed(m) ==
  /\ status[m] = "PENDING" /\ status'[m] = "PROCESSING"
  /\ attemptCount'[m] = attemptCount[m] + 1
  /\ attempts'[m] = attempts[m]

RowRecorded(m, o) ==
  /\ status[m] = "PROCESSING" /\ status'[m] = StatusAfter(o, attemptCount[m])
  /\ attemptCount'[m] = attemptCount[m]
  /\ attempts'[m] = attempts[m] \cup {[number |-> attemptCount[m], outcome |-> o]}

RowStep(m) ==
  RowKept(m) \/ RowQueued(m) \/ RowClaimed(m) \/ \E o \in Outcome : RowRecorded(m, o)

LEMMA RowSteps ==
  ASSUME OutboxTypeOK, [OutboxNext]_outboxVars, NEW m \in Message
  PROVE  RowStep(m)
<1> USE DEF OutboxTypeOK, RowStep
<1>1. ASSUME NEW x \in Message, Enqueue(x) PROVE RowStep(m)
    BY <1>1 DEF Enqueue, RowKept, RowQueued
<1>2. ASSUME NEW x \in Message, LeaseExpires(x) PROVE RowStep(m)
    BY <1>2 DEF LeaseExpires, RowKept
<1>3. ASSUME NEW w \in Worker, Finalize(w) PROVE RowStep(m)
  <2>1. claim[w] \in Claims
      BY <1>3 DEF Finalize
  <2>2. CASE m = claim[w].msg
    <3>1. RowRecorded(m, outcome[w])
        BY <1>3, <2>1, <2>2 DEF Finalize, RecordAttempt, StillOwns, RowRecorded
    <3> QED BY <3>1
  <2>3. CASE m # claim[w].msg
      BY <1>3, <2>1, <2>3 DEF Finalize, RecordAttempt, RowKept
  <2> QED BY <2>2, <2>3
<1>4. ASSUME NEW w \in Worker, RejectStaleFinalize(w) \/ Crash(w) PROVE RowStep(m)
    BY <1>4 DEF RejectStaleFinalize, Crash, rowVars, RowKept
<1>5. ASSUME NEW w \in Worker, NEW x \in Message, Claim(w, x) PROVE RowStep(m)
    BY <1>5 DEF Claim, RowClaimed, RowKept
<1>6. ASSUME NEW w \in Worker, NEW x \in Message, RecoverAbandoned(w, x) PROVE RowStep(m)
  <2>1. CASE m = x
    <3>1. RowRecorded(m, "TRANSIENT_FAILURE")
        BY <1>6, <2>1 DEF RecoverAbandoned, Abandoned, RecordAttempt, RowRecorded
    <3> QED BY <3>1 DEF Outcome
  <2>2. CASE m # x
      BY <1>6, <2>2 DEF RecoverAbandoned, RecordAttempt, RowKept
  <2> QED BY <2>1, <2>2
<1>7. ASSUME NEW w \in Worker, NEW o \in Outcome, Answer(w, o) PROVE RowStep(m)
    BY <1>7 DEF Answer, rowVars, RowKept
<1>8. ASSUME NEW batch \in SUBSET Message, RecoverExpiredClaims(batch) PROVE RowStep(m)
  <2>1. CASE m \in batch
    <3>1. RowRecorded(m, "TRANSIENT_FAILURE")
        BY <1>8, <2>1 DEF RecoverExpiredClaims, Abandoned, SweepRows, RowRecorded
    <3> QED BY <3>1 DEF Outcome
  <2>2. CASE m \notin batch
      BY <1>8, <2>2 DEF RecoverExpiredClaims, SweepRows, RowKept
  <2> QED BY <2>1, <2>2
<1>9. CASE UNCHANGED outboxVars
    BY <1>9 DEF outboxVars, RowKept
<1> QED BY <1>1, <1>2, <1>3, <1>4, <1>5, <1>6, <1>7, <1>8, <1>9 DEF OutboxNext

-----------------------------------------------------------------------------
LEMMA NumbersOfUnion ==
  ASSUME NEW S, NEW x
  PROVE  {a.number : a \in S \cup {x}} = {a.number : a \in S} \cup {x.number}
OBVIOUS

LEMMA LedgerStep ==
  OutboxTypeOK /\ AttemptLedger /\ [OutboxNext]_outboxVars => AttemptLedger'
<1> SUFFICES ASSUME OutboxTypeOK, AttemptLedger, [OutboxNext]_outboxVars, NEW m \in Message
             PROVE  /\ {a.number : a \in attempts'[m]} =
                         1..(IF status'[m] = "PROCESSING" THEN attemptCount'[m] - 1
                                                          ELSE attemptCount'[m])
                    /\ \A a, b \in attempts'[m] : a.number = b.number => a = b
    BY DEF AttemptLedger
<1>1. /\ attemptCount[m] \in 0..MaxAttempts
      /\ status[m] = "PROCESSING" => attemptCount[m] > 0
      /\ attempts[m] \in SUBSET Attempt
    BY DEF OutboxTypeOK
<1>2. /\ {a.number : a \in attempts[m]} =
           1..(IF status[m] = "PROCESSING" THEN attemptCount[m] - 1 ELSE attemptCount[m])
      /\ \A a, b \in attempts[m] : a.number = b.number => a = b
    BY DEF AttemptLedger
<1>3. CASE RowKept(m) \/ RowQueued(m) \/ RowClaimed(m)
    BY <1>1, <1>2, <1>3 DEF RowKept, RowQueued, RowClaimed
<1>4. ASSUME NEW o \in Outcome, RowRecorded(m, o)
      PROVE  /\ {a.number : a \in attempts'[m]} =
                  1..(IF status'[m] = "PROCESSING" THEN attemptCount'[m] - 1
                                                   ELSE attemptCount'[m])
             /\ \A a, b \in attempts'[m] : a.number = b.number => a = b
  <2> DEFINE new == [number |-> attemptCount[m], outcome |-> o]
  <2>1. {a.number : a \in attempts[m]} = 1..(attemptCount[m] - 1)
      BY <1>2, <1>4 DEF RowRecorded
  <2>2. \A a \in attempts[m] : a.number # attemptCount[m]
      BY <1>1, <2>1
  <2>3. status'[m] # "PROCESSING"
      BY <1>1, <1>4, StatusAfterType DEF RowRecorded
  <2>4. {a.number : a \in attempts'[m]} = {a.number : a \in attempts[m]} \cup {attemptCount[m]}
    <3>1. attempts'[m] = attempts[m] \cup {new} /\ new.number = attemptCount[m]
        BY <1>4 DEF RowRecorded
    <3> HIDE DEF new
    <3> QED BY <3>1, NumbersOfUnion
  <2>5. 1..(attemptCount[m] - 1) \cup {attemptCount[m]} = 1..attemptCount[m]
      BY <1>1, <1>4 DEF RowRecorded
  <2>6. \A a, b \in attempts'[m] : a.number = b.number => a = b
      BY <1>2, <1>4, <2>2 DEF RowRecorded
  <2> QED BY <1>4, <2>1, <2>3, <2>4, <2>5, <2>6 DEF RowRecorded
<1> QED BY <1>3, <1>4, RowSteps DEF RowStep

LEMMA EvidenceStep ==
  OutboxTypeOK /\ AttemptLedger /\ TerminalEvidence /\ [OutboxNext]_outboxVars
    => TerminalEvidence'
<1> DEFINE Supports(a, s, n) ==
      /\ a.outcome = "SUCCESS" <=> s = "SENT" /\ a.number = n
      /\ a.outcome = "PERMANENT_FAILURE" => s = "FAILED" /\ a.number = n
      /\ (s = "FAILED" /\ a.number = n) =>
           a.outcome = "PERMANENT_FAILURE" \/ n = MaxAttempts
<1> SUFFICES ASSUME OutboxTypeOK, AttemptLedger, TerminalEvidence, [OutboxNext]_outboxVars,
                    NEW m \in Message, NEW a \in attempts'[m]
             PROVE  Supports(a, status'[m], attemptCount'[m])
    BY DEF TerminalEvidence
<1>1. /\ attemptCount[m] \in 0..MaxAttempts
      /\ status[m] = "PROCESSING" => attemptCount[m] > 0
      /\ attempts[m] \in SUBSET Attempt
    BY DEF OutboxTypeOK
<1>2. \A b \in attempts[m] : Supports(b, status[m], attemptCount[m])
    BY DEF TerminalEvidence
<1>3. \A b \in attempts[m] : b.number \in Nat /\ b.number <= attemptCount[m]
    BY <1>1 DEF AttemptLedger
<1>4. CASE RowKept(m)
    BY <1>2, <1>4 DEF RowKept
<1>5. CASE RowQueued(m)
    BY <1>2, <1>5 DEF RowQueued
<1>6. CASE RowClaimed(m)
    BY <1>1, <1>2, <1>3, <1>6 DEF RowClaimed
<1>7. ASSUME NEW o \in Outcome, RowRecorded(m, o)
      PROVE  Supports(a, status'[m], attemptCount'[m])
  <2>1. attemptCount[m] \in 1..MaxAttempts
      BY <1>1, <1>7 DEF RowRecorded
  <2>2. CASE a = [number |-> attemptCount[m], outcome |-> o]
      BY <1>7, <2>1, <2>2, StatusAfterType DEF RowRecorded
  <2>3. CASE a \in attempts[m]
    <3>1. a.number # attemptCount[m]
        BY <1>7, <2>1, <2>3 DEF AttemptLedger, RowRecorded
    <3> QED BY <1>2, <1>7, <2>3, <3>1 DEF RowRecorded
  <2> QED BY <1>7, <2>2, <2>3 DEF RowRecorded
<1> QED BY <1>4, <1>5, <1>6, <1>7, RowSteps DEF RowStep

LEMMA OwnerStep == OutboxTypeOK /\ SingleOwner /\ [OutboxNext]_outboxVars => SingleOwner'
<1> SUFFICES ASSUME OutboxTypeOK, SingleOwner, [OutboxNext]_outboxVars PROVE SingleOwner'
    OBVIOUS
<1> USE DEF OutboxTypeOK
<1>1. ASSUME claim' = claim, \A m \in Message : attemptCount'[m] = attemptCount[m]
      PROVE  SingleOwner'
    BY <1>1 DEF SingleOwner, Holds
<1>2. ASSUME NEW w \in Worker, claim' = [claim EXCEPT ![w] = NoClaim], UNCHANGED attemptCount
      PROVE  SingleOwner'
    BY <1>2 DEF SingleOwner, Holds
<1>3. ASSUME NEW w \in Worker, NEW m \in Message, Claim(w, m) PROVE SingleOwner'
  <2>1. \A v \in Worker : v # w /\ claim[v] # NoClaim /\ claim[v].msg = m =>
                            claim[v].number < attemptCount[m] + 1
      BY DEF SingleOwner, Holds, Claims
  <2>2. /\ claim' = [claim EXCEPT ![w] = [msg |-> m, number |-> attemptCount[m] + 1]]
        /\ attemptCount' = [attemptCount EXCEPT ![m] = @ + 1]
      BY <1>3 DEF Claim
  <2>3. \A v \in Worker : v # w => claim'[v] = claim[v]
      BY <2>2
  <2>4. claim'[w] = [msg |-> m, number |-> attemptCount[m] + 1]
      BY <2>2
  <2>5. \A x \in Message : attemptCount'[x] = IF x = m THEN attemptCount[m] + 1 ELSE attemptCount[x]
      BY <2>2
  <2>6. \A v \in Worker : claim[v] # NoClaim => claim[v].number \in Nat
      BY DEF Claims
  <2>7. \A x \in Message : \A u, v \in Worker :
          Holds(u, x)' /\ Holds(v, x)' /\ u # v => claim'[u].number # claim'[v].number
      BY <2>1, <2>3, <2>4, <2>6 DEF SingleOwner, Holds
  <2>8. \A x \in Message : \A v \in Worker :
          Holds(v, x)' => claim'[v].number <= attemptCount'[x]
      BY <2>1, <2>3, <2>4, <2>5, <2>6 DEF SingleOwner, Holds
  <2> QED BY <2>7, <2>8 DEF SingleOwner
<1>4. ASSUME NEW m \in Message, Enqueue(m) \/ LeaseExpires(m) PROVE SingleOwner'
    BY <1>1, <1>4 DEF Enqueue, LeaseExpires, workerVars
<1>5. ASSUME NEW w \in Worker, Finalize(w) \/ RejectStaleFinalize(w) \/ Crash(w)
      PROVE  SingleOwner'
    BY <1>2, <1>5 DEF Finalize, RecordAttempt, RejectStaleFinalize, Crash, Release, rowVars
<1>6. ASSUME NEW w \in Worker, NEW m \in Message, RecoverAbandoned(w, m) PROVE SingleOwner'
    BY <1>1, <1>6 DEF RecoverAbandoned, RecordAttempt, workerVars
<1>7. ASSUME NEW w \in Worker, NEW o \in Outcome, Answer(w, o) PROVE SingleOwner'
    BY <1>1, <1>7 DEF Answer, rowVars
<1>8. ASSUME NEW batch \in SUBSET Message, RecoverExpiredClaims(batch) PROVE SingleOwner'
    BY <1>1, <1>8 DEF RecoverExpiredClaims, workerVars
<1>9. CASE UNCHANGED outboxVars
    BY <1>1, <1>9 DEF outboxVars
<1> QED BY <1>3, <1>4, <1>5, <1>6, <1>7, <1>8, <1>9 DEF OutboxNext

-----------------------------------------------------------------------------
(* The invariant the ledger, the evidence and the owners need of each other. *)
THEOREM InvHolds == OutboxSpec => []OutboxInv
<1>1. OutboxInv /\ [OutboxNext]_outboxVars => OutboxInv'
    BY TypeStep, LedgerStep, EvidenceStep, OwnerStep DEF OutboxInv
<1> QED BY InitInv, <1>1, PTL DEF OutboxSpec

(* For any number of workers and attempts, each finished attempt has exactly *)
(* one delivery_attempts row and the attempt in progress has none.           *)
THEOREM LedgerCorrect == OutboxSpec => []AttemptLedger
<1>1. OutboxInv => AttemptLedger
    BY DEF OutboxInv
<1> QED BY InvHolds, <1>1, PTL

(* The state of a message and the outcomes recorded for it always agree. *)
THEOREM EvidenceCorrect == OutboxSpec => []TerminalEvidence
<1>1. OutboxInv => TerminalEvidence
    BY DEF OutboxInv
<1> QED BY InvHolds, <1>1, PTL

(* No two processes hold the same attempt, and only the newest can finalize. *)
THEOREM OwnerCorrect == OutboxSpec => []SingleOwner
<1>1. OutboxInv => SingleOwner
    BY DEF OutboxInv
<1> QED BY InvHolds, <1>1, PTL

(* No step reopens a terminal message, drops evidence or moves the counter  *)
(* otherwise than by one at a claim.                                        *)
THEOREM HistoryCorrect == OutboxSpec => RowHistory
<1> DEFINE Kept ==
      \A m \in Message :
        /\ status[m] \in Terminal => status'[m] = status[m] /\ attempts'[m] = attempts[m]
        /\ attempts[m] \subseteq attempts'[m]
        /\ attemptCount'[m] # attemptCount[m] =>
             /\ attemptCount'[m] = attemptCount[m] + 1
             /\ status[m] = "PENDING" /\ status'[m] = "PROCESSING"
<1>1. OutboxTypeOK /\ [OutboxNext]_outboxVars => Kept
  <2> SUFFICES ASSUME OutboxTypeOK, [OutboxNext]_outboxVars, NEW m \in Message, RowStep(m)
               PROVE  /\ status[m] \in Terminal =>
                           status'[m] = status[m] /\ attempts'[m] = attempts[m]
                      /\ attempts[m] \subseteq attempts'[m]
                      /\ attemptCount'[m] # attemptCount[m] =>
                           /\ attemptCount'[m] = attemptCount[m] + 1
                           /\ status[m] = "PENDING" /\ status'[m] = "PROCESSING"
      BY RowSteps
  <2> QED BY DEF RowStep, RowKept, RowQueued, RowClaimed, RowRecorded, Terminal
<1> QED BY TypeCorrect, <1>1, PTL DEF OutboxSpec, RowHistory

(* Whoever moves a row - worker, dispatcher or sweep - moves it as           *)
(* OutboxStatus says, which the components that only read a status rely on.  *)
THEOREM ImplementsRows == OutboxSpec => RowsMoveInOrder
<1>1. OutboxInit => Rows!RowInit
    BY DEF OutboxInit, Rows!RowInit
<1>2. OutboxTypeOK /\ [OutboxNext]_outboxVars => [Rows!RowNext]_status
  <2> SUFFICES ASSUME OutboxTypeOK, [OutboxNext]_outboxVars PROVE Rows!RowNext
      OBVIOUS
  <2>1. status' \in [Message -> Rows!RowStatus]
      BY TypeStep DEF OutboxTypeOK, Terminal, Rows!RowStatus
  <2>2. ASSUME NEW m \in Message, status'[m] # status[m]
        PROVE  <<status[m], status'[m]>> \in Rows!RowMoves
    <3>1. CASE RowQueued(m) \/ RowClaimed(m)
        BY <3>1 DEF RowQueued, RowClaimed, Rows!RowMoves
    <3>2. ASSUME NEW o \in Outcome, RowRecorded(m, o)
          PROVE  <<status[m], status'[m]>> \in Rows!RowMoves
      <4>1. attemptCount[m] \in 1..MaxAttempts
          BY <3>2 DEF RowRecorded, OutboxTypeOK
      <4>2. status'[m] \in {"PENDING", "SENT", "FAILED"}
          BY <3>2, <4>1, StatusAfterType DEF RowRecorded
      <4> QED BY <3>2, <4>2 DEF RowRecorded, Rows!RowMoves
    <3>3. ~RowKept(m)
        BY <2>2 DEF RowKept
    <3> QED BY <3>1, <3>2, <3>3, RowSteps DEF RowStep
  <2> QED BY <2>1, <2>2 DEF Rows!RowNext
<1> QED BY TypeCorrect, <1>1, <1>2, PTL DEF OutboxSpec, RowsMoveInOrder, Rows!RowSpec

=============================================================================

--------------------------- MODULE DeliveryProofs ---------------------------
(***************************************************************************)
(* Theorems about Delivery.  Every step of it is a step of Outbox or leaves *)
(* the outbox alone, so what OutboxProofs shows holds here.  That a SENT    *)
(* message has its record follows the answer back to the sandbox: a success *)
(* a worker reads or holds was sent by a sandbox that had the record, and   *)
(* records are never removed.                                               *)
(***************************************************************************)
EXTENDS Delivery, OutboxProofs

USE DeliveryAssumption

LEMMA DeliveryStepIsOutboxStep == [Next]_deliveryVars => [OutboxNext]_outboxVars
<1> SUFFICES ASSUME [Next]_deliveryVars PROVE [OutboxNext]_outboxVars
    OBVIOUS
<1>1. CASE OutboxOnly
    BY <1>1 DEF OutboxOnly, OutboxNext
<1>2. ASSUME NEW w \in Worker, NEW m \in Message, NEW test \in Desk!TestOutcome,
             ClaimAndSend(w, m, test)
      PROVE  OutboxNext
    BY <1>2 DEF ClaimAndSend, OutboxNext
<1>3. ASSUME NEW r \in net, Arrive(r) \/ FailToHandle(r) PROVE UNCHANGED outboxVars
    BY <1>3 DEF Arrive, FailToHandle
<1>4. ASSUME NEW m \in Message, NEW p \in Payload, OtherClientPosts(m, p)
      PROVE  UNCHANGED outboxVars
    BY <1>4 DEF OtherClientPosts
<1>5. ASSUME NEW w \in Worker, ReceiveAnswer(w) PROVE OutboxNext
  <2>1. Classify(reply[w]) \in Outcome
      BY DEF Classify, Outcome
  <2> QED BY <1>5, <2>1 DEF ReceiveAnswer, OutboxNext
<1>6. ASSUME NEW w \in Worker, TransportError(w) PROVE OutboxNext
    BY <1>6 DEF TransportError, OutboxNext, Outcome
<1>7. ASSUME NEW w \in Worker, WorkerDies(w) PROVE OutboxNext
    BY <1>7 DEF WorkerDies, OutboxNext
<1>8. CASE UNCHANGED deliveryVars
    BY <1>8 DEF deliveryVars
<1> QED BY <1>1, <1>2, <1>3, <1>4, <1>5, <1>6, <1>7, <1>8 DEF Next

(* The delivery workers are workers of Outbox: what holds of the outbox for  *)
(* any destination holds of it with the sandbox.                             *)
THEOREM ImplementsOutbox == Spec => OutboxSpec
<1>1. Init => OutboxInit
    BY DEF Init
<1> QED BY <1>1, DeliveryStepIsOutboxStep, PTL DEF Spec, OutboxSpec

-----------------------------------------------------------------------------
(* A call of the sandbox removes no record, and one that answers 200 or 201  *)
(* leaves a record of its own body under its key.                            *)
LEMMA DeskCall ==
  ASSUME NEW k, NEW p, NEW test, NEW http,
         Desk!CreateOrReplayRecord(k, p, test, http)
  PROVE  /\ records \subseteq records'
         /\ http \in {200, 201} => \E r \in records' : r.key = k /\ r.payload = p
<1>1. CASE Desk!ReplayOrConflict(k, p, http)
  <2>1. PICK r \in records : r.key = k /\ (r.payload = p \/ http = 409)
      BY <1>1 DEF Desk!ReplayOrConflict, Desk!RecordsOf
  <2>2. records' = records
      BY <1>1 DEF Desk!ReplayOrConflict
  <2>3. CASE r.payload = p
      BY <2>1, <2>2, <2>3
  <2>4. CASE http = 409
    <3>1. http \notin {200, 201}
        BY <2>4
    <3> QED BY <2>2, <3>1
  <2> QED BY <2>1, <2>3, <2>4
<1>2. CASE Desk!ConflictAfterFailure(k, p, http)
    BY <1>2 DEF Desk!ConflictAfterFailure
<1>3. CASE Desk!RefusePermanently(k, p, test, http)
    BY <1>3 DEF Desk!RefusePermanently
<1>4. CASE Desk!FailOnce(k, p, test, http)
    BY <1>4 DEF Desk!FailOnce
<1>5. CASE Desk!CreateRecord(k, p, test, http)
  <2> DEFINE new == [key |-> k, payload |-> p, reference |-> Desk!Cardinality(records) + 1]
  <2>1. records' = records \cup {new}
      BY <1>5 DEF Desk!CreateRecord
  <2>2. new.key = k /\ new.payload = p
      OBVIOUS
  <2> HIDE DEF new
  <2> QED BY <2>1, <2>2
<1> QED BY <1>1, <1>2, <1>3, <1>4, <1>5 DEF Desk!CreateOrReplayRecord

(* Records are only added, so a message that has its record keeps it. *)
LEMMA RecordKept ==
  ASSUME NEW m, records \subseteq records', OwnRecords(m) # {}
  PROVE  OwnRecords(m)' # {}
BY DEF OwnRecords

(* A success that is on its way to the outbox has its record already. *)
Success(w) ==
  \/ reply[w] \in {200, 201}
  \/ step[w] = "answered" /\ outcome[w] = "SUCCESS"

SuccessInv ==
  /\ \A w \in Worker : reply[w] # NoReply => step[w] = "calling"
  /\ \A w \in Worker : Success(w) => OwnRecords(claim[w].msg) # {}
  /\ SentHasRecord

LEMMA NoReplyIsNoStatus == NoReply \notin {200, 201, 500}
BY DEF Desk!HttpStatus

LEMMA SuccessInit == Init => SuccessInv
BY NoReplyIsNoStatus DEF Init, OutboxInit, SuccessInv, SentHasRecord, Success

(* No step of a process that leaves the outbox rows alone disturbs SENT.     *)
LEMMA SentKept ==
  ASSUME SentHasRecord, records \subseteq records', status' = status
  PROVE  SentHasRecord'
<1> SUFFICES ASSUME NEW m \in Message, status'[m] = "SENT" PROVE OwnRecords(m)' # {}
    BY DEF SentHasRecord
<1>1. OwnRecords(m) # {}
    BY DEF SentHasRecord
<1> QED BY <1>1, RecordKept

(* The workers a step leaves alone keep what they know. *)
LEMMA WorkerKept ==
  ASSUME NEW v \in Worker, SuccessInv, records \subseteq records',
         step'[v] = step[v], claim'[v] = claim[v], outcome'[v] = outcome[v],
         reply'[v] = reply[v]
  PROVE  /\ reply'[v] # NoReply => step'[v] = "calling"
         /\ Success(v)' => OwnRecords(claim[v].msg)' # {}
<1>1. reply'[v] # NoReply => step'[v] = "calling"
    BY DEF SuccessInv
<1>2. Success(v)' = Success(v)
    BY DEF Success
<1>3. ASSUME Success(v) PROVE OwnRecords(claim[v].msg)' # {}
  <2>1. OwnRecords(claim[v].msg) # {}
      BY <1>3 DEF SuccessInv
  <2>2. \A r \in OwnRecords(claim[v].msg) :
          r \in records' /\ r.key = claim'[v].msg /\ r.payload = PayloadOf[claim'[v].msg]
      BY DEF OwnRecords
  <2> QED BY <2>1, <2>2 DEF OwnRecords
<1> QED BY <1>1, <1>2, <1>3

(* One worker moves, to a state in which it knows of no success. *)
LEMMA WorkerForgets ==
  ASSUME SuccessInv, records' = records, status' = status, NEW w \in Worker,
         \A v \in Worker \ {w} : /\ step'[v] = step[v] /\ claim'[v] = claim[v]
                                 /\ outcome'[v] = outcome[v] /\ reply'[v] = reply[v],
         reply'[w] = NoReply,
         ~ Success(w)'
  PROVE  SuccessInv'
<1>1. SentHasRecord'
    BY SentKept DEF SuccessInv
<1>2. \A v \in Worker \ {w} : /\ reply'[v] # NoReply => step'[v] = "calling"
                              /\ Success(v)' => OwnRecords(claim[v].msg)' # {}
    BY WorkerKept
<1> QED BY <1>1, <1>2 DEF SuccessInv

ReplyTypeOK == reply \in [Worker -> Desk!HttpStatus \cup {500, NoReply}]

LEMMA ReplyTypeStep == ReplyTypeOK /\ [Next]_deliveryVars => ReplyTypeOK'
<1> SUFFICES ASSUME ReplyTypeOK, [Next]_deliveryVars PROVE ReplyTypeOK'
    OBVIOUS
<1> USE DEF ReplyTypeOK
<1>1. CASE OutboxOnly \/ UNCHANGED deliveryVars
    BY <1>1 DEF OutboxOnly, remoteVars, deliveryVars
<1>2. ASSUME NEW w \in Worker, NEW m \in Message, NEW test \in Desk!TestOutcome,
             ClaimAndSend(w, m, test)
      PROVE  ReplyTypeOK'
    BY <1>2 DEF ClaimAndSend
<1>3. ASSUME NEW r \in net, Arrive(r) \/ FailToHandle(r) PROVE ReplyTypeOK'
    BY <1>3 DEF Arrive, FailToHandle
<1>4. ASSUME NEW m \in Message, NEW p \in Payload, OtherClientPosts(m, p) PROVE ReplyTypeOK'
    BY <1>4 DEF OtherClientPosts
<1>5. ASSUME NEW w \in Worker, ReceiveAnswer(w) \/ TransportError(w) \/ WorkerDies(w)
      PROVE  ReplyTypeOK'
    BY <1>5 DEF ReceiveAnswer, TransportError, WorkerDies
<1> QED BY <1>1, <1>2, <1>3, <1>4, <1>5 DEF Next

LEMMA SuccessStep ==
  OutboxTypeOK /\ ReplyTypeOK /\ SuccessInv /\ [Next]_deliveryVars => SuccessInv'
<1> SUFFICES ASSUME OutboxTypeOK, ReplyTypeOK, SuccessInv, [Next]_deliveryVars
             PROVE  SuccessInv'
    OBVIOUS
<1> USE NoReplyIsNoStatus
<1>1. ASSUME UNCHANGED <<workerVars, records, reply>>,
             \A m \in Message : status'[m] = "SENT" => status[m] = "SENT"
      PROVE  SuccessInv'
  <2>1. SentHasRecord'
    <3> SUFFICES ASSUME NEW m \in Message, status'[m] = "SENT" PROVE OwnRecords(m)' # {}
        BY DEF SentHasRecord
    <3>1. OwnRecords(m) # {}
        BY <1>1 DEF SuccessInv, SentHasRecord
    <3> QED BY <1>1, <3>1, RecordKept
  <2>2. \A v \in Worker : /\ reply'[v] # NoReply => step'[v] = "calling"
                          /\ Success(v)' => OwnRecords(claim[v].msg)' # {}
      BY <1>1, WorkerKept DEF workerVars
  <2> QED BY <2>1, <2>2 DEF SuccessInv
<1>2. ASSUME NEW m \in Message, Enqueue(m) \/ LeaseExpires(m), UNCHANGED remoteVars
      PROVE  SuccessInv'
    BY <1>1, <1>2 DEF Enqueue, LeaseExpires, remoteVars, OutboxTypeOK
<1>3. ASSUME NEW batch \in SUBSET Message, RecoverExpiredClaims(batch), UNCHANGED remoteVars
      PROVE  SuccessInv'
  <2>1. \A m \in batch : StatusAfter("TRANSIENT_FAILURE", attemptCount[m]) # "SENT"
      BY DEF StatusAfter
  <2> QED BY <1>1, <1>3, <2>1 DEF RecoverExpiredClaims, SweepRows, remoteVars
<1>4. ASSUME NEW w \in Worker, RejectStaleFinalize(w) \/ Crash(w),
             UNCHANGED records, reply'[w] = NoReply,
             \A v \in Worker \ {w} : reply'[v] = reply[v]
      PROVE  SuccessInv'
  <2>1. /\ status' = status /\ step' = [step EXCEPT ![w] = "idle"]
        /\ claim' = [claim EXCEPT ![w] = NoClaim]
        /\ outcome' = [outcome EXCEPT ![w] = "TRANSIENT_FAILURE"]
      BY <1>4 DEF RejectStaleFinalize, Crash, Release, rowVars
  <2>2. step'[w] = "idle"
      BY <2>1 DEF OutboxTypeOK
  <2>3. ~ Success(w)'
      BY <1>4, <2>2 DEF Success
  <2>4. \A v \in Worker \ {w} : /\ step'[v] = step[v] /\ claim'[v] = claim[v]
                                /\ outcome'[v] = outcome[v] /\ reply'[v] = reply[v]
      BY <1>4, <2>1
  <2> QED BY <1>4, <2>1, <2>3, <2>4, WorkerForgets
<1>5. ASSUME NEW w \in Worker, RejectStaleFinalize(w), UNCHANGED remoteVars PROVE SuccessInv'
  <2>1. reply[w] = NoReply
      BY <1>5 DEF RejectStaleFinalize, SuccessInv
  <2> QED BY <1>4, <1>5, <2>1 DEF remoteVars
<1>6. ASSUME NEW w \in Worker, Finalize(w), UNCHANGED remoteVars PROVE SuccessInv'
  <2>1. claim[w] \in Claims /\ reply[w] = NoReply /\ step[w] = "answered"
      BY <1>6 DEF Finalize, SuccessInv, OutboxTypeOK
  <2>2. /\ claim[w].msg \in Message
        /\ status' = [status EXCEPT ![claim[w].msg] = StatusAfter(outcome[w], claim[w].number)]
        /\ step' = [step EXCEPT ![w] = "idle"]
        /\ claim' = [claim EXCEPT ![w] = NoClaim]
        /\ outcome' = [outcome EXCEPT ![w] = "TRANSIENT_FAILURE"]
        /\ reply' = reply /\ records' = records
      BY <1>6, <2>1 DEF Finalize, RecordAttempt, Release, remoteVars, Claims
  <2>3. StatusAfter(outcome[w], claim[w].number) = "SENT" => outcome[w] = "SUCCESS"
      BY DEF StatusAfter
  <2>4. SentHasRecord'
    <3> SUFFICES ASSUME NEW m \in Message, status'[m] = "SENT" PROVE OwnRecords(m)' # {}
        BY DEF SentHasRecord
    <3>1. CASE m = claim[w].msg
      <4>1. outcome[w] = "SUCCESS"
          BY <2>2, <2>3, <3>1 DEF OutboxTypeOK
      <4>2. OwnRecords(m) # {}
          BY <2>1, <3>1, <4>1 DEF SuccessInv, Success
      <4> QED BY <2>2, <4>2, RecordKept
    <3>2. CASE m # claim[w].msg
      <4>1. OwnRecords(m) # {}
          BY <2>2, <3>2 DEF SuccessInv, SentHasRecord, OutboxTypeOK
      <4> QED BY <2>2, <4>1, RecordKept
    <3> QED BY <3>1, <3>2
  <2>5. step'[w] = "idle" /\ reply'[w] = NoReply
      BY <2>1, <2>2 DEF OutboxTypeOK
  <2>6. ~ Success(w)'
      BY <2>5 DEF Success
  <2>7. \A v \in Worker \ {w} : /\ reply'[v] # NoReply => step'[v] = "calling"
                                /\ Success(v)' => OwnRecords(claim[v].msg)' # {}
      BY <2>2, WorkerKept
  <2> QED BY <2>4, <2>5, <2>6, <2>7 DEF SuccessInv
<1>7. ASSUME NEW w \in Worker, NEW m \in Message, NEW test \in Desk!TestOutcome,
             ClaimAndSend(w, m, test)
      PROVE  SuccessInv'
  <2>1. /\ status' = [status EXCEPT ![m] = "PROCESSING"] /\ records' = records
        /\ step' = [step EXCEPT ![w] = "calling"]
        /\ claim' = [claim EXCEPT ![w] = [msg |-> m, number |-> attemptCount[m] + 1]]
        /\ outcome' = outcome /\ reply' = [reply EXCEPT ![w] = NoReply]
      BY <1>7 DEF ClaimAndSend, Claim
  <2>2. step'[w] = "calling"
      BY <2>1 DEF OutboxTypeOK
  <2>4. reply'[w] = NoReply
      BY <2>1 DEF ReplyTypeOK
  <2>5. ~ Success(w)'
      BY <2>2, <2>4 DEF Success
  <2>6. \A v \in Worker \ {w} : /\ step'[v] = step[v] /\ claim'[v] = claim[v]
                                /\ outcome'[v] = outcome[v] /\ reply'[v] = reply[v]
      BY <2>1
  <2>7. SentHasRecord'
    <3> SUFFICES ASSUME NEW n \in Message, status'[n] = "SENT" PROVE OwnRecords(n)' # {}
        BY DEF SentHasRecord
    <3>1. status[n] = "SENT"
        BY <2>1 DEF OutboxTypeOK
    <3> QED BY <2>1, <3>1, RecordKept DEF SuccessInv, SentHasRecord
  <2>8. \A v \in Worker \ {w} : /\ reply'[v] # NoReply => step'[v] = "calling"
                                /\ Success(v)' => OwnRecords(claim[v].msg)' # {}
      BY <2>1, <2>6, WorkerKept
  <2> QED BY <2>4, <2>5, <2>7, <2>8 DEF SuccessInv
<1>8. ASSUME NEW w \in Worker, WorkerDies(w) PROVE SuccessInv'
  <2>1. reply'[w] = NoReply /\ \A v \in Worker \ {w} : reply'[v] = reply[v]
      BY <1>8 DEF WorkerDies, ReplyTypeOK
  <2> QED BY <1>4, <1>8, <2>1 DEF WorkerDies
<1>9. ASSUME NEW w \in Worker, NEW o \in Outcome, Answer(w, o),
             o = "SUCCESS" => OwnRecords(claim[w].msg) # {},
             UNCHANGED records, reply' = [reply EXCEPT ![w] = NoReply]
      PROVE  SuccessInv'
  <2>1. /\ status' = status /\ claim' = claim
        /\ step' = [step EXCEPT ![w] = "answered"]
        /\ outcome' = [outcome EXCEPT ![w] = o]
      BY <1>9 DEF Answer, rowVars
  <2>2. outcome'[w] = o /\ reply'[w] = NoReply
      BY <1>9, <2>1 DEF OutboxTypeOK, ReplyTypeOK
  <2>3. Success(w)' => OwnRecords(claim[w].msg)' # {}
      BY <1>9, <2>1, <2>2 DEF Success, OwnRecords
  <2>4. \A v \in Worker \ {w} : /\ step'[v] = step[v] /\ claim'[v] = claim[v]
                                /\ outcome'[v] = outcome[v] /\ reply'[v] = reply[v]
      BY <1>9, <2>1
  <2>5. \A v \in Worker \ {w} : /\ reply'[v] # NoReply => step'[v] = "calling"
                                /\ Success(v)' => OwnRecords(claim[v].msg)' # {}
      BY <1>9, <2>4, WorkerKept
  <2>6. SentHasRecord'
      BY <1>9, <2>1, SentKept DEF SuccessInv
  <2> QED BY <2>2, <2>3, <2>5, <2>6 DEF SuccessInv
<1>10. ASSUME NEW w \in Worker, ReceiveAnswer(w) PROVE SuccessInv'
  <2>1. Classify(reply[w]) \in Outcome
      BY DEF Classify, Outcome
  <2>2. Classify(reply[w]) = "SUCCESS" => reply[w] \in {200, 201}
      BY DEF Classify
  <2>3. Classify(reply[w]) = "SUCCESS" => OwnRecords(claim[w].msg) # {}
      BY <2>2 DEF SuccessInv, Success
  <2> QED BY <1>9, <1>10, <2>1, <2>3 DEF ReceiveAnswer
<1>11. ASSUME NEW w \in Worker, TransportError(w) PROVE SuccessInv'
    BY <1>9, <1>11 DEF TransportError, Outcome
<1>12. ASSUME NEW r, NEW http,
              UNCHANGED outboxVars, records \subseteq records',
              reply' = [v \in Worker |-> IF Waits(v, r) THEN http ELSE reply[v]],
              http \in {200, 201} => OwnRecords(r.msg)' # {}
       PROVE  SuccessInv'
  <2>1. SentHasRecord'
      BY <1>12, SentKept DEF SuccessInv, outboxVars
  <2>2. ASSUME NEW v \in Worker, Waits(v, r)
        PROVE  /\ reply'[v] # NoReply => step'[v] = "calling"
               /\ Success(v)' => OwnRecords(claim[v].msg)' # {}
    <3>1. reply'[v] = http /\ claim[v].msg = r.msg /\ step[v] = "calling"
        BY <1>12, <2>2 DEF Waits
    <3>2. OwnRecords(claim[v].msg)' = OwnRecords(r.msg)'
        BY <1>12, <3>1 DEF OwnRecords, outboxVars
    <3> QED BY <1>12, <3>1, <3>2 DEF Success, outboxVars
  <2>3. ASSUME NEW v \in Worker, ~ Waits(v, r)
        PROVE  /\ reply'[v] # NoReply => step'[v] = "calling"
               /\ Success(v)' => OwnRecords(claim[v].msg)' # {}
      BY <1>12, <2>3, WorkerKept DEF outboxVars
  <2> QED BY <2>1, <2>2, <2>3 DEF SuccessInv
<1>13. ASSUME NEW r \in net, Arrive(r) PROVE SuccessInv'
  <2>1. PICK http \in Desk!HttpStatus :
          /\ Desk!CreateOrReplayRecord(r.msg, PayloadOf[r.msg], r.test, http)
          /\ reply' = [w \in Worker |-> IF Waits(w, r) THEN http ELSE reply[w]]
      BY <1>13 DEF Arrive
  <2>2. /\ records \subseteq records'
        /\ http \in {200, 201} =>
             \E x \in records' : x.key = r.msg /\ x.payload = PayloadOf[r.msg]
      BY <2>1, DeskCall
  <2>3. http \in {200, 201} => OwnRecords(r.msg)' # {}
      BY <2>2 DEF OwnRecords
  <2> QED BY <1>12, <1>13, <2>1, <2>2, <2>3 DEF Arrive
<1>14. ASSUME NEW r \in net, FailToHandle(r) PROVE SuccessInv'
  <2>1. /\ UNCHANGED outboxVars /\ records \subseteq records'
        /\ reply' = [v \in Worker |-> IF Waits(v, r) THEN 500 ELSE reply[v]]
      BY <1>14 DEF FailToHandle
  <2>2. 500 \notin {200, 201}
      OBVIOUS
  <2> QED BY <1>12, <2>1, <2>2
<1>15. ASSUME NEW m \in Message, NEW p \in Payload, OtherClientPosts(m, p) PROVE SuccessInv'
  <2>1. records \subseteq records'
      BY <1>15, DeskCall DEF OtherClientPosts
  <2>2. SentHasRecord'
      BY <1>15, <2>1, SentKept DEF OtherClientPosts, SuccessInv, outboxVars
  <2>3. \A v \in Worker : /\ reply'[v] # NoReply => step'[v] = "calling"
                          /\ Success(v)' => OwnRecords(claim[v].msg)' # {}
      BY <1>15, <2>1, WorkerKept DEF OtherClientPosts, outboxVars
  <2> QED BY <2>2, <2>3 DEF SuccessInv
<1>16. CASE UNCHANGED deliveryVars
    BY <1>1, <1>16 DEF deliveryVars, outboxVars, workerVars
<1> QED BY <1>2, <1>3, <1>5, <1>6, <1>7, <1>8, <1>10, <1>11, <1>13, <1>14, <1>15, <1>16
    DEF Next, OutboxOnly

(* A message reported SENT was recorded by the sandbox with the body the    *)
(* outbox holds, for any number of messages, workers and attempts.          *)
THEOREM SentCorrect == Spec => []SentHasRecord
<1>1. Init => ReplyTypeOK
    BY DEF Init, ReplyTypeOK
<1>2. SuccessInv => SentHasRecord
    BY DEF SuccessInv
<1> QED BY <1>1, <1>2, SuccessInit, SuccessStep, ReplyTypeStep, ImplementsOutbox,
           TypeCorrect, PTL DEF Spec

=============================================================================

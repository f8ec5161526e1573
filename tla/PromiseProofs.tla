---------------------------- MODULE PromiseProofs ----------------------------
(***************************************************************************)
(* Theorems about Delivery that need the sandbox's side of a message: its  *)
(* log of events by key and its records.  The first event of a key fixes   *)
(* the body the key stands for; from there a record, a refusal and a       *)
(* conflict exclude each other.  With one record per key, and a request    *)
(* only for a message that was submitted, Delivery implements              *)
(* DeliveryPromise, on which ActionRoute rests.                            *)
(***************************************************************************)
EXTENDS DeliveryProofs, FiniteSetTheorems, SequenceTheorems

DeskTyped ==
  /\ records \subseteq Desk!Record
  /\ IsFiniteSet(records)
  /\ events \in [Message -> Seq(Desk!Event)]

(* What the records and the events of a key say of each other. *)
KeyInv(m) ==
  /\ \A r \in records : r.key = m => events[m] # <<>> /\ r.payload = events[m][1].payload
  /\ \A i \in DOMAIN events[m] :
       /\ events[m][i].type = "PERMANENT_FAILURE" =>
            /\ events[m][i].payload = events[m][1].payload
            /\ \A r \in records : r.key # m
       /\ events[m][i].type = "IDEMPOTENCY_CONFLICT" =>
            events[m][i].payload # events[m][1].payload

DeskInv == DeskTyped /\ OneRecordPerKey /\ \A m \in Message : KeyInv(m)

-----------------------------------------------------------------------------

LEMMA SameCardinality == ASSUME NEW S PROVE Desk!Cardinality(S) = Cardinality(S)
BY DEF Desk!Cardinality, Cardinality

(* An event is added at the end of the log of its key, and nowhere else.    *)
LEMMA LogAdds ==
  ASSUME DeskTyped, NEW k \in Message, NEW p \in Payload, NEW type \in Desk!EventType,
         Desk!Log(k, p, type)
  PROVE  LET n == Len(events[k]) IN
         /\ events' \in [Message -> Seq(Desk!Event)]
         /\ \A m \in Message \ {k} : events'[m] = events[m]
         /\ n \in Nat /\ DOMAIN events[k] = 1..n /\ DOMAIN events'[k] = 1..(n + 1)
         /\ \A i \in 1..n : events'[k][i] = events[k][i]
         /\ events'[k][n + 1] = [type |-> type, payload |-> p]
         /\ events'[k] # <<>>
         /\ events[k] = <<>> <=> n = 0
<1> DEFINE e == [type |-> type, payload |-> p]
           n == Len(events[k])
<1>1. e \in Desk!Event
  BY DEF Desk!Event
<1>2. events[k] \in Seq(Desk!Event)
  BY DEF DeskTyped
<1>3. events' = [events EXCEPT ![k] = Append(events[k], e)]
  BY DEF Desk!Log
<1> HIDE DEF e
<1>4. events'[k] = Append(events[k], e)
  BY <1>3 DEF DeskTyped
<1>5. /\ Append(events[k], e) \in Seq(Desk!Event)
      /\ n \in Nat /\ DOMAIN events[k] = 1..n
      /\ Len(Append(events[k], e)) = n + 1
      /\ \A i \in 1..n : Append(events[k], e)[i] = events[k][i]
      /\ Append(events[k], e)[n + 1] = e
      /\ DOMAIN Append(events[k], e) = 1..(n + 1)
      /\ Append(events[k], e) # <<>>
      /\ events[k] = <<>> <=> n = 0
  BY <1>1, <1>2
<1>6. events' \in [Message -> Seq(Desk!Event)]
  BY <1>3, <1>5 DEF DeskTyped
<1>7. \A m \in Message \ {k} : events'[m] = events[m]
  BY <1>3 DEF DeskTyped
<1> QED
  BY <1>4, <1>5, <1>6, <1>7 DEF e

(* Events that leave the records alone keep the invariant if what they say  *)
(* of their body is true.                                                   *)
LEMMA EventKeepsInv ==
  ASSUME DeskInv, NEW k \in Message, NEW p \in Payload, NEW type \in Desk!EventType,
         Desk!Log(k, p, type), UNCHANGED records,
         type = "PERMANENT_FAILURE" =>
           /\ \A r \in records : r.key # k
           /\ events[k] = <<>> \/ p = events[k][1].payload,
         type = "IDEMPOTENCY_CONFLICT" => events[k] # <<>> /\ p # events[k][1].payload
  PROVE  DeskInv'
<1> DEFINE n == Len(events[k])
<1>1. /\ events' \in [Message -> Seq(Desk!Event)]
      /\ \A m \in Message \ {k} : events'[m] = events[m]
      /\ n \in Nat /\ DOMAIN events[k] = 1..n /\ DOMAIN events'[k] = 1..(n + 1)
      /\ \A i \in 1..n : events'[k][i] = events[k][i]
      /\ events'[k][n + 1] = [type |-> type, payload |-> p]
      /\ events'[k] # <<>>
      /\ events[k] = <<>> <=> n = 0
  BY LogAdds DEF DeskInv
<1> HIDE DEF n
<1>2. DeskTyped' /\ OneRecordPerKey'
  BY <1>1 DEF DeskInv, DeskTyped, OneRecordPerKey
<1>3. KeyInv(k)'
  <2>1. KeyInv(k)
    BY DEF DeskInv
  <2>2. CASE n = 0
    <3>1. DOMAIN events'[k] = {1} /\ events'[k][1] = [type |-> type, payload |-> p]
      BY <1>1, <2>2
    <3>2. \A r \in records : r.key # k
      BY <1>1, <2>1, <2>2 DEF KeyInv
    <3>3. type # "IDEMPOTENCY_CONFLICT"
      BY <1>1, <2>2
    <3> QED
      BY <3>1, <3>2, <3>3 DEF KeyInv
  <2>3. CASE n # 0
    <3>1. 1 \in 1..n /\ events'[k][1] = events[k][1] /\ events[k] # <<>>
      BY <1>1, <2>3
    <3>2. \A r \in records' : r.key = k =>
            events'[k] # <<>> /\ r.payload = events'[k][1].payload
      BY <1>1, <2>1, <3>1 DEF KeyInv
    <3>3. ASSUME NEW i \in 1..n
          PROVE  /\ events'[k][i].type = "PERMANENT_FAILURE" =>
                      /\ events'[k][i].payload = events'[k][1].payload
                      /\ \A r \in records' : r.key # k
                 /\ events'[k][i].type = "IDEMPOTENCY_CONFLICT" =>
                      events'[k][i].payload # events'[k][1].payload
      BY <1>1, <2>1, <3>1, <3>3 DEF KeyInv
    <3>4. /\ events'[k][n + 1].type = "PERMANENT_FAILURE" =>
               /\ events'[k][n + 1].payload = events'[k][1].payload
               /\ \A r \in records' : r.key # k
          /\ events'[k][n + 1].type = "IDEMPOTENCY_CONFLICT" =>
               events'[k][n + 1].payload # events'[k][1].payload
      BY <1>1, <3>1
    <3>5. \A i \in DOMAIN events'[k] : i \in 1..n \/ i = n + 1
      BY <1>1
    <3> QED
      BY <3>2, <3>3, <3>4, <3>5 DEF KeyInv
  <2> QED
    BY <2>2, <2>3
<1>4. ASSUME NEW m \in Message \ {k} PROVE KeyInv(m)'
  <2>1. KeyInv(m) /\ events'[m] = events[m] /\ records' = records
    BY <1>1 DEF DeskInv
  <2> QED
    BY <2>1 DEF KeyInv
<1> QED
  BY <1>2, <1>3, <1>4 DEF DeskInv

(* A record is created for a key that has none, whose body was not refused. *)
LEMMA CreateKeepsInv ==
  ASSUME DeskInv, NEW k \in Message, NEW p \in Payload, NEW test, NEW http,
         Desk!CreateRecord(k, p, test, http)
  PROVE  DeskInv'
<1> DEFINE n == Len(events[k])
           new == [key |-> k, payload |-> p, reference |-> Desk!Cardinality(records) + 1]
<1>1. /\ Desk!Log(k, p, "RECORD_CREATED")
      /\ records' = records \cup {new}
      /\ \A r \in records : r.key # k
      /\ events[k] = <<>> \/ events[k][1].payload = p
      /\ \A i \in DOMAIN events[k] : events[k][i] # [type |-> "PERMANENT_FAILURE", payload |-> p]
  BY DEF Desk!CreateRecord, Desk!NewForKey, Desk!HasRecord, Desk!RecordsOf,
     Desk!FirstPayloadDiffers, Desk!PermanentlyRefused, Desk!Logged
<1>2. /\ events' \in [Message -> Seq(Desk!Event)]
      /\ \A m \in Message \ {k} : events'[m] = events[m]
      /\ n \in Nat /\ DOMAIN events[k] = 1..n /\ DOMAIN events'[k] = 1..(n + 1)
      /\ \A i \in 1..n : events'[k][i] = events[k][i]
      /\ events'[k][n + 1] = [type |-> "RECORD_CREATED", payload |-> p]
      /\ events'[k] # <<>>
      /\ events[k] = <<>> <=> n = 0
  <2>1. "RECORD_CREATED" \in Desk!EventType
    BY DEF Desk!EventType
  <2> QED
    BY <1>1, <2>1, LogAdds DEF DeskInv
<1>3. new \in Desk!Record
  <2>1. Cardinality(records) \in Nat
    BY FS_CardinalityType DEF DeskInv, DeskTyped
  <2> QED
    BY <2>1, SameCardinality DEF Desk!Record
<1>4. new.key = k /\ new.payload = p
  OBVIOUS
<1> HIDE DEF n, new
<1>5. IsFiniteSet(records')
  BY <1>1, FS_AddElement DEF DeskInv, DeskTyped
<1>6. DeskTyped'
  BY <1>1, <1>2, <1>3, <1>5 DEF DeskInv, DeskTyped
<1>7. OneRecordPerKey'
  BY <1>1, <1>4 DEF DeskInv, OneRecordPerKey
<1>8. KeyInv(k)'
  <2>1. KeyInv(k) /\ events[k] \in Seq(Desk!Event)
    BY DEF DeskInv, DeskTyped
  <2>2. events'[k][1].payload = p
    <3>1. CASE n = 0
      BY <1>2, <3>1
    <3>2. CASE n # 0
      BY <1>1, <1>2, <3>2
    <3> QED
      BY <3>1, <3>2
  <2>3. ASSUME NEW i \in 1..n
        PROVE  /\ events'[k][i].type # "PERMANENT_FAILURE"
               /\ events'[k][i].type = "IDEMPOTENCY_CONFLICT" => events'[k][i].payload # p
    <3>1. events[k] # <<>> /\ events[k][1].payload = p /\ events'[k][i] = events[k][i]
      BY <1>1, <1>2, <2>3
    <3>2. events[k][i] \in Desk!Event
      BY <1>2, <2>1, <2>3
    <3>3. events[k][i].type = "PERMANENT_FAILURE" =>
            events[k][i] = [type |-> "PERMANENT_FAILURE", payload |-> p]
      BY <1>2, <2>1, <2>3, <3>1, <3>2 DEF KeyInv, Desk!Event
    <3>4. i \in DOMAIN events[k]
      BY <1>2
    <3> QED
      BY <1>1, <2>1, <3>1, <3>3, <3>4 DEF KeyInv
  <2>4. \A r \in records' : r.key = k => r.payload = p
    BY <1>1, <1>4
  <2>5. \A i \in DOMAIN events'[k] : i \in 1..n \/ i = n + 1
    BY <1>2
  <2> QED
    BY <1>2, <2>2, <2>3, <2>4, <2>5 DEF KeyInv
<1>9. ASSUME NEW m \in Message \ {k} PROVE KeyInv(m)'
  <2>1. KeyInv(m) /\ events'[m] = events[m]
    BY <1>2 DEF DeskInv
  <2>2. \A r \in records' : r.key = m => r \in records
    BY <1>1, <1>4
  <2> QED
    BY <2>1, <2>2 DEF KeyInv
<1> QED
  BY <1>6, <1>7, <1>8, <1>9 DEF DeskInv

------------------------------------------------------------------------

LEMMA CallKeepsInv ==
  ASSUME DeskInv, NEW k \in Message, NEW p \in Payload, NEW test, NEW http,
         Desk!CreateOrReplayRecord(k, p, test, http)
  PROVE  DeskInv'
<1>1. {"IDEMPOTENT_REPLAY", "IDEMPOTENCY_CONFLICT", "PERMANENT_FAILURE", "TRANSIENT_FAILURE"}
        \subseteq Desk!EventType
  BY DEF Desk!EventType
<1>2. KeyInv(k)
  BY DEF DeskInv
<1>3. CASE Desk!ReplayOrConflict(k, p, http)
  <2>1. PICK r \in records :
          /\ r.key = k
          /\ \/ Desk!Log(k, p, "IDEMPOTENT_REPLAY")
             \/ r.payload # p /\ Desk!Log(k, p, "IDEMPOTENCY_CONFLICT")
    BY <1>3 DEF Desk!ReplayOrConflict, Desk!RecordsOf
  <2>2. events[k] # <<>> /\ r.payload = events[k][1].payload /\ records' = records
    BY <1>2, <1>3, <2>1 DEF KeyInv, Desk!ReplayOrConflict
  <2>3. CASE Desk!Log(k, p, "IDEMPOTENT_REPLAY")
    BY <1>1, <2>2, <2>3, EventKeepsInv
  <2>4. CASE r.payload # p /\ Desk!Log(k, p, "IDEMPOTENCY_CONFLICT")
    BY <1>1, <2>2, <2>4, EventKeepsInv
  <2> QED
    BY <2>1, <2>3, <2>4
<1>4. CASE Desk!ConflictAfterFailure(k, p, http)
  <2>1. /\ events[k] # <<>> /\ p # events[k][1].payload
        /\ Desk!Log(k, p, "IDEMPOTENCY_CONFLICT") /\ records' = records
    BY <1>4 DEF Desk!ConflictAfterFailure, Desk!FirstPayloadDiffers
  <2> QED
    BY <1>1, <2>1, EventKeepsInv
<1>5. CASE Desk!RefusePermanently(k, p, test, http)
  <2>1. /\ \A r \in records : r.key # k
        /\ events[k] = <<>> \/ p = events[k][1].payload
        /\ Desk!Log(k, p, "PERMANENT_FAILURE") /\ records' = records
    BY <1>5 DEF Desk!RefusePermanently, Desk!NewForKey, Desk!HasRecord, Desk!RecordsOf,
       Desk!FirstPayloadDiffers
  <2> QED
    BY <1>1, <2>1, EventKeepsInv
<1>6. CASE Desk!FailOnce(k, p, test, http)
  <2>1. Desk!Log(k, p, "TRANSIENT_FAILURE") /\ records' = records
    BY <1>6 DEF Desk!FailOnce
  <2> QED
    BY <1>1, <2>1, EventKeepsInv
<1>7. CASE Desk!CreateRecord(k, p, test, http)
  BY <1>7, CreateKeepsInv
<1> QED
  BY <1>3, <1>4, <1>5, <1>6, <1>7 DEF Desk!CreateOrReplayRecord

(* What a call does to the records of the messages: nothing, or the first   *)
(* record of the message whose own body it carries.                         *)
LEMMA CallRecords ==
  ASSUME DeskInv, NEW k \in Message, NEW p \in Payload, NEW test, NEW http,
         Desk!CreateOrReplayRecord(k, p, test, http)
  PROVE  /\ \A m \in Message \ {k} : OwnRecords(m)' = OwnRecords(m)
         /\ \/ OwnRecords(k)' = OwnRecords(k)
            \/ p = PayloadOf[k] /\ OwnRecords(k) = {} /\ OwnRecords(k)' # {}
<1>1. CASE records' = records
  BY <1>1 DEF OwnRecords
<1>2. CASE Desk!CreateRecord(k, p, test, http)
  <2> DEFINE new == [key |-> k, payload |-> p, reference |-> Desk!Cardinality(records) + 1]
  <2>1. records' = records \cup {new} /\ \A r \in records : r.key # k
    BY <1>2 DEF Desk!CreateRecord, Desk!NewForKey, Desk!HasRecord, Desk!RecordsOf
  <2>2. new.key = k /\ new.payload = p
    OBVIOUS
  <2> HIDE DEF new
  <2> QED
    BY <2>1, <2>2 DEF OwnRecords
<1> QED
  BY <1>1, <1>2 DEF Desk!CreateOrReplayRecord, Desk!ReplayOrConflict,
     Desk!ConflictAfterFailure, Desk!RefusePermanently, Desk!FailOnce

-----------------------------------------------------------------------------
(* Only what was submitted is on its way to the sandbox or recorded there.  *)
Submitted ==
  /\ net \subseteq Request
  /\ \A r \in net : status[r.msg] # "ABSENT"
  /\ \A m \in Message : OwnRecords(m) # {} => status[m] # "ABSENT"

SentInv == OutboxTypeOK /\ ReplyTypeOK /\ SuccessInv /\ DeskInv /\ Submitted

LEMMA DeskInit == Init => DeskInv /\ Submitted
<1> SUFFICES ASSUME Init PROVE DeskInv /\ Submitted
  OBVIOUS
<1>1. /\ records = {} /\ events = [m \in Message |-> <<>>] /\ net = {}
  BY DEF Init, Desk!DeskInit
<1>2. DeskInv
  BY <1>1, FS_EmptySet DEF DeskInv, DeskTyped, OneRecordPerKey, KeyInv
<1>3. Submitted
  BY <1>1 DEF Submitted, OwnRecords
<1> QED
  BY <1>2, <1>3

LEMMA StaysSubmitted ==
  ASSUME OutboxTypeOK, [OutboxNext]_outboxVars, NEW m \in Message, status[m] # "ABSENT"
  PROVE  status'[m] # "ABSENT"
<1>1. \A o \in Outcome : StatusAfter(o, attemptCount[m]) # "ABSENT"
  BY DEF StatusAfter
<1> QED
  BY <1>1, RowSteps DEF RowStep, RowKept, RowQueued, RowClaimed, RowRecorded

(* One call of the sandbox for a message that was submitted.                *)
LEMMA CallStep ==
  ASSUME DeskInv, Submitted, NEW k \in Message, NEW p \in Payload, NEW test, NEW http,
         Desk!CreateOrReplayRecord(k, p, test, http), UNCHANGED status, net' \subseteq net,
         p = PayloadOf[k] => status[k] # "ABSENT"
  PROVE  DeskInv' /\ Submitted'
<1>1. DeskInv'
  BY CallKeepsInv
<1>2. Submitted'
  BY CallRecords DEF Submitted
<1> QED
  BY <1>1, <1>2

LEMMA DeskStep == OutboxTypeOK /\ DeskInv /\ Submitted /\ [Next]_deliveryVars => DeskInv' /\ Submitted'
<1> SUFFICES ASSUME OutboxTypeOK, DeskInv, Submitted, [Next]_deliveryVars
             PROVE  DeskInv' /\ Submitted'
  OBVIOUS
<1>1. \A m \in Message : status[m] # "ABSENT" => status'[m] # "ABSENT"
  BY StaysSubmitted, DeliveryStepIsOutboxStep
<1>2. ASSUME UNCHANGED <<records, events>>,
             \A r \in net' : r \in net \/ (r \in Request /\ status'[r.msg] # "ABSENT")
      PROVE  DeskInv' /\ Submitted'
  <2>1. DeskInv'
    BY <1>2 DEF DeskInv, DeskTyped, OneRecordPerKey, KeyInv
  <2>2. \A m \in Message : OwnRecords(m)' = OwnRecords(m)
    BY <1>2 DEF OwnRecords
  <2>3. Submitted'
    BY <1>1, <1>2, <2>2 DEF Submitted, Request
  <2> QED
    BY <2>1, <2>3
<1>3. CASE OutboxOnly
  BY <1>2, <1>3 DEF OutboxOnly, remoteVars
<1>4. ASSUME NEW w \in Worker, NEW m \in Message, NEW test \in Desk!TestOutcome,
             ClaimAndSend(w, m, test)
      PROVE  DeskInv' /\ Submitted'
  <2> DEFINE new == [msg |-> m, number |-> attemptCount[m] + 1, test |-> test]
  <2>1. net' = net \cup {new} /\ UNCHANGED <<records, events>>
    BY <1>4 DEF ClaimAndSend
  <2>2. attemptCount[m] + 1 \in 1..MaxAttempts /\ status'[m] = "PROCESSING"
    BY <1>4, OutboxAssumption DEF ClaimAndSend, Claim, OutboxTypeOK
  <2>3. new \in Request /\ new.msg = m
    BY <2>2 DEF Request
  <2> HIDE DEF new
  <2> QED
    BY <1>2, <2>1, <2>2, <2>3
<1>5. ASSUME NEW r \in net, Arrive(r) PROVE DeskInv' /\ Submitted'
  <2>1. PICK http \in Desk!HttpStatus :
          Desk!CreateOrReplayRecord(r.msg, PayloadOf[r.msg], r.test, http)
    BY <1>5 DEF Arrive
  <2>2. r.msg \in Message /\ PayloadOf[r.msg] \in Payload /\ status[r.msg] # "ABSENT"
    BY DeliveryAssumption DEF Submitted, Request
  <2>3. status' = status /\ net' \subseteq net
    BY <1>5 DEF Arrive, outboxVars, rowVars
  <2> QED
    BY <2>1, <2>2, <2>3, CallStep
<1>6. ASSUME NEW r \in net, FailToHandle(r) PROVE DeskInv' /\ Submitted'
  BY <1>2, <1>6 DEF FailToHandle
<1>7. ASSUME NEW m \in Message, NEW p \in Payload, OtherClientPosts(m, p)
      PROVE  DeskInv' /\ Submitted'
  <2>1. PICK http \in Desk!HttpStatus : Desk!CreateOrReplayRecord(m, p, "NONE", http)
    BY <1>7 DEF OtherClientPosts
  <2>2. p # PayloadOf[m] /\ status' = status /\ net' = net
    BY <1>7 DEF OtherClientPosts, outboxVars, rowVars
  <2> QED
    BY <2>1, <2>2, CallStep
<1>8. ASSUME NEW w \in Worker, ReceiveAnswer(w) \/ TransportError(w) \/ WorkerDies(w)
      PROVE  DeskInv' /\ Submitted'
  BY <1>2, <1>8 DEF ReceiveAnswer, TransportError, WorkerDies
<1>9. CASE UNCHANGED deliveryVars
  BY <1>2, <1>9 DEF deliveryVars
<1> QED
  BY <1>3, <1>4, <1>5, <1>6, <1>7, <1>8, <1>9 DEF Next

LEMMA SentInvariance == Spec => []SentInv
<1>1. Init => OutboxTypeOK
  BY InitInv DEF Init, OutboxInv
<1>2. Init => ReplyTypeOK
  BY DEF Init, ReplyTypeOK
<1>3. OutboxTypeOK /\ [Next]_deliveryVars => OutboxTypeOK'
  BY TypeStep, DeliveryStepIsOutboxStep
<1> QED
  BY <1>1, <1>2, <1>3, ReplyTypeStep, SuccessInit, SuccessStep, DeskInit, DeskStep, PTL
  DEF Spec, SentInv

-----------------------------------------------------------------------------
(* Rows, requests, answers and the tables of the sandbox stay well typed,    *)
(* and only a worker in its call has an answer to read (delivery.py).        *)
THEOREM DeliveryTypeCorrect == Spec => []TypeOK
<1>1. SentInv => TypeOK
  BY DEF SentInv, TypeOK, Desk!DeskTypeOK, DeskInv, DeskTyped, Submitted, ReplyTypeOK, SuccessInv
<1> QED
  BY <1>1, SentInvariance, PTL

(* However often and however late the requests of a message arrive, its key  *)
(* stands for one service record at most (create_or_replay_record).          *)
THEOREM OneRecordCorrect == Spec => []OneRecordPerKey
<1>1. SentInv => OneRecordPerKey
  BY DEF SentInv, DeskInv
<1> QED
  BY <1>1, SentInvariance, PTL

(* A body the sandbox has refused, for good or as a conflict, has no record  *)
(* and gets none (create_or_replay_record).                                  *)
THEOREM RefusalCorrect == Spec => []RefusalIsFinal
<1>1. ASSUME SentInv PROVE RefusalIsFinal
  <2> SUFFICES ASSUME NEW m \in Message, Refused(m), NEW r \in OwnRecords(m) PROVE FALSE
    BY DEF RefusalIsFinal
  <2>1. r \in records /\ r.key = m /\ r.payload = PayloadOf[m]
    BY DEF OwnRecords
  <2>2. PICK i \in DOMAIN events[m] :
          /\ events[m][i].payload = PayloadOf[m]
          /\ events[m][i].type \in {"PERMANENT_FAILURE", "IDEMPOTENCY_CONFLICT"}
    BY DEF Refused, Desk!Logged
  <2> QED
    BY <1>1, <2>1, <2>2 DEF SentInv, DeskInv, KeyInv
<1> QED
  BY <1>1, SentInvariance, PTL

-----------------------------------------------------------------------------
(* The refinement of DeliveryPromise *)

Phases == [m \in Message |-> PhaseOf(m)]
Effects == [m \in Message |-> Cardinality(OwnRecords(m))]

OpenStatus == {"PENDING", "PROCESSING"}

(* The phase of a status, as a function of nothing else. *)
PhaseAt(s) ==
  IF s = "ABSENT" THEN "absent"
  ELSE IF s \in OpenStatus THEN "open"
  ELSE IF s = "SENT" THEN "delivered" ELSE "given_up"

LEMMA PhasesAre ==
  /\ OutboxTypeOK => Phases = [m \in Message |-> PhaseAt(status[m])]
  /\ OutboxTypeOK' => Phases' = [m \in Message |-> PhaseAt(status'[m])]
<1>1. ASSUME NEW s \in {"ABSENT", "PENDING", "PROCESSING", "SENT", "FAILED"}
      PROVE  (CASE s = "ABSENT" -> "absent"
                [] s \in {"PENDING", "PROCESSING"} -> "open"
                [] s = "SENT" -> "delivered"
                [] s = "FAILED" -> "given_up") = PhaseAt(s)
  BY <1>1 DEF PhaseAt, OpenStatus
<1> QED
  BY <1>1 DEF Phases, PhaseOf, OutboxTypeOK, Terminal

(* One record per key makes the effect of a message 0 or 1.                  *)
LEMMA AtMostOne ==
  ASSUME NEW S, \A r, s \in S : r = s
  PROVE  Cardinality(S) = IF S = {} THEN 0 ELSE 1
<1>1. CASE S = {}
  BY <1>1, FS_EmptySet
<1>2. ASSUME NEW r \in S PROVE Cardinality(S) = 1
  <2>1. S = {r}
    BY <1>2
  <2> QED
    BY <2>1, FS_Singleton
<1> QED
  BY <1>1, <1>2

LEMMA EffectsAre ==
  /\ OneRecordPerKey =>
       Effects = [m \in Message |-> IF OwnRecords(m) = {} THEN 0 ELSE 1]
  /\ OneRecordPerKey' =>
       Effects' = [m \in Message |-> IF OwnRecords(m)' = {} THEN 0 ELSE 1]
<1>1. ASSUME OneRecordPerKey, NEW m \in Message
      PROVE  Cardinality(OwnRecords(m)) = IF OwnRecords(m) = {} THEN 0 ELSE 1
  <2>1. \A r, s \in OwnRecords(m) : r = s
    BY <1>1 DEF OwnRecords, OneRecordPerKey
  <2> QED
    BY <2>1, AtMostOne
<1>2. ASSUME OneRecordPerKey', NEW m \in Message
      PROVE  Cardinality(OwnRecords(m)') = IF OwnRecords(m)' = {} THEN 0 ELSE 1
  <2>1. \A r, s \in OwnRecords(m)' : r = s
    BY <1>2 DEF OwnRecords, OneRecordPerKey
  <2> QED
    BY <2>1, AtMostOne
<1> QED
  BY <1>1, <1>2 DEF Effects

(* How one row may move while the records stay as they are. *)
RowMoved(m) ==
  \/ status'[m] = status[m]
  \/ status[m] = "ABSENT" /\ status'[m] = "PENDING"
  \/ status[m] \in OpenStatus /\ status'[m] \in OpenStatus \cup {"SENT", "FAILED"}

LEMMA RowsMove ==
  ASSUME OutboxTypeOK, [OutboxNext]_outboxVars, NEW m \in Message
  PROVE  RowMoved(m)
<1>1. \A o \in Outcome : StatusAfter(o, attemptCount[m]) \in OpenStatus \cup {"SENT", "FAILED"}
  BY DEF StatusAfter, OpenStatus
<1> QED
  BY <1>1, RowSteps DEF RowMoved, RowStep, RowKept, RowQueued, RowClaimed, RowRecorded,
     OpenStatus

(* One row moves: the message is submitted, confirmed with its record, given *)
(* up, or stays open.                                                        *)
LEMMA OneRowKeepsPromise ==
  ASSUME SentInv, SentInv', UNCHANGED records, NEW m \in Message, RowMoved(m),
         \A n \in Message \ {m} : status'[n] = status[n]
  PROVE  Promise!Next \/ UNCHANGED <<Phases, Effects>>
<1>1. /\ Phases = [n \in Message |-> PhaseAt(status[n])]
      /\ Phases' = [n \in Message |-> PhaseAt(status'[n])]
      /\ Effects = [n \in Message |-> IF OwnRecords(n) = {} THEN 0 ELSE 1]
  BY PhasesAre, EffectsAre DEF SentInv, DeskInv
<1>2. Effects' = Effects
  BY DEF Effects, OwnRecords
<1>3. Phases' = [Phases EXCEPT ![m] = PhaseAt(status'[m])]
  BY <1>1
<1>4. CASE PhaseAt(status'[m]) = PhaseAt(status[m])
  <2>1. Phases' = Phases
    BY <1>1, <1>4
  <2> QED
    BY <1>2, <2>1
<1>5. CASE status[m] = "ABSENT" /\ status'[m] = "PENDING"
  <2>1. Phases[m] = "absent" /\ Phases' = [Phases EXCEPT ![m] = "open"]
    BY <1>1, <1>3, <1>5 DEF PhaseAt, OpenStatus
  <2>2. Promise!Submit(m)
    BY <1>2, <2>1 DEF Promise!Submit, Phases, Effects
  <2> QED
    BY <2>2 DEF Promise!Next
<1>6. CASE status[m] \in OpenStatus /\ status'[m] = "SENT"
  <2>1. Phases[m] = "open" /\ Phases' = [Phases EXCEPT ![m] = "delivered"]
    BY <1>1, <1>3, <1>6 DEF PhaseAt, OpenStatus
  <2>2. Effects[m] = 1
    <3>1. OwnRecords(m)' # {}
      BY <1>6 DEF SentInv, SuccessInv, SentHasRecord
    <3> QED
      BY <1>1, <3>1 DEF OwnRecords
  <2>3. Promise!Confirm(m)
    BY <1>2, <2>1, <2>2 DEF Promise!Confirm, Phases, Effects
  <2> QED
    BY <2>3 DEF Promise!Next
<1>7. CASE status[m] \in OpenStatus /\ status'[m] = "FAILED"
  <2>1. /\ Phases[m] = "open"
        /\ Phases' = [n \in Message |-> IF n \in {m} THEN "given_up" ELSE Phases[n]]
    BY <1>1, <1>7 DEF PhaseAt, OpenStatus
  <2>2. Promise!GiveUp({m})
    BY <1>2, <2>1 DEF Promise!GiveUp, Phases, Effects
  <2> QED
    BY <2>2 DEF Promise!Next
<1>8. status[m] \in OpenStatus /\ status'[m] \in OpenStatus =>
        PhaseAt(status'[m]) = PhaseAt(status[m])
  BY DEF PhaseAt, OpenStatus
<1> QED
  BY <1>4, <1>5, <1>6, <1>7, <1>8 DEF RowMoved

(* The sweep gives up every message of its batch that has used its attempts. *)
LEMMA SweepKeepsPromise ==
  ASSUME SentInv, SentInv', UNCHANGED records,
         NEW batch \in SUBSET Message, RecoverExpiredClaims(batch)
  PROVE  Promise!Next \/ UNCHANGED <<Phases, Effects>>
<1> DEFINE lost == {m \in batch : status'[m] = "FAILED"}
<1>1. /\ Phases = [n \in Message |-> PhaseAt(status[n])]
      /\ Phases' = [n \in Message |-> PhaseAt(status'[n])]
  BY PhasesAre DEF SentInv
<1>2. Effects' = Effects
  BY DEF Effects, OwnRecords
<1>3. /\ \A m \in batch : status[m] = "PROCESSING" /\ status'[m] \in {"PENDING", "FAILED"}
      /\ \A m \in Message \ batch : status'[m] = status[m]
  <2>1. \A n : StatusAfter("TRANSIENT_FAILURE", n) \in {"PENDING", "FAILED"}
    BY DEF StatusAfter
  <2> QED
    BY <2>1 DEF RecoverExpiredClaims, SweepRows, Abandoned
<1>4. /\ \A m \in lost : Phases[m] = "open"
      /\ Phases' = [m \in Message |-> IF m \in lost THEN "given_up" ELSE Phases[m]]
  BY <1>1, <1>3 DEF PhaseAt, OpenStatus
<1>5. CASE lost = {}
  <2>1. Phases' = Phases
    BY <1>4, <1>5 DEF Phases
  <2> QED
    BY <1>2, <2>1
<1>6. CASE lost # {}
  <2>1. lost \in SUBSET Message
    OBVIOUS
  <2> HIDE DEF lost
  <2>2. Promise!GiveUp(lost)
    BY <1>2, <1>4, <1>6 DEF Promise!GiveUp, Phases, Effects
  <2> QED
    BY <2>1, <2>2 DEF Promise!Next
<1> QED
  BY <1>5, <1>6

(* The sandbox applies the effect of a message, once. *)
LEMMA CallKeepsPromise ==
  ASSUME SentInv, SentInv', UNCHANGED status, NEW k \in Message, NEW p \in Payload,
         NEW test, NEW http, Desk!CreateOrReplayRecord(k, p, test, http),
         p = PayloadOf[k] => status[k] # "ABSENT"
  PROVE  Promise!Next \/ UNCHANGED <<Phases, Effects>>
<1>1. /\ Phases = [n \in Message |-> PhaseAt(status[n])]
      /\ Effects = [n \in Message |-> IF OwnRecords(n) = {} THEN 0 ELSE 1]
      /\ Effects' = [n \in Message |-> IF OwnRecords(n)' = {} THEN 0 ELSE 1]
  BY PhasesAre, EffectsAre DEF SentInv, DeskInv
<1>2. Phases' = Phases
  BY DEF Phases, PhaseOf
<1>3. \A m \in Message \ {k} : OwnRecords(m)' = OwnRecords(m)
  BY CallRecords DEF SentInv
<1>4. CASE OwnRecords(k)' = OwnRecords(k)
  <2>1. Effects' = Effects
    BY <1>1, <1>3, <1>4
  <2> QED
    BY <1>2, <2>1
<1>5. CASE p = PayloadOf[k] /\ OwnRecords(k) = {} /\ OwnRecords(k)' # {}
  <2>1. Effects[k] = 0 /\ Effects' = [Effects EXCEPT ![k] = 1]
    BY <1>1, <1>3, <1>5
  <2>2. Phases[k] # "absent"
    BY <1>1, <1>5 DEF PhaseAt
  <2>3. Promise!Apply(k)
    BY <1>2, <2>1, <2>2 DEF Promise!Apply, Phases, Effects
  <2> QED
    BY <2>3 DEF Promise!Next
<1> QED
  BY <1>4, <1>5, CallRecords DEF SentInv

LEMMA StepKeepsPromise ==
  ASSUME SentInv, SentInv', [Next]_deliveryVars
  PROVE  Promise!Next \/ UNCHANGED <<Phases, Effects>>
<1>1. OutboxTypeOK /\ \A m \in Message : RowMoved(m)
  BY RowsMove, DeliveryStepIsOutboxStep DEF SentInv
<1>2. CASE UNCHANGED <<status, records>>
  BY <1>2 DEF Phases, PhaseOf, Effects, OwnRecords
<1>3. ASSUME NEW m \in Message, UNCHANGED records,
             \A n \in Message \ {m} : status'[n] = status[n]
      PROVE  Promise!Next \/ UNCHANGED <<Phases, Effects>>
  BY <1>1, <1>3, OneRowKeepsPromise
<1>4. CASE OutboxOnly
  <2>1. ASSUME NEW m \in Message, Enqueue(m) \/ LeaseExpires(m)
        PROVE  \A n \in Message \ {m} : status'[n] = status[n]
    BY <1>1, <2>1 DEF Enqueue, LeaseExpires, OutboxTypeOK
  <2>2. ASSUME NEW w \in Worker, Finalize(w)
        PROVE  /\ claim[w].msg \in Message
               /\ \A n \in Message \ {claim[w].msg} : status'[n] = status[n]
    <3>1. claim[w] \in Claims
      BY <1>1, <2>2 DEF Finalize, OutboxTypeOK
    <3> QED
      BY <1>1, <2>2, <3>1 DEF Finalize, RecordAttempt, OutboxTypeOK, Claims
  <2>3. ASSUME NEW w \in Worker, RejectStaleFinalize(w) PROVE UNCHANGED status
    BY <2>3 DEF RejectStaleFinalize, rowVars
  <2> QED
    BY <1>2, <1>3, <1>4, <2>1, <2>2, <2>3, SweepKeepsPromise DEF OutboxOnly, remoteVars
<1>5. ASSUME NEW w \in Worker, NEW m \in Message, NEW test \in Desk!TestOutcome,
             ClaimAndSend(w, m, test)
      PROVE  Promise!Next \/ UNCHANGED <<Phases, Effects>>
  <2>1. UNCHANGED records /\ \A n \in Message \ {m} : status'[n] = status[n]
    BY <1>1, <1>5 DEF ClaimAndSend, Claim, OutboxTypeOK
  <2> QED
    BY <1>3, <2>1
<1>6. ASSUME NEW r \in net, Arrive(r) PROVE Promise!Next \/ UNCHANGED <<Phases, Effects>>
  <2>1. PICK http \in Desk!HttpStatus :
          Desk!CreateOrReplayRecord(r.msg, PayloadOf[r.msg], r.test, http)
    BY <1>6 DEF Arrive
  <2>2. r.msg \in Message /\ PayloadOf[r.msg] \in Payload /\ status[r.msg] # "ABSENT"
    BY DeliveryAssumption DEF SentInv, Submitted, Request
  <2>3. status' = status
    BY <1>6 DEF Arrive, outboxVars
  <2> QED
    BY <2>1, <2>2, <2>3, CallKeepsPromise
<1>7. ASSUME NEW r \in net, FailToHandle(r) PROVE UNCHANGED <<status, records>>
  BY <1>7 DEF FailToHandle, outboxVars
<1>8. ASSUME NEW m \in Message, NEW p \in Payload, OtherClientPosts(m, p)
      PROVE  Promise!Next \/ UNCHANGED <<Phases, Effects>>
  <2>1. PICK http \in Desk!HttpStatus : Desk!CreateOrReplayRecord(m, p, "NONE", http)
    BY <1>8 DEF OtherClientPosts
  <2>2. p # PayloadOf[m] /\ status' = status
    BY <1>8 DEF OtherClientPosts, outboxVars
  <2> QED
    BY <2>1, <2>2, CallKeepsPromise
<1>9. ASSUME NEW w \in Worker, ReceiveAnswer(w) \/ TransportError(w) \/ WorkerDies(w)
      PROVE  UNCHANGED <<status, records>>
  BY <1>9 DEF ReceiveAnswer, TransportError, WorkerDies, Answer, Crash, rowVars
<1>10. CASE UNCHANGED deliveryVars
  BY <1>2, <1>10 DEF deliveryVars, outboxVars
<1> QED
  BY <1>2, <1>4, <1>5, <1>6, <1>7, <1>8, <1>9, <1>10 DEF Next

(* For any messages, workers, attempts, late requests and foreign clients,   *)
(* the workers, the sweep and the sandbox implement DeliveryPromise, which   *)
(* is what ActionRoute takes for the delivery of an action (delivery.py).    *)
THEOREM PromiseKept == Spec => KeepsPromise
<1>1. ASSUME Init PROVE Promise!Init
  <2>1. /\ status = [m \in Message |-> "ABSENT"] /\ records = {} /\ OutboxTypeOK
    BY <1>1, InitInv DEF Init, OutboxInit, Desk!DeskInit, OutboxInv
  <2>2. Phases = [m \in Message |-> "absent"]
    BY <2>1, PhasesAre DEF PhaseAt
  <2>3. Effects = [m \in Message |-> 0]
    <3>1. \A m \in Message : OwnRecords(m) = {}
      BY <2>1 DEF OwnRecords
    <3> QED
      BY <3>1, FS_EmptySet DEF Effects
  <2> QED
    BY <2>2, <2>3 DEF Promise!Init, Phases, Effects
<1>2. SentInv /\ SentInv' /\ [Next]_deliveryVars => [Promise!Next]_<<Phases, Effects>>
  BY StepKeepsPromise
<1> QED
  BY <1>1, <1>2, SentInvariance, PTL DEF Spec, KeepsPromise, Promise!Spec, Phases, Effects

=============================================================================

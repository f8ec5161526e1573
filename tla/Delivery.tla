------------------------------ MODULE Delivery ------------------------------
(***************************************************************************)
(* application/delivery.py against the Service Desk Sandbox: the outbox    *)
(* workers of the DOWNSTREAM_ACTION messages call create_service_record.   *)
(* A request may reach the sandbox late (the worker has timed out, died or *)
(* lost its claim), never, or after a later attempt of the same message;   *)
(* an answer may be lost.  A worker that has timed out sees only a         *)
(* transport error.                                                        *)
(***************************************************************************)
EXTENDS Outbox, Sequences

CONSTANTS
  Payload,        \* canonical request bodies
  PayloadOf,      \* [Message -> Payload]: outbox_messages.payload, immutable
  NoReply

VARIABLES
  records, events,  \* the sandbox's two tables
  net,              \* requests on their way
  reply             \* the HTTP status a calling worker can still read

Desk == INSTANCE ServiceDesk WITH Key <- Message

ASSUME DeliveryAssumption ==
  /\ PayloadOf \in [Message -> Payload]
  /\ NoReply \notin Desk!HttpStatus \cup {500}

deliveryVars == <<outboxVars, records, events, net, reply>>
remoteVars == <<records, events, net, reply>>

Request == [msg : Message, number : 1..MaxAttempts, test : Desk!TestOutcome]

TypeOK ==
  /\ OutboxTypeOK
  /\ Desk!DeskTypeOK
  /\ net \subseteq Request
  /\ reply \in [Worker -> Desk!HttpStatus \cup {500, NoReply}]
  /\ \A w \in Worker : reply[w] # NoReply => step[w] = "calling"

Init ==
  /\ OutboxInit
  /\ Desk!DeskInit
  /\ net = {}
  /\ reply = [w \in Worker |-> NoReply]

-----------------------------------------------------------------------------
(* Mutant: a conflicting record is taken for the one the message asked for. *)
ClassifyConflictAsDone(http) ==
  IF http \in {200, 201, 409} THEN "SUCCESS" ELSE "TRANSIENT_FAILURE"

(* create_service_record: the three outcomes an HTTP answer is read as. *)
Classify(http) ==
  CASE http \in {200, 201} -> "SUCCESS"
    [] http = 503 -> "TRANSIENT_FAILURE"
    [] OTHER -> "PERMANENT_FAILURE"

(* process_one_message: the claim is committed and the request leaves. *)
ClaimAndSend(w, m, test) ==
  /\ Claim(w, m)
  /\ net' = net \cup {[msg |-> m, number |-> attemptCount[m] + 1, test |-> test]}
  /\ reply' = [reply EXCEPT ![w] = NoReply]
  /\ UNCHANGED <<records, events>>

Waits(w, r) == step[w] = "calling" /\ claim[w] = [msg |-> r.msg, number |-> r.number]

(* The sandbox handles a request; its answer reaches a worker that waits. *)
Arrive(r) ==
  /\ r \in net
  /\ net' = net \ {r}
  /\ \E http \in Desk!HttpStatus :
       /\ Desk!CreateOrReplayRecord(r.msg, PayloadOf[r.msg], r.test, http)
       /\ reply' = [w \in Worker |-> IF Waits(w, r) THEN http ELSE reply[w]]
  /\ UNCHANGED outboxVars

(* The handler raises and its transaction is rolled back: HTTP 500, which   *)
(* create_service_record reads as a permanent failure.                      *)
FailToHandle(r) ==
  /\ r \in net
  /\ net' = net \ {r}
  /\ reply' = [w \in Worker |-> IF Waits(w, r) THEN 500 ELSE reply[w]]
  /\ UNCHANGED <<outboxVars, records, events>>

(* Another client of the sandbox reuses the key for another body, once. *)
OtherClientPosts(m, p) ==
  /\ p # PayloadOf[m]
  /\ \A i \in DOMAIN events[m] : events[m][i].payload # p
  /\ \E http \in Desk!HttpStatus : Desk!CreateOrReplayRecord(m, p, "NONE", http)
  /\ UNCHANGED <<outboxVars, net, reply>>

ReceiveAnswer(w) ==
  /\ reply[w] # NoReply
  /\ Answer(w, Classify(reply[w]))
  /\ reply' = [reply EXCEPT ![w] = NoReply]
  /\ UNCHANGED <<records, events, net>>

(* URLError or TimeoutError: nothing is known of the request. *)
TransportError(w) ==
  /\ Answer(w, "TRANSIENT_FAILURE")
  /\ reply' = [reply EXCEPT ![w] = NoReply]
  /\ UNCHANGED <<records, events, net>>

(* Mutant: an answer survives the process it was sent to. *)
DiesWithAnswer(w) == Crash(w) /\ UNCHANGED remoteVars

(* Also an exception create_service_record lets through, like a connection  *)
(* that is reset while the status line is read.                             *)
WorkerDies(w) ==
  /\ Crash(w)
  /\ reply' = [reply EXCEPT ![w] = NoReply]
  /\ UNCHANGED <<records, events, net>>

OutboxOnly ==
  /\ \/ \E m \in Message : Enqueue(m) \/ LeaseExpires(m)
     \/ \E w \in Worker : Finalize(w) \/ RejectStaleFinalize(w)
     \/ \E batch \in SUBSET Message : RecoverExpiredClaims(batch)
  /\ UNCHANGED remoteVars

Next ==
  \/ OutboxOnly
  \/ \E w \in Worker, m \in Message, test \in Desk!TestOutcome : ClaimAndSend(w, m, test)
  \/ \E r \in net : Arrive(r) \/ FailToHandle(r)
  \/ \E m \in Message, p \in Payload : OtherClientPosts(m, p)
  \/ \E w \in Worker : ReceiveAnswer(w) \/ TransportError(w) \/ WorkerDies(w)

Spec == Init /\ [][Next]_deliveryVars

-----------------------------------------------------------------------------
(* Properties *)

OwnRecords(m) == {r \in records : r.key = m /\ r.payload = PayloadOf[m]}

(* A message reported SENT was recorded by the sandbox, with the body the   *)
(* outbox holds, although the answer that says so may be to a retry.        *)
SentHasRecord == \A m \in Message : status[m] = "SENT" => OwnRecords(m) # {}

(* However often and however late requests of a message arrive, its key     *)
(* never stands for two service records.                                    *)
OneRecordPerKey == \A r, s \in records : r.key = s.key => r = s

Refused(m) ==
  \/ Desk!Logged(m, PayloadOf[m], "PERMANENT_FAILURE")
  \/ Desk!Logged(m, PayloadOf[m], "IDEMPOTENCY_CONFLICT")

(* Refusal is final: once the sandbox has refused the body of a message, no *)
(* earlier request that arrives late and no retry under other test headers  *)
(* gives it a service record, and none was there before.                    *)
RefusalIsFinal == \A m \in Message : Refused(m) => OwnRecords(m) = {}

(* What a reader of the outbox and of the sandbox sees of a delivery. *)
PhaseOf(m) ==
  CASE status[m] = "ABSENT" -> "absent"
    [] status[m] \in {"PENDING", "PROCESSING"} -> "open"
    [] status[m] = "SENT" -> "delivered"
    [] status[m] = "FAILED" -> "given_up"

Promise == INSTANCE DeliveryPromise WITH
  phase <- [m \in Message |-> PhaseOf(m)],
  effect <- [m \in Message |-> Cardinality(OwnRecords(m))]

(* The workers, the sweep and the sandbox implement DeliveryPromise. *)
KeepsPromise == Promise!Spec

=============================================================================

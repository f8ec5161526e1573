----------------------------- MODULE ServiceDesk -----------------------------
(***************************************************************************)
(* The Service Desk Sandbox: service_records and service_record_events.    *)
(* One call is one transaction under the advisory lock of its idempotency  *)
(* key, so it is one action.  The six alternatives of the handler are the  *)
(* six operators below, in the order of its early returns; `http` is the   *)
(* status code the call answers with.                                      *)
(***************************************************************************)
EXTENDS Naturals, FiniteSets, Sequences

CONSTANTS
  Key,     \* delivery idempotency keys
  Payload  \* canonical request hashes

TestOutcome == {"NONE", "TRANSIENT_ONCE", "PERMANENT_FAILURE"}
HttpStatus == {200, 201, 409, 422, 503}
EventType == {"RECORD_CREATED", "IDEMPOTENT_REPLAY", "IDEMPOTENCY_CONFLICT",
              "TRANSIENT_FAILURE", "PERMANENT_FAILURE"}

VARIABLES
  records,  \* service_records, with the sequence value of their reference
  events    \* service_record_events of each key, in sequence order

deskVars == <<records, events>>

Record == [key : Key, payload : Payload, reference : Nat \ {0}]
Event == [type : EventType, payload : Payload]

DeskTypeOK ==
  /\ records \subseteq Record
  /\ events \in [Key -> Seq(Event)]

DeskInit ==
  /\ records = {}
  /\ events = [k \in Key |-> <<>>]

RecordsOf(k) == {r \in records : r.key = k}

Log(k, p, type) ==
  events' = [events EXCEPT ![k] = Append(@, [type |-> type, payload |-> p])]

Logged(k, p, type) ==
  \E i \in DOMAIN events[k] : events[k][i] = [type |-> type, payload |-> p]

(* The first call of a key fixes the payload the key stands for. *)
FirstPayloadDiffers(k, p) == events[k] # <<>> /\ events[k][1].payload # p

(* Mutants: the lookups the handler makes before it creates a record. *)
NoRecordLookup(k) == FALSE

HasRecord(k) == RecordsOf(k) # {}

NoPermanentLookup(k, p) == FALSE

PermanentlyRefused(k, p) == Logged(k, p, "PERMANENT_FAILURE")

-----------------------------------------------------------------------------
ReplayOrConflict(k, p, http) ==
  /\ HasRecord(k)
  /\ \E r \in RecordsOf(k) :
       \/ /\ r.payload = p
          /\ http = 200
          /\ Log(k, p, "IDEMPOTENT_REPLAY")
       \/ /\ r.payload # p
          /\ http = 409
          /\ Log(k, p, "IDEMPOTENCY_CONFLICT")
  /\ UNCHANGED records

ConflictAfterFailure(k, p, http) ==
  /\ ~HasRecord(k)
  /\ FirstPayloadDiffers(k, p)
  /\ http = 409
  /\ Log(k, p, "IDEMPOTENCY_CONFLICT")
  /\ UNCHANGED records

(* The handler gets past the two lookups of the key. *)
NewForKey(k, p) == ~HasRecord(k) /\ ~FirstPayloadDiffers(k, p)

RefusePermanently(k, p, test, http) ==
  /\ NewForKey(k, p)
  /\ PermanentlyRefused(k, p) \/ test = "PERMANENT_FAILURE"
  /\ http = 422
  /\ Log(k, p, "PERMANENT_FAILURE")
  /\ UNCHANGED records

FailOnce(k, p, test, http) ==
  /\ NewForKey(k, p)
  /\ ~PermanentlyRefused(k, p)
  /\ test = "TRANSIENT_ONCE"
  /\ ~Logged(k, p, "TRANSIENT_FAILURE")
  /\ http = 503
  /\ Log(k, p, "TRANSIENT_FAILURE")
  /\ UNCHANGED records

CreateRecord(k, p, test, http) ==
  /\ NewForKey(k, p)
  /\ ~PermanentlyRefused(k, p)
  /\ test # "PERMANENT_FAILURE"
  /\ test = "TRANSIENT_ONCE" => Logged(k, p, "TRANSIENT_FAILURE")
  /\ http = 201
  /\ records' = records \cup
       {[key |-> k, payload |-> p, reference |-> Cardinality(records) + 1]}
  /\ Log(k, p, "RECORD_CREATED")

CreateOrReplayRecord(k, p, test, http) ==
  \/ ReplayOrConflict(k, p, http)
  \/ ConflictAfterFailure(k, p, http)
  \/ RefusePermanently(k, p, test, http)
  \/ FailOnce(k, p, test, http)
  \/ CreateRecord(k, p, test, http)

=============================================================================

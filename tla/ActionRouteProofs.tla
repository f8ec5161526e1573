-------------------------- MODULE ActionRouteProofs --------------------------
(***************************************************************************)
(* Theorems about ActionRoute, for any cases, requests, grants that are    *)
(* withdrawn, and workers.  All rest on the invariant IInv:                *)
(*   Typed             every variable has its type                         *)
(*   OnceAcknowledged  no approval is acknowledged twice                   *)
(*   CaseInv           what is known of each case, in six parts            *)
(* A step moves one case at a time, so each action first gets a lemma that *)
(* says which rows it moves (...Moves), then CaseInv is shown for the case *)
(* that moved and for the others.                                          *)
(***************************************************************************)
EXTENDS ActionRoute, AuthorityProofs, SequenceTheorems, FiniteSetTheorems

USE ActionRouteAssumption

CaseStates == Row(NoCase)!CaseState
ActedOn == {"READY_FOR_ACTION", "COMPLETED", "FAILED"}

Typed ==
  /\ request \in Requests
  /\ grants \in [Case -> SUBSET (Grant \ {"TARGET"})]
  /\ caseState \in [Case -> States]
  /\ version \in [Case -> Nat]
  /\ log \in [Case -> Seq(EventRow)]
  /\ details \in [Case -> [type : RequestType, by : {"SYSTEM_RULE", "SERVICE_AGENT"}]
                            \cup {NoDetails}]
  /\ approval \in [Case -> {"NONE", "PENDING", "APPROVED", "REJECTED"}]
  /\ acknowledged \in Seq(Case)
  /\ payload \in [Case -> [version : Nat, view : States \cup {"NONE"}]]
  /\ Desk!TypeOK
  /\ run \in [Worker -> {"idle", "queued"} \cup Case]

(* The last event of a case fixes where it is and what was accepted of it.  *)
Shape(c) ==
  /\ caseState[c] # "ABSENT" => version[c] > 0
  /\ LastIs(c, "ANALYSIS_STARTED") => caseState[c] = "ANALYZING"
  /\ LastIs(c, "ANALYSIS_READY_FOR_RETRIEVAL") =>
       caseState[c] = "ANALYZING" /\ details[c].type = "POLICY_QUESTION"
  /\ LastIs(c, "SERVICE_AGENT_CORRECTION_ACCEPTED") =>
       /\ caseState[c] = "ANALYZING"
       /\ details[c] # NoDetails
       /\ details[c].by = "SERVICE_AGENT"
  /\ LastIs(c, "APPROVAL_APPROVED") =>
       /\ caseState[c] = "READY_FOR_ACTION"
       /\ approval[c] = "APPROVED"
       /\ details[c].type \in GuardedType
       /\ ~IsAcknowledged(c)
  /\ caseState[c] = "PENDING_APPROVAL" => details[c].type \in GuardedType
  /\ caseState[c] \in ActedOn => details[c] # NoDetails
  /\ IsAcknowledged(c) => caseState[c] \in ActedOn /\ approval[c] = "APPROVED"

(* A case that is ready and needs no approval has the source event that     *)
(* queueing it asks for.                                                    *)
Sourced(c) ==
  caseState[c] = "READY_FOR_ACTION" /\ details[c].type \notin GuardedType => SourceFits(c)

(* Where a message exists, what authorized it is still on record.           *)
Evidence(c) ==
  phase[c] # "absent" =>
    /\ caseState[c] \in ActedOn
    /\ details[c].type \in GuardedType => approval[c] = "APPROVED" /\ IsAcknowledged(c)
    /\ details[c].type = "STATUS_REQUEST" => "OWNER" \in grants[c]
    /\ details[c].type = "POLICY_QUESTION" => Row(c)!Logged("POLICY_RETRIEVAL_READY")

(* The state of the case follows its message.                               *)
Outcome(c) ==
  /\ caseState[c] = "COMPLETED" => phase[c] = "delivered"
  /\ caseState[c] = "FAILED" => phase[c] = "given_up"
  /\ phase[c] = "delivered" => effect[c] = 1
  /\ effect[c] = 1 => phase[c] # "absent"

(* The payload is what would be built now, but for the state it views.      *)
Current(c) ==
  /\ phase[c] = "absent" <=> payload[c] = NoPayload
  /\ phase[c] # "absent" /\ caseState[c] = "READY_FOR_ACTION" =>
       /\ payload[c].version = version[c]
       /\ details[c].type # "STATUS_REQUEST" => payload[c].view = "NONE"

(* The facts of the accepted request with everything volatile in force.     *)
AtBest(c) ==
  [type |-> details[c].type, flaws |-> request[c].flaws,
   holds |-> Accepted(c).holds \cup Volatile]

(* What was granted when the details were accepted is in force or volatile. *)
Lasting(c) ==
  details[c] # NoDetails => OnlyViewed(Accepted(c)) \/ ActionHolds(AtBest(c))

CaseInv(c) ==
  Shape(c) /\ Sourced(c) /\ Evidence(c) /\ Outcome(c) /\ Current(c) /\ Lasting(c)

OnceAcknowledged ==
  \A i, j \in DOMAIN acknowledged : acknowledged[i] = acknowledged[j] => i = j

IInv == Typed /\ OnceAcknowledged /\ \A c \in Case : CaseInv(c)

-----------------------------------------------------------------------------

LEMMA AcceptedFields ==
  ASSUME NEW c \in Case
  PROVE  /\ Accepted(c).type = details[c].type
         /\ Accepted(c).holds = IF TargetExists(c) THEN grants[c] \cup {"TARGET"} ELSE grants[c]
         /\ "OWNER" \in Accepted(c).holds <=> "OWNER" \in grants[c]
         /\ Guarded(Accepted(c)) <=> details[c].type \in GuardedType
         /\ AsksStatus(Accepted(c)) <=> details[c].type = "STATUS_REQUEST"
         /\ OnlyViewed(Accepted(c)) <=>
              details[c].type = "STATUS_REQUEST" /\ "OWNER" \notin grants[c]
BY DEF Accepted, FactsOf, Guarded, AsksStatus, OnlyViewed

LEMMA FactsOfIsFacts ==
  ASSUME Typed, NEW c \in Case, NEW type \in RequestType
  PROVE  FactsOf(c, type) \in Facts
<1>1. request[c] \in Request
  BY DEF Typed
<1>2. grants[c] \subseteq Grant
  BY DEF Typed
<1>3. "TARGET" \in Grant
  BY DEF Grant
<1> QED
  BY <1>1, <1>2, <1>3 DEF FactsOf, Facts, Request

(* A new event is the last of its case and changes nothing before it.       *)
LEMMA NewEvent ==
  ASSUME Typed, NEW c \in Case, NEW type \in EventName, NEW from \in States,
         NEW to \in CaseStates, Record(c, type, from, to), version'[c] \in Nat
  PROVE  /\ log' \in [Case -> Seq(EventRow)]
         /\ \A d \in Case \ {c} : log'[d] = log[d]
         /\ DOMAIN log'[c] = 1..(Len(log[c]) + 1)
         /\ Len(log'[c]) = Len(log[c]) + 1
         /\ log'[c][Len(log[c]) + 1].type = type
         /\ log'[c][Len(log[c]) + 1].from = from
         /\ log'[c][Len(log[c]) + 1].to = to
         /\ log'[c][Len(log[c]) + 1].trigger.version = version'[c]
         /\ \A i \in 1..Len(log[c]) : log'[c][i] = log[c][i]
         /\ DOMAIN log[c] = 1..Len(log[c])
         /\ Len(log[c]) \in Nat
         /\ log'[c] # <<>>
         /\ \A t : LastIs(c, t)' <=> t = type
<1> DEFINE E == NewRow(c, type, from, to)
<1>1. /\ E \in EventRow
      /\ E.type = type /\ E.from = from /\ E.to = to /\ E.trigger.version = version'[c]
  BY DEF NewRow, Row!Entry, EventRow, CaseStates, States
<1>2. log[c] \in Seq(EventRow)
  BY DEF Typed
<1>3. log' = [log EXCEPT ![c] = Append(log[c], E)]
  BY DEF Record
<1> HIDE DEF E
<1>4. log'[c] = Append(log[c], E)
  BY <1>3 DEF Typed
<1>5. Append(log[c], E) \in Seq(EventRow)
  BY <1>1, <1>2
<1>6. /\ Len(log[c]) \in Nat
      /\ DOMAIN log[c] = 1..Len(log[c])
      /\ Len(log'[c]) = Len(log[c]) + 1
      /\ DOMAIN log'[c] = 1..(Len(log[c]) + 1)
      /\ log'[c][Len(log[c]) + 1] = E
      /\ \A i \in 1..Len(log[c]) : log'[c][i] = log[c][i]
      /\ log'[c] # <<>>
  BY <1>1, <1>2, <1>4, <1>5, LenProperties, AppendProperties
<1>7. \A t : LastIs(c, t)' <=> t = type
  BY <1>1, <1>6 DEF LastIs
<1> QED
  BY <1>1, <1>3, <1>4, <1>5, <1>6, <1>7 DEF Typed

-----------------------------------------------------------------------------
(* A case whose rows, message and lasting grants do not change stays as it  *)
(* is, even when the case it refers to moves.                               *)

Same(c) ==
  /\ caseState'[c] = caseState[c] /\ version'[c] = version[c] /\ log'[c] = log[c]
  /\ details'[c] = details[c] /\ approval'[c] = approval[c]
  /\ IsAcknowledged(c)' <=> IsAcknowledged(c)

SameMessage(c) == payload'[c] = payload[c] /\ phase'[c] = phase[c] /\ effect'[c] = effect[c]

SameGrants(c) ==
  /\ request'[c] = request[c]
  /\ grants'[c] \cup Volatile = grants[c] \cup Volatile
  /\ TargetExists(c) => TargetExists(c)'

LEMMA LastingStays ==
  ASSUME NEW c \in Case, Lasting(c), SameGrants(c), details'[c] = details[c]
  PROVE  Lasting(c)'
<1> SUFFICES ASSUME details[c] # NoDetails PROVE Lasting(c)'
  BY DEF Lasting, NoDetails
<1>1. "OWNER" \in grants'[c] <=> "OWNER" \in grants[c]
  BY DEF SameGrants
<1>2. OnlyViewed(Accepted(c)) => OnlyViewed(Accepted(c))'
  BY <1>1 DEF OnlyViewed, AsksStatus, Accepted, FactsOf
<1>3. AtBest(c).holds \subseteq AtBest(c)'.holds
  BY DEF AtBest, Accepted, FactsOf, SameGrants
<1>4. AtBest(c).type = AtBest(c)'.type
  BY DEF AtBest
<1> QED
  BY <1>2, <1>3, <1>4, ActionHoldsMonotone DEF Lasting

LEMMA CaseStays ==
  ASSUME NEW c \in Case, CaseInv(c), Same(c), SameMessage(c), SameGrants(c)
  PROVE  CaseInv(c)'
<1>1. Shape(c)'
  BY DEF CaseInv, Shape, Same, LastIs
<1>2. Sourced(c)'
  BY DEF CaseInv, Sourced, Same, SourceFits, SourceTypes
<1>3. Evidence(c)'
  <2>1. "OWNER" \in grants'[c] <=> "OWNER" \in grants[c]
    BY DEF SameGrants
  <2> QED
    BY <2>1 DEF CaseInv, Evidence, Same, SameMessage, Row!Logged
<1>4. Outcome(c)'
  BY DEF CaseInv, Outcome, Same, SameMessage
<1>5. Current(c)'
  BY DEF CaseInv, Current, Same, SameMessage, NoPayload
<1>6. Lasting(c)'
  BY LastingStays DEF CaseInv, Same
<1> QED
  BY <1>1, <1>2, <1>3, <1>4, <1>5, <1>6 DEF CaseInv

-----------------------------------------------------------------------------
(* A case moves before anything is done for it.  What the writer has to see *)
(* to are the last three assumptions.                                       *)

DetailRows == [type : RequestType, by : {"SYSTEM_RULE", "SERVICE_AGENT"}] \cup {NoDetails}
Decisions == {"NONE", "PENDING", "APPROVED", "REJECTED"}

(* The event fits the state and the rows it comes with. *)
EventFits(type, to, d, a) ==
  /\ type = "ANALYSIS_STARTED" => to = "ANALYZING"
  /\ type = "ANALYSIS_READY_FOR_RETRIEVAL" => to = "ANALYZING" /\ d.type = "POLICY_QUESTION"
  /\ type = "SERVICE_AGENT_CORRECTION_ACCEPTED" =>
       to = "ANALYZING" /\ d # NoDetails /\ d.by = "SERVICE_AGENT"
  /\ type = "APPROVAL_APPROVED" =>
       to = "READY_FOR_ACTION" /\ a = "APPROVED" /\ d.type \in GuardedType
  /\ to = "PENDING_APPROVAL" => d.type \in GuardedType

(* READY_FOR_ACTION is reached with details, and without an approval by a   *)
(* source event of theirs.                                                  *)
ReadyFits(type, to, d) ==
  /\ to \in ActedOn => to = "READY_FOR_ACTION" /\ d # NoDetails
  /\ to = "READY_FOR_ACTION" /\ d.type \notin GuardedType =>
       /\ type \in IF d.type = "POLICY_QUESTION" THEN {"POLICY_RETRIEVAL_READY"}
                   ELSE {"ANALYSIS_READY", "HUMAN_REVIEW_REANALYZED"}
       /\ type = "ANALYSIS_READY" => d.by = "SYSTEM_RULE"
       /\ type = "HUMAN_REVIEW_REANALYZED" => d.by = "SERVICE_AGENT"

(* New details are accepted under the grants of the moment. *)
DetailsFit(c, d) ==
  d # NoDetails /\ d # details[c] =>
    OnlyViewed(FactsOf(c, d.type)) \/ ActionHolds(FactsOf(c, d.type))

Moves(c, type, from, to) ==
  \/ /\ from = caseState[c] /\ <<from, to>> \in Row(c)!AllowedMoves
     /\ Advance(c, type, from, to)
  \/ caseState[c] = to /\ Note(c, type, to)

LEMMA MovesVersion ==
  ASSUME Typed, NEW c \in Case, NEW type, NEW from, NEW to, Moves(c, type, from, to)
  PROVE  version'[c] \in Nat
BY DEF Moves, Advance, Note, Typed

LEMMA MovesCase ==
  ASSUME Typed, NEW c \in Case, caseState[c] # "ABSENT" => version[c] > 0,
         NEW type \in EventName, NEW from \in States, NEW to \in CaseStates,
         Moves(c, type, from, to), request' = request
  PROVE  /\ caseState' \in [Case -> States] /\ version' \in [Case -> Nat]
         /\ log' \in [Case -> Seq(EventRow)]
         /\ caseState'[c] = to /\ version'[c] > 0
         /\ \A d \in Case \ {c} : /\ caseState'[d] = caseState[d] /\ version'[d] = version[d]
                                  /\ log'[d] = log[d]
         /\ \E e \in States : Record(c, type, e, to)
         /\ \A d \in Case : TargetExists(d) => TargetExists(d)'
<1>0. CaseStates \subseteq States /\ "ABSENT" \notin CaseStates
  BY DEF CaseStates, States, Row!CaseState
<1>1. \E e \in States : Record(c, type, e, to)
  BY <1>0 DEF Moves, Advance, Note
<1>2. /\ caseState' \in [Case -> States] /\ version' \in [Case -> Nat]
      /\ caseState'[c] = to /\ version'[c] > 0
      /\ \A d \in Case \ {c} : caseState'[d] = caseState[d] /\ version'[d] = version[d]
  <2>1. CASE Advance(c, type, from, to)
    BY <1>0, <2>1 DEF Advance, Typed
  <2>2. CASE caseState[c] = to /\ Note(c, type, to)
    BY <1>0, <2>2 DEF Note, Typed
  <2> QED
    BY <2>1, <2>2 DEF Moves
<1>3. log' \in [Case -> Seq(EventRow)] /\ \A d \in Case \ {c} : log'[d] = log[d]
  BY <1>1, <1>2, NewEvent
<1>4. ASSUME NEW d \in Case, TargetExists(d) PROVE TargetExists(d)'
  BY <1>0, <1>2, <1>4 DEF TargetExists
<1> QED
  BY <1>1, <1>2, <1>3, <1>4

Writes(c, type, from, to, d, a) ==
  /\ caseState[c] \notin ActedOn
  /\ type \in EventName /\ from \in States /\ to \in CaseStates
  /\ d \in DetailRows /\ a \in Decisions
  /\ Moves(c, type, from, to)
  /\ details' = [details EXCEPT ![c] = d] /\ approval' = [approval EXCEPT ![c] = a]
  /\ Elsewhere
  /\ EventFits(type, to, d, a) /\ ReadyFits(type, to, d) /\ DetailsFit(c, d)

Moved(c) == \E type, from, to, d, a : Writes(c, type, from, to, d, a)

LEMMA MoveKeepsInv ==
  ASSUME IInv, NEW c \in Case, Moved(c)
  PROVE  IInv'
<1> PICK type, from, to, d, a : Writes(c, type, from, to, d, a)
  BY DEF Moved
<1> USE DEF Writes, Elsewhere, messageVars
<1>1. Typed /\ CaseInv(c) /\ OnceAcknowledged
  BY DEF IInv
<1>2. /\ caseState' \in [Case -> States] /\ version' \in [Case -> Nat]
      /\ log' \in [Case -> Seq(EventRow)]
      /\ caseState'[c] = to /\ version'[c] > 0
      /\ \A x \in Case \ {c} : /\ caseState'[x] = caseState[x] /\ version'[x] = version[x]
                               /\ log'[x] = log[x]
      /\ \A x \in Case : TargetExists(x) => TargetExists(x)'
  BY <1>1, MovesCase DEF CaseInv, Shape
<1>3. PICK e \in States : Record(c, type, e, to)
  BY <1>1, MovesCase DEF CaseInv, Shape
<1>4. details'[c] = d /\ approval'[c] = a
  BY <1>1 DEF Typed
<1>5. Typed'
  BY <1>1, <1>2 DEF Typed, Desk!TypeOK, DetailRows, Decisions
<1>6. OnceAcknowledged'
  BY <1>1 DEF OnceAcknowledged
<1>7. phase[c] = "absent" /\ phase'[c] = "absent" /\ payload'[c] = NoPayload
  BY <1>1 DEF CaseInv, Evidence, Current
<1>8. ~IsAcknowledged(c) /\ ~IsAcknowledged(c)'
  BY <1>1 DEF CaseInv, Shape, IsAcknowledged
<1>9. CaseInv(c)'
  <2>1. /\ \A t : LastIs(c, t)' <=> t = type
        /\ DOMAIN log'[c] = 1..(Len(log[c]) + 1) /\ Len(log[c]) \in Nat
        /\ log'[c][Len(log[c]) + 1].type = type /\ log'[c][Len(log[c]) + 1].to = to
        /\ log'[c][Len(log[c]) + 1].trigger.version = version'[c]
    <3> HIDE DEF Elsewhere, messageVars
    <3> QED
      BY <1>1, <1>2, <1>3, NewEvent
  <2>2. Shape(c)'
    BY <1>2, <1>4, <1>8, <2>1 DEF Shape, EventFits, ReadyFits, NoDetails
  <2>3. Sourced(c)'
    <3> SUFFICES ASSUME to = "READY_FOR_ACTION", d.type \notin GuardedType
                 PROVE  SourceFits(c)'
      BY <1>2, <1>4 DEF Sourced
    <3>1. type \in SourceTypes(c)'
      BY <1>4 DEF ReadyFits, SourceTypes
    <3>2. Len(log[c]) + 1 \in DOMAIN log'[c] /\ \A j \in DOMAIN log'[c] : j <= Len(log[c]) + 1
      BY <2>1
    <3> QED
      BY <1>4, <2>1, <3>1, <3>2 DEF SourceFits, ReadyFits
  <2>4. Evidence(c)' /\ Outcome(c)'
    <3>1. to \notin {"COMPLETED", "FAILED"}
      BY DEF ReadyFits, ActedOn
    <3> QED
      BY <1>1, <1>2, <1>7, <3>1 DEF Evidence, Outcome, CaseInv
  <2>5. Current(c)'
    BY <1>7 DEF Current, NoPayload
  <2>6. Lasting(c)'
    <3>1. CASE d = details[c]
      BY <1>1, <1>2, <1>4, <3>1, LastingStays DEF SameGrants, CaseInv
    <3>2. CASE d # details[c] /\ d # NoDetails
      <4> DEFINE f == FactsOf(c, d.type)
      <4>1. OnlyViewed(f) \/ ActionHolds(f)
        BY <3>2 DEF DetailsFit
      <4>2. OnlyViewed(f) => OnlyViewed(Accepted(c))'
        BY <1>4 DEF OnlyViewed, AsksStatus, Accepted, FactsOf
      <4>3. f.type = AtBest(c)'.type /\ f.holds \subseteq AtBest(c)'.holds
        BY <1>2, <1>4 DEF AtBest, Accepted, FactsOf
      <4> QED
        BY <4>1, <4>2, <4>3, ActionHoldsMonotone DEF Lasting
    <3>3. CASE d = NoDetails
      BY <1>4, <3>3 DEF Lasting, NoDetails
    <3> QED
      BY <3>1, <3>2, <3>3
  <2> QED
    BY <2>2, <2>3, <2>4, <2>5, <2>6 DEF CaseInv
<1>10. ASSUME NEW x \in Case \ {c} PROVE CaseInv(x)'
  <2>1. Same(x)
    BY <1>1, <1>2 DEF Same, Typed, IsAcknowledged
  <2>2. SameMessage(x) /\ SameGrants(x)
    BY <1>2 DEF SameMessage, SameGrants
  <2> QED
    BY <2>1, <2>2, CaseStays DEF IInv
<1> QED
  BY <1>5, <1>6, <1>9, <1>10 DEF IInv

-----------------------------------------------------------------------------
(* The steps up to READY_FOR_ACTION *)

LEMMA RowsAsTheyAre ==
  ASSUME Typed, NEW c \in Case
  PROVE  /\ details[c] \in DetailRows /\ details = [details EXCEPT ![c] = details[c]]
         /\ approval[c] \in Decisions /\ approval = [approval EXCEPT ![c] = approval[c]]
BY DEF Typed, DetailRows, Decisions

LEMMA ReceiveMoves == ASSUME IInv, NEW c \in Case, Receive(c) PROVE Moved(c)
<1>1. /\ details[c] \in DetailRows /\ details' = [details EXCEPT ![c] = details[c]]
      /\ approval[c] \in Decisions /\ approval' = [approval EXCEPT ![c] = approval[c]]
  BY RowsAsTheyAre DEF IInv, Receive
<1>5. Moves(c, "CASE_RECEIVED", "ABSENT", "RECEIVED") /\ Elsewhere
  <2>1. caseState[c] = "ABSENT" /\ <<"ABSENT", "RECEIVED">> \in Row(c)!AllowedMoves
    BY DEF Receive, Row!AllowedMoves
  <2> QED
    BY <2>1, Zenon DEF Receive, Moves
<1>2. caseState[c] \notin ActedOn
  BY DEF Receive, ActedOn
<1>3. "ABSENT" \in States /\ "RECEIVED" \in CaseStates /\ "CASE_RECEIVED" \in EventName
  BY DEF States, CaseStates, Row!CaseState, EventName
<1>4. /\ EventFits("CASE_RECEIVED", "RECEIVED", details[c], approval[c])
      /\ ReadyFits("CASE_RECEIVED", "RECEIVED", details[c]) /\ DetailsFit(c, details[c])
  BY DEF EventFits, ReadyFits, DetailsFit, ActedOn
<1>6. Writes(c, "CASE_RECEIVED", "ABSENT", "RECEIVED", details[c], approval[c])
  BY <1>1, <1>2, <1>3, <1>4, <1>5, Zenon DEF Writes
<1> QED
  BY <1>6, Zenon DEF Moved

LEMMA StartAnalysisMoves == ASSUME IInv, NEW c \in Case, StartAnalysis(c) PROVE Moved(c)
<1>1. /\ details[c] \in DetailRows /\ details' = [details EXCEPT ![c] = details[c]]
      /\ approval[c] \in Decisions /\ approval' = [approval EXCEPT ![c] = approval[c]]
  BY RowsAsTheyAre DEF IInv, StartAnalysis
<1>2. Moves(c, "ANALYSIS_STARTED", "RECEIVED", "ANALYZING") /\ Elsewhere
  <2>1. caseState[c] = "RECEIVED" /\ <<"RECEIVED", "ANALYZING">> \in Row(c)!AllowedMoves
    BY DEF StartAnalysis, Row!AllowedMoves
  <2> QED
    BY <2>1, Zenon DEF StartAnalysis, Moves
<1>5. caseState[c] \notin ActedOn
  BY DEF StartAnalysis, ActedOn
<1>3. "RECEIVED" \in States /\ "ANALYZING" \in CaseStates /\ "ANALYSIS_STARTED" \in EventName
  BY DEF States, CaseStates, Row!CaseState, EventName
<1>4. /\ EventFits("ANALYSIS_STARTED", "ANALYZING", details[c], approval[c])
      /\ ReadyFits("ANALYSIS_STARTED", "ANALYZING", details[c]) /\ DetailsFit(c, details[c])
  BY DEF EventFits, ReadyFits, DetailsFit, ActedOn
<1>6. Writes(c, "ANALYSIS_STARTED", "RECEIVED", "ANALYZING", details[c], approval[c])
  BY <1>1, <1>2, <1>3, <1>4, <1>5, Zenon DEF Writes
<1> QED
  BY <1>6, Zenon DEF Moved

(* What the validation lets through is an action, or a status only viewed.  *)
LEMMA ValidateMoves == ASSUME IInv, NEW c \in Case, Validate(c) PROVE Moved(c)
<1> DEFINE f == Asked(c)
           to == TargetState(f)
           d == IF Verdict(f).decision = "READY" THEN [type |-> f.type, by |-> "SYSTEM_RULE"]
                ELSE details[c]
           a == IF to = "PENDING_APPROVAL" THEN "PENDING" ELSE approval[c]
<1>1. /\ Typed
      /\ LastIs(c, "ANALYSIS_STARTED") => caseState[c] = "ANALYZING"
  BY DEF IInv, CaseInv, Shape
<1>2. request[c].type \in RequestType
  BY <1>1 DEF Typed, Request
<1>3. f \in Facts /\ f.type \in RequestType
  BY <1>1, <1>2, FactsOfIsFacts DEF Asked, FactsOf
<1>4. caseState[c] = "ANALYZING" /\ caseState[c] \notin ActedOn
  BY <1>1 DEF Validate, ActedOn
<1>5. /\ details[c] \in DetailRows /\ details = [details EXCEPT ![c] = details[c]]
      /\ approval[c] \in Decisions /\ approval = [approval EXCEPT ![c] = approval[c]]
  BY <1>1, RowsAsTheyAre
<1>6. d \in DetailRows /\ a \in Decisions
  BY <1>3, <1>5 DEF DetailRows, Decisions
<1>7. details' = [details EXCEPT ![c] = d] /\ approval' = [approval EXCEPT ![c] = a]
  BY <1>5 DEF Validate, Accept, AskApproval
<1>8. Moves(c, EventType(f), "ANALYZING", to) /\ Elsewhere
  <2> HIDE DEF f, d, a
  <2>1. to = "ANALYZING" \/ <<"ANALYZING", to>> \in Row(c)!AllowedMoves
    BY <1>3, VerdictArms DEF Row!AllowedMoves
  <2> QED
    BY <1>4, <2>1, Zenon DEF Validate, Moves, f
<1>9. /\ EventType(f) \in EventName /\ to \in CaseStates /\ "ANALYZING" \in States
      /\ EventFits(EventType(f), to, d, a) /\ ReadyFits(EventType(f), to, d)
  <2> HIDE DEF f
  <2>1. Verdict(f).decision = "READY" =>
          d.type = f.type /\ d.by = "SYSTEM_RULE" /\ d # NoDetails
    BY <1>3 DEF NoDetails, RequestType, GuardedType, SafeType
  <2>2. "ANALYZING" \in States
    BY DEF States, Row!CaseState, EventName
  <2>3. CASE Verdict(f).decision # "READY"
    <3>1. /\ to \in {"NEEDS_REVIEW", "NEEDS_INFORMATION", "REJECTED"}
          /\ EventType(f) \in {"ANALYSIS_NEEDS_INFORMATION", "ANALYSIS_NEEDS_REVIEW",
                               "ANALYSIS_REJECTED"}
      BY <1>3, <2>3, VerdictArms
    <3> HIDE DEF d, a, to
    <3> QED
      BY <2>2, <3>1 DEF EventFits, ReadyFits, ActedOn, CaseStates, Row!CaseState, EventName
  <2>4. CASE Verdict(f).decision = "READY"
    <3>1. \/ Guarded(f) /\ to = "PENDING_APPROVAL" /\ EventType(f) = "APPROVAL_REQUESTED"
          \/ /\ f.type = "POLICY_QUESTION" /\ to = "ANALYZING"
             /\ EventType(f) = "ANALYSIS_READY_FOR_RETRIEVAL"
          \/ /\ ~Guarded(f) /\ f.type # "POLICY_QUESTION" /\ to = "READY_FOR_ACTION"
             /\ EventType(f) = "ANALYSIS_READY"
      BY <1>3, <2>4, VerdictArms
    <3>2. d.type = f.type /\ d.by = "SYSTEM_RULE" /\ d # NoDetails
      BY <2>1, <2>4
    <3> HIDE DEF d, a, to
    <3> QED
      BY <2>2, <3>1, <3>2 DEF EventFits, ReadyFits, ActedOn, CaseStates, Row!CaseState, EventName, Guarded
  <2> QED
    BY <2>3, <2>4
<1>10. DetailsFit(c, d)
  <2> SUFFICES ASSUME Verdict(f).decision = "READY"
               PROVE  OnlyViewed(f) \/ ActionHolds(f)
    <3>1. f = FactsOf(c, f.type)
      BY DEF Asked, FactsOf
    <3> HIDE DEF f
    <3> QED
      BY <3>1 DEF DetailsFit
  <2> QED
    BY <1>3, VerdictGrantsAction
<1> HIDE DEF f, to, d, a
<1>11. Writes(c, EventType(f), "ANALYZING", to, d, a)
  BY <1>4, <1>6, <1>7, <1>8, <1>9, <1>10, Zenon DEF Writes
<1> QED
  BY <1>11, Zenon DEF Moved

LEMMA RetrievePolicyMoves ==
  ASSUME IInv, NEW c \in Case, NEW to \in {"READY_FOR_ACTION", "NEEDS_REVIEW"},
         RetrievePolicy(c, to)
  PROVE  Moved(c)
<1> DEFINE type == IF to = "READY_FOR_ACTION" THEN "POLICY_RETRIEVAL_READY"
                   ELSE "POLICY_RETRIEVAL_NEEDS_REVIEW"
<1>1. caseState[c] = "ANALYZING" /\ details[c].type = "POLICY_QUESTION"
  BY DEF IInv, CaseInv, Shape, RetrievePolicy
<1>2. /\ details[c] \in DetailRows /\ details' = [details EXCEPT ![c] = details[c]]
      /\ approval[c] \in Decisions /\ approval' = [approval EXCEPT ![c] = approval[c]]
  BY RowsAsTheyAre DEF IInv, RetrievePolicy
<1>3. Moves(c, type, "ANALYZING", to) /\ Elsewhere
  <2>1. <<"ANALYZING", to>> \in Row(c)!AllowedMoves
    BY DEF Row!AllowedMoves
  <2> QED
    BY <1>1, <2>1, Zenon DEF RetrievePolicy, Moves
<1>6. caseState[c] \notin ActedOn
  BY <1>1 DEF ActedOn
<1>7. type \in EventName
  BY DEF EventName
<1>4. "ANALYZING" \in States /\ to \in CaseStates
  BY DEF States, CaseStates, Row!CaseState, EventName
<1>5. /\ EventFits(type, to, details[c], approval[c])
      /\ ReadyFits(type, to, details[c]) /\ DetailsFit(c, details[c])
  BY <1>1 DEF EventFits, ReadyFits, DetailsFit, ActedOn, NoDetails
<1>8. Writes(c, type, "ANALYZING", to, details[c], approval[c])
  BY <1>2, <1>3, <1>4, <1>5, <1>6, <1>7, Zenon DEF Writes
<1> QED
  BY <1>8, Zenon DEF Moved

(* What the agent may accept is an action, too. *)
LEMMA CorrectReviewMoves ==
  ASSUME IInv, NEW c \in Case, NEW t \in Corrected, CorrectReview(c, t)
  PROVE  Moved(c)
<1> DEFINE type == "SERVICE_AGENT_CORRECTION_ACCEPTED"
           d == [type |-> t, by |-> "SERVICE_AGENT"]
<1>1. t \in RequestType /\ Typed
  BY DEF IInv
<1>2. /\ d \in DetailRows /\ details' = [details EXCEPT ![c] = d]
      /\ approval[c] \in Decisions /\ approval' = [approval EXCEPT ![c] = approval[c]]
  BY <1>1, RowsAsTheyAre DEF CorrectReview, Accept, DetailRows
<1>3. Moves(c, type, "NEEDS_REVIEW", "ANALYZING") /\ Elsewhere
  <2>1. /\ caseState[c] = "NEEDS_REVIEW"
        /\ <<"NEEDS_REVIEW", "ANALYZING">> \in Row(c)!AllowedMoves
    BY DEF CorrectReview, Row!AllowedMoves
  <2> QED
    BY <2>1, Zenon DEF CorrectReview, Moves
<1>7. caseState[c] \notin ActedOn
  BY DEF CorrectReview, ActedOn
<1>4. "NEEDS_REVIEW" \in States /\ "ANALYZING" \in CaseStates /\ type \in EventName
  BY DEF States, CaseStates, Row!CaseState, EventName
<1>5. EventFits(type, "ANALYZING", d, approval[c]) /\ ReadyFits(type, "ANALYZING", d)
  BY <1>1 DEF EventFits, ReadyFits, ActedOn, NoDetails
<1>6. DetailsFit(c, d)
  BY <1>1, FactsOfIsFacts, AgentGrantsAction DEF CorrectReview, DetailsFit
<1>8. Writes(c, type, "NEEDS_REVIEW", "ANALYZING", d, approval[c])
  BY <1>2, <1>3, <1>4, <1>5, <1>6, <1>7, Zenon DEF Writes
<1> QED
  BY <1>8, Zenon DEF Moved

LEMMA RejectReviewMoves == ASSUME IInv, NEW c \in Case, RejectReview(c) PROVE Moved(c)
<1>1. /\ details[c] \in DetailRows /\ details' = [details EXCEPT ![c] = details[c]]
      /\ approval[c] \in Decisions /\ approval' = [approval EXCEPT ![c] = approval[c]]
  BY RowsAsTheyAre DEF IInv, RejectReview
<1>2. Moves(c, "SERVICE_AGENT_REJECTED", "NEEDS_REVIEW", "REJECTED") /\ Elsewhere
  <2>1. /\ caseState[c] = "NEEDS_REVIEW"
        /\ <<"NEEDS_REVIEW", "REJECTED">> \in Row(c)!AllowedMoves
    BY DEF RejectReview, Row!AllowedMoves
  <2> QED
    BY <2>1, Zenon DEF RejectReview, Moves
<1>5. caseState[c] \notin ActedOn
  BY DEF RejectReview, ActedOn
<1>3. /\ "NEEDS_REVIEW" \in States /\ "REJECTED" \in CaseStates
      /\ "SERVICE_AGENT_REJECTED" \in EventName
  BY DEF States, CaseStates, Row!CaseState, EventName
<1>4. /\ EventFits("SERVICE_AGENT_REJECTED", "REJECTED", details[c], approval[c])
      /\ ReadyFits("SERVICE_AGENT_REJECTED", "REJECTED", details[c])
      /\ DetailsFit(c, details[c])
  BY DEF EventFits, ReadyFits, DetailsFit, ActedOn
<1>6. Writes(c, "SERVICE_AGENT_REJECTED", "NEEDS_REVIEW", "REJECTED", details[c], approval[c])
  BY <1>1, <1>2, <1>3, <1>4, <1>5, Zenon DEF Writes
<1> QED
  BY <1>6, Zenon DEF Moved

LEMMA RouteReviewedCaseMoves ==
  ASSUME IInv, NEW c \in Case, RouteReviewedCase(c)
  PROVE  Moved(c)
<1> DEFINE g == details[c].type \in GuardedType
           to == IF g THEN "PENDING_APPROVAL"
                 ELSE IF details[c].type = "POLICY_QUESTION" THEN "ANALYZING"
                 ELSE "READY_FOR_ACTION"
           type == "HUMAN_REVIEW_REANALYZED"
           a == IF g THEN "PENDING" ELSE approval[c]
<1>1. /\ caseState[c] = "ANALYZING" /\ details[c] # NoDetails
      /\ details[c].by = "SERVICE_AGENT"
  BY DEF IInv, CaseInv, Shape, RouteReviewedCase
<1>2. /\ details[c] \in DetailRows /\ details' = [details EXCEPT ![c] = details[c]]
      /\ approval[c] \in Decisions /\ approval = [approval EXCEPT ![c] = approval[c]]
  BY RowsAsTheyAre DEF IInv, RouteReviewedCase
<1>3. a \in Decisions /\ approval' = [approval EXCEPT ![c] = a]
  BY <1>2, AcceptedFields DEF RouteReviewedCase, AskApproval, Decisions
<1>4. Moves(c, type, "ANALYZING", to)
  <2>5. /\ <<"ANALYZING", "PENDING_APPROVAL">> \in Row(c)!AllowedMoves
        /\ <<"ANALYZING", "READY_FOR_ACTION">> \in Row(c)!AllowedMoves
    BY DEF Row!AllowedMoves
  <2>1. g => details[c].type # "POLICY_QUESTION"
    BY DEF GuardedType
  <2>2. CASE g
    <3>1. /\ Guarded(Accepted(c)) /\ Accepted(c).type # "POLICY_QUESTION"
          /\ to = "PENDING_APPROVAL"
      BY <2>1, <2>2, AcceptedFields
    <3>2. Advance(c, type, "ANALYZING", "PENDING_APPROVAL")
      BY <3>1 DEF RouteReviewedCase
    <3> QED
      BY <1>1, <2>5, <3>1, <3>2, Zenon DEF Moves
  <2>3. CASE details[c].type = "POLICY_QUESTION"
    <3>1. ~Guarded(Accepted(c)) /\ Accepted(c).type = "POLICY_QUESTION" /\ to = "ANALYZING"
      BY <2>1, <2>3, AcceptedFields
    <3>2. Note(c, type, "ANALYZING")
      BY <3>1 DEF RouteReviewedCase
    <3> QED
      BY <1>1, <3>1, <3>2, Zenon DEF Moves
  <2>4. CASE ~g /\ details[c].type # "POLICY_QUESTION"
    <3>1. /\ ~Guarded(Accepted(c)) /\ Accepted(c).type # "POLICY_QUESTION"
          /\ to = "READY_FOR_ACTION"
      BY <2>4, AcceptedFields
    <3>2. Advance(c, type, "ANALYZING", "READY_FOR_ACTION")
      BY <3>1 DEF RouteReviewedCase
    <3> QED
      BY <1>1, <2>5, <3>1, <3>2, Zenon DEF Moves
  <2> QED
    BY <2>2, <2>3, <2>4
<1>5. Elsewhere /\ caseState[c] \notin ActedOn
  BY <1>1 DEF RouteReviewedCase, ActedOn
<1>6. "ANALYZING" \in States /\ to \in CaseStates /\ type \in EventName
  BY DEF States, CaseStates, Row!CaseState, EventName
<1>7. /\ EventFits(type, to, details[c], a) /\ ReadyFits(type, to, details[c])
      /\ DetailsFit(c, details[c])
  BY <1>1 DEF EventFits, ReadyFits, DetailsFit, ActedOn
<1> HIDE DEF to, a
<1>8. Writes(c, type, "ANALYZING", to, details[c], a)
  BY <1>2, <1>3, <1>4, <1>5, <1>6, <1>7, Zenon DEF Writes
<1> QED
  BY <1>8, Zenon DEF Moved

LEMMA DecideApprovalMoves ==
  ASSUME IInv, NEW c \in Case, NEW decision \in {"APPROVED", "REJECTED"},
         DecideApproval(c, decision)
  PROVE  Moved(c)
<1> DEFINE type == IF decision = "APPROVED" THEN "APPROVAL_APPROVED" ELSE "APPROVAL_REJECTED"
           to == IF decision = "APPROVED" THEN "READY_FOR_ACTION" ELSE "REJECTED"
<1>1. caseState[c] = "PENDING_APPROVAL" /\ details[c].type \in GuardedType
  BY DEF IInv, CaseInv, Shape, DecideApproval
<1>2. /\ details[c] \in DetailRows /\ details' = [details EXCEPT ![c] = details[c]]
      /\ decision \in Decisions /\ approval' = [approval EXCEPT ![c] = decision]
  BY RowsAsTheyAre DEF IInv, DecideApproval, Decisions
<1>3. Moves(c, type, "PENDING_APPROVAL", to) /\ Elsewhere
  <2>1. <<"PENDING_APPROVAL", to>> \in Row(c)!AllowedMoves
    BY DEF Row!AllowedMoves
  <2> QED
    BY <1>1, <2>1, Zenon DEF DecideApproval, Moves
<1>6. caseState[c] \notin ActedOn
  BY <1>1 DEF ActedOn
<1>7. type \in EventName
  BY DEF EventName
<1>4. "PENDING_APPROVAL" \in States /\ to \in CaseStates
  BY DEF States, CaseStates, Row!CaseState, EventName
<1>5. /\ EventFits(type, to, details[c], decision) /\ ReadyFits(type, to, details[c])
      /\ DetailsFit(c, details[c])
  BY <1>1 DEF EventFits, ReadyFits, DetailsFit, ActedOn, NoDetails, GuardedType
<1>8. Writes(c, type, "PENDING_APPROVAL", to, details[c], decision)
  BY <1>2, <1>3, <1>4, <1>5, <1>6, <1>7, Zenon DEF Writes
<1> QED
  BY <1>8, Zenon DEF Moved

-----------------------------------------------------------------------------
(* The acknowledgement, the message and the reconciliation *)

LEMMA AcknowledgeKeepsInv == ASSUME IInv, NEW c \in Case, AcknowledgeApproval(c) PROVE IInv'
<1> DEFINE type == "HUMAN_DECISION_RESUME_ACKNOWLEDGED"
<1>1. Typed /\ CaseInv(c) /\ OnceAcknowledged
  BY DEF IInv
<1>2. /\ caseState[c] = "READY_FOR_ACTION" /\ approval[c] = "APPROVED"
      /\ details[c].type \in GuardedType /\ ~IsAcknowledged(c) /\ details[c] # NoDetails
  BY <1>1 DEF CaseInv, Shape, AcknowledgeApproval, ActedOn
<1>3. /\ Record(c, type, "READY_FOR_ACTION", "READY_FOR_ACTION")
      /\ UNCHANGED <<caseState, version, request, grants, details, approval, payload, phase,
                     effect, run>>
  BY DEF AcknowledgeApproval, Note, messageVars
<1>4. /\ "READY_FOR_ACTION" \in CaseStates /\ "READY_FOR_ACTION" \in States
      /\ type \in EventName
  BY DEF States, CaseStates, Row!CaseState, EventName
<1>5. /\ log' \in [Case -> Seq(EventRow)] /\ \A d \in Case \ {c} : log'[d] = log[d]
      /\ DOMAIN log'[c] = 1..(Len(log[c]) + 1) /\ Len(log[c]) \in Nat
      /\ DOMAIN log[c] = 1..Len(log[c])
      /\ \A i \in 1..Len(log[c]) : log'[c][i] = log[c][i]
      /\ \A t : LastIs(c, t)' <=> t = type
  BY <1>1, <1>3, <1>4, NewEvent DEF Typed
<1>6. /\ acknowledged' \in Seq(Case)
      /\ \A d \in Case : IsAcknowledged(d)' <=> IsAcknowledged(d) \/ d = c
      /\ OnceAcknowledged'
  <2>1. acknowledged \in Seq(Case) /\ acknowledged' = Append(acknowledged, c)
    BY <1>1 DEF Typed, AcknowledgeApproval
  <2>2. /\ DOMAIN acknowledged = 1..Len(acknowledged) /\ Len(acknowledged) \in Nat
        /\ acknowledged' \in Seq(Case)
        /\ DOMAIN acknowledged' = 1..(Len(acknowledged) + 1)
        /\ acknowledged'[Len(acknowledged) + 1] = c
        /\ \A i \in 1..Len(acknowledged) : acknowledged'[i] = acknowledged[i]
    BY <2>1, LenProperties, AppendProperties
  <2> QED
    BY <1>1, <1>2, <2>2 DEF IsAcknowledged, OnceAcknowledged
<1>7. Typed'
  BY <1>1, <1>3, <1>5, <1>6 DEF Typed, Desk!TypeOK
<1>8. /\ \A d \in Case : SameMessage(d) /\ SameGrants(d)
      /\ \A d \in Case \ {c} : Same(d)
  BY <1>3, <1>5, <1>6 DEF SameMessage, SameGrants, Same, TargetExists
<1>9. CaseInv(c)'
  <2>1. Shape(c)'
    BY <1>1, <1>2, <1>3, <1>5, <1>6 DEF Shape, CaseInv, ActedOn
  <2>2. Sourced(c)'
    BY <1>2, <1>3 DEF Sourced
  <2>3. Evidence(c)'
    BY <1>1, <1>2, <1>3, <1>6 DEF Evidence, CaseInv, ActedOn, GuardedType
  <2>4. Outcome(c)' /\ Current(c)'
    BY <1>1, <1>3 DEF Outcome, Current, CaseInv, NoPayload
  <2>5. Lasting(c)'
    BY <1>1, <1>3, <1>8, LastingStays DEF CaseInv
  <2> QED
    BY <2>1, <2>2, <2>3, <2>4, <2>5 DEF CaseInv
<1> QED
  BY <1>1, <1>6, <1>7, <1>8, <1>9, CaseStays DEF IInv

(* Rows that do not change, whatever else does. *)
LEMMA RowsStay ==
  ASSUME UNCHANGED <<request, caseRows, acknowledged>>
  PROVE  /\ \A c \in Case : Same(c)
         /\ \A c \in Case : TargetExists(c) => TargetExists(c)'
BY DEF caseRows, Same, IsAcknowledged, TargetExists

LEMMA ChangeGrantKeepsInv ==
  ASSUME IInv, NEW c \in Case, NEW g \in Volatile, ChangeGrant(c, g)
  PROVE  IInv'
<1>1. Typed
  BY DEF IInv
<1>2. UNCHANGED <<request, caseRows, acknowledged, messageVars, run>>
  BY DEF ChangeGrant
<1>3. \A d \in Case : grants'[d] \cup Volatile = grants[d] \cup Volatile
  BY <1>1 DEF ChangeGrant, Typed
<1>4. grants' \in [Case -> SUBSET (Grant \ {"TARGET"})]
  BY <1>1 DEF ChangeGrant, Typed
<1>5. Typed'
  BY <1>1, <1>2, <1>4 DEF Typed, Desk!TypeOK, caseRows, messageVars
<1>6. \A d \in Case : Same(d) /\ SameMessage(d) /\ SameGrants(d)
  BY <1>2, <1>3, RowsStay DEF SameMessage, SameGrants, messageVars
<1>7. OnceAcknowledged'
  BY <1>2 DEF OnceAcknowledged, IInv
<1> QED
  BY <1>5, <1>6, <1>7, CaseStays DEF IInv

(* Both ways of queueing: the rows authorize the message that is written.   *)
LEMMA QueueKeepsInv ==
  ASSUME IInv, NEW c \in Case, ApprovedNow(c) \/ SafeNow(c), Queue(c),
         UNCHANGED <<request, grants, caseRows, acknowledged>>,
         run' \in [Worker -> {"idle", "queued"} \cup Case]
  PROVE  IInv'
<1>1. Typed /\ CaseInv(c)
  BY DEF IInv
<1>2. /\ phase[c] = "absent" /\ phase' = [phase EXCEPT ![c] = "open"] /\ effect' = effect
      /\ payload' = [payload EXCEPT ![c] = BuildPayload(c)]
  BY DEF Queue, Desk!Submit
<1>3. caseState[c] = "READY_FOR_ACTION" /\ details[c] # NoDetails /\ version[c] > 0
  BY <1>1 DEF ApprovedNow, SafeNow, CaseInv, Shape, ActedOn
<1>4. View(c) \in States \cup {"NONE"}
        /\ (details[c].type # "STATUS_REQUEST" => View(c) = "NONE")
  <2>1. CASE details[c].type = "STATUS_REQUEST"
    <3>1. "TARGET" \in Accepted(c).holds
      BY <2>1, AcceptedFields DEF ApprovedNow, SafeNow, ApprovedActionHolds, SafeActionHolds,
         Guarded, GuardedType
    <3>2. TargetExists(c)
      BY <1>1, <3>1, AcceptedFields DEF Typed
    <3> QED
      BY <1>1, <2>1, <3>2, AcceptedFields DEF View, TargetExists, Typed
  <2>2. CASE details[c].type # "STATUS_REQUEST"
    BY <2>2, AcceptedFields DEF View
  <2> QED
    BY <2>1, <2>2
<1>5. Typed'
  <2>1. BuildPayload(c) \in [version : Nat, view : States \cup {"NONE"}]
    BY <1>1, <1>4 DEF BuildPayload, Typed
  <2>2. payload' \in [Case -> [version : Nat, view : States \cup {"NONE"}]] /\ Desk!TypeOK'
    BY <1>1, <1>2, <2>1 DEF Typed, Desk!TypeOK
  <2> QED
    BY <1>1, <2>2 DEF Typed, caseRows
<1>6. \A d \in Case : Same(d) /\ SameGrants(d)
  BY RowsStay DEF SameGrants
<1>7. CaseInv(c)'
  <2>1. /\ phase'[c] = "open" /\ payload'[c] = BuildPayload(c) /\ effect'[c] = effect[c]
        /\ effect[c] # 1
    BY <1>1, <1>2 DEF Typed, Desk!TypeOK, CaseInv, Outcome
  <2>2. /\ caseState'[c] = caseState[c] /\ version'[c] = version[c] /\ log'[c] = log[c]
        /\ details'[c] = details[c] /\ approval'[c] = approval[c]
        /\ IsAcknowledged(c)' <=> IsAcknowledged(c)
    BY <1>6 DEF Same
  <2>3. Shape(c)' /\ Sourced(c)'
    BY <1>1, <2>2 DEF CaseInv, Shape, Sourced, LastIs, SourceFits, SourceTypes
  <2>4. Evidence(c)'
    <3>1. /\ details[c].type \in GuardedType => approval[c] = "APPROVED" /\ IsAcknowledged(c)
          /\ details[c].type = "STATUS_REQUEST" => "OWNER" \in grants[c]
      <4>1. CASE ApprovedNow(c)
        BY <4>1, AcceptedFields DEF ApprovedNow, ApprovedActionHolds, GuardedType
      <4>2. CASE SafeNow(c)
        <5>1. /\ details[c].type \notin GuardedType
              /\ details[c].type = "STATUS_REQUEST" => "OWNER" \in Accepted(c).holds
          BY <4>2, AcceptedFields DEF SafeNow, SafeActionHolds
        <5> QED
          BY <5>1, AcceptedFields
      <4> QED
        BY <4>1, <4>2
    <3>2. details[c].type = "POLICY_QUESTION" => Row(c)!Logged("POLICY_RETRIEVAL_READY")
      <4> SUFFICES ASSUME details[c].type = "POLICY_QUESTION"
                   PROVE  Row(c)!Logged("POLICY_RETRIEVAL_READY")
        OBVIOUS
      <4>1. SafeNow(c)
        BY AcceptedFields DEF ApprovedNow, ApprovedActionHolds, GuardedType
      <4> QED
        BY <4>1 DEF SafeNow, SourceFits, SourceTypes, Row!Logged
    <3> QED
      BY <1>3, <2>2, <3>1, <3>2 DEF Evidence, ActedOn, Row!Logged
  <2>5. Outcome(c)'
    BY <1>3, <2>1, <2>2 DEF Outcome
  <2>6. Current(c)'
    BY <1>1, <1>3, <1>4, <2>1, <2>2 DEF Current, BuildPayload, NoPayload, Typed
  <2>7. Lasting(c)'
    BY <1>1, <1>6, <2>2, LastingStays DEF CaseInv
  <2> QED
    BY <2>3, <2>4, <2>5, <2>6, <2>7 DEF CaseInv
<1>8. \A d \in Case \ {c} : SameMessage(d)
  BY <1>1, <1>2 DEF SameMessage, Typed, Desk!TypeOK
<1>9. OnceAcknowledged'
  BY DEF OnceAcknowledged, IInv
<1> QED
  BY <1>5, <1>6, <1>7, <1>8, <1>9, CaseStays DEF IInv

LEMMA CloseKeepsInv ==
  ASSUME IInv, NEW c \in Case, Close(c) \/ (Desk!Apply(c) /\ UNCHANGED payload),
         UNCHANGED <<request, grants, caseRows, acknowledged>>,
         run' \in [Worker -> {"idle", "queued"} \cup Case]
  PROVE  IInv'
<1>1. Typed /\ CaseInv(c)
  BY DEF IInv
<1>2. /\ phase' \in [Case -> {"absent", "open", "delivered", "given_up"}]
      /\ effect' \in [Case -> 0..1]
      /\ payload' = payload
      /\ \A d \in Case \ {c} : phase'[d] = phase[d] /\ effect'[d] = effect[d]
      /\ phase[c] # "absent" /\ phase'[c] # "absent"
      /\ phase'[c] = "delivered" => effect'[c] = 1
      /\ phase[c] = "delivered" => phase'[c] = "delivered"
      /\ phase[c] = "given_up" => phase'[c] = "given_up"
  <2>1. CASE Desk!Confirm(c) /\ UNCHANGED payload
    BY <1>1, <2>1 DEF Desk!Confirm, Typed, Desk!TypeOK
  <2>2. CASE Desk!GiveUp({c}) /\ UNCHANGED payload
    BY <1>1, <2>2 DEF Desk!GiveUp, Typed, Desk!TypeOK
  <2>3. CASE Desk!Apply(c) /\ UNCHANGED payload
    BY <1>1, <2>3 DEF Desk!Apply, Typed, Desk!TypeOK, CaseInv, Outcome
  <2> QED
    BY <2>1, <2>2, <2>3 DEF Close
<1>3. Typed'
  BY <1>1, <1>2 DEF Typed, Desk!TypeOK, caseRows
<1>4. \A d \in Case : Same(d) /\ SameGrants(d)
  BY RowsStay DEF SameGrants
<1>5. CaseInv(c)'
  <2>1. /\ caseState'[c] = caseState[c] /\ version'[c] = version[c] /\ log'[c] = log[c]
        /\ details'[c] = details[c] /\ approval'[c] = approval[c]
        /\ IsAcknowledged(c)' <=> IsAcknowledged(c)
    BY <1>4 DEF Same
  <2>2. Shape(c)' /\ Sourced(c)'
    BY <1>1, <2>1 DEF CaseInv, Shape, Sourced, LastIs, SourceFits, SourceTypes
  <2>3. Evidence(c)' /\ Outcome(c)'
    BY <1>1, <1>2, <2>1 DEF CaseInv, Evidence, Outcome, Row!Logged
  <2>4. Current(c)'
    BY <1>1, <1>2, <2>1 DEF CaseInv, Current, NoPayload
  <2>5. Lasting(c)'
    BY <1>1, <1>4, <2>1, LastingStays DEF CaseInv
  <2> QED
    BY <2>2, <2>3, <2>4, <2>5 DEF CaseInv
<1>6. \A d \in Case \ {c} : SameMessage(d)
  BY <1>2 DEF SameMessage
<1>7. OnceAcknowledged'
  BY DEF OnceAcknowledged, IInv
<1> QED
  BY <1>3, <1>4, <1>5, <1>6, <1>7, CaseStays DEF IInv

(* The reconciliations: whichever finds the case ready settles it as its    *)
(* message ended.                                                           *)
LEMMA SettleKeepsInv ==
  ASSUME IInv, NEW c \in Case, caseState[c] = "READY_FOR_ACTION", Settle(c),
         UNCHANGED <<request, grants, details, approval, acknowledged, messageVars>>,
         run' \in [Worker -> {"idle", "queued"} \cup Case]
  PROVE  IInv'
<1>1. Typed /\ CaseInv(c)
  BY DEF IInv
<1>2. PICK type \in {"DOWNSTREAM_ACTION_COMPLETED", "DOWNSTREAM_ACTION_FAILED"},
           to \in {"COMPLETED", "FAILED"} :
        /\ Advance(c, type, "READY_FOR_ACTION", to)
        /\ to = "COMPLETED" => phase[c] = "delivered"
        /\ to = "FAILED" => phase[c] = "given_up"
  <2>1. CASE phase[c] = "delivered"
    BY <2>1 DEF Settle
  <2>2. CASE phase[c] = "given_up"
    BY <2>2 DEF Settle
  <2> QED
    BY <2>1, <2>2 DEF Settle
<1>3. /\ type \in EventName /\ to \in CaseStates /\ "READY_FOR_ACTION" \in States
      /\ to \in ActedOn /\ <<caseState[c], to>> \in Row(c)!AllowedMoves
  BY DEF EventName, CaseStates, States, Row!CaseState, ActedOn, Row!AllowedMoves
<1>4. /\ caseState' \in [Case -> States] /\ version' \in [Case -> Nat]
      /\ log' \in [Case -> Seq(EventRow)]
      /\ caseState'[c] = to /\ version'[c] > 0
      /\ \A d \in Case \ {c} : /\ caseState'[d] = caseState[d] /\ version'[d] = version[d]
                               /\ log'[d] = log[d]
      /\ \A d \in Case : TargetExists(d) => TargetExists(d)'
  BY <1>1, <1>2, <1>3, MovesCase DEF CaseInv, Shape, Moves
<1>5. Typed'
  BY <1>1, <1>4 DEF Typed, Desk!TypeOK, messageVars
<1>6. /\ DOMAIN log'[c] = 1..(Len(log[c]) + 1) /\ Len(log[c]) \in Nat
      /\ DOMAIN log[c] = 1..Len(log[c])
      /\ \A i \in 1..Len(log[c]) : log'[c][i] = log[c][i]
      /\ \A t : LastIs(c, t)' <=> t = type
  BY <1>1, <1>2, <1>3, <1>4, NewEvent DEF Advance
<1>7. /\ details'[c] = details[c] /\ approval'[c] = approval[c] /\ grants'[c] = grants[c]
      /\ phase'[c] = phase[c] /\ effect'[c] = effect[c] /\ payload'[c] = payload[c]
      /\ IsAcknowledged(c)' <=> IsAcknowledged(c)
  BY DEF messageVars, IsAcknowledged
<1>8. CaseInv(c)'
  <2>1. Shape(c)'
    BY <1>1, <1>3, <1>4, <1>6, <1>7 DEF CaseInv, Shape, ActedOn, NoDetails
  <2>2. Sourced(c)' /\ Outcome(c)'
    BY <1>1, <1>2, <1>4, <1>7 DEF CaseInv, Sourced, Outcome
  <2>3. Evidence(c)'
    BY <1>1, <1>3, <1>4, <1>6, <1>7 DEF CaseInv, Evidence, Row!Logged
  <2>4. Current(c)'
    BY <1>1, <1>4, <1>7 DEF CaseInv, Current, NoPayload
  <2>5. Lasting(c)'
    BY <1>1, <1>4, <1>7, LastingStays DEF CaseInv, SameGrants
  <2> QED
    BY <2>1, <2>2, <2>3, <2>4, <2>5 DEF CaseInv
<1>9. ASSUME NEW d \in Case \ {c} PROVE Same(d) /\ SameMessage(d) /\ SameGrants(d)
  BY <1>4 DEF Same, SameMessage, SameGrants, messageVars, IsAcknowledged
<1>10. OnceAcknowledged'
  BY DEF OnceAcknowledged, IInv
<1> QED
  BY <1>5, <1>8, <1>9, <1>10, CaseStays DEF IInv

-----------------------------------------------------------------------------
(* The invariant *)

LEMMA InitHolds == Init => IInv
<1> SUFFICES ASSUME Init PROVE IInv
  OBVIOUS
<1>1. Typed
  <2>1. request \in [Case -> Request]
    BY DEF Init
  <2>2. grants \in [Case -> SUBSET (Grant \ {"TARGET"})]
    BY <2>1 DEF Init, Request
  <2> QED
    BY <2>2 DEF Init, Typed, Desk!Init, Desk!TypeOK, States, NoPayload
<1>2. OnceAcknowledged /\ \A c \in Case : ~IsAcknowledged(c)
  BY DEF Init, OnceAcknowledged, IsAcknowledged
<1>3. ASSUME NEW c \in Case PROVE CaseInv(c)
  <2>1. /\ caseState[c] = "ABSENT" /\ details[c] = NoDetails /\ phase[c] = "absent"
        /\ payload[c] = NoPayload /\ effect[c] = 0 /\ ~IsAcknowledged(c)
        /\ \A t : ~LastIs(c, t)
    BY <1>2 DEF Init, Desk!Init, LastIs
  <2> QED
    BY <2>1 DEF CaseInv, Shape, Sourced, Evidence, Outcome, Current, Lasting, ActedOn
<1> QED
  BY <1>1, <1>2, <1>3 DEF IInv

LEMMA JudgeMoves ==
  ASSUME IInv, NEW c \in Case, Judge(c) PROVE Moved(c) \/ AcknowledgeApproval(c)
<1>1. CASE Receive(c) BY <1>1, ReceiveMoves
<1>2. CASE StartAnalysis(c) BY <1>2, StartAnalysisMoves
<1>3. CASE Validate(c) BY <1>3, ValidateMoves
<1>4. ASSUME NEW to \in {"READY_FOR_ACTION", "NEEDS_REVIEW"}, RetrievePolicy(c, to)
      PROVE  Moved(c)
  BY <1>4, RetrievePolicyMoves
<1>5. ASSUME NEW t \in Corrected, CorrectReview(c, t) PROVE Moved(c)
  BY <1>5, CorrectReviewMoves
<1>6. CASE RejectReview(c) BY <1>6, RejectReviewMoves
<1>7. CASE RouteReviewedCase(c) BY <1>7, RouteReviewedCaseMoves
<1>8. ASSUME NEW decision \in {"APPROVED", "REJECTED"}, DecideApproval(c, decision)
      PROVE  Moved(c)
  BY <1>8, DecideApprovalMoves
<1> QED
  BY <1>1, <1>2, <1>3, <1>4, <1>5, <1>6, <1>7, <1>8 DEF Judge

LEMMA RunMainKeepsInv == ASSUME IInv, NEW w \in Worker, RunMain(w) PROVE IInv'
<1>1. Typed /\ run \in [Worker -> {"idle", "queued"} \cup Case]
  BY DEF IInv, Typed
<1>2. CASE QueueNextApproved(w)
  <2>1. PICK c \in Candidates : ApprovedNow(c) /\ Queue(c)
    BY <1>2 DEF QueueNextApproved
  <2>2. c \in Case /\ run' \in [Worker -> {"idle", "queued"} \cup Case]
    BY <1>1, <1>2 DEF QueueNextApproved, Candidates
  <2> QED
    BY <1>2, <2>1, <2>2, QueueKeepsInv DEF QueueNextApproved
<1>3. CASE DeliverOne(w)
  <2>1. PICK c \in Case : Close(c) /\ run' = [run EXCEPT ![w] = c]
    BY <1>3 DEF DeliverOne
  <2>2. run' \in [Worker -> {"idle", "queued"} \cup Case]
    BY <1>1, <2>1
  <2> QED
    BY <1>3, <2>1, <2>2, CloseKeepsInv DEF DeliverOne
<1>4. CASE ReconcileOwn(w)
  <2>1. run' \in [Worker -> {"idle", "queued"} \cup Case]
    BY <1>1, <1>4 DEF ReconcileOwn
  <2>2. run[w] \in Case /\ caseState[run[w]] = "READY_FOR_ACTION" /\ Settle(run[w])
    BY <1>4 DEF ReconcileOwn, ApprovedNow
  <2> QED
    BY <1>4, <2>1, <2>2, SettleKeepsInv DEF ReconcileOwn
<1>5. CASE NothingToQueue(w) \/ EndRun(w)
  <2>1. UNCHANGED <<request, grants, caseRows, acknowledged, messageVars>>
    BY <1>5 DEF NothingToQueue, EndRun
  <2>2. run' \in [Worker -> {"idle", "queued"} \cup Case]
    BY <1>1, <1>5 DEF NothingToQueue, EndRun
  <2>3. Typed' /\ OnceAcknowledged'
    BY <1>1, <2>1, <2>2 DEF Typed, Desk!TypeOK, OnceAcknowledged, IInv, caseRows, messageVars
  <2>4. \A c \in Case : Same(c) /\ SameMessage(c) /\ SameGrants(c)
    BY <2>1, RowsStay DEF SameMessage, SameGrants, messageVars
  <2> QED
    BY <2>3, <2>4, CaseStays DEF IInv
<1> QED
  BY <1>2, <1>3, <1>4, <1>5 DEF RunMain

LEMMA ReconcileKeepsInv ==
  ASSUME IInv, NEW c \in Case, ReconcileApprovedAction(c) \/ ReconcileSafeAction(c)
  PROVE  IInv'
<1>1. caseState[c] = "READY_FOR_ACTION" /\ Settle(c)
  BY DEF ReconcileApprovedAction, ReconcileSafeAction, ApprovedNow, SafeNow
<1>2. /\ UNCHANGED <<request, grants, details, approval, acknowledged, messageVars>>
      /\ run' = run
  BY DEF ReconcileApprovedAction, ReconcileSafeAction
<1>3. run' \in [Worker -> {"idle", "queued"} \cup Case]
  BY <1>2 DEF IInv, Typed
<1> QED
  BY <1>1, <1>2, <1>3, SettleKeepsInv

LEMMA StutterKeepsInv == ASSUME IInv, UNCHANGED routeVars PROVE IInv'
<1>1. UNCHANGED <<request, grants, caseRows, acknowledged, messageVars, run>>
  BY DEF routeVars
<1>2. Typed' /\ OnceAcknowledged'
  BY <1>1 DEF Typed, Desk!TypeOK, OnceAcknowledged, IInv, caseRows, messageVars
<1>3. \A c \in Case : Same(c) /\ SameMessage(c) /\ SameGrants(c)
  BY <1>1, RowsStay DEF SameMessage, SameGrants, messageVars
<1> QED
  BY <1>2, <1>3, CaseStays DEF IInv

LEMMA NextKeepsInv == IInv /\ [Next]_routeVars => IInv'
<1> SUFFICES ASSUME IInv, [Next]_routeVars PROVE IInv'
  OBVIOUS
<1>1. run \in [Worker -> {"idle", "queued"} \cup Case]
  BY DEF IInv, Typed
<1>2. ASSUME NEW c \in Case, Judge(c) PROVE IInv'
  BY <1>2, JudgeMoves, MoveKeepsInv, AcknowledgeKeepsInv
<1>3. ASSUME NEW c \in Case, QueueSafeAction(c) PROVE IInv'
  BY <1>1, <1>3, QueueKeepsInv DEF QueueSafeAction
<1>4. ASSUME NEW c \in Case, NEW g \in Volatile, ChangeGrant(c, g) PROVE IInv'
  BY <1>4, ChangeGrantKeepsInv
<1>5. ASSUME NEW c \in Case, CloseElsewhere(c) \/ ServiceDeskActs(c) PROVE IInv'
  BY <1>1, <1>5, CloseKeepsInv DEF CloseElsewhere, ServiceDeskActs
<1>6. ASSUME NEW c \in Case, ReconcileApprovedAction(c) \/ ReconcileSafeAction(c) PROVE IInv'
  BY <1>6, ReconcileKeepsInv
<1>7. ASSUME NEW w \in Worker, RunMain(w) PROVE IInv'
  BY <1>7, RunMainKeepsInv
<1>8. CASE UNCHANGED routeVars
  BY <1>8, StutterKeepsInv
<1> QED
  BY <1>2, <1>3, <1>4, <1>5, <1>6, <1>7, <1>8 DEF Next

LEMMA Invariance == Spec => []IInv
BY InitHolds, NextKeepsInv, PTL DEF Spec

(* Every row, payload and worker has its type, an acknowledgement exists     *)
(* once, and a payload exists exactly where a message does                   *)
(* (human_resume.py and downstream_route.py).                                *)
THEOREM TypeCorrect == Spec => []TypeOK
<1>1. IInv => TypeOK
  BY DEF IInv, Typed, OnceAcknowledged, CaseInv, Current, TypeOK
<1> QED
  BY <1>1, Invariance, PTL

(* However grants, queueing, deliveries and reconciliations interleave, what *)
(* took place was authorized (downstream_route.py, safe_action.py).          *)
THEOREM EffectsAreAuthorized == Spec => []EffectIsAuthorized
<1>1. ASSUME IInv, NEW c \in Case, effect[c] = 1
      PROVE  /\ Guarded(Accepted(c)) => approval[c] = "APPROVED" /\ IsAcknowledged(c)
             /\ AsksStatus(Accepted(c)) => "OWNER" \in Accepted(c).holds
             /\ Accepted(c).type = "POLICY_QUESTION" => Row(c)!Logged("POLICY_RETRIEVAL_READY")
  <2>1. phase[c] # "absent" /\ Evidence(c)
    BY <1>1 DEF IInv, CaseInv, Outcome
  <2> QED
    BY <2>1, AcceptedFields DEF Evidence
<1>2. IInv => EffectIsAuthorized
  BY <1>1 DEF EffectIsAuthorized
<1> QED
  BY <1>2, Invariance, PTL

(* COMPLETED and FAILED tell how the delivery ended (reconcile_*_action).    *)
THEOREM OutcomesAreDelivered == Spec => []OutcomeIsDelivered
<1>1. IInv => OutcomeIsDelivered
  BY DEF IInv, CaseInv, Outcome, OutcomeIsDelivered
<1> QED
  BY <1>1, Invariance, PTL

(* What was let through stays possible while nothing is withdrawn: by        *)
(* VerdictGrantsAction and AgentGrantsAction, which the invariant carries    *)
(* from the acceptance to the queue and to the reconciler.                   *)
THEOREM ActionsStayPossible == Spec => []ActionStaysPossible
<1>1. ASSUME IInv, NEW c \in Case, caseState[c] = "READY_FOR_ACTION",
             Volatile \subseteq grants[c], ~OnlyViewed(Accepted(c)),
             Guarded(Accepted(c)) => IsAcknowledged(c)
      PROVE  /\ ApprovedNow(c) \/ SafeNow(c)
             /\ Closed(c) /\ ~Outdated(c) => MayReconcile(c)
  <2>1. CaseInv(c) /\ details[c] # NoDetails
    BY <1>1 DEF IInv, CaseInv, Shape, ActedOn
  <2>2. ActionHolds(Accepted(c))
    <3>1. ActionHolds(AtBest(c))
      BY <1>1, <2>1 DEF CaseInv, Lasting
    <3>2. AtBest(c).type = Accepted(c).type /\ AtBest(c).holds \subseteq Accepted(c).holds
      BY <1>1 DEF AtBest, Accepted, FactsOf
    <3> QED
      BY <3>1, <3>2, ActionHoldsMonotone
  <2>3. ApprovedNow(c) \/ SafeNow(c)
    <3>1. CASE ApprovedActionHolds(Accepted(c))
      <4>1. IsAcknowledged(c) /\ approval[c] = "APPROVED"
        BY <1>1, <2>1, <3>1 DEF ApprovedActionHolds, CaseInv, Shape
      <4> QED
        BY <1>1, <3>1, <4>1 DEF ApprovedNow
    <3>2. CASE SafeActionHolds(Accepted(c))
      <4>1. SourceFits(c)
        BY <1>1, <2>1, <3>2, AcceptedFields DEF SafeActionHolds, CaseInv, Sourced
      <4> QED
        BY <1>1, <3>2, <4>1 DEF SafeNow
    <3> QED
      BY <2>2, <3>1, <3>2 DEF ActionHolds
  <2>4. ASSUME Closed(c), ~Outdated(c) PROVE MayReconcile(c)
    <3>1. /\ phase[c] # "absent" /\ payload[c].version = version[c]
          /\ details[c].type # "STATUS_REQUEST" => payload[c].view = "NONE"
      BY <1>1, <2>1, <2>4 DEF Closed, CaseInv, Current
    <3>2. payload[c].view = View(c)
      BY <2>4, <3>1, AcceptedFields DEF Outdated, View
    <3>3. payload[c] = BuildPayload(c)
      <4>1. payload[c] \in [version : Nat, view : States \cup {"NONE"}]
        BY <1>1 DEF IInv, Typed
      <4> QED
        BY <3>1, <3>2, <4>1 DEF BuildPayload
    <3> QED
      BY <2>3, <2>4, <3>3 DEF MayReconcile, StillCurrent
  <2> QED
    BY <2>3, <2>4
<1>2. IInv => ActionStaysPossible
  BY <1>1 DEF ActionStaysPossible
<1> QED
  BY <1>2, Invariance, PTL

-----------------------------------------------------------------------------
(* What a step does to the cases: it leaves all rows alone, or it moves one  *)
(* case before its action, acknowledges its approval, or settles it.        *)

LEMMA Steps ==
  ASSUME [Next]_routeVars, IInv
  PROVE  \/ /\ UNCHANGED <<request, caseRows, acknowledged>>
            /\ effect' = effect \/ \E c \in Case : Desk!Apply(c)
         \/ \E c \in Case : Moved(c)
         \/ \E c \in Case : AcknowledgeApproval(c)
         \/ \E c \in Case : /\ caseState[c] = "READY_FOR_ACTION" /\ Settle(c)
                            /\ UNCHANGED <<request, grants, details, approval, acknowledged,
                                           messageVars>>
<1>1. ASSUME NEW c \in Case, Judge(c) PROVE Moved(c) \/ AcknowledgeApproval(c)
  BY <1>1, JudgeMoves
<1>2. ASSUME NEW c \in Case, ReconcileApprovedAction(c) \/ ReconcileSafeAction(c)
      PROVE  /\ caseState[c] = "READY_FOR_ACTION" /\ Settle(c)
             /\ UNCHANGED <<request, grants, details, approval, acknowledged, messageVars>>
  BY <1>2 DEF ReconcileApprovedAction, ReconcileSafeAction, ApprovedNow, SafeNow
<1>3. ASSUME NEW w \in Worker, ReconcileOwn(w)
      PROVE  \E c \in Case :
               /\ caseState[c] = "READY_FOR_ACTION" /\ Settle(c)
               /\ UNCHANGED <<request, grants, details, approval, acknowledged, messageVars>>
  BY <1>3 DEF ReconcileOwn, ApprovedNow
<1>4. ASSUME NEW w \in Worker,
             QueueNextApproved(w) \/ NothingToQueue(w) \/ DeliverOne(w) \/ EndRun(w)
      PROVE  UNCHANGED <<request, caseRows, acknowledged, effect>>
  BY <1>4 DEF QueueNextApproved, NothingToQueue, DeliverOne, EndRun, Queue, Close, messageVars,
     Desk!Submit, Desk!Confirm, Desk!GiveUp
<1>5. ASSUME NEW c \in Case, QueueSafeAction(c) \/ CloseElsewhere(c) \/ ServiceDeskActs(c)
      PROVE  /\ UNCHANGED <<request, caseRows, acknowledged>>
             /\ effect' = effect \/ Desk!Apply(c)
  BY <1>5 DEF QueueSafeAction, CloseElsewhere, ServiceDeskActs, Queue, Close, Desk!Submit,
     Desk!Confirm, Desk!GiveUp
<1>6. ASSUME NEW c \in Case, NEW g \in Volatile, ChangeGrant(c, g)
      PROVE  UNCHANGED <<request, caseRows, acknowledged, effect>>
  BY <1>6 DEF ChangeGrant, messageVars
<1>7. CASE UNCHANGED routeVars
  BY <1>7 DEF routeVars, messageVars
<1> QED
  BY <1>1, <1>2, <1>3, <1>4, <1>5, <1>6, <1>7 DEF Next, RunMain

LEMMA LogGrows ==
  ASSUME Typed, NEW c \in Case, NEW type \in EventName, NEW from \in States,
         NEW to \in CaseStates, Record(c, type, from, to), version'[c] \in Nat
  PROVE  \A d \in Case : SubSeq(log'[d], 1, Len(log[d])) = log[d]
<1> DEFINE E == NewRow(c, type, from, to)
<1>1. log \in [Case -> Seq(EventRow)] /\ log' = [log EXCEPT ![c] = Append(log[c], E)]
  BY DEF Typed, Record
<1>2. ASSUME NEW d \in Case \ {c} PROVE SubSeq(log'[d], 1, Len(log[d])) = log[d]
  BY <1>1, SubSeqFull
<1>3. SubSeq(log'[c], 1, Len(log[c])) = log[c]
  <2>1. E \in EventRow
    BY DEF NewRow, Row!Entry, EventRow, CaseStates
  <2>2. log[c] \in Seq(EventRow) /\ Len(log[c]) \in Nat /\ log'[c] = log[c] \o <<E>>
    BY <1>1, <2>1, AppendIsConcat, LenProperties
  <2>3. CASE Len(log[c]) = 0
    BY <2>2, <2>3, EmptySeq, SubSeqEmpty
  <2>4. CASE Len(log[c]) # 0
    <3>1. 1 \in 1..Len(log[c]) /\ Len(log[c]) \in 1..Len(log[c]) /\ <<E>> \in Seq(EventRow)
      BY <2>1, <2>2, <2>4
    <3>2. SubSeq(log[c] \o <<E>>, 1, Len(log[c])) = SubSeq(log[c], 1, Len(log[c]))
      BY <2>2, <3>1, SubSeqOfConcat1
    <3> QED
      BY <2>2, <3>2, SubSeqFull
  <2> QED
    BY <2>3, <2>4
<1> QED
  BY <1>2, <1>3

LEMMA MovesStep ==
  ASSUME Typed, NEW c \in Case, NEW type \in EventName, NEW from \in States,
         NEW to \in CaseStates, Moves(c, type, from, to)
  PROVE  \A d \in Case : Row(d)!CaseStep
<1>0. CaseStates \subseteq States
  BY DEF CaseStates, States
<1>1. \A d \in Case : SubSeq(log'[d], 1, Len(log[d])) = log[d]
  <2>1. \E e \in States : Record(c, type, e, to)
    BY <1>0 DEF Moves, Advance, Note
  <2> QED
    BY <2>1, LogGrows, MovesVersion
<1>2. CASE /\ from = caseState[c] /\ <<from, to>> \in Row(c)!AllowedMoves
           /\ Advance(c, type, from, to)
  <2>1. /\ caseState' = [caseState EXCEPT ![c] = to]
        /\ version' = [version EXCEPT ![c] = @ + 1]
    BY <1>2 DEF Advance
  <2>2. caseState[c] # to
    BY <1>2 DEF Row!AllowedMoves
  <2>3. \A d \in Case : <<caseState[c], to>> \in Row(d)!AllowedMoves
    BY <1>2 DEF Row!AllowedMoves
  <2>4. \A d \in Case \ {c} : caseState'[d] = caseState[d] /\ version'[d] = version[d]
    BY <2>1 DEF Typed
  <2>5. caseState'[c] = to /\ version'[c] = version[c] + 1 /\ version[c] \in Nat
    BY <2>1 DEF Typed
  <2>6. Row(c)!CaseStep
    BY <1>1, <2>2, <2>3, <2>5 DEF Row!CaseStep
  <2>7. ASSUME NEW d \in Case \ {c} PROVE Row(d)!CaseStep
    <3>1. version[d] \in Nat
      BY DEF Typed
    <3> QED
      BY <1>1, <2>4, <3>1 DEF Row!CaseStep
  <2> QED
    BY <2>6, <2>7
<1>3. CASE caseState[c] = to /\ Note(c, type, to)
  BY <1>1, <1>3 DEF Note, Row!CaseStep, Typed
<1> QED
  BY <1>2, <1>3 DEF Moves

(* Whoever writes the rows of a case, it is one of these moves. *)
LEMMA RowsMove ==
  ASSUME IInv, [Next]_routeVars
  PROVE  \/ UNCHANGED caseRows
         \/ \E c \in Case, type \in EventName, from \in States, to \in CaseStates :
              Moves(c, type, from, to)
<1>1. ASSUME NEW c \in Case, Moved(c)
      PROVE  \E type \in EventName, from \in States, to \in CaseStates : Moves(c, type, from, to)
  BY <1>1 DEF Moved, Writes
<1>2. ASSUME NEW c \in Case, AcknowledgeApproval(c)
      PROVE  \E type \in EventName, from \in States, to \in CaseStates : Moves(c, type, from, to)
  <2>1. /\ caseState[c] = "READY_FOR_ACTION"
        /\ Note(c, "HUMAN_DECISION_RESUME_ACKNOWLEDGED", "READY_FOR_ACTION")
    BY <1>2 DEF AcknowledgeApproval, IInv, CaseInv, Shape
  <2>2. /\ "READY_FOR_ACTION" \in CaseStates /\ "READY_FOR_ACTION" \in States
        /\ "HUMAN_DECISION_RESUME_ACKNOWLEDGED" \in EventName
    BY DEF CaseStates, States, Row!CaseState, EventName
  <2>3. Moves(c, "HUMAN_DECISION_RESUME_ACKNOWLEDGED", "READY_FOR_ACTION", "READY_FOR_ACTION")
    BY <2>1, Zenon DEF Moves
  <2> QED
    BY <2>2, <2>3
<1>3. ASSUME NEW c \in Case, caseState[c] = "READY_FOR_ACTION", Settle(c)
      PROVE  \E type \in EventName, from \in States, to \in CaseStates : Moves(c, type, from, to)
  <2>1. PICK type \in {"DOWNSTREAM_ACTION_COMPLETED", "DOWNSTREAM_ACTION_FAILED"},
             to \in {"COMPLETED", "FAILED"} : Advance(c, type, "READY_FOR_ACTION", to)
    BY <1>3 DEF Settle
  <2>2. /\ to \in CaseStates /\ "READY_FOR_ACTION" \in States /\ type \in EventName
        /\ <<"READY_FOR_ACTION", to>> \in Row(c)!AllowedMoves
    BY DEF CaseStates, States, Row!CaseState, EventName, Row!AllowedMoves
  <2>3. "READY_FOR_ACTION" = caseState[c]
    BY <1>3
  <2>4. Moves(c, type, "READY_FOR_ACTION", to)
    BY <2>1, <2>2, <2>3, Zenon DEF Moves
  <2> QED
    BY <2>2, <2>4
<1> QED
  BY <1>1, <1>2, <1>3, Steps

(* Every step of every component that writes a case keeps its lifecycle      *)
(* (cases.current_state, cases.version and case_events).                     *)
THEOREM LifecycleKept == Spec => CasesFollowLifecycle
<1>1. ASSUME IInv, [Next]_routeVars
      PROVE  [\A c \in Case : Row(c)!CaseStep]_caseRows
  <2>1. Typed
    BY <1>1 DEF IInv
  <2> QED
    BY <1>1, <2>1, RowsMove, MovesStep
<1> QED
  BY <1>1, Invariance, PTL DEF Spec, CasesFollowLifecycle

-----------------------------------------------------------------------------
(* The log of a case *)

Changes(c) == {i \in DOMAIN log[c] : log[c][i].from # log[c][i].to}

LEMMA ChangesFinite ==
  ASSUME Typed, NEW c \in Case
  PROVE  /\ IsFiniteSet(Changes(c)) /\ Cardinality(Changes(c)) \in Nat
         /\ Changes(c) \subseteq 1..Len(log[c])
         /\ log[c] = <<>> => Cardinality(Changes(c)) = 0
<1>1. log[c] \in Seq(EventRow) /\ DOMAIN log[c] = 1..Len(log[c]) /\ Len(log[c]) \in Nat
  BY LenProperties DEF Typed
<1>2. IsFiniteSet(1..Len(log[c])) /\ Changes(c) \subseteq 1..Len(log[c])
  BY <1>1, FS_Interval DEF Changes
<1>3. IsFiniteSet(Changes(c)) /\ Cardinality(Changes(c)) \in Nat
  BY <1>2, FS_Subset, FS_CardinalityType
<1>4. log[c] = <<>> => Changes(c) = {}
  BY EmptySeq DEF Changes
<1> QED
  BY <1>2, <1>3, <1>4, FS_EmptySet

(* A new event changes the state, or it does not. *)
LEMMA ChangesNew ==
  ASSUME Typed, NEW c \in Case, NEW type \in EventName, NEW from \in States,
         NEW to \in CaseStates, Record(c, type, from, to), version'[c] \in Nat
  PROVE  Cardinality(Changes(c))' =
           IF from # to THEN Cardinality(Changes(c)) + 1 ELSE Cardinality(Changes(c))
<1> DEFINE n == Len(log[c]) + 1
<1>1. /\ DOMAIN log[c] = 1..Len(log[c]) /\ DOMAIN log'[c] = 1..n /\ Len(log[c]) \in Nat
      /\ log'[c][n].from = from /\ log'[c][n].to = to
      /\ \A i \in 1..Len(log[c]) : log'[c][i] = log[c][i]
  BY NewEvent
<1>2. 1..n = (1..Len(log[c])) \cup {n} /\ n \notin 1..Len(log[c])
  BY <1>1
<1> HIDE DEF n
<1>3. Changes(c)' = IF from # to THEN Changes(c) \cup {n} ELSE Changes(c)
  BY <1>1, <1>2 DEF Changes
<1>4. n \notin Changes(c)
  BY <1>1, <1>2 DEF Changes
<1> QED
  BY <1>3, <1>4, ChangesFinite, FS_AddElement

(* CaseStore counts with the Cardinality of this module. *)
LEMMA SameCardinality ==
  ASSUME NEW c, NEW S
  PROVE  Row(c)!Cardinality(S) = Cardinality(S)
<1>1. Row(c)!IsFiniteSet(S) <=> IsFiniteSet(S)
  BY DEF Row!IsFiniteSet, IsFiniteSet
<1> QED
  BY <1>1, Zenon DEF Row!Cardinality, Cardinality

(* CaseStore's LogTellsState of a case, in the variables of the route. *)
FromFollows(c) ==
  \A i \in DOMAIN log[c] : log[c][i].from = IF i = 1 THEN "ABSENT" ELSE log[c][i - 1].to

StateTold(c) ==
  /\ FromFollows(c)
  /\ log[c] # <<>> => caseState[c] = log[c][Len(log[c])].to
  /\ version[c] = Cardinality(Changes(c))

LEMMA TellsIff ==
  ASSUME NEW c \in Case
  PROVE  /\ Row(c)!LogTellsState <=> StateTold(c)
         /\ Row(c)!LogTellsState' <=> StateTold(c)'
<1>1. Row(c)!LogTellsState <=> StateTold(c)
  BY SameCardinality, Zenon DEF Row!LogTellsState, StateTold, FromFollows, Changes
<1>2. Row(c)!LogTellsState' <=> StateTold(c)'
  BY SameCardinality, Zenon DEF Row!LogTellsState, StateTold, FromFollows, Changes
<1> QED
  BY <1>1, <1>2

LEMMA MovesTell ==
  ASSUME Typed, NEW c \in Case, Shape(c), StateTold(c),
         NEW type \in EventName, NEW from \in States, NEW to \in CaseStates,
         Moves(c, type, from, to)
  PROVE  StateTold(c)'
<1>0. CaseStates \subseteq States /\ "ABSENT" \notin CaseStates
  BY DEF CaseStates, States, Row!CaseState
<1>1. PICK e \in States : /\ Record(c, type, e, to) /\ e = caseState[c]
                          /\ caseState'[c] = to
                          /\ version'[c] = IF e # to THEN version[c] + 1 ELSE version[c]
  <2>1. CASE /\ from = caseState[c] /\ <<from, to>> \in Row(c)!AllowedMoves
             /\ Advance(c, type, from, to)
    <3>1. from # to
      BY <2>1 DEF Row!AllowedMoves
    <3> QED
      BY <1>0, <2>1, <3>1 DEF Advance, Typed
  <2>2. CASE caseState[c] = to /\ Note(c, type, to)
    BY <1>0, <2>2 DEF Note
  <2> QED
    BY <2>1, <2>2 DEF Moves
<1> DEFINE n == Len(log[c]) + 1
<1>2. /\ DOMAIN log[c] = 1..Len(log[c]) /\ DOMAIN log'[c] = 1..n /\ Len(log[c]) \in Nat
      /\ Len(log'[c]) = n /\ log'[c] # <<>>
      /\ log'[c][n].from = e /\ log'[c][n].to = to
      /\ \A i \in 1..Len(log[c]) : log'[c][i] = log[c][i]
  BY <1>1, NewEvent, MovesVersion
<1>3. version'[c] \in Nat
  BY MovesVersion
<1>4. /\ \A i \in DOMAIN log[c] : log[c][i].from = IF i = 1 THEN "ABSENT" ELSE log[c][i - 1].to
      /\ log[c] # <<>> => caseState[c] = log[c][Len(log[c])].to
      /\ version[c] = Cardinality(Changes(c))
  BY DEF StateTold, FromFollows
<1>5. \A i \in DOMAIN log'[c] : log'[c][i].from = IF i = 1 THEN "ABSENT" ELSE log'[c][i - 1].to
  <2>1. ASSUME NEW i \in 1..Len(log[c])
        PROVE  log'[c][i].from = IF i = 1 THEN "ABSENT" ELSE log'[c][i - 1].to
    <3>1. log'[c][i].from = log[c][i].from /\ i \in DOMAIN log[c]
      BY <1>2, <2>1
    <3>2. log[c][i].from = IF i = 1 THEN "ABSENT" ELSE log[c][i - 1].to
      BY <1>4, <3>1
    <3>3. i # 1 => i - 1 \in 1..Len(log[c])
      BY <1>2, <2>1
    <3>4. i # 1 => log'[c][i - 1] = log[c][i - 1]
      BY <1>2, <3>3
    <3> QED
      BY <3>1, <3>2, <3>4
  <2>2. CASE Len(log[c]) = 0
    <3>1. log[c] = <<>>
      BY <2>2, EmptySeq DEF Typed
    <3>2. version[c] = 0
      BY <1>4, <3>1, ChangesFinite
    <3>3. e = "ABSENT"
      BY <1>1, <3>2 DEF Shape
    <3> QED
      BY <1>2, <2>2, <3>3
  <2>3. CASE Len(log[c]) # 0
    <3>1. log[c] # <<>>
      BY <2>3, EmptySeq
    <3>2. e = log[c][Len(log[c])].to /\ Len(log[c]) \in 1..Len(log[c])
      BY <1>1, <1>2, <1>4, <2>3, <3>1
    <3>3. log'[c][n].from = log'[c][n - 1].to /\ n # 1
      BY <1>2, <2>3, <3>2
    <3>4. 1..n = (1..Len(log[c])) \cup {n}
      BY <1>2
    <3> HIDE DEF n
    <3>5. log'[c][n].from = IF n = 1 THEN "ABSENT" ELSE log'[c][n - 1].to
      BY <3>3
    <3> QED
      BY <1>2, <2>1, <3>4, <3>5
  <2> QED
    BY <2>2, <2>3
<1>6. caseState'[c] = log'[c][Len(log'[c])].to
  BY <1>1, <1>2
<1>7. version'[c] = Cardinality(Changes(c))'
  BY <1>1, <1>3, <1>4, ChangesNew
<1> QED
  BY <1>5, <1>6, <1>7 DEF StateTold, FromFollows

(* For each case, the log tells its state and the version counts the changes *)
(* of state, with the queue, the reconcilers and the acknowledgement among   *)
(* the writers (cases and case_events).                                      *)
THEOREM CasesToldByLog == Spec => []CasesTellState
<1>1. Init => CasesTellState
  <2> SUFFICES ASSUME Init, NEW c \in Case PROVE StateTold(c)
    BY TellsIff DEF CasesTellState
  <2>1. log[c] = <<>> /\ version[c] = 0 /\ Typed
    BY InitHolds DEF Init, IInv
  <2>2. Cardinality(Changes(c)) = 0 /\ DOMAIN log[c] = {}
    BY <2>1, ChangesFinite, EmptySeq
  <2> QED
    BY <2>1, <2>2 DEF StateTold, FromFollows
<1>2. ASSUME IInv, CasesTellState, [Next]_routeVars PROVE CasesTellState'
  <2>1. CASE UNCHANGED caseRows
    <3>1. ASSUME NEW c \in Case PROVE StateTold(c)'
      <4>1. StateTold(c)
        BY <1>2, TellsIff DEF CasesTellState
      <4>2. caseState' = caseState /\ version' = version /\ log' = log
        BY <2>1 DEF caseRows
      <4> QED
        BY <4>1, <4>2 DEF StateTold, FromFollows, Changes
    <3> QED
      BY <3>1, TellsIff DEF CasesTellState
  <2>2. ASSUME NEW c \in Case, NEW type \in EventName, NEW from \in States,
               NEW to \in CaseStates, Moves(c, type, from, to)
        PROVE  CasesTellState'
    <3>1. Typed /\ \A d \in Case : StateTold(d) /\ Shape(d)
      BY <1>2, TellsIff DEF IInv, CaseInv, CasesTellState
    <3>2. StateTold(c)'
      BY <2>2, <3>1, MovesTell
    <3>3. \A d \in Case \ {c} : /\ caseState'[d] = caseState[d] /\ version'[d] = version[d]
                                /\ log'[d] = log[d]
      <4>1. CaseStates \subseteq States
        BY DEF CaseStates, States
      <4>2. PICK e \in States : Record(c, type, e, to)
        BY <2>2, <4>1 DEF Moves, Advance, Note
      <4>3. \A d \in Case \ {c} : log'[d] = log[d]
        BY <2>2, <3>1, <4>2, NewEvent, MovesVersion
      <4> QED
        BY <2>2, <3>1, <4>3 DEF Moves, Advance, Note, Typed
    <3>4. ASSUME NEW d \in Case, d # c PROVE StateTold(d)'
      <4>1. StateTold(d)
        BY <3>1
      <4>2. caseState'[d] = caseState[d] /\ version'[d] = version[d] /\ log'[d] = log[d]
        BY <3>3, <3>4
      <4>3. Changes(d)' = Changes(d)
        BY <4>2 DEF Changes
      <4> QED
        BY <4>1, <4>2, <4>3 DEF StateTold, FromFollows
    <3> QED
      BY <3>2, <3>4, TellsIff DEF CasesTellState
  <2> QED
    BY <1>2, <2>1, <2>2, RowsMove
<1> QED
  BY <1>1, <1>2, Invariance, PTL DEF Spec

-----------------------------------------------------------------------------
(* ActionOutcome *)

IsGranted(c) ==
  /\ caseState[c] \in ActedOn
  /\ details[c].type \in GuardedType => IsAcknowledged(c)

LEMMA GrantedIff ==
  ASSUME NEW c \in Case
  PROVE  (c \in Granted <=> IsGranted(c)) /\ (c \in Granted' <=> IsGranted(c)')
<1>1. c \in Granted <=> IsGranted(c)
  BY DEF Granted, IsGranted, ActedOn, Guarded, Accepted, FactsOf
<1>2. c \in Granted' <=> IsGranted(c)'
  BY DEF Granted, IsGranted, ActedOn, Guarded, Accepted, FactsOf
<1> QED
  BY <1>1, <1>2

Told(state) ==
  IF state = "COMPLETED" THEN "completed" ELSE IF state = "FAILED" THEN "failed" ELSE "open"

LEMMA ToldIff ==
  /\ ToldOutcome = [c \in Case |-> Told(caseState[c])]
  /\ ToldOutcome' = [c \in Case |-> Told(caseState'[c])]
<1>1. \A s : (CASE s = "COMPLETED" -> "completed" [] s = "FAILED" -> "failed" [] OTHER -> "open")
               = Told(s)
  <2> TAKE s
  <2>1. CASE s = "COMPLETED"
    BY <2>1 DEF Told
  <2>2. CASE s = "FAILED"
    BY <2>2 DEF Told
  <2>3. CASE s \notin {"COMPLETED", "FAILED"}
    BY <2>3 DEF Told
  <2> QED
    BY <2>1, <2>2, <2>3
<1> QED
  BY <1>1 DEF ToldOutcome

(* A step that changes one case, which is not told anything by it, grants    *)
(* its action or changes nothing a requester may count on.                   *)
LEMMA GrantOrNothing ==
  ASSUME NEW c \in Case, effect' = effect, \A d \in Case \ {c} : Same(d),
         caseState[c] \notin {"COMPLETED", "FAILED"},
         caseState'[c] \notin {"COMPLETED", "FAILED"},
         c \in Granted => c \in Granted'
  PROVE  Promised!Next \/ UNCHANGED <<Granted, effect, ToldOutcome>>
<1>1. Granted \subseteq Case /\ Granted' \subseteq Case
  BY DEF Granted
<1>2. \A d \in Case \ {c} : d \in Granted' <=> d \in Granted
  BY GrantedIff DEF Same, IsGranted
<1>3. ToldOutcome' = ToldOutcome
  <2>1. \A d \in Case : Told(caseState'[d]) = Told(caseState[d])
    BY DEF Same, Told
  <2> QED
    BY <2>1, ToldIff
<1>4. CASE c \in Granted' /\ c \notin Granted
  <2>1. Granted' = Granted \cup {c}
    BY <1>1, <1>2, <1>4
  <2>2. Promised!Grant(c)
    BY <1>3, <1>4, <2>1 DEF Promised!Grant
  <2> QED
    BY <2>2 DEF Promised!Next
<1>5. CASE c \in Granted' <=> c \in Granted
  <2>1. Granted' = Granted
    BY <1>1, <1>2, <1>5
  <2> QED
    BY <1>3, <2>1
<1> QED
  BY <1>4, <1>5

LEMMA SettleTells ==
  ASSUME IInv, NEW c \in Case, caseState[c] = "READY_FOR_ACTION", Settle(c),
         UNCHANGED <<request, grants, details, approval, acknowledged, messageVars>>
  PROVE  Promised!Complete(c) \/ Promised!Fail(c)
<1>1. Typed /\ CaseInv(c)
  BY DEF IInv
<1>2. /\ \/ caseState' = [caseState EXCEPT ![c] = "COMPLETED"] /\ phase[c] = "delivered"
         \/ caseState' = [caseState EXCEPT ![c] = "FAILED"] /\ phase[c] = "given_up"
      /\ effect' = effect /\ details' = details /\ acknowledged' = acknowledged
  BY DEF Settle, Advance, messageVars
<1>3. /\ caseState'[c] \in {"COMPLETED", "FAILED"}
      /\ \A d \in Case \ {c} : caseState'[d] = caseState[d]
      /\ \A d \in Case : IsAcknowledged(d)' <=> IsAcknowledged(d)
  BY <1>1, <1>2 DEF Typed, IsAcknowledged
<1>4. c \in Granted
  BY <1>1, <1>2, GrantedIff DEF CaseInv, Evidence, IsGranted, ActedOn
<1>5. Granted' = Granted
  <2>1. \A d \in Case : d \in Granted' <=> d \in Granted
    BY <1>2, <1>3, GrantedIff DEF IsGranted, ActedOn
  <2>2. Granted \subseteq Case /\ Granted' \subseteq Case
    BY DEF Granted
  <2> QED
    BY <2>1, <2>2
<1>6. ToldOutcome[c] = "open"
  BY ToldIff DEF Told
<1>7. ToldOutcome' = [ToldOutcome EXCEPT ![c] = Told(caseState'[c])]
  <2>1. \A d \in Case \ {c} : Told(caseState'[d]) = Told(caseState[d])
    BY <1>3
  <2> QED
    BY <2>1, ToldIff
<1>8. CASE phase[c] = "delivered"
  <2>1. Told(caseState'[c]) = "completed" /\ effect[c] = 1
    BY <1>1, <1>2, <1>8 DEF Told, CaseInv, Outcome, Typed
  <2> QED
    BY <1>2, <1>5, <1>6, <1>7, <2>1 DEF Promised!Complete
<1>9. CASE phase[c] = "given_up"
  <2>1. Told(caseState'[c]) = "failed"
    BY <1>1, <1>2, <1>9 DEF Told, Typed
  <2> QED
    BY <1>2, <1>4, <1>5, <1>6, <1>7, <2>1 DEF Promised!Fail
<1> QED
  BY <1>2, <1>8, <1>9

(* Queueing, delivery and reconciliation, of any number of cases by any      *)
(* number of workers, do what ActionOutcome promises (downstream_route.py,   *)
(* safe_action.py over the outbox).                                          *)
THEOREM OutcomeKept == Spec => KeepsOutcome
<1>1. ASSUME Init PROVE Promised!Init
  <2>1. Granted = {}
    <3>1. \A c \in Case : c \notin Granted
      BY <1>1, GrantedIff DEF Init, IsGranted, ActedOn
    <3> QED
      BY <3>1 DEF Granted
  <2>2. ToldOutcome = [c \in Case |-> "open"]
    BY <1>1, ToldIff DEF Init, Told
  <2> QED
    BY <1>1, <2>1, <2>2 DEF Promised!Init, Init, Desk!Init
<1>2. ASSUME IInv, [Next]_routeVars
      PROVE  [Promised!Next]_<<Granted, effect, ToldOutcome>>
  <2>1. Typed
    BY <1>2 DEF IInv
  <2>2. CASE /\ UNCHANGED <<request, caseRows, acknowledged>>
             /\ effect' = effect \/ \E c \in Case : Desk!Apply(c)
    <3>1. Granted' = Granted /\ ToldOutcome' = ToldOutcome
      <4>1. \A c \in Case : Same(c)
        BY <2>2, RowsStay
      <4>2. /\ \A c \in Case : c \in Granted' <=> c \in Granted
            /\ \A c \in Case : Told(caseState'[c]) = Told(caseState[c])
        BY <4>1, GrantedIff DEF Same, IsGranted
      <4>3. Granted \subseteq Case /\ Granted' \subseteq Case
        BY DEF Granted
      <4> QED
        BY <4>2, <4>3, ToldIff
    <3>2. ASSUME NEW c \in Case, Desk!Apply(c) PROVE Promised!Next
      <4>1. c \in Granted
        BY <1>2, <3>2, GrantedIff DEF Desk!Apply, IInv, CaseInv, Evidence, IsGranted
      <4>2. Promised!Act(c)
        BY <3>1, <3>2, <4>1 DEF Promised!Act, Desk!Apply
      <4> QED
        BY <4>2 DEF Promised!Next
    <3> QED
      BY <2>2, <3>1, <3>2
  <2>3. ASSUME NEW c \in Case, Moved(c)
        PROVE  Promised!Next \/ UNCHANGED <<Granted, effect, ToldOutcome>>
    <3>1. PICK type, from, to, d, a : Writes(c, type, from, to, d, a)
      BY <2>3 DEF Moved
    <3>2. /\ caseState[c] \notin ActedOn /\ c \notin Granted
      BY <3>1, GrantedIff DEF Writes, IsGranted
    <3>3. /\ caseState'[c] = to
          /\ \A x \in Case \ {c} : /\ caseState'[x] = caseState[x]
                                   /\ version'[x] = version[x] /\ log'[x] = log[x]
      BY <1>2, <2>1, <3>1, MovesCase DEF Writes, IInv, CaseInv, Shape, Elsewhere
    <3>4. \A x \in Case \ {c} : Same(x)
      BY <2>1, <3>1, <3>3 DEF Same, Writes, Elsewhere, IsAcknowledged, Typed
    <3>5. to \notin {"COMPLETED", "FAILED"}
      BY <3>1 DEF Writes, ReadyFits, ActedOn
    <3>6. effect' = effect
      BY <3>1 DEF Writes, Elsewhere, messageVars
    <3> QED
      BY <3>2, <3>3, <3>4, <3>5, <3>6, GrantOrNothing DEF ActedOn
  <2>4. ASSUME NEW c \in Case, AcknowledgeApproval(c)
        PROVE  Promised!Next \/ UNCHANGED <<Granted, effect, ToldOutcome>>
    <3>1. caseState[c] = "READY_FOR_ACTION"
      BY <1>2, <2>4 DEF AcknowledgeApproval, IInv, CaseInv, Shape
    <3>2. /\ UNCHANGED <<caseState, version, details, approval, effect>>
          /\ Record(c, "HUMAN_DECISION_RESUME_ACKNOWLEDGED", "READY_FOR_ACTION",
                    "READY_FOR_ACTION")
          /\ acknowledged' = Append(acknowledged, c)
      BY <2>4 DEF AcknowledgeApproval, Note, messageVars
    <3>3. \A d \in Case \ {c} : log'[d] = log[d]
      BY <2>1, <3>2 DEF Record, Typed
    <3>4. /\ IsAcknowledged(c)'
          /\ \A d \in Case \ {c} : IsAcknowledged(d)' <=> IsAcknowledged(d)
      <4>1. acknowledged \in Seq(Case)
        BY <2>1 DEF Typed
      <4>2. /\ DOMAIN acknowledged = 1..Len(acknowledged) /\ Len(acknowledged) \in Nat
            /\ DOMAIN acknowledged' = 1..(Len(acknowledged) + 1)
            /\ acknowledged'[Len(acknowledged) + 1] = c
            /\ \A i \in 1..Len(acknowledged) : acknowledged'[i] = acknowledged[i]
        BY <3>2, <4>1, LenProperties, AppendProperties
      <4> QED
        BY <4>2 DEF IsAcknowledged
    <3>5. \A d \in Case \ {c} : Same(d)
      BY <3>2, <3>3, <3>4 DEF Same
    <3>6. c \in Granted'
      BY <3>1, <3>2, <3>4, GrantedIff DEF IsGranted, ActedOn
    <3> QED
      BY <3>1, <3>2, <3>5, <3>6, GrantOrNothing
  <2>5. ASSUME NEW c \in Case, caseState[c] = "READY_FOR_ACTION", Settle(c),
               UNCHANGED <<request, grants, details, approval, acknowledged, messageVars>>
        PROVE  Promised!Next
    BY <1>2, <2>5, SettleTells DEF Promised!Next
  <2> QED
    BY <1>2, <2>2, <2>3, <2>4, <2>5, Steps
<1> QED
  BY <1>1, <1>2, Invariance, PTL DEF Spec, KeepsOutcome, Promised!Spec

=============================================================================

---------------------------- MODULE HumanLoopProofs ----------------------------
(***************************************************************************)
(* Theorems about HumanLoop, for any inputs, handlers, retrievers and      *)
(* number of decisions.  What the case owes to the analysis is AnalysisInv *)
(* of AnalysisProofs; what is added is the history of the decisions        *)
(* (Chronicle), who may still move a case whose question is being          *)
(* answered (RetrievalInv), what each way to an action has made sure of    *)
(* (AuthorityInv) and what became of each acknowledgement (EffectInv).     *)
(***************************************************************************)
EXTENDS HumanLoop, AnalysisProofs

-----------------------------------------------------------------------------
(* The inductive invariant *)

Origins == DecisionTypes \cup {"ANALYSIS_STARTED"}
Corrections == {"SERVICE_AGENT_CORRECTION_ACCEPTED"}
Rejections == {"SERVICE_AGENT_REJECTED", "APPROVAL_REJECTED"}

Origin(v) == OfVersion(Origins, v)
Acks(v) == OfVersion({"HUMAN_DECISION_RESUME_ACKNOWLEDGED"}, v)
Routes(v) == OfVersion({"HUMAN_REVIEW_REANALYZED"}, v)
Queued(v) == OfVersion({"REQUESTER_NOTIFICATION_QUEUED"}, v)
Told(v) == OfVersion(Reconciled, v)

Resumed(v) == Decision(v) # {} => Acks(v) # {}

(* A version is given by one start or decision, which put the case where it  *)
(* still is if the version is the current one.  An acknowledgement repeats   *)
(* the decision of its version, and the case only goes on from a decision    *)
(* that has one.  Information that was not acknowledged finds no details.    *)
OriginInv(v) ==
  /\ \A i, j \in Origin(v) : i = j
  /\ \A i \in Origin(v) :
       /\ v <= version
       /\ log[i].to \in {"ANALYZING", "REJECTED", "READY_FOR_ACTION"}
       /\ v = version => log[i].to = caseState

AckInv(v) ==
  /\ \A a \in Acks(v) : \E d \in Decision(v) :
       d < a /\ log[a].to = log[d].to /\ log[a].trigger = log[d].trigger
  /\ \A a, b \in Acks(v) : a = b
  /\ v < version => Resumed(v)
  /\ v = version /\ Acks(v) = {} =>
       \A d \in Decision(v) : log[d].trigger.input # NoInput => details = NoDetails

OriginsTyped == \A i \in DOMAIN log : log[i].type \in Origins => log[i].trigger \in Trigger

Chronicle == OriginsTyped /\ \A v \in Nat : OriginInv(v) /\ AckInv(v)

(* A question is answered in one version of the case that nothing else can   *)
(* leave: no analysis is open, no human is asked, no agent accepted it.      *)
Evident == \E i \in DOMAIN log : log[i].type \in EvidenceTypes /\ log[i].trigger.version = version

Asking ==
  /\ caseState = "ANALYZING"
  /\ details = [kind |-> "POLICY", by |-> "SYSTEM_RULE"]
  /\ Evident

RetrievalInv ==
  /\ RetrievalTypeOK
  /\ Logged("ANALYSIS_READY_FOR_RETRIEVAL") /\ ~RetrievalClaimed => Asking
  /\ \A r \in Retriever : retrieving[r] # 0 =>
       Asking /\ version = retrieving[r] /\ RetrievalClaimed
  /\ \A q, r \in Retriever : retrieving[q] # 0 /\ retrieving[r] # 0 => q = r

AuthorityInv ==
  /\ ActionIsAuthorized
  /\ approval \in {"PENDING", "APPROVED"} => details.kind = "GUARDED"
  /\ approval = "APPROVED" => caseState = "READY_FOR_ACTION"
  /\ Logged("POLICY_RETRIEVAL_READY") => caseState = "READY_FOR_ACTION"

(* An acknowledgement is followed by one route or one notification. *)
Followed(e, v) == \E a \in Acks(v) : a < e

EffectInv(v) ==
  /\ \A e, f \in Routes(v) : e = f
  /\ \A e, f \in Queued(v) : e = f
  /\ \A e, f \in Told(v) : e = f
  /\ \A e \in Routes(v) : Followed(e, v) /\ OfVersion(Corrections, v) # {}
  /\ \A e \in Queued(v) : Followed(e, v) /\ OfVersion(Rejections, v) # {}
  /\ \A e \in Told(v) : \E q \in Queued(v) : q < e
  /\ Queued(v) = {} <=> status[Notice(v)] = "ABSENT"

EffectsInv == \A v \in 1..MaxVersion : EffectInv(v)

RowsTyped == status \in [Message -> RowStatus]

HumanInv ==
  /\ AnalysisInv /\ Chronicle /\ RetrievalInv /\ AuthorityInv /\ EffectsInv /\ RowsTyped

-----------------------------------------------------------------------------
(* The events of a version *)

LEMMA OfVersionNew ==
  ASSUME CaseTypeOK, NEW e \in Event, log' = Append(log, e), NEW T, NEW v
  PROVE  /\ OfVersion(T, v)' = OfVersion(T, v) \cup
                (IF e.type \in T /\ e.trigger.version = v THEN {Len(log) + 1} ELSE {})
         /\ log'[Len(log) + 1] = e
         /\ \A i \in OfVersion(T, v) : i \in 1..Len(log) /\ i < Len(log) + 1 /\ log'[i] = log[i]
         /\ Len(log) \in Nat
<1>1. /\ Len(log) \in Nat
      /\ DOMAIN log = 1..Len(log)
      /\ DOMAIN log' = 1..(Len(log) + 1)
      /\ log'[Len(log) + 1] = e
      /\ \A i \in 1..Len(log) : log'[i] = log[i]
  BY NewEvent DEF CaseTypeOK
<1>2. DOMAIN log' = DOMAIN log \cup {Len(log) + 1} /\ Len(log) + 1 \notin DOMAIN log
  BY <1>1
<1>3. \A i \in DOMAIN log : i < Len(log) + 1
  BY <1>1
<1> QED
  BY <1>1, <1>2, <1>3 DEF OfVersion

LEMMA OfVersionKept ==
  ASSUME log' = log, NEW T, NEW v
  PROVE  OfVersion(T, v)' = OfVersion(T, v)
BY DEF OfVersion

(* Decisions and the start are origins; evidence of analysis is the start or *)
(* an acknowledgement.                                                       *)
LEMMA DecisionIsOrigin ==
  ASSUME NEW v
  PROVE  /\ Decision(v) \subseteq Origin(v)
         /\ OfVersion(Corrections, v) \subseteq Decision(v)
         /\ OfVersion(Rejections, v) \subseteq Decision(v)
BY DEF Decision, Origin, OfVersion, Origins, Corrections, Rejections, DecisionTypes

(* No evidence is of a version the case did not reach. *)
LEMMA EvidenceIsPast ==
  ASSUME AnalysisInv, Chronicle, NEW i \in DOMAIN log,
         log[i].type \in EvidenceTypes \cup Origins
  PROVE  /\ log[i].trigger \in Trigger
         /\ log[i].trigger.version \in Nat
         /\ log[i].trigger.version <= version
<1>1. log[i].trigger \in Trigger
  BY DEF Chronicle, OriginsTyped, AnalysisInv, OneInput
<1>2. PICK v \in Nat : v = log[i].trigger.version
  BY <1>1 DEF Trigger
<1>3. CASE log[i].type \in Origins
  <2>1. i \in Origin(v)
    BY <1>2, <1>3 DEF Origin, OfVersion
  <2> QED
    BY <1>1, <1>2, <2>1 DEF Chronicle, OriginInv
<1>4. CASE log[i].type = "HUMAN_DECISION_RESUME_ACKNOWLEDGED"
  <2>1. i \in Acks(v)
    BY <1>2, <1>4 DEF Acks, OfVersion
  <2>2. PICK d : d \in Decision(v)
    BY <2>1 DEF Chronicle, AckInv
  <2> QED
    BY <1>1, <1>2, <2>2, DecisionIsOrigin DEF Chronicle, OriginInv
<1> QED
  BY <1>3, <1>4 DEF EvidenceTypes, Origins

(* A case that waits for a human or is new has no decision of its version    *)
(* yet, and one whose version an analysis may act on was resumed.            *)
LEMMA StateUndecided ==
  ASSUME CaseTypeOK, Chronicle,
         caseState \notin {"ANALYZING", "REJECTED", "READY_FOR_ACTION"}
  PROVE  Origin(version) = {} /\ Decision(version) = {} /\ Resumed(version)
<1>1. PICK v \in Nat : v = version
  BY DEF CaseTypeOK
<1>2. Origin(v) = {}
  BY <1>1 DEF Chronicle, OriginInv
<1>3. Decision(v) = {}
  BY <1>2, DecisionIsOrigin
<1> QED
  BY <1>1, <1>2, <1>3 DEF Resumed

LEMMA EvidentResumed ==
  ASSUME CaseTypeOK, Chronicle, Evident
  PROVE  Resumed(version)
<1>1. PICK v \in Nat : v = version
  BY DEF CaseTypeOK
<1>2. PICK i \in DOMAIN log : log[i].type \in EvidenceTypes /\ log[i].trigger.version = v
  BY <1>1 DEF Evident
<1>3. CASE log[i].type = "HUMAN_DECISION_RESUME_ACKNOWLEDGED"
  <2>1. i \in Acks(v)
    BY <1>2, <1>3 DEF Acks, OfVersion
  <2> QED
    BY <1>1, <2>1 DEF Resumed
<1>4. CASE log[i].type = "ANALYSIS_STARTED"
  <2>1. i \in Origin(v) /\ i \notin Decision(v)
    BY <1>2, <1>4 DEF Origin, Origins, Decision, DecisionTypes, OfVersion
  <2>2. Decision(v) = {}
    BY <2>1, DecisionIsOrigin DEF Chronicle, OriginInv
  <2> QED
    BY <1>1, <2>2 DEF Resumed
<1> QED
  BY <1>2, <1>3, <1>4 DEF EvidenceTypes

-----------------------------------------------------------------------------
(* The history of the decisions *)

LEMMA EventOfOther ==
  ASSUME CaseTypeOK, NEW e \in Event, log' = Append(log, e), NEW T, NEW v,
         e.type \notin T \/ e.trigger.version # v
  PROVE  OfVersion(T, v)' = OfVersion(T, v)
BY OfVersionNew

LEMMA EventOfThis ==
  ASSUME CaseTypeOK, NEW e \in Event, log' = Append(log, e), NEW T, NEW v,
         e.type \in T, e.trigger.version = v
  PROVE  OfVersion(T, v)' = OfVersion(T, v) \cup {Len(log) + 1} /\ log'[Len(log) + 1] = e
BY OfVersionNew

LEMMA OldEvents ==
  ASSUME CaseTypeOK, NEW e \in Event, log' = Append(log, e), NEW T, NEW v,
         NEW i \in OfVersion(T, v)
  PROVE  i < Len(log) + 1 /\ log'[i] = log[i]
BY OfVersionNew

LEMMA OldHistory ==
  ASSUME CaseTypeOK, NEW e \in Event, log' = Append(log, e), NEW v
  PROVE  /\ \A i \in Origin(v) : i < Len(log) + 1 /\ log'[i] = log[i]
         /\ \A i \in Decision(v) : i < Len(log) + 1 /\ log'[i] = log[i]
         /\ \A i \in Acks(v) : i < Len(log) + 1 /\ log'[i] = log[i]
<1>1. \A i \in Origin(v) : i < Len(log) + 1 /\ log'[i] = log[i]
  BY OldEvents DEF Origin
<1>2. \A i \in Decision(v) : i < Len(log) + 1 /\ log'[i] = log[i]
  BY OldEvents DEF Decision
<1>3. \A i \in Acks(v) : i < Len(log) + 1 /\ log'[i] = log[i]
  BY OldEvents DEF Acks
<1> QED
  BY <1>1, <1>2, <1>3

LEMMA PlainHistory ==
  ASSUME CaseTypeOK, NEW e \in Event, log' = Append(log, e), NEW v,
         \/ e.type \notin Origins \cup {"HUMAN_DECISION_RESUME_ACKNOWLEDGED"}
         \/ e.trigger.version # v
  PROVE  Origin(v)' = Origin(v) /\ Decision(v)' = Decision(v) /\ Acks(v)' = Acks(v)
<1>1. Origin(v)' = Origin(v)
  BY EventOfOther DEF Origin
<1>2. Decision(v)' = Decision(v)
  BY EventOfOther DEF Decision, Origins
<1>3. Acks(v)' = Acks(v)
  BY EventOfOther DEF Acks
<1> QED
  BY <1>1, <1>2, <1>3

-----------------------------------------------------------------------------
(* The history of the decisions *)

(* A version in which nothing new was decided or acknowledged. *)
LEMMA VersionKept ==
  ASSUME CaseTypeOK, NEW e \in Event, log' = Append(log, e), NEW v \in Nat,
         OriginInv(v), AckInv(v),
         Origin(v)' = Origin(v), Decision(v)' = Decision(v), Acks(v)' = Acks(v),
         \/ UNCHANGED <<caseState, version, details>>
         \/ Resumed(version) /\ UNCHANGED <<caseState, version>>
         \/ Resumed(version) /\ version' = version + 1
  PROVE  OriginInv(v)' /\ AckInv(v)'
<1>1. /\ \A i \in Origin(v) : log'[i] = log[i]
      /\ \A i \in Decision(v) : log'[i] = log[i]
      /\ \A i \in Acks(v) : log'[i] = log[i]
  BY OldHistory
<1>2. version \in Nat
  BY DEF CaseTypeOK
<1>3. Decision(v) # {} => v <= version
  BY DecisionIsOrigin DEF OriginInv
<1>4. /\ \A a \in Acks(v)' : \E d \in Decision(v)' :
           d < a /\ log'[a].to = log'[d].to /\ log'[a].trigger = log'[d].trigger
      /\ \A a, b \in Acks(v)' : a = b
  <2>1. ASSUME NEW a \in Acks(v)
        PROVE  \E d \in Decision(v) :
                 d < a /\ log'[a].to = log'[d].to /\ log'[a].trigger = log'[d].trigger
    <3>1. PICK d \in Decision(v) : d < a /\ log[a].to = log[d].to /\ log[a].trigger = log[d].trigger
      BY DEF AckInv
    <3> QED
      BY <1>1, <3>1
  <2>2. \A a, b \in Acks(v) : a = b
    BY DEF AckInv
  <2> QED
    BY <2>1, <2>2
<1>5. CASE UNCHANGED <<caseState, version>>
  <2>1. caseState' = caseState /\ version' = version
    BY <1>5
  <2>2. OriginInv(v)'
    BY <1>1, <2>1 DEF OriginInv
  <2>3. v < version' => Resumed(v)'
    BY <2>1 DEF AckInv, Resumed
  <2>4. ASSUME v = version, Acks(v) = {}, NEW d \in Decision(v), log[d].trigger.input # NoInput
        PROVE  details' = NoDetails
    <3>1. details = NoDetails
      BY <2>4 DEF AckInv
    <3>2. ~Resumed(version)
      BY <2>4 DEF Resumed
    <3> QED
      BY <1>2, <2>1, <3>1, <3>2
  <2>5. v = version' /\ Acks(v)' = {} =>
          \A d \in Decision(v)' : log'[d].trigger.input # NoInput => details' = NoDetails
    BY <1>1, <2>1, <2>4
  <2>6. AckInv(v)'
    BY <1>4, <2>3, <2>5 DEF AckInv
  <2> QED
    BY <2>2, <2>6
<1>6. CASE Resumed(version) /\ version' = version + 1
  <2>1. version' \in Nat /\ (v <= version => v < version' /\ v # version')
    BY <1>2, <1>6
  <2>2. OriginInv(v)'
    <3>1. \A i \in Origin(v) :
            /\ v <= version
            /\ log[i].to \in {"ANALYZING", "REJECTED", "READY_FOR_ACTION"}
      BY DEF OriginInv
    <3>2. \A i, j \in Origin(v) : i = j
      BY DEF OriginInv
    <3>3. \A i \in Origin(v) : v <= version' /\ (v = version' => log'[i].to = caseState')
      BY <1>2, <1>6, <2>1, <3>1
    <3> QED
      BY <1>1, <3>1, <3>2, <3>3 DEF OriginInv
  <2>3. v < version' => Resumed(v)
    BY <1>2, <1>6 DEF AckInv
  <2>4. v = version' => Decision(v) = {}
    BY <1>3, <2>1
  <2>5. AckInv(v)'
    BY <1>4, <2>3, <2>4 DEF AckInv, Resumed
  <2> QED
    BY <2>2, <2>5
<1> QED
  BY <1>5, <1>6

(* Events that are neither a decision nor an acknowledgement: they move the  *)
(* case, or touch its details, only when its decision was resumed.           *)
LEMMA ChroniclePlain ==
  ASSUME CaseTypeOK, Chronicle, NEW e \in Event, log' = Append(log, e),
         e.type \notin Origins \cup {"HUMAN_DECISION_RESUME_ACKNOWLEDGED"},
         \/ UNCHANGED <<caseState, version, details>>
         \/ Resumed(version) /\ UNCHANGED <<caseState, version>>
         \/ Resumed(version) /\ version' = version + 1
  PROVE  Chronicle'
<1>1. OriginsTyped'
  BY Grows DEF Chronicle, OriginsTyped, LogGrows
<1>2. ASSUME NEW v \in Nat PROVE OriginInv(v)' /\ AckInv(v)'
  BY PlainHistory, VersionKept DEF Chronicle
<1> QED
  BY <1>1, <1>2 DEF Chronicle

LEMMA ChronicleUnmoved ==
  ASSUME Chronicle, UNCHANGED <<log, caseState, version, details>>
  PROVE  Chronicle'
BY DEF Chronicle, OriginsTyped, OriginInv, AckInv, Resumed, Origin, Decision, Acks, OfVersion

(* A start or a decision opens the next version. *)
LEMMA ChronicleOrigin ==
  ASSUME CaseTypeOK, Chronicle, Resumed(version), NEW e \in Event, log' = Append(log, e),
         e.type \in Origins, e.trigger \in Trigger, e.trigger.version = version + 1,
         version' = version + 1, caseState' = e.to,
         e.to \in {"ANALYZING", "REJECTED", "READY_FOR_ACTION"},
         e.trigger.input # NoInput => details' = NoDetails
  PROVE  Chronicle'
<1>1. OriginsTyped'
  BY Grows DEF Chronicle, OriginsTyped, LogGrows
<1>2. version \in Nat
  BY DEF CaseTypeOK
<1>3. e.type \notin {"HUMAN_DECISION_RESUME_ACKNOWLEDGED"}
  BY DEF Origins, DecisionTypes
<1>4. ASSUME NEW v \in Nat PROVE OriginInv(v)' /\ AckInv(v)'
  <2>1. OriginInv(v) /\ AckInv(v)
    BY DEF Chronicle
  <2>2. CASE v = version + 1
    <3>1. ~(v <= version) /\ v = version' /\ ~(v < version')
      BY <1>2, <2>2
    <3>2. Origin(v) = {}
      BY <2>1, <3>1 DEF OriginInv
    <3>3. Decision(v) = {}
      BY <3>2, DecisionIsOrigin
    <3>4. Acks(v) = {}
      BY <2>1, <3>3 DEF AckInv
    <3>5. Origin(v)' = {Len(log) + 1} /\ log'[Len(log) + 1] = e
      BY <2>2, <3>2, EventOfThis DEF Origin
    <3>6. Decision(v)' \subseteq {Len(log) + 1}
      BY <3>3, EventOfThis, EventOfOther DEF Decision
    <3>7. Acks(v)' = {}
      BY <1>3, <3>4, EventOfOther DEF Acks
    <3>8. OriginInv(v)'
      <4>1. v <= version'
        BY <1>2, <3>1
      <4> QED
        BY <3>5, <4>1 DEF OriginInv
    <3>9. AckInv(v)'
      BY <3>1, <3>5, <3>6, <3>7 DEF AckInv
    <3> QED
      BY <3>8, <3>9
  <2>3. CASE v # version + 1
    BY <2>1, <2>3, PlainHistory, VersionKept
  <2> QED
    BY <2>2, <2>3
<1> QED
  BY <1>1, <1>4 DEF Chronicle

(* The acknowledgement of the current decision. *)
LEMMA ChronicleAck ==
  ASSUME CaseTypeOK, Chronicle, NEW e \in Event, log' = Append(log, e),
         e.type = "HUMAN_DECISION_RESUME_ACKNOWLEDGED",
         NEW u \in Nat, u = version, Acks(u) = {},
         NEW d \in Decision(u), e.to = log[d].to, e.trigger = log[d].trigger,
         UNCHANGED <<caseState, version, details>>
  PROVE  Chronicle'
<1>1. e.type \notin Origins /\ e.type \notin DecisionTypes /\ e.trigger.version = u
  BY DEF Origins, DecisionTypes, Decision, OfVersion
<1>2. OriginsTyped'
  BY <1>1, Grows DEF Chronicle, OriginsTyped, LogGrows
<1>3. ASSUME NEW v \in Nat PROVE OriginInv(v)' /\ AckInv(v)'
  <2>1. OriginInv(v) /\ AckInv(v)
    BY DEF Chronicle
  <2>2. CASE v = u
    <3>1. Origin(v)' = Origin(v) /\ Decision(v)' = Decision(v)
      BY <1>1, EventOfOther DEF Origin, Decision
    <3>2. Acks(v)' = {Len(log) + 1} /\ log'[Len(log) + 1] = e
      BY <1>1, <2>2, EventOfThis DEF Acks
    <3>3. /\ \A i \in Origin(v) : log'[i] = log[i]
          /\ \A i \in Decision(v) : i < Len(log) + 1 /\ log'[i] = log[i]
      BY OldHistory
    <3>4. caseState' = caseState /\ version' = version
      OBVIOUS
    <3>5. OriginInv(v)'
      BY <2>1, <3>1, <3>3, <3>4 DEF OriginInv
    <3>6. v \in Nat /\ ~(v < version') /\ d \in Decision(v)'
      BY <2>2, <3>1, <3>4
    <3>7. log'[Len(log) + 1].to = log'[d].to /\ log'[Len(log) + 1].trigger = log'[d].trigger
            /\ d < Len(log) + 1
      BY <2>2, <3>2, <3>3
    <3>8. AckInv(v)'
      BY <3>2, <3>6, <3>7 DEF AckInv
    <3> QED
      BY <3>5, <3>8
  <2>3. CASE v # u
    BY <1>1, <2>1, <2>3, PlainHistory, VersionKept
  <2> QED
    BY <2>2, <2>3
<1> QED
  BY <1>2, <1>3 DEF Chronicle

-----------------------------------------------------------------------------
(* Retrieval *)

LEMMA AskingKept ==
  ASSUME Asking, LogGrows, UNCHANGED <<caseState, version, details>>
  PROVE  Asking'
BY DEF Asking, Evident, LogGrows

(* Events that neither pass a question on to the retrieval nor claim it: the *)
(* question that is asked keeps its version of the case.                     *)
LEMMA RetrievalKept ==
  ASSUME CaseTypeOK, RetrievalInv, NEW e \in Event, log' = Append(log, e), UNCHANGED retrieving,
         e.type \notin {"ANALYSIS_READY_FOR_RETRIEVAL", "POLICY_RETRIEVAL_STARTED"},
         Asking => UNCHANGED <<caseState, version, details>>
  PROVE  RetrievalInv'
<1>1. LogGrows
  BY Grows
<1>2. /\ Logged("ANALYSIS_READY_FOR_RETRIEVAL")' <=> Logged("ANALYSIS_READY_FOR_RETRIEVAL")
      /\ RetrievalClaimed' <=> RetrievalClaimed
  BY Grows DEF RetrievalClaimed
<1>3. Asking => Asking' /\ version' = version
  BY <1>1, AskingKept
<1> QED
  BY <1>2, <1>3 DEF RetrievalInv, RetrievalTypeOK

LEMMA RetrievalUnmoved ==
  ASSUME RetrievalInv, UNCHANGED <<retrieving, log, caseState, version, details>>
  PROVE  RetrievalInv'
BY DEF RetrievalInv, RetrievalTypeOK, RetrievalClaimed, Logged, Asking, Evident

-----------------------------------------------------------------------------
(* Authority *)

(* A case on its way, without an answer that was retrieved. *)
LEMMA AuthorityMoved ==
  ASSUME CaseTypeOK, AuthorityInv, NEW e \in Event, log' = Append(log, e),
         e.type # "POLICY_RETRIEVAL_READY",
         caseState # "READY_FOR_ACTION",
         caseState' = "PENDING_APPROVAL" <=> approval' = "PENDING",
         approval' \in {"PENDING", "APPROVED"} => details'.kind = "GUARDED",
         approval' = "APPROVED" => caseState' = "READY_FOR_ACTION",
         caseState' = "READY_FOR_ACTION" =>
           /\ details'.kind = "GUARDED" => approval' = "APPROVED"
           /\ details'.kind # "POLICY"
  PROVE  AuthorityInv'
<1>1. ~Logged("POLICY_RETRIEVAL_READY")'
  BY Grows DEF AuthorityInv
<1> QED
  BY <1>1 DEF AuthorityInv, ActionIsAuthorized

LEMMA AuthorityKept ==
  ASSUME CaseTypeOK, AuthorityInv, UNCHANGED <<caseState, details, approval>>,
         \/ log' = log
         \/ \E e \in Event : log' = Append(log, e) /\ e.type # "POLICY_RETRIEVAL_READY"
  PROVE  AuthorityInv'
<1>1. Logged("POLICY_RETRIEVAL_READY")' <=> Logged("POLICY_RETRIEVAL_READY")
  BY Grows DEF Logged
<1> QED
  BY <1>1 DEF AuthorityInv, ActionIsAuthorized

-----------------------------------------------------------------------------
(* Effects *)

EffectTypes == {"HUMAN_REVIEW_REANALYZED", "REQUESTER_NOTIFICATION_QUEUED"} \cup Reconciled

LEMMA Messages ==
  ASSUME NEW v \in 1..MaxVersion
  PROVE  /\ Resume(v) \in Message /\ Notice(v) \in Message
         /\ \A u : Resume(u) # Notice(v)
         /\ \A u : Notice(u) = Notice(v) => u = v
         /\ \A u : Resume(u) = Resume(v) => u = v
BY HumanLoopAssumption DEF Resume, Notice

(* What a version owes to evidence only grows. *)
LEMMA EvidenceGrows ==
  ASSUME CaseTypeOK, NEW e \in Event, log' = Append(log, e), NEW v
  PROVE  /\ Acks(v) \subseteq Acks(v)'
         /\ OfVersion(Corrections, v) \subseteq OfVersion(Corrections, v)'
         /\ OfVersion(Rejections, v) \subseteq OfVersion(Rejections, v)'
         /\ Queued(v) \subseteq Queued(v)'
         /\ \A i : Followed(i, v) => Followed(i, v)'
<1>1. /\ Acks(v) \subseteq Acks(v)'
      /\ Queued(v) \subseteq Queued(v)'
      /\ OfVersion(Corrections, v) \subseteq OfVersion(Corrections, v)'
      /\ OfVersion(Rejections, v) \subseteq OfVersion(Rejections, v)'
  BY OfVersionNew DEF Acks, Queued
<1> QED
  BY <1>1 DEF Followed

LEMMA EffectOfOther ==
  ASSUME CaseTypeOK, NEW e \in Event, log' = Append(log, e), NEW v, EffectInv(v),
         e.type \notin EffectTypes \/ e.trigger.version # v,
         status'[Notice(v)] = "ABSENT" <=> status[Notice(v)] = "ABSENT"
  PROVE  EffectInv(v)'
<1>1. Routes(v)' = Routes(v)
  BY EventOfOther DEF Routes, EffectTypes
<1>2. Queued(v)' = Queued(v)
  BY EventOfOther DEF Queued, EffectTypes
<1>3. Told(v)' = Told(v)
  BY EventOfOther DEF Told, EffectTypes
<1>4. (Queued(v) = {} <=> status[Notice(v)] = "ABSENT")'
  BY <1>2 DEF EffectInv
<1> QED
  BY <1>1, <1>2, <1>3, <1>4, EvidenceGrows DEF EffectInv

LEMMA EffectsKept ==
  ASSUME CaseTypeOK, EffectsInv, NEW e \in Event, log' = Append(log, e),
         e.type \notin EffectTypes, UNCHANGED status
  PROVE  EffectsInv'
BY EffectOfOther DEF EffectsInv

LEMMA EffectsUnmoved ==
  ASSUME EffectsInv, UNCHANGED log,
         \A v \in 1..MaxVersion : status'[Notice(v)] = "ABSENT" <=> status[Notice(v)] = "ABSENT"
  PROVE  EffectsInv'
<1> SUFFICES ASSUME NEW v \in 1..MaxVersion PROVE EffectInv(v)'
  BY DEF EffectsInv
<1>1. /\ Routes(v)' = Routes(v) /\ Queued(v)' = Queued(v) /\ Told(v)' = Told(v)
      /\ Acks(v)' = Acks(v)
      /\ OfVersion(Corrections, v)' = OfVersion(Corrections, v)
      /\ OfVersion(Rejections, v)' = OfVersion(Rejections, v)
  BY OfVersionKept DEF Routes, Queued, Told, Acks
<1>2. EffectInv(v)
  BY DEF EffectsInv
<1>3. (Queued(v) = {} <=> status[Notice(v)] = "ABSENT")'
  BY <1>1, <1>2 DEF EffectInv
<1> QED
  BY <1>1, <1>2, <1>3 DEF EffectInv, Followed

-----------------------------------------------------------------------------
(* Steps *)

Kept ==
  /\ HumanInv'
  /\ CaseStep \/ UNCHANGED caseVars
  /\ \A v \in 1..MaxVersion : Acks(v)' = Acks(v)

OtherTypes ==
  DecisionTypes \cup EffectTypes \cup EvidenceTypes \cup
    {"CASE_RECEIVED", "POLICY_RETRIEVAL_STARTED", "POLICY_RETRIEVAL_READY",
     "POLICY_RETRIEVAL_NEEDS_REVIEW"}

LEMMA OtherEvents ==
  ASSUME NEW type \in OtherTypes, NEW from \in CaseState \cup {"ABSENT"}, NEW to \in CaseState,
         NEW t \in Trigger \cup {NoTrigger}
  PROVE  LET e == [type |-> type, from |-> from, to |-> to, trigger |-> t] IN
         /\ e \in Event
         /\ e.type = type /\ e.from = from /\ e.to = to /\ e.trigger = t
         /\ e.type \notin VerdictTypes \cup {"ANALYSIS_FAILED"}
<1>1. type \in EventType
  BY DEF OtherTypes, DecisionTypes, EffectTypes, Reconciled, EvidenceTypes, EventType
<1>2. type \notin VerdictTypes \cup {"ANALYSIS_FAILED"}
  BY DEF OtherTypes, DecisionTypes, EffectTypes, Reconciled, EvidenceTypes,
     VerdictTypes, Plan, NotReady, Ready
<1> QED
  BY <1>1, <1>2 DEF Event

(* The case and its accepted details stay; so do the analyses of its version. *)
LEMMA AcceptedKept ==
  ASSUME AnalysisInv, NEW e \in Event, log' = Append(log, e), e.type \notin EvidenceTypes,
         UNCHANGED <<caseState, version, acceptedVars, runs>>
  PROVE  AcceptedOnce'
<1>1. \A i \in DOMAIN log' : log'[i].type \in EvidenceTypes => i \in DOMAIN log /\ log'[i] = log[i]
  BY Grows DEF AnalysisInv, LogGrows
<1>2. details' = details /\ approval' = approval
  BY DEF acceptedVars
<1> QED
  BY <1>1, <1>2 DEF AnalysisInv, AcceptedOnce, Validated, Latest

(* The log and the case stay. *)
LEMMA QuietStep ==
  ASSUME HumanInv, AnalysisInv', UNCHANGED caseVars, RetrievalInv', RowsTyped',
         \A v \in 1..MaxVersion : status'[Notice(v)] = "ABSENT" <=> status[Notice(v)] = "ABSENT"
  PROVE  Kept
<1>1. UNCHANGED <<log, caseState, version, details, approval>>
  BY DEF caseVars, acceptedVars
<1>2. Chronicle' /\ EffectsInv'
  BY <1>1, ChronicleUnmoved, EffectsUnmoved DEF HumanInv
<1>3. AuthorityInv'
  BY <1>1, AuthorityKept DEF HumanInv, AnalysisInv
<1>4. \A v \in 1..MaxVersion : Acks(v)' = Acks(v)
  BY <1>1, OfVersionKept DEF Acks
<1> QED
  BY <1>2, <1>3, <1>4 DEF Kept, HumanInv

LEMMA AnalysisSame ==
  ASSUME AnalysisInv, UNCHANGED <<caseVars, analysisVars>>
  PROVE  AnalysisInv'
<1>1. HeldStays /\ UNCHANGED runs
  BY DEF HeldStays, AnalysisInv, AnalysisTypeOK, analysisVars
<1> QED
  BY <1>1, QuietKeeps

(* Events of other components than the analysis. *)
LEMMA EventStep ==
  ASSUME HumanInv, UNCHANGED analysisVars,
         NEW to \in CaseState, NEW e \in Event,
         MoveCase(to, IF to # caseState THEN version + 1 ELSE version, e),
         e.from = caseState, e.to = to,
         to # caseState => <<caseState, to>> \in AllowedMoves,
         e.type \notin VerdictTypes \cup {"ANALYSIS_FAILED", "HUMAN_DECISION_RESUME_ACKNOWLEDGED"},
         e.type = "ANALYSIS_STARTED" =>
           e.trigger \in Trigger /\ e.trigger.version = version + 1,
         details' \in Details \cup {NoDetails},
         approval' \in {"NONE", "PENDING", "APPROVED", "REJECTED"},
         AcceptedOnce', Chronicle', RetrievalInv', AuthorityInv', EffectsInv', RowsTyped'
  PROVE  Kept
<1>1. e.type \in EvidenceTypes =>
        /\ e.trigger \in Trigger
        /\ \A k \in DOMAIN log :
             log[k].type \in EvidenceTypes /\ log[k].trigger.version = e.trigger.version
               => log[k].trigger = e.trigger
  <2> SUFFICES ASSUME e.type = "ANALYSIS_STARTED"
               PROVE  \A k \in DOMAIN log :
                        log[k].type \in EvidenceTypes => log[k].trigger.version # version + 1
    BY DEF EvidenceTypes
  <2>1. version \in Nat
    BY DEF HumanInv, AnalysisInv, CaseTypeOK
  <2>2. \A k \in DOMAIN log : log[k].type \in EvidenceTypes =>
          log[k].trigger.version \in Nat /\ log[k].trigger.version <= version
    BY EvidenceIsPast DEF HumanInv
  <2> QED
    BY <2>1, <2>2
<1>2. AnalysisInv' /\ CaseStep /\ log' = Append(log, e)
  <2> DEFINE v == IF to # caseState THEN version + 1 ELSE version
  <2>1. MoveCase(to, v, e) /\ v = IF to # caseState THEN version + 1 ELSE version
    OBVIOUS
  <2> HIDE DEF v
  <2> QED
    BY <1>1, <2>1, OthersKeep DEF HumanInv
<1>3. e.type \notin {"HUMAN_DECISION_RESUME_ACKNOWLEDGED"} /\ CaseTypeOK
  BY DEF HumanInv, AnalysisInv
<1>4. \A v \in 1..MaxVersion : Acks(v)' = Acks(v)
  BY <1>2, <1>3, EventOfOther DEF Acks
<1> QED
  BY <1>2, <1>4 DEF Kept, HumanInv

LEMMA ReceiveKept ==
  ASSUME HumanInv, Receive
  PROVE  Kept
<1> DEFINE e == [type |-> "CASE_RECEIVED", from |-> "ABSENT", to |-> "RECEIVED", trigger |-> NoTrigger]
<1>1. /\ caseState = "ABSENT" /\ UNCHANGED <<acceptedVars, analysisVars, retrieving, status>>
      /\ MoveCase("RECEIVED", 1, e)
  BY DEF Receive, ReceiveCase, Entry
<1>2. "CASE_RECEIVED" \in OtherTypes /\ "RECEIVED" \in CaseState
  BY DEF OtherTypes, CaseState
<1>3. /\ e \in Event /\ e.type = "CASE_RECEIVED" /\ e.from = "ABSENT" /\ e.to = "RECEIVED"
      /\ e.type \notin VerdictTypes \cup {"ANALYSIS_FAILED"}
  BY <1>2, OtherEvents
<1> HIDE DEF e
<1>4. AnalysisInv /\ CaseTypeOK /\ version = 0
  BY <1>1 DEF HumanInv, AnalysisInv, CaseTypeOK
<1>5. /\ MoveCase("RECEIVED", IF "RECEIVED" # caseState THEN version + 1 ELSE version, e)
      /\ <<caseState, "RECEIVED">> \in AllowedMoves
      /\ log' = Append(log, e) /\ caseState' = "RECEIVED" /\ version' = version + 1
  BY <1>1, <1>4 DEF MoveCase, AllowedMoves
<1>6. /\ details = NoDetails /\ approval = "NONE"
      /\ details' = NoDetails /\ approval' = "NONE"
  BY <1>1, <1>4 DEF AnalysisInv, AcceptedOnce, acceptedVars
<1>7. AcceptedOnce'
  BY <1>5, <1>6 DEF AcceptedOnce
<1>8. e.type \notin Origins \cup EffectTypes \cup
        {"HUMAN_DECISION_RESUME_ACKNOWLEDGED", "ANALYSIS_READY_FOR_RETRIEVAL",
         "POLICY_RETRIEVAL_STARTED", "POLICY_RETRIEVAL_READY"}
  BY <1>3 DEF Origins, DecisionTypes, EffectTypes, Reconciled
<1>9. Chronicle'
  BY <1>1, <1>3, <1>4, <1>5, <1>8, StateUndecided, ChroniclePlain DEF HumanInv
<1>10. RetrievalInv'
  BY <1>1, <1>3, <1>4, <1>5, <1>8, RetrievalKept DEF HumanInv, Asking
<1>11. AuthorityInv'
  BY <1>1, <1>3, <1>4, <1>5, <1>6, <1>8, AuthorityMoved DEF HumanInv
<1>12. EffectsInv' /\ RowsTyped'
  BY <1>1, <1>3, <1>4, <1>5, <1>8, EffectsKept DEF HumanInv, RowsTyped
<1> QED
  BY <1>1, <1>2, <1>3, <1>5, <1>6, <1>7, <1>8, <1>9, <1>10, <1>11, <1>12, EventStep DEF Origins

LEMMA StartAnalysisKept ==
  ASSUME HumanInv, StartAnalysis
  PROVE  Kept
<1> DEFINE t == [version |-> version + 1, input |-> Original]
           e == [type |-> "ANALYSIS_STARTED", from |-> "RECEIVED", to |-> "ANALYZING", trigger |-> t]
<1>1. /\ caseState = "RECEIVED" /\ UNCHANGED <<acceptedVars, analysisVars, retrieving, status>>
      /\ MoveCase("ANALYZING", version + 1, e)
  BY DEF StartAnalysis
<1>2. AnalysisInv /\ CaseTypeOK /\ version \in Nat
  BY DEF HumanInv, AnalysisInv, CaseTypeOK
<1>3. t \in Trigger /\ t.version = version + 1
  BY <1>2, HumanLoopAssumption DEF Trigger
<1> HIDE DEF t
<1>4. "ANALYSIS_STARTED" \in OtherTypes /\ "ANALYZING" \in CaseState /\ "RECEIVED" \in CaseState
  BY DEF OtherTypes, EvidenceTypes, CaseState
<1>5. /\ e \in Event /\ e.type = "ANALYSIS_STARTED" /\ e.from = "RECEIVED" /\ e.to = "ANALYZING"
      /\ e.trigger = t
      /\ e.type \notin VerdictTypes \cup {"ANALYSIS_FAILED"}
  BY <1>3, <1>4, OtherEvents
<1> HIDE DEF e
<1>6. /\ MoveCase("ANALYZING", IF "ANALYZING" # caseState THEN version + 1 ELSE version, e)
      /\ <<caseState, "ANALYZING">> \in AllowedMoves
      /\ log' = Append(log, e) /\ caseState' = "ANALYZING" /\ version' = version + 1
  BY <1>1 DEF MoveCase, AllowedMoves
<1>7. /\ details = NoDetails /\ approval = "NONE"
      /\ details' = NoDetails /\ approval' = "NONE"
  BY <1>1, <1>2 DEF AnalysisInv, AcceptedOnce, acceptedVars
<1>8. AcceptedOnce'
  BY <1>6, <1>7 DEF AcceptedOnce
<1>9. e.type \in Origins /\ e.type \notin EffectTypes \cup
        {"HUMAN_DECISION_RESUME_ACKNOWLEDGED", "ANALYSIS_READY_FOR_RETRIEVAL",
         "POLICY_RETRIEVAL_STARTED", "POLICY_RETRIEVAL_READY"}
  BY <1>5 DEF Origins, DecisionTypes, EffectTypes, Reconciled
<1>10. Chronicle'
  <2>1. Resumed(version)
    BY <1>1, <1>2, StateUndecided DEF HumanInv
  <2> QED
    BY <1>2, <1>3, <1>5, <1>6, <1>7, <1>9, <2>1, ChronicleOrigin DEF HumanInv
<1>11. RetrievalInv'
  BY <1>1, <1>2, <1>5, <1>6, <1>9, RetrievalKept DEF HumanInv, Asking
<1>12. AuthorityInv'
  BY <1>1, <1>2, <1>5, <1>6, <1>7, <1>9, AuthorityMoved DEF HumanInv
<1>13. EffectsInv' /\ RowsTyped'
  BY <1>1, <1>2, <1>5, <1>6, <1>9, EffectsKept DEF HumanInv, RowsTyped
<1> QED
  BY <1>1, <1>3, <1>4, <1>5, <1>6, <1>7, <1>8, <1>9, <1>10, <1>11, <1>12, <1>13, EventStep

(* What the analysis does to the rest of the case. *)
LEMMA AnalysisKept ==
  ASSUME HumanInv, UNCHANGED <<retrieving, status>>,
         AnalysisStep \/ \E h \in Handler : \E t : Request(h, t)
  PROVE  Kept
<1>1. AnalysisInv' /\ CaseEffect
  BY AnalysisKeeps DEF HumanInv
<1>2. CASE UNCHANGED caseVars
  <2>1. RetrievalInv' /\ RowsTyped'
    BY <1>2, RetrievalUnmoved DEF HumanInv, RowsTyped, caseVars, acceptedVars
  <2> QED
    BY <1>1, <1>2, <2>1, QuietStep
<1>3. ASSUME NEW to, NEW e, Writes(to, e), CaseStep, details = NoDetails, Accepting(to, e),
             NEW t, HasEvidence(t), t.version = version
      PROVE  Kept
  <2>1. CaseTypeOK /\ LogTellsState
    BY DEF HumanInv, AnalysisInv
  <2>2. /\ e \in Event /\ log' = Append(log, e) /\ caseState = "ANALYZING" /\ caseState' = to
        /\ version' = IF to = "ANALYZING" THEN version ELSE version + 1
    BY <1>3, <2>1, WriteMoves DEF Writes
  <2>3. e.type \notin Origins \cup EffectTypes \cup
          {"HUMAN_DECISION_RESUME_ACKNOWLEDGED", "POLICY_RETRIEVAL_STARTED", "POLICY_RETRIEVAL_READY"}
    BY <1>3 DEF Writes, AnalysisTypes, VerdictTypes, Plan, NotReady, Ready, Origins,
       DecisionTypes, EffectTypes, Reconciled
  <2>4. Evident /\ Resumed(version)
    <3>1. Evident
      BY <1>3 DEF Evident, HasEvidence, EvidenceTypes
    <3> QED
      BY <2>1, <3>1, EvidentResumed DEF HumanInv
  <2>5. Chronicle'
    BY <2>1, <2>2, <2>3, <2>4, ChroniclePlain DEF HumanInv
  <2>6. ~Asking
    BY <1>3 DEF Asking, NoDetails
  <2>7. RetrievalInv'
    <3>1. CASE e.type # "ANALYSIS_READY_FOR_RETRIEVAL"
      BY <2>1, <2>2, <2>3, <2>6, <3>1, RetrievalKept DEF HumanInv
    <3>2. CASE e.type = "ANALYSIS_READY_FOR_RETRIEVAL"
      <4>1. details' = [kind |-> "POLICY", by |-> "SYSTEM_RULE"] /\ to = "ANALYZING"
        BY <1>3, <3>2 DEF Accepting
      <4>2. Evident'
        BY <2>1, <2>2, <2>4, <4>1, Grows DEF Evident, LogGrows
      <4>3. Asking'
        BY <2>2, <4>1, <4>2 DEF Asking
      <4> QED
        BY <2>6, <4>3 DEF HumanInv, RetrievalInv, RetrievalTypeOK
    <3> QED
      BY <3>1, <3>2
  <2>8. AuthorityInv'
    <3>1. /\ to = "PENDING_APPROVAL" <=> approval' = "PENDING"
          /\ approval' \in {"NONE", "PENDING"}
          /\ approval' = "PENDING" => details'.kind = "GUARDED"
          /\ to = "READY_FOR_ACTION" => details'.kind = "SAFE"
      BY <1>3 DEF Accepting, Kind
    <3>2. /\ approval' \in {"PENDING", "APPROVED"} => details'.kind = "GUARDED"
          /\ approval' # "APPROVED"
          /\ to = "READY_FOR_ACTION" => details'.kind # "GUARDED" /\ details'.kind # "POLICY"
      BY <3>1
    <3> QED
      BY <2>1, <2>2, <2>3, <3>1, <3>2, AuthorityMoved DEF HumanInv
  <2>9. EffectsInv' /\ RowsTyped'
    BY <2>1, <2>2, <2>3, EffectsKept DEF HumanInv, RowsTyped
  <2>10. \A v \in 1..MaxVersion : Acks(v)' = Acks(v)
    BY <2>1, <2>2, <2>3, EventOfOther DEF Acks
  <2> QED
    BY <1>1, <1>3, <2>5, <2>7, <2>8, <2>9, <2>10 DEF Kept, HumanInv
<1> QED
  BY <1>1, <1>2, <1>3 DEF CaseEffect

(* A question that may be claimed is asked. *)
LEMMA MayRetrieveIsAsking ==
  ASSUME HumanInv, MayRetrieve
  PROVE  Asking /\ \A r \in Retriever : retrieving[r] = 0
BY DEF MayRetrieve, HumanInv, RetrievalInv

LEMMA ClaimRetrievalKept ==
  ASSUME HumanInv, NEW r \in Retriever, ClaimRetrieval(r), UNCHANGED <<analysisVars, status>>
  PROVE  Kept
<1> DEFINE e == [type |-> "POLICY_RETRIEVAL_STARTED", from |-> "ANALYZING", to |-> "ANALYZING",
                 trigger |-> NoTrigger]
<1>1. /\ MayRetrieve /\ retrieving' = [retrieving EXCEPT ![r] = version]
      /\ log' = Append(log, e) /\ UNCHANGED <<caseState, version, acceptedVars>>
  BY DEF ClaimRetrieval, Entry
<1>2. Asking /\ \A q \in Retriever : retrieving[q] = 0
  BY <1>1, MayRetrieveIsAsking
<1>3. "POLICY_RETRIEVAL_STARTED" \in OtherTypes /\ "ANALYZING" \in CaseState
  BY DEF OtherTypes, CaseState
<1>4. /\ e \in Event /\ e.type = "POLICY_RETRIEVAL_STARTED"
      /\ e.from = "ANALYZING" /\ e.to = "ANALYZING"
      /\ e.type \notin VerdictTypes \cup {"ANALYSIS_FAILED"}
  BY <1>3, OtherEvents
<1> HIDE DEF e
<1>5. AnalysisInv /\ CaseTypeOK /\ version \in Nat /\ caseState = "ANALYZING"
  BY <1>2 DEF HumanInv, AnalysisInv, CaseTypeOK, Asking
<1>6. /\ MoveCase("ANALYZING", IF "ANALYZING" # caseState THEN version + 1 ELSE version, e)
      /\ details' = details /\ approval' = approval
  BY <1>1, <1>5 DEF MoveCase, acceptedVars
<1>7. e.type \notin Origins \cup EffectTypes \cup EvidenceTypes \cup
        {"HUMAN_DECISION_RESUME_ACKNOWLEDGED", "POLICY_RETRIEVAL_READY"}
  BY <1>4 DEF Origins, DecisionTypes, EffectTypes, Reconciled, EvidenceTypes
<1>8. AcceptedOnce'
  BY <1>1, <1>4, <1>5, <1>7, AcceptedKept DEF analysisVars
<1>9. Chronicle'
  BY <1>1, <1>4, <1>5, <1>6, <1>7, ChroniclePlain DEF HumanInv
<1>10. RetrievalInv'
  <2>1. Asking'
    BY <1>1, <1>2, <1>4, <1>5, <1>6, Grows, AskingKept
  <2>2. RetrievalClaimed'
    BY <1>1, <1>4, <1>5, Grows DEF RetrievalClaimed
  <2>3. retrieving' \in [Retriever -> Nat] /\ retrieving'[r] = version'
          /\ \A q \in Retriever : q # r => retrieving'[q] = 0
    BY <1>1, <1>2, <1>5 DEF HumanInv, RetrievalInv, RetrievalTypeOK
  <2> QED
    BY <2>1, <2>2, <2>3 DEF RetrievalInv, RetrievalTypeOK
<1>11. AuthorityInv'
  BY <1>1, <1>4, <1>5, <1>6, <1>7, AuthorityKept DEF HumanInv
<1>12. EffectsInv' /\ RowsTyped'
  BY <1>1, <1>4, <1>5, <1>7, EffectsKept DEF HumanInv, RowsTyped
<1>13. details' \in Details \cup {NoDetails}
       /\ approval' \in {"NONE", "PENDING", "APPROVED", "REJECTED"}
  BY <1>5, <1>6 DEF CaseTypeOK
<1> QED
  BY <1>3, <1>4, <1>5, <1>6, <1>7, <1>8, <1>9, <1>10, <1>11, <1>12, <1>13, EventStep DEF Origins

LEMMA FinalizeRetrievalKept ==
  ASSUME HumanInv, NEW r \in Retriever, NEW outcome \in RetrievalOutcome,
         FinalizeRetrieval(r, outcome), UNCHANGED <<analysisVars, status>>
  PROVE  Kept
<1> DEFINE e == [type |-> outcome.type, from |-> "ANALYZING", to |-> outcome.to,
                 trigger |-> NoTrigger]
           to == outcome.to
<1>1. /\ retrieving[r] # 0 /\ caseState = "ANALYZING"
      /\ MoveCase(to, version + 1, e)
      /\ retrieving' = [retrieving EXCEPT ![r] = 0] /\ UNCHANGED acceptedVars
  BY DEF FinalizeRetrieval, Entry
<1>2. /\ <<to, outcome.type>> \in {<<"READY_FOR_ACTION", "POLICY_RETRIEVAL_READY">>,
                                   <<"NEEDS_REVIEW", "POLICY_RETRIEVAL_NEEDS_REVIEW">>}
      /\ to \in CaseState /\ "ANALYZING" \in CaseState /\ outcome.type \in OtherTypes
  BY DEF RetrievalOutcome, CaseState, OtherTypes
<1>3. /\ e \in Event /\ e.type = outcome.type /\ e.from = "ANALYZING" /\ e.to = to
      /\ e.type \notin VerdictTypes \cup {"ANALYSIS_FAILED"}
  BY <1>2, OtherEvents
<1> HIDE DEF e, to
<1>4. Asking /\ RetrievalClaimed /\ \A q \in Retriever : q # r => retrieving[q] = 0
  BY <1>1 DEF HumanInv, RetrievalInv
<1>5. AnalysisInv /\ CaseTypeOK /\ version \in Nat
  BY DEF HumanInv, AnalysisInv, CaseTypeOK
<1>6. /\ to # caseState /\ MoveCase(to, IF to # caseState THEN version + 1 ELSE version, e)
      /\ <<caseState, to>> \in AllowedMoves
      /\ log' = Append(log, e) /\ caseState' = to /\ version' = version + 1
      /\ details' = details /\ approval' = approval
  BY <1>1, <1>2 DEF MoveCase, acceptedVars, AllowedMoves
<1>7. e.type \notin Origins \cup EffectTypes \cup EvidenceTypes \cup
        {"HUMAN_DECISION_RESUME_ACKNOWLEDGED", "ANALYSIS_READY_FOR_RETRIEVAL"}
  BY <1>2, <1>3 DEF Origins, DecisionTypes, EffectTypes, Reconciled, EvidenceTypes
<1>8. AcceptedOnce'
  BY <1>2, <1>5, <1>6 DEF AnalysisInv, AcceptedOnce
<1>9. Chronicle'
  BY <1>3, <1>4, <1>5, <1>6, <1>7, EvidentResumed, ChroniclePlain DEF HumanInv, Asking
<1>10. RetrievalInv'
  <2>1. RetrievalClaimed'
    BY <1>3, <1>4, <1>5, <1>6, Grows DEF RetrievalClaimed
  <2>2. retrieving' \in [Retriever -> Nat] /\ \A q \in Retriever : retrieving'[q] = 0
    BY <1>1, <1>4 DEF HumanInv, RetrievalInv, RetrievalTypeOK
  <2> QED
    BY <2>1, <2>2 DEF RetrievalInv, RetrievalTypeOK
<1>11. AuthorityInv'
  <2>1. details.kind = "POLICY" /\ approval # "PENDING" /\ approval # "APPROVED"
    BY <1>1, <1>4 DEF Asking, HumanInv, AuthorityInv, ActionIsAuthorized
  <2>2. CASE e.type = "POLICY_RETRIEVAL_READY"
    <3>1. to = "READY_FOR_ACTION"
      BY <1>2, <1>3, <2>2
    <3>2. Logged("POLICY_RETRIEVAL_READY")'
      BY <1>3, <1>5, <1>6, <2>2, Grows
    <3> QED
      BY <1>6, <2>1, <3>1, <3>2 DEF AuthorityInv, ActionIsAuthorized
  <2>3. CASE e.type # "POLICY_RETRIEVAL_READY"
    <3>1. to = "NEEDS_REVIEW"
      BY <1>2, <1>3, <2>3
    <3> QED
      BY <1>1, <1>3, <1>5, <1>6, <2>1, <2>3, <3>1, AuthorityMoved DEF HumanInv
  <2> QED
    BY <2>2, <2>3
<1>12. EffectsInv' /\ RowsTyped'
  BY <1>3, <1>5, <1>6, <1>7, EffectsKept DEF HumanInv, RowsTyped
<1>13. details' \in Details \cup {NoDetails}
       /\ approval' \in {"NONE", "PENDING", "APPROVED", "REJECTED"}
  BY <1>5, <1>6 DEF CaseTypeOK
<1> QED
  BY <1>1, <1>2, <1>3, <1>6, <1>7, <1>8, <1>9, <1>10, <1>11, <1>12, <1>13, EventStep
     DEF Origins, EvidenceTypes

LEMMA RetrieverDiesKept ==
  ASSUME HumanInv, NEW r \in Retriever, RetrieverDies(r), UNCHANGED <<analysisVars, status>>
  PROVE  Kept
<1>1. UNCHANGED caseVars /\ retrieving' = [retrieving EXCEPT ![r] = 0]
  BY DEF RetrieverDies
<1>2. AnalysisInv'
  BY <1>1, AnalysisSame DEF HumanInv
<1>3. RetrievalInv'
  <2>1. retrieving' \in [Retriever -> Nat] /\ \A q \in Retriever : retrieving'[q] \in {0, retrieving[q]}
    BY <1>1 DEF HumanInv, RetrievalInv, RetrievalTypeOK
  <2>2. (Asking' <=> Asking) /\ version' = version /\ log' = log
    BY <1>1 DEF Asking, Evident, caseVars, acceptedVars
  <2> QED
    BY <2>1, <2>2 DEF HumanInv, RetrievalInv, RetrievalTypeOK, RetrievalClaimed, Logged
<1> QED
  BY <1>1, <1>2, <1>3, QuietStep DEF HumanInv, RowsTyped

LEMMA RetrieveKept ==
  ASSUME HumanInv, Retrieve
  PROVE  Kept
BY ClaimRetrievalKept, FinalizeRetrievalKept, RetrieverDiesKept DEF Retrieve, RetrievalStep

(* A decision of a human, who was asked. *)
LEMMA DecideKept ==
  ASSUME HumanInv, NEW type \in DecisionTypes,
         NEW to \in {"ANALYZING", "REJECTED", "READY_FOR_ACTION"},
         NEW input \in Input \cup {NoInput},
         Decide(type, to, input),
         caseState \in {"NEEDS_INFORMATION", "NEEDS_REVIEW", "PENDING_APPROVAL"},
         <<caseState, to>> \in AllowedMoves,
         details' \in Details \cup {NoDetails},
         approval' \in {"NONE", "APPROVED", "REJECTED"},
         details' = NoDetails => approval' = "NONE",
         input # NoInput => details' = NoDetails,
         approval' = "APPROVED" => to = "READY_FOR_ACTION" /\ details'.kind = "GUARDED",
         to = "READY_FOR_ACTION" => approval' = "APPROVED" /\ details'.kind = "GUARDED"
  PROVE  Kept
<1> DEFINE t == [version |-> version + 1, input |-> input]
           e == [type |-> type, from |-> caseState, to |-> to, trigger |-> t]
<1>1. MoveCase(to, version + 1, e) /\ UNCHANGED <<analysisVars, retrieving, status>>
  BY DEF Decide
<1>2. AnalysisInv /\ CaseTypeOK /\ version \in Nat
  BY DEF HumanInv, AnalysisInv, CaseTypeOK
<1>3. t \in Trigger /\ t.version = version + 1 /\ t.input = input
  BY <1>2 DEF Trigger
<1> HIDE DEF t
<1>4. type \in OtherTypes /\ to \in CaseState /\ caseState \in CaseState /\ to # caseState
  BY DEF OtherTypes, CaseState
<1>5. /\ e \in Event /\ e.type = type /\ e.from = caseState /\ e.to = to /\ e.trigger = t
      /\ e.type \notin VerdictTypes \cup {"ANALYSIS_FAILED"}
  BY <1>3, <1>4, OtherEvents
<1> HIDE DEF e
<1>6. /\ MoveCase(to, IF to # caseState THEN version + 1 ELSE version, e)
      /\ log' = Append(log, e) /\ caseState' = to /\ version' = version + 1
  BY <1>1, <1>4 DEF MoveCase
<1>7. e.type \in Origins /\ e.type \notin EffectTypes \cup EvidenceTypes \cup
        {"HUMAN_DECISION_RESUME_ACKNOWLEDGED", "ANALYSIS_READY_FOR_RETRIEVAL",
         "POLICY_RETRIEVAL_STARTED", "POLICY_RETRIEVAL_READY"}
  BY <1>5 DEF Origins, DecisionTypes, EffectTypes, Reconciled, EvidenceTypes
<1>8. AcceptedOnce'
  <2>1. \A i \in DOMAIN log' : log'[i].type \in EvidenceTypes =>
          i \in DOMAIN log /\ log'[i] = log[i]
    BY <1>2, <1>5, <1>6, <1>7, Grows DEF LogGrows
  <2>2. \A i \in DOMAIN log : log[i].type \in EvidenceTypes =>
          log[i].trigger.version \in Nat /\ log[i].trigger.version <= version
    BY EvidenceIsPast DEF HumanInv
  <2>3. \A i \in DOMAIN log' : log'[i].type \in EvidenceTypes =>
          log'[i].trigger.version # version'
    BY <1>2, <1>6, <2>1, <2>2
  <2> QED
    BY <1>6, <2>3 DEF AcceptedOnce
<1>9. Chronicle'
  <2>1. Resumed(version)
    BY <1>2, StateUndecided DEF HumanInv
  <2> QED
    BY <1>2, <1>3, <1>5, <1>6, <1>7, <2>1, ChronicleOrigin DEF HumanInv
<1>10. RetrievalInv'
  BY <1>1, <1>2, <1>5, <1>6, <1>7, RetrievalKept DEF HumanInv, Asking
<1>11. AuthorityInv'
  BY <1>2, <1>5, <1>6, <1>7, AuthorityMoved DEF HumanInv
<1>12. EffectsInv' /\ RowsTyped'
  BY <1>1, <1>2, <1>5, <1>6, <1>7, EffectsKept DEF HumanInv, RowsTyped
<1> QED
  BY <1>1, <1>3, <1>4, <1>5, <1>6, <1>7, <1>8, <1>9, <1>10, <1>11, <1>12, EventStep

LEMMA DecisionsKept ==
  ASSUME HumanInv,
         \/ \E i \in Input : SubmitInformation(i)
         \/ \E kind \in Kind : CorrectReview(kind)
         \/ RejectReview \/ ApproveRequest \/ RejectRequest
  PROVE  Kept
<1>1. /\ CaseTypeOK /\ AcceptedOnce
      /\ details \in Details \cup {NoDetails}
      /\ approval \in {"NONE", "PENDING", "APPROVED", "REJECTED"}
      /\ details = NoDetails => approval = "NONE"
      /\ caseState = "PENDING_APPROVAL" <=> approval = "PENDING"
      /\ approval = "APPROVED" => caseState = "READY_FOR_ACTION"
      /\ approval = "PENDING" => details.kind = "GUARDED"
  BY DEF HumanInv, AnalysisInv, AcceptedOnce, CaseTypeOK, AuthorityInv, ActionIsAuthorized
<1>2. NoDetails.kind # "GUARDED"
  BY DEF NoDetails
<1>3. ASSUME NEW i \in Input, SubmitInformation(i) PROVE Kept
  <2>1. /\ caseState = "NEEDS_INFORMATION" /\ Decide("REQUESTER_INFORMATION_SUBMITTED", "ANALYZING", i)
        /\ details' = details /\ approval' = approval
    BY <1>3 DEF SubmitInformation, acceptedVars
  <2>2. details' = NoDetails /\ approval' = "NONE"
    BY <1>1, <2>1 DEF AcceptedOnce
  <2>3. <<caseState, "ANALYZING">> \in AllowedMoves
          /\ "REQUESTER_INFORMATION_SUBMITTED" \in DecisionTypes
    BY <2>1 DEF AllowedMoves, DecisionTypes
  <2> QED
    BY <2>1, <2>2, <2>3, DecideKept
<1>4. ASSUME NEW kind \in Kind, CorrectReview(kind) PROVE Kept
  <2>1. /\ caseState = "NEEDS_REVIEW" /\ approval = "NONE"
        /\ Decide("SERVICE_AGENT_CORRECTION_ACCEPTED", "ANALYZING", NoInput)
        /\ details' = [kind |-> kind, by |-> "SERVICE_AGENT"] /\ approval' = approval
    BY <1>4 DEF CorrectReview
  <2>2. details' \in Details
    BY <2>1 DEF Details
  <2>3. <<caseState, "ANALYZING">> \in AllowedMoves
          /\ "SERVICE_AGENT_CORRECTION_ACCEPTED" \in DecisionTypes
    BY <2>1 DEF AllowedMoves, DecisionTypes
  <2> QED
    BY <2>1, <2>2, <2>3, DecideKept
<1>5. CASE RejectReview
  <2>1. /\ caseState = "NEEDS_REVIEW" /\ Decide("SERVICE_AGENT_REJECTED", "REJECTED", NoInput)
        /\ details' = details /\ approval' = approval
    BY <1>5 DEF RejectReview, acceptedVars
  <2>2. approval' \in {"NONE", "REJECTED"}
    BY <1>1, <2>1
  <2>3. <<caseState, "REJECTED">> \in AllowedMoves /\ "SERVICE_AGENT_REJECTED" \in DecisionTypes
    BY <2>1 DEF AllowedMoves, DecisionTypes
  <2> QED
    BY <1>1, <2>1, <2>2, <2>3, DecideKept
<1>6. CASE ApproveRequest
  <2>1. /\ caseState = "PENDING_APPROVAL" /\ Decide("APPROVAL_APPROVED", "READY_FOR_ACTION", NoInput)
        /\ details' = details /\ approval' = "APPROVED"
    BY <1>6 DEF ApproveRequest
  <2>2. details.kind = "GUARDED" /\ details # NoDetails
    BY <1>1, <1>2, <2>1
  <2>3. <<caseState, "READY_FOR_ACTION">> \in AllowedMoves /\ "APPROVAL_APPROVED" \in DecisionTypes
    BY <2>1 DEF AllowedMoves, DecisionTypes
  <2> QED
    BY <1>1, <2>1, <2>2, <2>3, DecideKept
<1>7. CASE RejectRequest
  <2>1. /\ caseState = "PENDING_APPROVAL" /\ Decide("APPROVAL_REJECTED", "REJECTED", NoInput)
        /\ details' = details /\ approval' = "REJECTED"
    BY <1>7 DEF RejectRequest
  <2>2. details # NoDetails
    BY <1>1, <1>2, <2>1
  <2>3. <<caseState, "REJECTED">> \in AllowedMoves /\ "APPROVAL_REJECTED" \in DecisionTypes
    BY <2>1 DEF AllowedMoves, DecisionTypes
  <2> QED
    BY <1>1, <2>1, <2>2, <2>3, DecideKept
<1> QED
  BY <1>3, <1>4, <1>5, <1>6, <1>7

-----------------------------------------------------------------------------
(* Messages *)

LEMMA RowMoved ==
  ASSUME RowsTyped, NEW m \in Message, NEW s, MoveRow(m, s)
  PROVE  /\ RowsTyped'
         /\ <<status[m], s>> \in RowMoves /\ s \in RowStatus \ {"ABSENT"}
         /\ status'[m] = s
         /\ \A k \in Message \ {m} : status'[k] = status[k]
BY DEF RowsTyped, MoveRow, RowMoves, RowStatus

(* A row moves and the case does not: no notification is queued by that. *)
LEMMA RowStep ==
  ASSUME HumanInv, NEW m \in Message, NEW s, MoveRow(m, s),
         UNCHANGED <<caseVars, analysisVars, retrieving>>,
         status[m] # "ABSENT" \/ \A v \in 1..MaxVersion : m # Notice(v)
  PROVE  Kept
<1>1. /\ RowsTyped' /\ s # "ABSENT" /\ status'[m] = s
      /\ \A k \in Message \ {m} : status'[k] = status[k]
  BY RowMoved DEF HumanInv
<1>2. ASSUME NEW v \in 1..MaxVersion
      PROVE  status'[Notice(v)] = "ABSENT" <=> status[Notice(v)] = "ABSENT"
  BY <1>1, Messages
<1>3. AnalysisInv'
  BY AnalysisSame DEF HumanInv
<1>4. RetrievalInv'
  BY RetrievalUnmoved DEF HumanInv, caseVars, acceptedVars
<1> QED
  BY <1>1, <1>2, <1>3, <1>4, QuietStep

LEMMA EnqueueKept ==
  ASSUME HumanInv, NEW v \in 1..MaxVersion, EnqueueResume(v)
  PROVE  Kept
<1>1. Resume(v) \in Message /\ \A u \in 1..MaxVersion : Resume(v) # Notice(u)
  BY Messages
<1>2. MoveRow(Resume(v), "PENDING") /\ UNCHANGED <<caseVars, analysisVars, retrieving>>
  BY DEF EnqueueResume
<1> QED
  BY <1>1, <1>2, RowStep

LEMMA DispatchKept ==
  ASSUME HumanInv, NEW m \in Message, DispatchMessage(m)
  PROVE  Kept
<1>1. UNCHANGED <<caseVars, analysisVars, retrieving>>
  BY DEF DispatchMessage
<1>2. PICK s \in {"PENDING", "PROCESSING", "FAILED", "SENT"} :
        MoveRow(m, s) /\ (s = "PENDING" => status[m] = "PROCESSING")
  BY DEF DispatchMessage
<1>3. status[m] # "ABSENT"
  BY <1>2 DEF MoveRow, RowMoves
<1> QED
  BY <1>1, <1>2, <1>3, RowStep

(* The acknowledgement repeats the decision, the one event of its version. *)
LEMMA AckKept ==
  ASSUME HumanInv, NEW v \in 1..MaxVersion, AcknowledgeResume(v)
  PROVE  /\ HumanInv' /\ CaseStep /\ UNCHANGED status
         /\ Acks(v) = {} /\ Acks(v)' = {Len(log) + 1}
         /\ \A u \in (1..MaxVersion) \ {v} : Acks(u)' = Acks(u)
<1>1. PICK i \in Decision(v) :
        MoveCase(caseState, version,
                 [type |-> "HUMAN_DECISION_RESUME_ACKNOWLEDGED",
                  from |-> caseState, to |-> caseState, trigger |-> log[i].trigger])
  BY DEF AcknowledgeResume
<1> DEFINE t == log[i].trigger
           e == [type |-> "HUMAN_DECISION_RESUME_ACKNOWLEDGED",
                 from |-> caseState, to |-> caseState, trigger |-> t]
<1>2. /\ Acks(v) = {} /\ version = v
      /\ UNCHANGED <<acceptedVars, analysisVars, retrieving, status>>
  BY DEF AcknowledgeResume, Acknowledged, Acks, StillDecided
<1>3. /\ AnalysisInv /\ Chronicle /\ CaseTypeOK /\ AcceptedOnce /\ OriginInv(v) /\ AckInv(v)
      /\ version \in Nat /\ v \in Nat
  BY DEF HumanInv, AnalysisInv, CaseTypeOK, Chronicle
<1>4. i \in DOMAIN log /\ i \in Origin(v) /\ log[i].type \in DecisionTypes
  BY DecisionIsOrigin DEF Decision, OfVersion
<1>5. t \in Trigger /\ t.version = v
  BY <1>3, <1>4 DEF Chronicle, OriginsTyped, Origins, Decision, OfVersion
<1>6. log[i].to = caseState /\ caseState \in {"ANALYZING", "REJECTED", "READY_FOR_ACTION"}
  BY <1>2, <1>3, <1>4 DEF OriginInv
<1>7. details = NoDetails \/ t.input = NoInput
  BY <1>2, <1>3 DEF AckInv
<1> HIDE DEF t
<1>8. "HUMAN_DECISION_RESUME_ACKNOWLEDGED" \in OtherTypes /\ caseState \in CaseState
  BY <1>6 DEF OtherTypes, EvidenceTypes, CaseState
<1>9. /\ e \in Event /\ e.type = "HUMAN_DECISION_RESUME_ACKNOWLEDGED"
      /\ e.from = caseState /\ e.to = caseState /\ e.trigger = t
      /\ e.type \notin VerdictTypes \cup {"ANALYSIS_FAILED"}
  BY <1>5, <1>8, OtherEvents
<1>10. MoveCase(caseState, version, e)
  BY <1>1 DEF t
<1> HIDE DEF e
<1>11. /\ log' = Append(log, e) /\ caseState' = caseState /\ version' = version
       /\ details' = details /\ approval' = approval
  BY <1>2, <1>10 DEF MoveCase, acceptedVars
<1>12. e.type \notin EffectTypes \cup Origins \cup
         {"ANALYSIS_READY_FOR_RETRIEVAL", "POLICY_RETRIEVAL_STARTED", "POLICY_RETRIEVAL_READY"}
  BY <1>9 DEF Origins, DecisionTypes, EffectTypes, Reconciled
<1>13. \A k \in DOMAIN log :
         log[k].type \in EvidenceTypes => log[k].trigger.version # v
  <2> SUFFICES ASSUME NEW k \in DOMAIN log, log[k].type \in EvidenceTypes,
                      log[k].trigger.version = v
               PROVE  FALSE
    OBVIOUS
  <2>1. log[k].type # "HUMAN_DECISION_RESUME_ACKNOWLEDGED"
    BY <1>2 DEF Acks, OfVersion
  <2>2. log[k].type = "ANALYSIS_STARTED"
    BY <2>1 DEF EvidenceTypes
  <2>3. k \in Origin(v)
    BY <2>2 DEF Origin, Origins, OfVersion
  <2>4. k = i
    BY <1>3, <1>4, <2>3 DEF OriginInv
  <2> QED
    BY <1>4, <2>2, <2>4 DEF DecisionTypes
<1>14. AcceptedOnce'
  <2>1. ASSUME caseState = "ANALYZING", details # NoDetails, NEW k \in DOMAIN log',
               log'[k].type \in EvidenceTypes, log'[k].trigger.version = version,
               log'[k].trigger.input # NoInput
        PROVE  FALSE
    <3>1. CASE k \in DOMAIN log
      BY <1>2, <1>3, <1>9, <1>11, <1>13, <2>1, <3>1, Grows DEF LogGrows
    <3>2. CASE log'[k] = e
      BY <1>7, <1>9, <2>1, <3>2
    <3> QED
      BY <1>3, <1>9, <1>11, <3>1, <3>2, Grows
  <2>2. /\ details = NoDetails => approval = "NONE"
        /\ caseState \in {"ABSENT", "RECEIVED", "NEEDS_INFORMATION"} => details = NoDetails
    BY <1>3 DEF AcceptedOnce
  <2> QED
    BY <1>11, <2>1, <2>2 DEF AcceptedOnce
<1>15. /\ details' \in Details \cup {NoDetails}
       /\ approval' \in {"NONE", "PENDING", "APPROVED", "REJECTED"}
  BY <1>3, <1>11 DEF CaseTypeOK
<1>16. AnalysisInv' /\ CaseStep
  <2>1. version = IF caseState # caseState THEN version + 1 ELSE version
    OBVIOUS
  <2>2. e.type \in EvidenceTypes =>
          /\ e.trigger \in Trigger
          /\ \A k \in DOMAIN log :
               log[k].type \in EvidenceTypes /\ log[k].trigger.version = e.trigger.version
                 => log[k].trigger = e.trigger
    BY <1>5, <1>9, <1>13
  <2> QED
    BY <1>2, <1>3, <1>8, <1>9, <1>10, <1>14, <1>15, <2>1, <2>2, OthersKeep
<1>17. Chronicle'
  BY <1>2, <1>3, <1>6, <1>9, <1>11, ChronicleAck DEF t
<1>18. RetrievalInv'
  BY <1>2, <1>3, <1>9, <1>11, <1>12, RetrievalKept DEF HumanInv
<1>19. AuthorityInv'
  BY <1>3, <1>9, <1>11, <1>12, AuthorityKept DEF HumanInv
<1>20. EffectsInv' /\ RowsTyped'
  BY <1>2, <1>3, <1>9, <1>11, <1>12, EffectsKept DEF HumanInv, RowsTyped
<1>21. Acks(v)' = {Len(log) + 1}
  BY <1>2, <1>3, <1>5, <1>9, <1>11, EventOfThis DEF Acks
<1>22. \A u \in (1..MaxVersion) \ {v} : Acks(u)' = Acks(u)
  BY <1>3, <1>5, <1>9, <1>11, EventOfOther DEF Acks
<1> QED
  BY <1>2, <1>16, <1>17, <1>18, <1>19, <1>20, <1>21, <1>22 DEF HumanInv

-----------------------------------------------------------------------------
(* Consumers of the acknowledgement *)

LEMMA OneVersionsEffect ==
  ASSUME CaseTypeOK, EffectsInv, NEW e \in Event, log' = Append(log, e),
         NEW v \in 1..MaxVersion, e.trigger.version = v, EffectInv(v)',
         \A u \in (1..MaxVersion) \ {v} :
           status'[Notice(u)] = "ABSENT" <=> status[Notice(u)] = "ABSENT"
  PROVE  EffectsInv'
<1>1. ASSUME NEW u \in 1..MaxVersion, u # v PROVE EffectInv(u)'
  BY <1>1, EffectOfOther DEF EffectsInv
<1> QED
  BY <1>1 DEF EffectsInv

LEMMA EvidenceEvent ==
  ASSUME NEW type \in EffectTypes, NEW v \in 1..MaxVersion,
         NEW from \in CaseState, NEW to \in CaseState
  PROVE  LET e == Evidence(type, v, from, to) IN
         /\ e \in Event /\ e.type = type /\ e.from = from /\ e.to = to /\ e.trigger.version = v
         /\ e.type \notin VerdictTypes \cup {"ANALYSIS_FAILED"} \cup Origins \cup EvidenceTypes \cup
              {"ANALYSIS_READY_FOR_RETRIEVAL", "POLICY_RETRIEVAL_STARTED", "POLICY_RETRIEVAL_READY"}
<1> DEFINE t == [version |-> v, input |-> NoInput]
<1>1. t \in Trigger /\ t.version = v
  BY DEF Trigger
<1> HIDE DEF t
<1>2. type \in OtherTypes
  BY DEF OtherTypes
<1>3. type \notin Origins \cup EvidenceTypes \cup
        {"ANALYSIS_READY_FOR_RETRIEVAL", "POLICY_RETRIEVAL_STARTED", "POLICY_RETRIEVAL_READY"}
  BY DEF EffectTypes, Reconciled, Origins, DecisionTypes, EvidenceTypes
<1>4. Evidence(type, v, from, to) = [type |-> type, from |-> from, to |-> to, trigger |-> t]
  BY DEF Evidence, t
<1> QED
  BY <1>1, <1>2, <1>3, <1>4, OtherEvents

(* What follows now follows the acknowledgement. *)
LEMMA FollowsAck ==
  ASSUME CaseTypeOK, NEW e \in Event, log' = Append(log, e), NEW v, Acks(v) # {}
  PROVE  \E a \in Acks(v)' : a < Len(log) + 1
<1>1. \A a \in Acks(v) : a < Len(log) + 1
  BY OldHistory
<1>2. Acks(v) \subseteq Acks(v)'
  BY EvidenceGrows
<1> QED
  BY <1>1, <1>2

LEMMA RouteKept ==
  ASSUME HumanInv, NEW v \in 1..MaxVersion, RouteReviewedCase(v)
  PROVE  Kept
<1> DEFINE to == RouteOf(details.kind)
           e == Evidence("HUMAN_REVIEW_REANALYZED", v, "ANALYZING", to)
<1>1. /\ Acks(v) # {} /\ Routes(v) = {} /\ OfVersion(Corrections, v) # {}
      /\ caseState = "ANALYZING" /\ version = v /\ details.by = "SERVICE_AGENT"
      /\ details' = details
      /\ IF to = "PENDING_APPROVAL" THEN approval' = "PENDING" ELSE approval' = approval
      /\ UNCHANGED <<analysisVars, retrieving, status>>
  BY DEF RouteReviewedCase, Acknowledged, Acks, Routed, Routes, Corrections
<1>2. MoveCase(to, IF to # caseState THEN version + 1 ELSE version, e)
  BY DEF RouteReviewedCase, RoutedVersion
<1>3. AnalysisInv /\ CaseTypeOK /\ version \in Nat
  BY DEF HumanInv, AnalysisInv, CaseTypeOK
<1>4. details \in Details /\ details # NoDetails /\ details.kind \in Kind
  <2>1. details \in Details \cup {NoDetails} /\ NoDetails.by # "SERVICE_AGENT"
    BY <1>3 DEF CaseTypeOK, NoDetails
  <2>2. details # NoDetails
    BY <1>1, <2>1
  <2> QED
    BY <2>1, <2>2 DEF Details
<1>5. /\ to = "PENDING_APPROVAL" <=> details.kind = "GUARDED"
      /\ to = "ANALYZING" <=> details.kind = "POLICY"
      /\ to = "READY_FOR_ACTION" <=> details.kind = "SAFE"
      /\ to \in {"PENDING_APPROVAL", "ANALYZING", "READY_FOR_ACTION"}
  BY <1>4 DEF RouteOf, Kind
<1> HIDE DEF to
<1>6. to \in CaseState /\ "ANALYZING" \in CaseState /\ "HUMAN_REVIEW_REANALYZED" \in EffectTypes
  BY <1>5 DEF CaseState, EffectTypes
<1>7. /\ e \in Event /\ e.type = "HUMAN_REVIEW_REANALYZED" /\ e.from = "ANALYZING" /\ e.to = to
      /\ e.trigger.version = v
      /\ e.type \notin VerdictTypes \cup {"ANALYSIS_FAILED"} \cup Origins \cup EvidenceTypes \cup
           {"ANALYSIS_READY_FOR_RETRIEVAL", "POLICY_RETRIEVAL_STARTED", "POLICY_RETRIEVAL_READY"}
  BY <1>6, EvidenceEvent
<1> HIDE DEF e
<1>8. /\ log' = Append(log, e) /\ caseState' = to
      /\ version' = IF to # "ANALYZING" THEN version + 1 ELSE version
      /\ to # caseState => <<caseState, to>> \in AllowedMoves
  BY <1>1, <1>2, <1>5 DEF MoveCase, AllowedMoves
<1>9. /\ approval \in {"NONE", "REJECTED"}
      /\ approval' = "PENDING" <=> to = "PENDING_APPROVAL"
      /\ approval' \in {"NONE", "PENDING", "REJECTED"}
  <2>1. approval \in {"NONE", "REJECTED"}
    BY <1>1, <1>3 DEF CaseTypeOK, HumanInv, AuthorityInv, ActionIsAuthorized
  <2> QED
    BY <1>1, <2>1
<1>10. AcceptedOnce'
  <2>1. CASE to = "ANALYZING"
    <3>1. UNCHANGED <<caseState, version, acceptedVars, runs>>
      BY <1>1, <1>8, <2>1 DEF acceptedVars, analysisVars
    <3> QED
      BY <1>3, <1>7, <1>8, <3>1, AcceptedKept
  <2>2. CASE to # "ANALYZING"
    BY <1>1, <1>4, <1>5, <1>8, <2>2 DEF AcceptedOnce
  <2> QED
    BY <2>1, <2>2
<1>11. Chronicle'
  <2>1. e.type \notin Origins \cup {"HUMAN_DECISION_RESUME_ACKNOWLEDGED"}
    BY <1>7
  <2>2. Resumed(version)
    BY <1>1 DEF Resumed
  <2>3. UNCHANGED <<caseState, version>> \/ version' = version + 1
    BY <1>1, <1>8
  <2> QED
    BY <1>3, <1>7, <1>8, <2>1, <2>2, <2>3, ChroniclePlain DEF HumanInv
<1>12. RetrievalInv'
  <2>1. ~Asking
    BY <1>1 DEF Asking
  <2> QED
    BY <1>1, <1>3, <1>7, <1>8, <2>1, RetrievalKept DEF HumanInv
<1>13. AuthorityInv'
  BY <1>1, <1>3, <1>5, <1>7, <1>8, <1>9, AuthorityMoved DEF HumanInv
<1>14. EffectInv(v)'
  <2>1. EffectInv(v)
    BY DEF HumanInv, EffectsInv
  <2>2. Routes(v)' = {Len(log) + 1}
    <3>1. Routes(v)' = Routes(v) \cup {Len(log) + 1}
      BY <1>3, <1>7, <1>8, EventOfThis DEF Routes
    <3> QED
      BY <1>1, <3>1
  <2>3. Queued(v)' = Queued(v) /\ Told(v)' = Told(v)
    BY <1>3, <1>7, <1>8, EventOfOther DEF Queued, Told, Reconciled
  <2>4. \A r \in Routes(v)' : Followed(r, v)'
    <3>1. \E a \in Acks(v)' : a < Len(log) + 1
      BY <1>1, <1>3, <1>7, <1>8, FollowsAck
    <3> QED
      BY <2>2, <3>1 DEF Followed
  <2>5. OfVersion(Corrections, v)' # {}
    BY <1>1, <1>3, <1>7, <1>8, EvidenceGrows
  <2>6. status' = status
    BY <1>1
  <2>7. \A q \in Queued(v) : Followed(q, v)' /\ OfVersion(Rejections, v)' # {}
    BY <1>3, <1>7, <1>8, <2>1, EvidenceGrows DEF EffectInv
  <2>8. Queued(v)' = {} <=> status'[Notice(v)] = "ABSENT"
    BY <2>1, <2>3, <2>6 DEF EffectInv
  <2> QED
    BY <2>1, <2>2, <2>3, <2>4, <2>5, <2>7, <2>8 DEF EffectInv
<1>15. EffectsInv' /\ RowsTyped'
  BY <1>1, <1>3, <1>7, <1>8, <1>14, OneVersionsEffect DEF HumanInv, RowsTyped
<1>16. /\ details' \in Details \cup {NoDetails}
       /\ approval' \in {"NONE", "PENDING", "APPROVED", "REJECTED"}
  BY <1>1, <1>4, <1>9
<1>17. e.type \notin VerdictTypes \cup {"ANALYSIS_FAILED", "HUMAN_DECISION_RESUME_ACKNOWLEDGED"}
         /\ e.type # "ANALYSIS_STARTED"
  BY <1>7 DEF EvidenceTypes
<1> QED
  BY <1>1, <1>2, <1>6, <1>7, <1>8, <1>10, <1>11, <1>12, <1>13, <1>15, <1>16, <1>17, EventStep

(* Evidence about the notification of a rejected case moves nothing. *)
LEMMA NotificationKept ==
  ASSUME HumanInv, NEW v \in 1..MaxVersion, caseState = "REJECTED",
         NEW type \in EffectTypes,
         log' = Append(log, Evidence(type, v, "REJECTED", "REJECTED")),
         UNCHANGED <<caseState, version, acceptedVars, analysisVars, retrieving>>,
         RowsTyped', EffectInv(v)',
         \A u \in (1..MaxVersion) \ {v} :
           status'[Notice(u)] = "ABSENT" <=> status[Notice(u)] = "ABSENT"
  PROVE  Kept
<1> DEFINE e == Evidence(type, v, "REJECTED", "REJECTED")
<1>1. "REJECTED" \in CaseState
  BY DEF CaseState
<1>2. /\ e \in Event /\ e.type = type /\ e.from = "REJECTED" /\ e.to = "REJECTED"
      /\ e.trigger.version = v
      /\ e.type \notin VerdictTypes \cup {"ANALYSIS_FAILED"} \cup Origins \cup EvidenceTypes \cup
           {"ANALYSIS_READY_FOR_RETRIEVAL", "POLICY_RETRIEVAL_STARTED", "POLICY_RETRIEVAL_READY"}
  BY <1>1, EvidenceEvent
<1>3. log' = Append(log, e)
  OBVIOUS
<1> HIDE DEF e
<1>4. AnalysisInv /\ CaseTypeOK
  BY DEF HumanInv, AnalysisInv
<1>5. details' = details /\ approval' = approval /\ UNCHANGED runs
  BY DEF acceptedVars, analysisVars
<1>6. MoveCase("REJECTED", IF "REJECTED" # caseState THEN version + 1 ELSE version, e)
  BY <1>3 DEF MoveCase
<1>7. AcceptedOnce'
  BY <1>2, <1>3, <1>4, <1>5, AcceptedKept
<1>8. e.type \notin Origins \cup {"HUMAN_DECISION_RESUME_ACKNOWLEDGED"}
  BY <1>2 DEF EvidenceTypes
<1>9. Chronicle'
  BY <1>2, <1>3, <1>4, <1>5, <1>8, ChroniclePlain DEF HumanInv
<1>10. RetrievalInv'
  BY <1>2, <1>3, <1>4, RetrievalKept DEF HumanInv, Asking
<1>11. AuthorityInv'
  BY <1>2, <1>3, <1>4, <1>5, AuthorityKept DEF HumanInv
<1>12. EffectsInv'
  BY <1>2, <1>3, <1>4, OneVersionsEffect DEF HumanInv
<1>13. /\ details' \in Details \cup {NoDetails}
       /\ approval' \in {"NONE", "PENDING", "APPROVED", "REJECTED"}
  BY <1>4, <1>5 DEF CaseTypeOK
<1>14. e.type \notin VerdictTypes \cup {"ANALYSIS_FAILED", "HUMAN_DECISION_RESUME_ACKNOWLEDGED"}
         /\ e.type # "ANALYSIS_STARTED"
  BY <1>2, <1>8 DEF EvidenceTypes
<1> QED
  BY <1>1, <1>2, <1>6, <1>7, <1>9, <1>10, <1>11, <1>12, <1>13, <1>14, EventStep

LEMMA MaterializeKept ==
  ASSUME HumanInv, NEW v \in 1..MaxVersion, MaterializeNotification(v)
  PROVE  Kept
<1> DEFINE e == Evidence("REQUESTER_NOTIFICATION_QUEUED", v, "REJECTED", "REJECTED")
<1>1. /\ Acks(v) # {} /\ OfVersion(Rejections, v) # {} /\ caseState = "REJECTED"
      /\ status[Notice(v)] = "ABSENT" /\ MoveRow(Notice(v), "PENDING")
      /\ log' = Append(log, e)
      /\ UNCHANGED <<caseState, version, acceptedVars, analysisVars, retrieving>>
  BY DEF MaterializeNotification, Acknowledged, Acks, Rejections
<1>2. "REQUESTER_NOTIFICATION_QUEUED" \in EffectTypes /\ "REJECTED" \in CaseState
  BY DEF EffectTypes, CaseState
<1>3. e \in Event /\ e.type = "REQUESTER_NOTIFICATION_QUEUED" /\ e.trigger.version = v
  BY <1>2, EvidenceEvent
<1> HIDE DEF e
<1>4. CaseTypeOK /\ EffectInv(v)
  BY DEF HumanInv, AnalysisInv, EffectsInv
<1>5. /\ RowsTyped' /\ status'[Notice(v)] = "PENDING"
      /\ \A u \in (1..MaxVersion) \ {v} : status'[Notice(u)] = status[Notice(u)]
  BY <1>1, Messages, RowMoved DEF HumanInv
<1>6. EffectInv(v)'
  <2>1. Queued(v) = {}
    BY <1>1, <1>4 DEF EffectInv
  <2>2. Queued(v)' = {Len(log) + 1}
    BY <1>1, <1>3, <1>4, <2>1, EventOfThis DEF Queued
  <2>3. Routes(v)' = Routes(v) /\ Told(v)' = Told(v)
    BY <1>1, <1>3, <1>4, EventOfOther DEF Routes, Told, Reconciled
  <2>4. Told(v) = {}
    BY <1>4, <2>1 DEF EffectInv
  <2>5. \A q \in Queued(v)' : Followed(q, v)'
    <3>1. \E a \in Acks(v)' : a < Len(log) + 1
      BY <1>1, <1>3, <1>4, FollowsAck
    <3> QED
      BY <2>2, <3>1 DEF Followed
  <2>6. OfVersion(Rejections, v)' # {}
    BY <1>1, <1>3, <1>4, EvidenceGrows
  <2>7. \A r \in Routes(v) : Followed(r, v)' /\ OfVersion(Corrections, v)' # {}
    BY <1>1, <1>3, <1>4, EvidenceGrows DEF EffectInv
  <2>8. \A q, r \in Routes(v) : q = r
    BY <1>4 DEF EffectInv
  <2> QED
    BY <1>5, <2>2, <2>3, <2>4, <2>5, <2>6, <2>7, <2>8 DEF EffectInv
<1> QED
  BY <1>1, <1>2, <1>5, <1>6, NotificationKept DEF e

LEMMA ReconcileKept ==
  ASSUME HumanInv, NEW v \in 1..MaxVersion, ReconcileNotification(v)
  PROVE  Kept
<1>1. PICK type \in Reconciled :
        log' = Append(log, Evidence(type, v, "REJECTED", "REJECTED"))
  BY DEF ReconcileNotification, Reconciled
<1> DEFINE e == Evidence(type, v, "REJECTED", "REJECTED")
<1>2. /\ Told(v) = {} /\ caseState = "REJECTED" /\ status[Notice(v)] # "ABSENT"
      /\ UNCHANGED <<caseState, version, acceptedVars, analysisVars, retrieving, status>>
  BY DEF ReconcileNotification, Told
<1>3. type \in EffectTypes /\ "REJECTED" \in CaseState
  BY DEF EffectTypes, CaseState
<1>4. e \in Event /\ e.type = type /\ e.trigger.version = v
  BY <1>3, EvidenceEvent
<1>5. log' = Append(log, e)
  BY <1>1
<1> HIDE DEF e
<1>6. CaseTypeOK /\ EffectInv(v) /\ RowsTyped' /\ status' = status
  BY <1>2 DEF HumanInv, AnalysisInv, EffectsInv, RowsTyped
<1>7. EffectInv(v)'
  <2>1. Told(v)' = {Len(log) + 1}
    BY <1>2, <1>4, <1>5, <1>6, EventOfThis DEF Told
  <2>2. Routes(v)' = Routes(v) /\ Queued(v)' = Queued(v)
    BY <1>4, <1>5, <1>6, EventOfOther DEF Routes, Queued, Reconciled
  <2>3. PICK q \in Queued(v) : q < Len(log) + 1
    <3>1. Queued(v) # {}
      BY <1>2, <1>6 DEF EffectInv
    <3> QED
      BY <1>4, <1>5, <1>6, <3>1, OldEvents DEF Queued
  <2>4. \A r \in Routes(v) : Followed(r, v)' /\ OfVersion(Corrections, v)' # {}
    BY <1>4, <1>5, <1>6, EvidenceGrows DEF EffectInv
  <2>5. \A r \in Queued(v) : Followed(r, v)' /\ OfVersion(Rejections, v)' # {}
    BY <1>4, <1>5, <1>6, EvidenceGrows DEF EffectInv
  <2>6. /\ \A p, r \in Routes(v) : p = r
        /\ \A p, r \in Queued(v) : p = r
        /\ Queued(v) = {} <=> status[Notice(v)] = "ABSENT"
    BY <1>6 DEF EffectInv
  <2>7. Queued(v)' = {} <=> status'[Notice(v)] = "ABSENT"
    BY <1>6, <2>2, <2>6
  <2> QED
    BY <2>1, <2>2, <2>3, <2>4, <2>5, <2>6, <2>7 DEF EffectInv
<1> QED
  BY <1>1, <1>2, <1>3, <1>6, <1>7, NotificationKept

-----------------------------------------------------------------------------
(* The invariant holds *)

LEMMA HumanInit == Init => HumanInv
<1> SUFFICES ASSUME Init PROVE HumanInv
  OBVIOUS
<1>1. AnalysisInv
  BY InitKeeps DEF Init
<1>2. /\ log = <<>> /\ DOMAIN log = {} /\ caseState = "ABSENT" /\ version = 0
      /\ details = NoDetails /\ approval = "NONE"
  BY EmptySeq DEF Init, CaseInit
<1>3. \A T, v : OfVersion(T, v) = {}
  BY <1>2 DEF OfVersion
<1>4. \A t : ~Logged(t)
  BY <1>2 DEF Logged
<1>5. Chronicle
  BY <1>2, <1>3 DEF Chronicle, OriginsTyped, OriginInv, AckInv, Resumed, Origin, Acks, Decision
<1>6. RetrievalInv
  BY <1>4 DEF Init, RetrievalInit, RetrievalInv, RetrievalTypeOK
<1>7. AuthorityInv
  BY <1>2, <1>4 DEF AuthorityInv, ActionIsAuthorized
<1>8. RowsTyped /\ \A v \in 1..MaxVersion : status[Notice(v)] = "ABSENT"
  BY Messages DEF Init, RowInit, RowsTyped, RowStatus
<1>9. EffectsInv
  BY <1>3, <1>8 DEF EffectsInv, EffectInv, Routes, Queued, Told
<1> QED
  BY <1>1, <1>5, <1>6, <1>7, <1>8, <1>9 DEF HumanInv

(* Every step but an acknowledgement leaves the acknowledgements alone. *)
LEMMA HumanSteps ==
  ASSUME HumanInv, [Next]_humanVars
  PROVE  Kept \/ \E v \in 1..MaxVersion : AcknowledgeResume(v)
<1>1. CASE UNCHANGED humanVars
  <2>1. UNCHANGED <<caseVars, analysisVars>> /\ UNCHANGED retrieving /\ status' = status
    BY <1>1 DEF humanVars
  <2>2. AnalysisInv' /\ RetrievalInv' /\ RowsTyped'
    BY <2>1, AnalysisSame, RetrievalUnmoved DEF HumanInv, RowsTyped, caseVars, acceptedVars
  <2> QED
    BY <2>1, <2>2, QuietStep
<1>2. CASE Receive \/ StartAnalysis \/ Retrieve
  BY <1>2, ReceiveKept, StartAnalysisKept, RetrieveKept
<1>3. CASE Analyze \/ \E h \in Handler, t \in Triggers : RequestAnalysis(h, t)
  <2>1. UNCHANGED <<retrieving, status>>
    BY <1>3 DEF Analyze, RequestAnalysis
  <2>2. AnalysisStep \/ \E h \in Handler : \E t : Request(h, t)
    BY <1>3 DEF Analyze, RequestAnalysis, Request
  <2> QED
    BY <2>1, <2>2, AnalysisKept
<1>4. CASE \/ \E i \in Input : SubmitInformation(i)
           \/ \E kind \in Kind : CorrectReview(kind)
           \/ RejectReview \/ ApproveRequest \/ RejectRequest
  BY <1>4, DecisionsKept
<1>5. ASSUME NEW v \in 1..MaxVersion,
             EnqueueResume(v) \/ RouteReviewedCase(v)
               \/ MaterializeNotification(v) \/ ReconcileNotification(v)
      PROVE  Kept
  BY <1>5, EnqueueKept, RouteKept, MaterializeKept, ReconcileKept
<1>6. ASSUME NEW m \in Message, DispatchMessage(m) PROVE Kept
  BY <1>6, DispatchKept
<1> QED
  BY <1>1, <1>2, <1>3, <1>4, <1>5, <1>6 DEF Next

LEMMA HumanStep == HumanInv /\ [Next]_humanVars => HumanInv' /\ [CaseStep]_caseVars
<1> SUFFICES ASSUME HumanInv, [Next]_humanVars PROVE HumanInv' /\ [CaseStep]_caseVars
  OBVIOUS
<1>1. CASE Kept
  BY <1>1 DEF Kept
<1>2. CASE \E v \in 1..MaxVersion : AcknowledgeResume(v)
  BY <1>2, AckKept
<1> QED
  BY <1>1, <1>2, HumanSteps

(* What each version, acknowledgement, retrieval, approval and effect owes to *)
(* the history of the case holds throughout: HumanInv is inductive.           *)
THEOREM HumanInvHolds == Spec => []HumanInv
BY HumanInit, HumanStep, PTL DEF Spec

-----------------------------------------------------------------------------
(* What follows from the invariant *)

LEMMA AtMostOne ==
  ASSUME NEW S, \A a, b \in S : a = b
  PROVE  Cardinality(S) = IF S = {} THEN 0 ELSE 1
<1>1. CASE S = {}
  BY <1>1, FS_EmptySet
<1>2. CASE S # {}
  <2>1. PICK a \in S : S = {a}
    BY <1>2
  <2> QED
    BY <2>1, FS_Singleton
<1> QED
  BY <1>1, <1>2

LEMMA DecisionsAreResumed == HumanInv => EveryDecisionResumed
<1> SUFFICES ASSUME HumanInv, NEW v \in 1..MaxVersion, Decision(v) # {}
             PROVE  /\ Cardinality(Acks(v)) <= 1
                    /\ version > v => Cardinality(Acks(v)) = 1
                    /\ \A a \in Acks(v) : \A d \in Decision(v) : d < a /\ log[a].to = log[d].to
  BY DEF EveryDecisionResumed, Acks
<1>1. OriginInv(v) /\ AckInv(v) /\ version \in Nat
  BY DEF HumanInv, Chronicle, AnalysisInv, CaseTypeOK
<1>2. Cardinality(Acks(v)) = IF Acks(v) = {} THEN 0 ELSE 1
  BY <1>1, AtMostOne DEF AckInv
<1>3. version > v => Acks(v) # {}
  BY <1>1 DEF AckInv, Resumed
<1>4. \A c, d \in Decision(v) : c = d
  BY <1>1, DecisionIsOrigin DEF OriginInv
<1>5. \A a \in Acks(v) : \A d \in Decision(v) : d < a /\ log[a].to = log[d].to
  BY <1>1, <1>4 DEF AckInv
<1> QED
  BY <1>2, <1>3, <1>5

LEMMA EffectsAreSingle == HumanInv => OneEffectPerDecision
<1> SUFFICES ASSUME HumanInv, NEW v \in 1..MaxVersion
             PROVE  /\ Cardinality(Routes(v)) + Cardinality(Queued(v)) <= 1
                    /\ Cardinality(Told(v)) <= Cardinality(Queued(v))
                    /\ \A e \in Routes(v) \cup Queued(v) : \E a \in Acks(v) : a < e
                    /\ \A e \in Told(v) : \E q \in Queued(v) : q < e
  BY DEF OneEffectPerDecision, Routes, Queued, Told, Acks
<1>1. OriginInv(v) /\ EffectInv(v)
  BY DEF HumanInv, Chronicle, EffectsInv
<1>2. /\ Cardinality(Routes(v)) = IF Routes(v) = {} THEN 0 ELSE 1
      /\ Cardinality(Queued(v)) = IF Queued(v) = {} THEN 0 ELSE 1
      /\ Cardinality(Told(v)) = IF Told(v) = {} THEN 0 ELSE 1
  BY <1>1, AtMostOne DEF EffectInv
<1>3. Routes(v) = {} \/ Queued(v) = {}
  <2> SUFFICES ASSUME Routes(v) # {}, Queued(v) # {} PROVE FALSE
    OBVIOUS
  <2>1. PICK c \in OfVersion(Corrections, v), d \in OfVersion(Rejections, v) : TRUE
    BY <1>1 DEF EffectInv
  <2>2. c = d
    BY <1>1, <2>1, DecisionIsOrigin DEF OriginInv
  <2> QED
    BY <2>1, <2>2 DEF OfVersion, Corrections, Rejections
<1>4. Told(v) # {} => Queued(v) # {}
  BY <1>1 DEF EffectInv
<1>5. /\ \A e \in Routes(v) \cup Queued(v) : \E a \in Acks(v) : a < e
      /\ \A e \in Told(v) : \E q \in Queued(v) : q < e
  BY <1>1 DEF EffectInv, Followed
<1> QED
  BY <1>2, <1>3, <1>4, <1>5

(* The case, its attempts, retrievals and rows are well typed. *)
THEOREM HumanTypeCorrect == Spec => []HumanTypeOK
<1>1. HumanInv => HumanTypeOK
  BY DEF HumanInv, HumanTypeOK, AnalysisInv, AcceptedOnce, RetrievalInv, RowsTyped
<1> QED
  BY HumanInvHolds, <1>1, PTL

(* Whoever writes the case, its log tells its state and the version counts   *)
(* the changes of state.                                                     *)
THEOREM HumanLogTellsState == Spec => []LogTellsState
<1>1. HumanInv => LogTellsState
  BY DEF HumanInv, AnalysisInv
<1> QED
  BY HumanInvHolds, <1>1, PTL

(* The details a READY plan accepts never meet others: those of an agent, of *)
(* another request or of an earlier version of the case.                     *)
THEOREM HumanAcceptanceFits == Spec => []AcceptanceFits
<1>1. HumanInv => AcceptanceFits
  BY AcceptanceAlwaysFits DEF HumanInv
<1> QED
  BY HumanInvHolds, <1>1, PTL

(* An input is judged once, although humans send the case through the        *)
(* analysis again and again.                                                 *)
THEOREM HumanOneVerdict == Spec => []OneVerdict
<1>1. HumanInv => OneVerdict
  BY DEF HumanInv, AnalysisInv
<1> QED
  BY HumanInvHolds, <1>1, PTL

(* A retrieval in progress finds the case as it was claimed: no decision,    *)
(* analysis or other retrieval may move it.                                  *)
THEOREM RetrievalIsUndisturbed == Spec => []RetrievalUndisturbed
<1>1. HumanInv => RetrievalUndisturbed
  BY DEF HumanInv, RetrievalInv, Asking, RetrievalUndisturbed
<1> QED
  BY HumanInvHolds, <1>1, PTL

(* No action without its authority, whichever of analysis, correction,       *)
(* approval, routing (human_resume_consumers.py) and retrieval brought the   *)
(* case to READY_FOR_ACTION.                                                 *)
THEOREM ActionsAreAuthorized == Spec => []ActionIsAuthorized
<1>1. HumanInv => ActionIsAuthorized
  BY DEF HumanInv, AuthorityInv
<1> QED
  BY HumanInvHolds, <1>1, PTL

(* Every committed decision is acknowledged exactly once before the case     *)
(* moves on, so enqueue_next_human_resume (human_resume.py) never skips one  *)
(* for a case that has left it behind.                                       *)
THEOREM DecisionsResumed == Spec => []EveryDecisionResumed
<1> QED
  BY HumanInvHolds, DecisionsAreResumed, PTL

(* However the consumers of human_resume_consumers.py are called, an         *)
(* acknowledgement has one effect at most, of the kind its decision calls    *)
(* for, and a notification one outcome.                                      *)
THEOREM OneEffect == Spec => []OneEffectPerDecision
<1> QED
  BY HumanInvHolds, EffectsAreSingle, PTL

(* The case follows the transitions of the business process, a version is    *)
(* never used for two states, and no event is rewritten, by any of the       *)
(* components that move it.                                                  *)
THEOREM HumanFollowsLifecycle == Spec => Lifecycle
<1> QED
  BY HumanInvHolds, HumanStep, PTL DEF Spec, Lifecycle

-----------------------------------------------------------------------------
(* The refinement of DeliveryPromise *)

Phases == [v \in 1..MaxVersion |-> PhaseOf(Resume(v))]
Effects ==
  [v \in 1..MaxVersion |-> Cardinality(OfVersion({"HUMAN_DECISION_RESUME_ACKNOWLEDGED"}, v))]

PhaseAt(s) ==
  IF s = "ABSENT" THEN "absent"
  ELSE IF s \in {"PENDING", "PROCESSING"} THEN "open"
  ELSE IF s = "SENT" THEN "delivered" ELSE "given_up"

LEMMA PhasesAre ==
  /\ RowsTyped => Phases = [v \in 1..MaxVersion |-> PhaseAt(status[Resume(v)])]
  /\ RowsTyped' => Phases' = [v \in 1..MaxVersion |-> PhaseAt(status'[Resume(v)])]
<1>1. ASSUME NEW s \in RowStatus
      PROVE  (CASE s = "ABSENT" -> "absent"
                [] s \in {"PENDING", "PROCESSING"} -> "open"
                [] s = "SENT" -> "delivered"
                [] s = "FAILED" -> "given_up") = PhaseAt(s)
  BY <1>1 DEF PhaseAt, RowStatus
<1>2. \A v \in 1..MaxVersion : Resume(v) \in Message
  BY Messages
<1>3. ASSUME RowsTyped, NEW v \in 1..MaxVersion
      PROVE  PhaseOf(Resume(v)) = PhaseAt(status[Resume(v)])
  <2>1. status[Resume(v)] \in RowStatus
    BY <1>2, <1>3 DEF RowsTyped
  <2> QED
    BY <1>1, <2>1 DEF PhaseOf
<1>4. ASSUME RowsTyped', NEW v \in 1..MaxVersion
      PROVE  PhaseOf(Resume(v))' = PhaseAt(status'[Resume(v)])
  <2>1. status'[Resume(v)] \in RowStatus
    BY <1>2, <1>4 DEF RowsTyped
  <2> QED
    BY <1>1, <2>1 DEF PhaseOf
<1> QED
  BY <1>3, <1>4 DEF Phases

LEMMA EffectsAre ==
  /\ HumanInv => Effects = [v \in 1..MaxVersion |-> IF Acks(v) = {} THEN 0 ELSE 1]
  /\ HumanInv' => Effects' = [v \in 1..MaxVersion |-> IF Acks(v)' = {} THEN 0 ELSE 1]
<1>1. ASSUME HumanInv, NEW v \in 1..MaxVersion
      PROVE  Cardinality(Acks(v)) = IF Acks(v) = {} THEN 0 ELSE 1
  <2>1. AckInv(v)
    BY <1>1 DEF HumanInv, Chronicle
  <2> QED
    BY <2>1, AtMostOne DEF AckInv
<1>2. ASSUME HumanInv', NEW v \in 1..MaxVersion
      PROVE  Cardinality(Acks(v)') = IF Acks(v)' = {} THEN 0 ELSE 1
  <2>1. AckInv(v)'
    BY <1>2 DEF HumanInv, Chronicle
  <2> QED
    BY <2>1, AtMostOne DEF AckInv
<1> QED
  BY <1>1, <1>2 DEF Effects, Acks

(* Who moves rows, and that a resume message is not moved with a notice. *)
LEMMA RowsMoveBy ==
  ASSUME [Next]_humanVars
  PROVE  \/ UNCHANGED status
         \/ \E v \in 1..MaxVersion : EnqueueResume(v) \/ MaterializeNotification(v)
         \/ \E m \in Message : DispatchMessage(m)
<1>1. CASE UNCHANGED humanVars
  BY <1>1 DEF humanVars
<1>2. CASE Receive \/ StartAnalysis \/ Analyze \/ Retrieve
             \/ \E h \in Handler, t \in Triggers : RequestAnalysis(h, t)
  BY <1>2 DEF Receive, StartAnalysis, Analyze, Retrieve, RequestAnalysis
<1>3. CASE \/ \E i \in Input : SubmitInformation(i)
           \/ \E kind \in Kind : CorrectReview(kind)
           \/ RejectReview \/ ApproveRequest \/ RejectRequest
  BY <1>3 DEF SubmitInformation, CorrectReview, RejectReview, ApproveRequest, RejectRequest, Decide
<1>4. ASSUME NEW v \in 1..MaxVersion,
             AcknowledgeResume(v) \/ RouteReviewedCase(v) \/ ReconcileNotification(v)
      PROVE  UNCHANGED status
  BY <1>4 DEF AcknowledgeResume, RouteReviewedCase, ReconcileNotification
<1> QED
  BY <1>1, <1>2, <1>3, <1>4 DEF Next

LEMMA HumanKeepsPromise ==
  ASSUME HumanInv, HumanInv', [Next]_humanVars
  PROVE  [Promise!Next]_<<Phases, Effects>>
<1>1. /\ Phases = [v \in 1..MaxVersion |-> PhaseAt(status[Resume(v)])]
      /\ Phases' = [v \in 1..MaxVersion |-> PhaseAt(status'[Resume(v)])]
  BY PhasesAre DEF HumanInv
<1>2. /\ Effects = [v \in 1..MaxVersion |-> IF Acks(v) = {} THEN 0 ELSE 1]
      /\ Effects' = [v \in 1..MaxVersion |-> IF Acks(v)' = {} THEN 0 ELSE 1]
  BY EffectsAre
<1>3. ASSUME NEW v \in 1..MaxVersion, AcknowledgeResume(v) PROVE Promise!Apply(v)
  <2>1. /\ UNCHANGED status /\ Acks(v) = {} /\ Acks(v)' # {}
        /\ \A u \in (1..MaxVersion) \ {v} : Acks(u)' = Acks(u)
    BY <1>3, AckKept
  <2>2. status[Resume(v)] \in {"PROCESSING", "SENT"}
    BY <1>3 DEF AcknowledgeResume
  <2>3. Effects[v] = 0 /\ Effects' = [Effects EXCEPT ![v] = 1]
    BY <1>2, <2>1
  <2>4. Phases[v] # "absent" /\ Phases' = Phases
    BY <1>1, <2>1, <2>2 DEF PhaseAt
  <2> QED
    BY <2>3, <2>4 DEF Promise!Apply, Phases, Effects
<1>4. CASE Kept
  <2>1. Effects' = Effects
    BY <1>2, <1>4 DEF Kept
  <2>2. CASE UNCHANGED status
    BY <1>1, <2>1, <2>2
  <2>3. ASSUME NEW v \in 1..MaxVersion, MaterializeNotification(v)
        PROVE  Phases' = Phases
    <3>1. \A u \in 1..MaxVersion : status'[Resume(u)] = status[Resume(u)]
      BY <2>3, Messages, RowMoved DEF MaterializeNotification, HumanInv
    <3> QED
      BY <1>1, <3>1
  <2>4. ASSUME NEW v \in 1..MaxVersion, NEW s, MoveRow(Resume(v), s)
        PROVE  /\ <<status[Resume(v)], s>> \in RowMoves
               /\ Phases[v] = PhaseAt(status[Resume(v)])
               /\ Phases' = [Phases EXCEPT ![v] = PhaseAt(s)]
    <3>1. Resume(v) \in Message /\ \A u \in 1..MaxVersion : u # v => Resume(u) \in Message \ {Resume(v)}
      BY Messages
    <3>2. /\ <<status[Resume(v)], s>> \in RowMoves /\ status'[Resume(v)] = s
          /\ \A u \in 1..MaxVersion : u # v => status'[Resume(u)] = status[Resume(u)]
      BY <2>4, <3>1, RowMoved DEF HumanInv
    <3> QED
      BY <1>1, <3>2
  <2>5. ASSUME NEW v \in 1..MaxVersion, EnqueueResume(v) PROVE Promise!Submit(v)
    <3>1. Phases[v] = "absent" /\ Phases' = [Phases EXCEPT ![v] = "open"]
      BY <2>4, <2>5 DEF EnqueueResume, PhaseAt
    <3> QED
      BY <2>1, <3>1 DEF Promise!Submit, Phases, Effects
  <2>6. ASSUME NEW m \in Message, DispatchMessage(m), \A v \in 1..MaxVersion : m # Resume(v)
        PROVE  Phases' = Phases
    <3>1. PICK s : MoveRow(m, s)
      BY <2>6 DEF DispatchMessage
    <3>2. \A u \in 1..MaxVersion : status'[Resume(u)] = status[Resume(u)]
      BY <2>6, <3>1, Messages, RowMoved DEF HumanInv
    <3> QED
      BY <1>1, <3>2
  <2>7. ASSUME NEW v \in 1..MaxVersion, DispatchMessage(Resume(v))
        PROVE  Phases' = Phases \/ Promise!Confirm(v) \/ Promise!GiveUp({v})
    <3>1. CASE \/ status[Resume(v)] = "PENDING" /\ MoveRow(Resume(v), "PROCESSING")
               \/ status[Resume(v)] = "PROCESSING" /\ MoveRow(Resume(v), "PENDING")
      <4>1. Phases[v] = "open" /\ Phases' = [Phases EXCEPT ![v] = "open"]
        BY <2>4, <3>1 DEF PhaseAt
      <4> QED
        BY <1>1, <4>1
    <3>2. CASE status[Resume(v)] = "PROCESSING" /\ MoveRow(Resume(v), "FAILED")
      <4>0. PhaseAt("FAILED") = "given_up" /\ PhaseAt("PROCESSING") = "open"
        BY DEF PhaseAt
      <4>1. Phases[v] = "open" /\ Phases' = [Phases EXCEPT ![v] = "given_up"]
        BY <2>4, <3>2, <4>0
      <4>2. Phases' = [u \in 1..MaxVersion |-> IF u \in {v} THEN "given_up" ELSE Phases[u]]
        BY <1>1, <4>1
      <4> QED
        BY <2>1, <4>1, <4>2 DEF Promise!GiveUp, Phases, Effects
    <3>3. CASE MayConfirm(Resume(v)) /\ MoveRow(Resume(v), "SENT")
      <4>1. status[Resume(v)] = "PROCESSING"
        BY <2>4, <3>3 DEF RowMoves
      <4>2. Phases[v] = "open" /\ Phases' = [Phases EXCEPT ![v] = "delivered"]
        BY <2>4, <3>3, <4>1 DEF PhaseAt
      <4>3. Effects[v] = 1
        BY <1>2, <3>3 DEF MayConfirm, Resume, Acknowledged, Acks
      <4> QED
        BY <2>1, <4>2, <4>3 DEF Promise!Confirm, Phases, Effects
    <3> QED
      BY <2>7, <3>1, <3>2, <3>3 DEF DispatchMessage
  <2>8. \/ Phases' = Phases
        \/ \E v \in 1..MaxVersion : Promise!Submit(v) \/ Promise!Confirm(v) \/ Promise!GiveUp({v})
    BY <2>2, <2>3, <2>5, <2>6, <2>7, <1>1, RowsMoveBy
  <2> QED
    BY <2>1, <2>8 DEF Promise!Next
<1> QED
  BY <1>3, <1>4, HumanSteps DEF Promise!Next

(* Decision, enqueuer, dispatcher, n8n and acknowledgement implement         *)
(* DeliveryPromise: a decision is acknowledged at most once, and its message *)
(* is SENT only when it was.                                                 *)
THEOREM HumanImplementsPromise == Spec => KeepsPromise
<1>1. Init => Promise!Init
  <2> SUFFICES ASSUME Init PROVE Promise!Init
    OBVIOUS
  <2>1. HumanInv /\ RowsTyped
    BY HumanInit DEF HumanInv
  <2>2. \A v \in 1..MaxVersion : status[Resume(v)] = "ABSENT" /\ Acks(v) = {}
    BY Messages, EmptySeq DEF Init, RowInit, CaseInit, Acks, OfVersion
  <2>3. Phases = [v \in 1..MaxVersion |-> "absent"]
    BY <2>1, <2>2, PhasesAre DEF PhaseAt
  <2>4. Effects = [v \in 1..MaxVersion |-> 0]
    BY <2>1, <2>2, EffectsAre
  <2> QED
    BY <2>3, <2>4 DEF Promise!Init, Phases, Effects
<1>2. HumanInv /\ HumanInv' /\ [Next]_humanVars => [Promise!Next]_<<Phases, Effects>>
  BY HumanKeepsPromise
<1> QED
  BY <1>1, <1>2, HumanInvHolds, PTL DEF Spec, KeepsPromise, Promise!Spec, Phases, Effects

=============================================================================

--------------------------- MODULE AnalysisProofs ---------------------------
(***************************************************************************)
(* Facts about Analysis that hold in whatever component it is composed     *)
(* with (WorkflowStart, HumanLoop).                                        *)
(***************************************************************************)
EXTENDS Analysis, SequenceTheorems, FiniteSetTheorems, TLAPS

Judge == INSTANCE AuthorityProofs

-----------------------------------------------------------------------------
(* Plans *)

KindOf(f) ==
  IF Judge!Guarded(f) THEN "GUARDED" ELSE IF f.type = "POLICY_QUESTION" THEN "POLICY" ELSE "SAFE"

PlanOf(f) ==
  [to |-> Judge!TargetState(f), type |-> Judge!EventType(f), run |-> Judge!Verdict(f).run,
   accepts |-> IF Judge!Verdict(f).decision = "READY"
               THEN [kind |-> KindOf(f), by |-> "SYSTEM_RULE"] ELSE NoDetails]

(* Analysis, which leaves open what the validation decides, allows exactly   *)
(* what it can decide: the plan of every request is one of its plans.        *)
THEOREM VerdictIsPlan ==
  ASSUME NEW f \in Judge!Facts
  PROVE  PlanOf(f) \in Plan
<1>1. CASE Judge!Failing(f) = {}
  <2>1. Judge!Verdict(f) = [passes |-> TRUE, run |-> "COMPLETED", decision |-> "READY"]
    BY <1>1 DEF Judge!Verdict, Judge!Ready, Judge!Rule
  <2>2. PlanOf(f) = Ready(Judge!TargetState(f), Judge!EventType(f), KindOf(f))
    BY <2>1 DEF PlanOf, Ready
  <2>3. CASE Judge!Guarded(f)
    BY <2>1, <2>2, <2>3, Judge!VerdictArms DEF KindOf, Judge!Guarded, Judge!GuardedType, Plan
  <2>4. CASE ~Judge!Guarded(f)
    BY <2>1, <2>2, <2>4, Judge!VerdictArms DEF KindOf, Plan
  <2> QED
    BY <2>3, <2>4
<1>2. CASE Judge!Failing(f) # {}
  <2> DEFINE first == CHOOSE i \in Judge!Failing(f) : \A j \in Judge!Failing(f) : i <= j
  <2>1. first \in 1..13
    BY <1>2, Judge!FirstFailing, Judge!RulesShape DEF Judge!Failing
  <2>2. Judge!Verdict(f) = Judge!Rules(f)[first]
    BY <1>2 DEF Judge!Verdict
  <2>3. <<Judge!Verdict(f).decision, Judge!Verdict(f).run>> \in
           {<<"NEEDS_REVIEW", "INVALID_OUTPUT">>, <<"NEEDS_REVIEW", "COMPLETED">>,
            <<"NEEDS_INFORMATION", "COMPLETED">>, <<"REJECTED", "COMPLETED">>}
    BY <2>1, <2>2, Judge!RuleOutcomes
  <2> QED
    BY <2>3 DEF PlanOf, Judge!TargetState, Judge!EventType, Plan, NotReady
<1> QED
  BY <1>1, <1>2

-----------------------------------------------------------------------------
(* The log *)

(* A new event is the last one and changes nothing before it. *)
LEMMA NewEvent ==
  ASSUME log \in Seq(Event), NEW e \in Event, log' = Append(log, e)
  PROVE  /\ log' \in Seq(Event)
         /\ Len(log) \in Nat
         /\ DOMAIN log = 1..Len(log)
         /\ Len(log') = Len(log) + 1
         /\ DOMAIN log' = 1..(Len(log) + 1)
         /\ log'[Len(log) + 1] = e
         /\ \A i \in 1..Len(log) : log'[i] = log[i]
         /\ log' # <<>>
         /\ SubSeq(log', 1, Len(log)) = log
<1>1. /\ log' \in Seq(Event)
      /\ Len(log) \in Nat
      /\ DOMAIN log = 1..Len(log)
      /\ Len(log') = Len(log) + 1
      /\ log'[Len(log) + 1] = e
      /\ \A i \in 1..Len(log) : log'[i] = log[i]
      /\ log' # <<>>
  BY AppendProperties, LenProperties
<1>2. DOMAIN log' = 1..(Len(log) + 1)
  BY <1>1, LenProperties
<1>3. \A i \in 1..Len(log) : log'[i] \in Event
  BY <1>1, ElementOfSeq
<1>4. /\ SubSeq(log', 1, Len(log)) \in Seq(Event)
      /\ Len(SubSeq(log', 1, Len(log))) = Len(log)
      /\ \A i \in 1..Len(log) : SubSeq(log', 1, Len(log))[i] = log[i]
  BY <1>1, <1>3, SubSeqProperties
<1>5. SubSeq(log', 1, Len(log)) = log
  BY <1>4, SeqEqual
<1> QED
  BY <1>1, <1>2, <1>5

(* How often events of some set occur in the log. *)
Count(W) == Cardinality({i \in DOMAIN log : log[i] \in W})

LEMMA CountNew ==
  ASSUME log \in Seq(Event), NEW e \in Event, log' = Append(log, e), NEW W
  PROVE  /\ Count(W) \in Nat
         /\ Count(W)' = IF e \in W THEN Count(W) + 1 ELSE Count(W)
<1> DEFINE S == {i \in DOMAIN log : log[i] \in W}
<1>1. IsFiniteSet(1..Len(log)) /\ DOMAIN log = 1..Len(log)
  BY NewEvent, FS_Interval
<1>2. IsFiniteSet(S) /\ S \subseteq 1..Len(log)
  BY <1>1, FS_Subset
<1>3. Cardinality(S) \in Nat
  BY <1>2, FS_CardinalityType
<1>4. {i \in DOMAIN log' : log'[i] \in W} = IF e \in W THEN S \cup {Len(log) + 1} ELSE S
  BY NewEvent
<1>5. Len(log) + 1 \notin S
  BY <1>2, NewEvent
<1> QED
  BY <1>2, <1>3, <1>4, <1>5, FS_AddElement DEF Count

LEMMA CountNone ==
  ASSUME NEW W, \A i \in DOMAIN log : log[i] \notin W
  PROVE  Count(W) = 0
<1>1. {i \in DOMAIN log : log[i] \in W} = {}
  OBVIOUS
<1> QED
  BY <1>1, FS_EmptySet DEF Count

Changing == {e \in Event : e.from # e.to}

LEMMA CountsChanges ==
  ASSUME log \in Seq(Event)
  PROVE  Cardinality({i \in DOMAIN log : log[i].from # log[i].to}) = Count(Changing)
<1>1. \A i \in DOMAIN log : log[i] \in Event
  BY LenProperties, ElementOfSeq
<1>2. {i \in DOMAIN log : log[i].from # log[i].to} = {i \in DOMAIN log : log[i] \in Changing}
  BY <1>1 DEF Changing
<1> QED
  BY <1>2 DEF Count

(* Any writer that fills in the state it found and the next version keeps    *)
(* the log in step with the case.                                            *)
LEMMA CaseMoves ==
  ASSUME CaseTypeOK, LogTellsState,
         NEW to \in CaseState, NEW e \in Event, NEW v,
         MoveCase(to, v, e),
         v = IF to # caseState THEN version + 1 ELSE version,
         e.from = caseState, e.to = to,
         to # caseState => <<caseState, to>> \in AllowedMoves
  PROVE  /\ caseState' \in CaseState /\ version' \in Nat /\ version' > 0
         /\ log' \in Seq(Event)
         /\ LogTellsState'
         /\ CaseStep
<1>1. /\ log \in Seq(Event) /\ log' = Append(log, e)
      /\ caseState' = to /\ version' = v
  BY DEF CaseTypeOK, MoveCase
<1>2. version \in Nat /\ (caseState = "ABSENT" <=> version = 0) /\ to # "ABSENT"
  BY DEF CaseTypeOK, CaseState
<1>3. v \in Nat /\ v > 0
  BY <1>2
<1>4. \A i \in DOMAIN log' : log'[i].from = IF i = 1 THEN "ABSENT" ELSE log'[i - 1].to
  <2>1. ASSUME NEW i \in 1..Len(log)
        PROVE  log'[i].from = IF i = 1 THEN "ABSENT" ELSE log'[i - 1].to
    BY <1>1, <2>1, NewEvent DEF LogTellsState
  <2>2. CASE Len(log) = 0
    <3>1. Count(Changing) = 0
      BY <1>1, <2>2, NewEvent, CountNone
    <3>2. version = 0
      BY <1>1, <3>1, CountsChanges DEF LogTellsState
    <3> QED
      BY <1>1, <1>2, <2>2, <3>2, NewEvent
  <2>3. CASE Len(log) # 0
    <3>1. log # <<>>
      BY <2>3
    <3>2. caseState = log[Len(log)].to
      BY <3>1 DEF LogTellsState
    <3>3. Len(log) \in 1..Len(log)
      BY <1>1, <2>3, NewEvent
    <3> QED
      BY <1>1, <2>1, <2>3, <3>2, <3>3, NewEvent
  <2> QED
    BY <2>2, <2>3
<1>5. log'[Len(log')].to = caseState'
  BY <1>1, NewEvent
<1>6. version' = Cardinality({i \in DOMAIN log' : log'[i].from # log'[i].to})
  <2>1. version = Count(Changing)
    BY <1>1, CountsChanges DEF LogTellsState
  <2>2. e \in Changing <=> to # caseState
    BY DEF Changing
  <2>3. version' = Count(Changing)'
    BY <1>1, <2>1, <2>2, CountNew
  <2>4. log' \in Seq(Event)
    BY <1>1, NewEvent
  <2>5. \A i \in DOMAIN log' : log'[i] \in Event
    BY <2>4, LenProperties, ElementOfSeq
  <2>6. {i \in DOMAIN log' : log'[i].from # log'[i].to} = {i \in DOMAIN log' : log'[i] \in Changing}
    BY <2>5 DEF Changing
  <2> QED
    BY <2>3, <2>6 DEF Count
<1>7. LogTellsState'
  BY <1>4, <1>5, <1>6 DEF LogTellsState
<1>8. CaseStep
  BY <1>1, <1>2, NewEvent DEF CaseStep
<1> QED
  BY <1>1, <1>3, <1>7, <1>8, NewEvent

-----------------------------------------------------------------------------
(* The attempts on one input *)

WellFormed(r) ==
  /\ r \in Run
  /\ r.expired => r.status \in {"PROCESSING", "FAILED"}
  /\ r.validated <=> r.status \in {"COMPLETED", "INVALID_OUTPUT", "SKIPPED"}

Attempts(s) ==
  /\ s \in Seq(Run)
  /\ Len(s) <= MaxProviderAttempts
  /\ \A n \in DOMAIN s : WellFormed(s[n]) /\ (s[n].status # "FAILED" => n = Len(s))

LEMMA TypeOfAttempts ==
  AnalysisTypeOK <=>
    /\ held \in [Handler -> Held \cup {NoRun}]
    /\ runs \in [Input -> Seq(Run)]
    /\ \A i \in Input : Attempts(runs[i])
<1>1. ASSUME runs \in [Input -> Seq(Run)], NEW i \in Input, NEW n \in DOMAIN runs[i]
      PROVE  runs[i][n] \in Run
  BY <1>1, LenProperties, ElementOfSeq
<1> QED
  BY <1>1 DEF AnalysisTypeOK, Attempts, WellFormed

LEMMA AttemptsLast ==
  ASSUME NEW s, Attempts(s)
  PROVE  /\ Len(s) \in 0..MaxProviderAttempts
         /\ DOMAIN s = 1..Len(s)
         /\ s = <<>> <=> Len(s) = 0
         /\ s # <<>> => Len(s) \in DOMAIN s /\ WellFormed(s[Len(s)])
         /\ \A n \in DOMAIN s : n # Len(s) => s[n].status = "FAILED" /\ ~s[n].validated
<1>1. Len(s) \in Nat /\ DOMAIN s = 1..Len(s) /\ (s # <<>> => Len(s) # 0)
  BY LenProperties, EmptySeq DEF Attempts
<1>2. MaxProviderAttempts \in Nat
  BY AnalysisAssumption
<1> QED
  BY <1>1, <1>2, EmptySeq DEF Attempts, WellFormed

(* The newest attempt is rewritten. *)
LEMMA AttemptsPut ==
  ASSUME NEW s, Attempts(s), s # <<>>, NEW r, WellFormed(r)
  PROVE  LET t == [s EXCEPT ![Len(s)] = r] IN
         /\ Attempts(t)
         /\ Len(t) = Len(s)
         /\ DOMAIN t = DOMAIN s
         /\ t[Len(s)] = r
         /\ \A n \in DOMAIN s : n # Len(s) => t[n] = s[n]
         /\ t # <<>>
<1> DEFINE t == [s EXCEPT ![Len(s)] = r]
<1>1. Len(s) \in 1..Len(s) /\ DOMAIN s = 1..Len(s)
  BY AttemptsLast
<1>2. r \in Run /\ s \in Seq(Run)
  BY DEF WellFormed, Attempts
<1>3. /\ t \in Seq(Run)
      /\ Len(t) = Len(s)
      /\ \A j \in 1..Len(s) : t[j] = IF j = Len(s) THEN r ELSE s[j]
  BY <1>1, <1>2, ExceptSeq
<1>4. DOMAIN t = 1..Len(s)
  BY <1>3, LenProperties
<1> HIDE DEF t
<1>5. Attempts(t)
  BY <1>1, <1>3, <1>4 DEF Attempts
<1>6. t # <<>>
  BY <1>1, <1>3, <1>5, AttemptsLast
<1> QED
  BY <1>1, <1>3, <1>4, <1>5, <1>6 DEF t

(* A further attempt, once the newest has failed. *)
LEMMA AttemptsAdd ==
  ASSUME NEW s, Attempts(s), Len(s) < MaxProviderAttempts,
         s # <<>> => s[Len(s)].status = "FAILED",
         NEW r, WellFormed(r)
  PROVE  /\ Attempts(Append(s, r))
         /\ Len(Append(s, r)) = Len(s) + 1
         /\ DOMAIN Append(s, r) = DOMAIN s \cup {Len(s) + 1}
         /\ Append(s, r)[Len(s) + 1] = r
         /\ \A n \in DOMAIN s : Append(s, r)[n] = s[n]
         /\ Append(s, r) # <<>>
<1> DEFINE t == Append(s, r)
<1>1. Len(s) \in Nat /\ DOMAIN s = 1..Len(s) /\ MaxProviderAttempts \in Nat
  BY AttemptsLast, AnalysisAssumption
<1>2. r \in Run /\ s \in Seq(Run)
  BY DEF WellFormed, Attempts
<1>3. /\ t \in Seq(Run)
      /\ Len(t) = Len(s) + 1
      /\ \A j \in 1..Len(s) : t[j] = s[j]
      /\ t[Len(s) + 1] = r
      /\ t # <<>>
  BY <1>1, <1>2, AppendProperties
<1>4. DOMAIN t = 1..(Len(s) + 1)
  BY <1>1, <1>3, LenProperties
<1>5. \A n \in DOMAIN s : s[n].status = "FAILED"
  BY <1>1, AttemptsLast
<1> HIDE DEF t
<1>6. Attempts(t)
  BY <1>1, <1>3, <1>4, <1>5 DEF Attempts
<1> QED
  BY <1>1, <1>3, <1>4, <1>6 DEF t

(* An abandoned attempt that is closed leaves only failures behind. *)
LEMMA AttemptsClosed ==
  ASSUME AnalysisTypeOK, NEW i \in Input, ~Validated(i)
  PROVE  LET t == CloseAbandoned(i) IN
         /\ Attempts(t)
         /\ Len(t) = Len(runs[i])
         /\ DOMAIN t = DOMAIN runs[i]
         /\ \A n \in DOMAIN t : t[n].status = "FAILED" /\ ~t[n].validated
         /\ \A n \in DOMAIN t : ~runs[i][n].validated
<1> DEFINE s == runs[i]
           f == [s[Len(s)] EXCEPT !.status = "FAILED"]
           t == CloseAbandoned(i)
<1>1. Attempts(s)
  BY TypeOfAttempts
<1>2. /\ Len(s) \in 0..MaxProviderAttempts
      /\ DOMAIN s = 1..Len(s)
      /\ s = <<>> <=> Len(s) = 0
      /\ s # <<>> => Len(s) \in DOMAIN s /\ WellFormed(s[Len(s)])
      /\ \A n \in DOMAIN s : n # Len(s) => s[n].status = "FAILED" /\ ~s[n].validated
  BY <1>1, AttemptsLast
<1>3. s # <<>> => ~s[Len(s)].validated
  BY DEF Validated, Latest
<1>4. CASE LatestIs(i, "PROCESSING")
  <2>1. s # <<>> /\ s[Len(s)].status = "PROCESSING"
    BY <1>4 DEF LatestIs, Latest
  <2>2. WellFormed(f) /\ f.status = "FAILED" /\ ~f.validated
    BY <1>2, <1>3, <2>1 DEF WellFormed, Run
  <2>3. t = [s EXCEPT ![Len(s)] = f]
    BY <1>4 DEF CloseAbandoned
  <2> HIDE DEF f, s, t
  <2>4. /\ Attempts(t)
        /\ Len(t) = Len(s)
        /\ DOMAIN t = DOMAIN s
        /\ t[Len(s)] = f
        /\ \A n \in DOMAIN s : n # Len(s) => t[n] = s[n]
    BY <1>1, <2>1, <2>2, <2>3, AttemptsPut
  <2> QED
    BY <1>2, <1>3, <2>1, <2>2, <2>4 DEF s, t
<1>5. CASE ~LatestIs(i, "PROCESSING")
  <2>1. t = s
    BY <1>5 DEF CloseAbandoned
  <2>2. s # <<>> => s[Len(s)].status = "FAILED"
    BY <1>2, <1>3, <1>5 DEF LatestIs, Latest, WellFormed, Run
  <2> QED
    BY <1>1, <1>2, <1>3, <2>1, <2>2
<1> QED
  BY <1>4, <1>5

-----------------------------------------------------------------------------
(* The inductive invariant *)

EvidenceTypes == {"ANALYSIS_STARTED", "HUMAN_DECISION_RESUME_ACKNOWLEDGED"}

(* Inputs beyond the budget never reach the model. *)
Skipped == \A i \in OversizedInput : \A n \in DOMAIN runs[i] : runs[i][n].status = "SKIPPED"

(* A handler works on an attempt that exists, of an input that was asked for. *)
Grounded ==
  \A h \in Handler : held[h] # NoRun =>
    /\ held[h].trigger.input \notin OversizedInput
    /\ held[h].number \in DOMAIN runs[held[h].trigger.input]
    /\ HasEvidence(held[h].trigger)

(* What is analyzed for a version of the case is one input. *)
OneInput ==
  \A i, j \in DOMAIN log :
    log[i].type \in EvidenceTypes /\ log[j].type \in EvidenceTypes =>
      /\ log[i].trigger \in Trigger
      /\ log[i].trigger.version = log[j].trigger.version => log[i].trigger = log[j].trigger

(* Details are accepted once: as long as the case is ANALYZING with details, *)
(* every analysis that its version allows is finished.                       *)
AcceptedOnce ==
  /\ details = NoDetails => approval = "NONE"
  /\ caseState \in {"ABSENT", "RECEIVED", "NEEDS_INFORMATION"} => details = NoDetails
  /\ caseState = "ANALYZING" /\ details # NoDetails =>
       \A i \in DOMAIN log :
         log[i].type \in EvidenceTypes /\ log[i].trigger.version = version
           /\ log[i].trigger.input # NoInput => Validated(log[i].trigger.input)

ValidatedRuns ==
  {x \in Input \X (1..MaxProviderAttempts) :
     x[2] \in DOMAIN runs[x[1]] /\ runs[x[1]][x[2]].validated}

AnalysisInv ==
  /\ CaseTypeOK /\ AnalysisTypeOK /\ LogTellsState
  /\ Skipped /\ Grounded /\ OneInput /\ AcceptedOnce
  /\ FailureIsExhaustion
  /\ OneVerdict /\ IsFiniteSet(ValidatedRuns)

-----------------------------------------------------------------------------
(* What an action does to the attempts: one attempt is added or, if it was   *)
(* in progress, rewritten, and the older ones of its input have failed.      *)
Touches(i, n, r) ==
  /\ i \in Input /\ n \in 1..MaxProviderAttempts
  /\ runs' \in [Input -> Seq(Run)]
  /\ \A j \in Input \ {i} : runs'[j] = runs[j]
  /\ Attempts(runs'[i])
  /\ Len(runs'[i]) = n /\ runs'[i][n] = r
  /\ DOMAIN runs'[i] = DOMAIN runs[i] \cup {n}
  /\ \A m \in DOMAIN runs[i] \ {n} : ~runs[i][m].validated /\ runs'[i][m].status = "FAILED"
  /\ n \in DOMAIN runs[i] => n = Len(runs[i]) /\ runs[i][n].status = "PROCESSING"

LEMMA PutTouches ==
  ASSUME AnalysisTypeOK, NEW i \in Input, LatestIs(i, "PROCESSING"), NEW r, WellFormed(r),
         runs' = [runs EXCEPT ![i] = [runs[i] EXCEPT ![Len(runs[i])] = r]]
  PROVE  Touches(i, Len(runs[i]), r)
<1> DEFINE s == runs[i]
           t == [s EXCEPT ![Len(s)] = r]
<1>1. Attempts(s) /\ runs \in [Input -> Seq(Run)]
  BY TypeOfAttempts
<1>2. s # <<>> /\ s[Len(s)].status = "PROCESSING"
  BY DEF LatestIs, Latest
<1>3. /\ Len(s) \in 1..MaxProviderAttempts
      /\ Len(s) \in DOMAIN s
      /\ \A n \in DOMAIN s : n # Len(s) => s[n].status = "FAILED" /\ ~s[n].validated
  BY <1>1, <1>2, AttemptsLast
<1> HIDE DEF s
<1>4. /\ Attempts(t)
      /\ Len(t) = Len(s)
      /\ DOMAIN t = DOMAIN s
      /\ t[Len(s)] = r
      /\ \A n \in DOMAIN s : n # Len(s) => t[n] = s[n]
  BY <1>1, <1>2, AttemptsPut
<1>5. runs' = [runs EXCEPT ![i] = t]
  BY DEF s
<1> HIDE DEF t
<1>6. t \in Seq(Run)
  BY <1>4 DEF Attempts
<1>7. runs'[i] = t /\ runs' \in [Input -> Seq(Run)] /\ \A j \in Input \ {i} : runs'[j] = runs[j]
  BY <1>1, <1>5, <1>6
<1> QED
  BY <1>2, <1>3, <1>4, <1>7 DEF Touches, s

LEMMA AddTouches ==
  ASSUME AnalysisTypeOK, NEW i \in Input, ~Validated(i),
         Len(runs[i]) < MaxProviderAttempts, NEW r, WellFormed(r),
         runs' = [runs EXCEPT ![i] = Append(CloseAbandoned(i), r)]
  PROVE  Touches(i, Len(runs[i]) + 1, r)
<1> DEFINE t == CloseAbandoned(i)
           u == Append(t, r)
<1>1. /\ Attempts(t)
      /\ Len(t) = Len(runs[i])
      /\ DOMAIN t = DOMAIN runs[i]
      /\ \A n \in DOMAIN t : t[n].status = "FAILED" /\ ~t[n].validated
      /\ \A n \in DOMAIN t : ~runs[i][n].validated
  BY AttemptsClosed
<1> HIDE DEF t
<1>2. /\ Attempts(u)
      /\ Len(u) = Len(t) + 1
      /\ DOMAIN u = DOMAIN t \cup {Len(t) + 1}
      /\ u[Len(t) + 1] = r
      /\ \A n \in DOMAIN t : u[n] = t[n]
  BY <1>1, AttemptsAdd, AttemptsLast
<1>3. Len(t) \in 0..MaxProviderAttempts /\ DOMAIN t = 1..Len(t) /\ MaxProviderAttempts \in Nat
  BY <1>1, AttemptsLast, AnalysisAssumption
<1>4. runs \in [Input -> Seq(Run)] /\ runs' = [runs EXCEPT ![i] = u]
  BY TypeOfAttempts DEF t
<1> HIDE DEF u
<1>5. u \in Seq(Run)
  BY <1>2 DEF Attempts
<1>6. runs'[i] = u /\ runs' \in [Input -> Seq(Run)] /\ \A j \in Input \ {i} : runs'[j] = runs[j]
  BY <1>4, <1>5
<1>7. Len(runs[i]) + 1 \in 1..MaxProviderAttempts
  BY <1>1, <1>3
<1>8. \A m \in DOMAIN runs[i] \ {Len(runs[i]) + 1} : ~runs[i][m].validated /\ runs'[i][m].status = "FAILED"
  BY <1>1, <1>2, <1>6
<1>9. Len(runs[i]) + 1 \notin DOMAIN runs[i]
  BY <1>1, <1>3
<1>10. DOMAIN runs'[i] = DOMAIN runs[i] \cup {Len(runs[i]) + 1}
  BY <1>1, <1>2, <1>6
<1>11. Attempts(runs'[i]) /\ Len(runs'[i]) = Len(runs[i]) + 1 /\ runs'[i][Len(runs[i]) + 1] = r
  BY <1>1, <1>2, <1>6
<1> QED
  BY <1>6, <1>7, <1>8, <1>9, <1>10, <1>11 DEF Touches

Exhausted(i) ==
  /\ Len(runs[i]) = MaxProviderAttempts
  /\ \A n \in DOMAIN runs[i] : runs[i][n].status = "FAILED"

LEMMA Touched ==
  ASSUME AnalysisTypeOK, NEW i, NEW n, NEW r, Touches(i, n, r)
  PROVE  /\ held' \in [Handler -> Held \cup {NoRun}] => AnalysisTypeOK'
         /\ ~Validated(i)
         /\ Validated(i)' <=> r.validated
         /\ \A j \in Input \ {i} : Validated(j)' <=> Validated(j)
         /\ \A j \in Input : DOMAIN runs[j] \subseteq DOMAIN runs'[j]
         /\ <<i, n>> \notin ValidatedRuns
         /\ ValidatedRuns' = IF r.validated THEN ValidatedRuns \cup {<<i, n>>} ELSE ValidatedRuns
         /\ \A j \in Input : Exhausted(j) => Exhausted(j)'
         /\ Skipped /\ (i \in OversizedInput => r.status = "SKIPPED") => Skipped'
<1>1. /\ runs \in [Input -> Seq(Run)]
      /\ \A j \in Input : Attempts(runs[j])
      /\ i \in Input /\ n \in 1..MaxProviderAttempts
  BY TypeOfAttempts DEF Touches
<1>2. held' \in [Handler -> Held \cup {NoRun}] => AnalysisTypeOK'
  <2>1. ASSUME NEW j \in Input PROVE Attempts(runs'[j])
    BY <1>1, <2>1 DEF Touches
  <2>2. (held' \in [Handler -> Held \cup {NoRun}] /\ runs' \in [Input -> Seq(Run)]
          /\ \A j \in Input : Attempts(runs'[j])) => AnalysisTypeOK'
    BY TypeOfAttempts, AnalysisAssumption DEF AnalysisTypeOK, Attempts, WellFormed
  <2> QED
    BY <2>1, <2>2 DEF Touches
<1>3. /\ DOMAIN runs[i] = 1..Len(runs[i]) /\ Len(runs[i]) \in Nat
      /\ runs[i] # <<>> => Len(runs[i]) \in DOMAIN runs[i] /\ WellFormed(runs[i][Len(runs[i])])
  BY <1>1, AttemptsLast
<1>4. ~Validated(i)
  BY <1>3 DEF Validated, Latest, Touches, WellFormed
<1>5. runs'[i] # <<>> /\ Len(runs'[i]) = n /\ runs'[i][n] = r
  BY <1>1, AttemptsLast DEF Touches
<1>6. Validated(i)' <=> r.validated
  BY <1>5 DEF Validated, Latest
<1>7. \A j \in Input \ {i} : runs'[j] = runs[j]
  BY DEF Touches
<1>8. \A j \in Input : DOMAIN runs[j] \subseteq DOMAIN runs'[j]
  BY <1>7 DEF Touches
<1>9. \A m \in DOMAIN runs[i] : ~runs[i][m].validated
  BY <1>3, <1>1 DEF Touches, Attempts, WellFormed
<1>10. \A m \in DOMAIN runs'[i] : runs'[i][m].validated <=> m = n /\ r.validated
  <2>1. ASSUME NEW m \in DOMAIN runs'[i], m # n PROVE ~runs'[i][m].validated
    BY <2>1, AttemptsLast DEF Touches
  <2> QED
    BY <1>5, <2>1
<1>11. n \in DOMAIN runs'[i]
  BY DEF Touches
<1>12. <<i, n>> \notin ValidatedRuns
  BY <1>9 DEF ValidatedRuns
<1>13. ValidatedRuns' = IF r.validated THEN ValidatedRuns \cup {<<i, n>>} ELSE ValidatedRuns
  <2>1. \A x \in Input \X (1..MaxProviderAttempts) :
          x \in ValidatedRuns' <=> x \in ValidatedRuns \/ (r.validated /\ x = <<i, n>>)
    <3>1. ASSUME NEW j \in Input, NEW m \in 1..MaxProviderAttempts
          PROVE  <<j, m>> \in ValidatedRuns' <=>
                   <<j, m>> \in ValidatedRuns \/ (r.validated /\ <<j, m>> = <<i, n>>)
      BY <3>1, <1>7, <1>9, <1>10, <1>11 DEF ValidatedRuns
    <3> QED
      BY <3>1
  <2> QED
    BY <1>1, <2>1 DEF ValidatedRuns
<1>14. ASSUME NEW j \in Input, Exhausted(j) PROVE Exhausted(j)'
  <2>1. j # i
    BY <1>1, <1>3, <1>14 DEF Exhausted, Touches
  <2> QED
    BY <1>7, <1>14, <2>1 DEF Exhausted
<1>15. ASSUME Skipped, i \in OversizedInput => r.status = "SKIPPED" PROVE Skipped'
  <2>1. ASSUME NEW j \in OversizedInput, NEW m \in DOMAIN runs'[j]
        PROVE  runs'[j][m].status = "SKIPPED"
    <3>1. j \in Input
      BY AnalysisAssumption
    <3>2. CASE j # i
      BY <1>7, <1>15, <2>1, <3>1, <3>2 DEF Skipped
    <3>3. CASE j = i
      <4>1. DOMAIN runs[i] = {}
        BY <1>1, <1>9, <1>15, <3>3 DEF Skipped, Attempts, WellFormed
      <4> QED
        BY <1>5, <1>15, <2>1, <3>3, <4>1 DEF Touches
    <3> QED
      BY <3>2, <3>3
  <2> QED
    BY <2>1 DEF Skipped
<1> QED
  BY <1>2, <1>4, <1>6, <1>7, <1>8, <1>12, <1>13, <1>14, <1>15 DEF Validated, Latest

-----------------------------------------------------------------------------
(* What a writer has to respect: the log only grows. *)

LogGrows == \A i \in DOMAIN log : i \in DOMAIN log' /\ log'[i] = log[i]

LEMMA LogOfEvents ==
  ASSUME CaseTypeOK
  PROVE  /\ log \in Seq(Event) /\ Len(log) \in Nat /\ DOMAIN log = 1..Len(log)
         /\ \A i \in DOMAIN log : log[i] \in Event
BY LenProperties, ElementOfSeq DEF CaseTypeOK

LEMMA Grows ==
  ASSUME CaseTypeOK, NEW e \in Event, log' = Append(log, e)
  PROVE  /\ LogGrows
         /\ \A i \in DOMAIN log' : i \in DOMAIN log \/ log'[i] = e
         /\ \A t : Logged(t)' <=> Logged(t) \/ e.type = t
<1>1. /\ DOMAIN log = 1..Len(log) /\ DOMAIN log' = 1..(Len(log) + 1) /\ Len(log) \in Nat
      /\ log'[Len(log) + 1] = e
      /\ \A i \in 1..Len(log) : log'[i] = log[i]
  BY NewEvent DEF CaseTypeOK
<1>2. \A i \in DOMAIN log' : i \in DOMAIN log \/ log'[i] = e
  BY <1>1
<1>3. LogGrows
  BY <1>1 DEF LogGrows
<1>4. Len(log) + 1 \in DOMAIN log'
  BY <1>1
<1>5. \A t : Logged(t)' <=> Logged(t) \/ e.type = t
  BY <1>1, <1>2, <1>3, <1>4 DEF Logged, LogGrows
<1> QED
  BY <1>2, <1>3, <1>5

LEMMA EvidenceStays ==
  ASSUME LogGrows, NEW t, HasEvidence(t)
  PROVE  HasEvidence(t)'
BY DEF HasEvidence, LogGrows

VerdictEvent == {e \in Event : e.type \in VerdictTypes}

LEMMA CountsVerdicts ==
  ASSUME CaseTypeOK
  PROVE  Cardinality({i \in DOMAIN log : log[i].type \in VerdictTypes}) = Count(VerdictEvent)
<1>1. {i \in DOMAIN log : log[i].type \in VerdictTypes} = {i \in DOMAIN log : log[i] \in VerdictEvent}
  BY LogOfEvents DEF VerdictEvent
<1> QED
  BY <1>1 DEF Count

(* At most the newest attempt is validated, so no input is judged twice. *)
LEMMA OneVerdictIs ==
  CaseTypeOK /\ AnalysisTypeOK =>
    (OneVerdict <=> Count(VerdictEvent) = Cardinality(ValidatedRuns))
<1> SUFFICES ASSUME CaseTypeOK, AnalysisTypeOK
             PROVE  OneVerdict <=> Count(VerdictEvent) = Cardinality(ValidatedRuns)
  OBVIOUS
<1>1. ASSUME NEW i \in Input, NEW m \in DOMAIN runs[i], runs[i][m].validated
      PROVE  m = Len(runs[i])
  BY <1>1, TypeOfAttempts DEF Attempts, WellFormed
<1> QED
  BY <1>1, CountsVerdicts DEF OneVerdict, ValidatedRuns

(* The events of other components: they judge nothing and fail nothing. *)
LEMMA OthersKeepVerdicts ==
  ASSUME CaseTypeOK, CaseTypeOK', AnalysisTypeOK, UNCHANGED runs,
         held' \in [Handler -> Held \cup {NoRun}],
         OneVerdict, FailureIsExhaustion, Skipped, IsFiniteSet(ValidatedRuns),
         \/ log' = log
         \/ \E e \in Event : /\ log' = Append(log, e)
                             /\ e.type \notin VerdictTypes \cup {"ANALYSIS_FAILED"}
  PROVE  AnalysisTypeOK' /\ OneVerdict' /\ FailureIsExhaustion' /\ Skipped'
           /\ IsFiniteSet(ValidatedRuns)'
<1>1. AnalysisTypeOK'
  BY DEF AnalysisTypeOK
<1>2. ValidatedRuns' = ValidatedRuns
  BY DEF ValidatedRuns
<1>3. Count(VerdictEvent)' = Count(VerdictEvent)
  <2>1. CASE log' = log
    BY <2>1 DEF Count
  <2>2. ASSUME NEW e \in Event, log' = Append(log, e), e.type \notin VerdictTypes
        PROVE  Count(VerdictEvent)' = Count(VerdictEvent)
    BY <2>2, CountNew DEF CaseTypeOK, VerdictEvent
  <2> QED
    BY <2>1, <2>2
<1>4. OneVerdict'
  <2>1. OneVerdict' <=> (Count(VerdictEvent) = Cardinality(ValidatedRuns))'
    BY <1>1, OneVerdictIs, PTL
  <2> QED
    BY <2>1, <1>2, <1>3, OneVerdictIs
<1>5. FailureIsExhaustion'
  <2>1. Logged("ANALYSIS_FAILED")' => Logged("ANALYSIS_FAILED")
    BY Grows DEF Logged
  <2> QED
    BY <2>1 DEF FailureIsExhaustion
<1>6. Skipped'
  BY DEF Skipped
<1> QED
  BY <1>1, <1>2, <1>4, <1>5, <1>6

-----------------------------------------------------------------------------
(* Two kinds of steps of the analysis: quiet ones write no event, the others *)
(* write one event and touch one attempt.                                    *)

Ground(x) ==
  /\ x.trigger.input \notin OversizedInput
  /\ x.number \in DOMAIN runs[x.trigger.input]
  /\ HasEvidence(x.trigger)

HeldStays ==
  /\ held' \in [Handler -> Held \cup {NoRun}]
  /\ \A h \in Handler :
       held'[h] = held[h] \/ held'[h] = NoRun \/ \E x \in Held : held'[h] = x /\ Ground(x)'

LEMMA GroundStays ==
  ASSUME AnalysisTypeOK, Grounded, HeldStays, log' = log \/ LogGrows,
         UNCHANGED runs \/ \E i, n, r : Touches(i, n, r)
  PROVE  Grounded'
<1>1. \A j \in Input : DOMAIN runs[j] \subseteq DOMAIN runs'[j]
  BY Touched
<1>2. ASSUME NEW t, HasEvidence(t) PROVE HasEvidence(t)'
  BY <1>2, EvidenceStays DEF HasEvidence
<1>3. ASSUME NEW h \in Handler, held'[h] = held[h], held[h] # NoRun
      PROVE  \E x \in Held : held'[h] = x /\ Ground(x)'
  <2>1. held[h] \in Held
    BY <1>3 DEF AnalysisTypeOK
  <2>2. held[h].trigger.input \in Input
    BY <2>1 DEF Held
  <2>3. Ground(held[h])
    BY <1>3 DEF Grounded, Ground
  <2>4. HasEvidence(held[h].trigger)'
    BY <1>2, <2>3, <1>3 DEF Ground
  <2>5. Ground(held[h])'
    BY <1>1, <1>3, <2>2, <2>3, <2>4 DEF Ground
  <2> QED
    BY <1>3, <2>1, <2>5 DEF Ground, HasEvidence
<1>4. \A h \in Handler : held'[h] # NoRun => \E x \in Held : held'[h] = x /\ Ground(x)'
  BY <1>3 DEF HeldStays
<1> QED
  BY <1>4 DEF Grounded, Ground, HasEvidence

LEMMA QuietKeeps ==
  ASSUME AnalysisInv, UNCHANGED caseVars, HeldStays,
         \/ UNCHANGED runs
         \/ \E i, n, r : Touches(i, n, r) /\ ~r.validated /\ i \notin OversizedInput
  PROVE  AnalysisInv'
<1> USE DEF AnalysisInv
<1>1. CaseTypeOK' /\ LogTellsState' /\ log' = log
  BY DEF caseVars, acceptedVars, CaseTypeOK, LogTellsState
<1>2. Grounded'
  BY <1>1, GroundStays
<1>3. OneInput'
  BY <1>1 DEF OneInput
<1>4. CASE UNCHANGED runs
  <2>1. AnalysisTypeOK' /\ OneVerdict' /\ FailureIsExhaustion' /\ Skipped'
          /\ IsFiniteSet(ValidatedRuns)'
    BY <1>1, <1>4, OthersKeepVerdicts DEF HeldStays
  <2>2. AcceptedOnce'
    BY <1>1, <1>4 DEF AcceptedOnce, caseVars, acceptedVars, Validated, Latest
  <2> QED
    BY <1>1, <1>2, <1>3, <2>1, <2>2
<1>5. ASSUME NEW i, NEW n, NEW r, Touches(i, n, r), ~r.validated, i \notin OversizedInput
      PROVE  AnalysisInv'
  <2>1. AnalysisTypeOK' /\ Skipped' /\ ValidatedRuns' = ValidatedRuns
    BY <1>5, Touched DEF HeldStays
  <2>2. \A j \in Input : Validated(j)' <=> Validated(j)
    BY <1>5, Touched
  <2>3. AcceptedOnce'
    <3>1. \A k \in DOMAIN log : log[k].type \in EvidenceTypes /\ log[k].trigger.input # NoInput
            => log[k].trigger.input \in Input
      BY DEF OneInput, Trigger
    <3> QED
      BY <1>1, <2>2, <3>1 DEF AcceptedOnce, caseVars, acceptedVars
  <2>4. OneVerdict'
    <3>1. OneVerdict' <=> (Count(VerdictEvent) = Cardinality(ValidatedRuns))'
      BY <1>1, <2>1, OneVerdictIs, PTL
    <3> QED
      BY <1>1, <2>1, <3>1, OneVerdictIs DEF Count
  <2>5. FailureIsExhaustion'
    BY <1>1, <1>5, Touched DEF FailureIsExhaustion, Exhausted, Logged
  <2> QED
    BY <1>1, <1>2, <1>3, <2>1, <2>3, <2>4, <2>5
<1> QED
  BY <1>4, <1>5

AnalysisTypes ==
  VerdictTypes \cup {"ANALYSIS_ATTEMPT_RECOVERED", "ANALYSIS_FAILED", "ANALYSIS_RETRY_SCHEDULED"}

Writes(to, e) ==
  /\ caseState = "ANALYZING"
  /\ to \in {"ANALYZING", "NEEDS_INFORMATION", "NEEDS_REVIEW", "PENDING_APPROVAL",
             "READY_FOR_ACTION", "REJECTED", "FAILED"}
  /\ e \in Event
  /\ e.from = "ANALYZING" /\ e.to = to /\ e.trigger = NoTrigger /\ e.type \in AnalysisTypes
  /\ MoveCase(to, IF to # caseState THEN version + 1 ELSE version, e)

(* The details are still to be accepted, and when the step accepts some and  *)
(* leaves the case ANALYZING, the analysis of this version is over.          *)
Accepts(i, r, to) ==
  /\ details = NoDetails
  /\ details' \in Details \cup {NoDetails}
  /\ approval' \in {"NONE", "PENDING"}
  /\ details' = NoDetails => approval' = "NONE"
  /\ to = "NEEDS_INFORMATION" => details' = NoDetails
  /\ to = "ANALYZING" /\ details' # NoDetails =>
       r.validated /\ \E t \in Trigger : t.input = i /\ t.version = version /\ HasEvidence(t)

LEMMA WriteMoves ==
  ASSUME CaseTypeOK, LogTellsState, NEW to, NEW e, Writes(to, e)
  PROVE  /\ caseState' = to /\ caseState' \in CaseState /\ version' \in Nat /\ version' > 0
         /\ version' = IF to = "ANALYZING" THEN version ELSE version + 1
         /\ log' \in Seq(Event) /\ log' = Append(log, e)
         /\ LogTellsState' /\ CaseStep /\ LogGrows
<1>1. to \in CaseState /\ e \in Event /\ e.from = caseState /\ e.to = to
  BY DEF Writes, CaseState
<1>2. to # caseState => <<caseState, to>> \in AllowedMoves
  BY DEF Writes, AllowedMoves
<1>3. MoveCase(to, IF to # caseState THEN version + 1 ELSE version, e)
  BY DEF Writes
<1>4. /\ caseState' \in CaseState /\ version' \in Nat /\ version' > 0
      /\ log' \in Seq(Event) /\ LogTellsState' /\ CaseStep
  BY <1>1, <1>2, <1>3, CaseMoves
<1>5. log' = Append(log, e) /\ LogGrows
  BY <1>1, <1>3, Grows DEF MoveCase
<1> QED
  BY <1>3, <1>4, <1>5 DEF MoveCase, Writes

LEMMA WriteKeeps ==
  ASSUME AnalysisInv, HeldStays, NEW i, NEW n, NEW r, NEW to, NEW e,
         Touches(i, n, r), Writes(to, e), Accepts(i, r, to),
         i \in OversizedInput => r.status = "SKIPPED",
         e.type \in VerdictTypes <=> r.validated,
         e.type = "ANALYSIS_FAILED" => Exhausted(i)'
  PROVE  AnalysisInv'
<1> USE DEF AnalysisInv
<1>1. /\ caseState' = to /\ caseState' \in CaseState /\ version' \in Nat /\ version' > 0
      /\ version' = IF to = "ANALYZING" THEN version ELSE version + 1
      /\ log' \in Seq(Event) /\ log' = Append(log, e)
      /\ LogTellsState' /\ LogGrows
  BY WriteMoves
<1>2. CaseTypeOK'
  BY <1>1 DEF CaseTypeOK, CaseState, Accepts
<1>3. e \in Event /\ e.type \in AnalysisTypes /\ e.type \notin EvidenceTypes
  BY DEF Writes, AnalysisTypes, EvidenceTypes, VerdictTypes, Plan, NotReady, Ready
<1>4. \A k \in DOMAIN log' :
        log'[k].type \in EvidenceTypes => k \in DOMAIN log /\ log'[k] = log[k]
  BY <1>1, <1>3, Grows DEF LogGrows
<1>5. OneInput'
  BY <1>4 DEF OneInput
<1>6. Grounded'
  BY <1>1, GroundStays
<1>7. AnalysisTypeOK' /\ Skipped'
  BY Touched DEF HeldStays
<1>8. <<i, n>> \notin ValidatedRuns
      /\ ValidatedRuns' = IF r.validated THEN ValidatedRuns \cup {<<i, n>>} ELSE ValidatedRuns
  BY Touched
<1>9. /\ IsFiniteSet(ValidatedRuns') /\ Cardinality(ValidatedRuns) \in Nat
      /\ Cardinality(ValidatedRuns') =
           IF r.validated THEN Cardinality(ValidatedRuns) + 1 ELSE Cardinality(ValidatedRuns)
  BY <1>8, FS_AddElement, FS_CardinalityType
<1>10. Count(VerdictEvent)' =
         IF r.validated THEN Count(VerdictEvent) + 1 ELSE Count(VerdictEvent)
  BY <1>1, <1>3, CountNew DEF CaseTypeOK, VerdictEvent
<1>11. OneVerdict'
  <2>1. OneVerdict' <=> (Count(VerdictEvent) = Cardinality(ValidatedRuns))'
    BY <1>2, <1>7, OneVerdictIs, PTL
  <2> QED
    BY <1>9, <1>10, <2>1, OneVerdictIs
<1>12. FailureIsExhaustion'
  <2>1. Logged("ANALYSIS_FAILED")' <=> Logged("ANALYSIS_FAILED") \/ e.type = "ANALYSIS_FAILED"
    BY <1>1, <1>3, Grows
  <2>2. \A j \in Input : Exhausted(j) => Exhausted(j)'
    BY Touched
  <2> QED
    BY <2>1, <2>2 DEF FailureIsExhaustion, Exhausted, Touches
<1>13. AcceptedOnce'
  <2>1. (details' = NoDetails => approval' = "NONE")
        /\ (caseState' \in {"ABSENT", "RECEIVED", "NEEDS_INFORMATION"} => details' = NoDetails)
    BY <1>1 DEF Accepts, Writes
  <2>2. ASSUME to = "ANALYZING", details' # NoDetails, NEW k \in DOMAIN log',
               log'[k].type \in EvidenceTypes, log'[k].trigger.version = version'
        PROVE  \E j \in Input : j = log'[k].trigger.input /\ Validated(j)'
    <3>1. PICK t \in Trigger : t.input = i /\ t.version = version /\ HasEvidence(t)
      BY <2>2 DEF Accepts
    <3>2. log'[k].trigger = t
      BY <1>1, <1>4, <2>2, <3>1 DEF OneInput, HasEvidence, EvidenceTypes
    <3>3. r.validated
      BY <2>2 DEF Accepts
    <3>4. i \in Input /\ Validated(i)'
      BY <3>3, Touched DEF Touches
    <3> QED
      BY <3>1, <3>2, <3>4
  <2> QED
    BY <1>1, <2>1, <2>2 DEF AcceptedOnce, Validated, Latest
<1> QED
  BY <1>1, <1>2, <1>5, <1>6, <1>7, <1>9, <1>11, <1>12, <1>13

-----------------------------------------------------------------------------
(* The actions *)

(* As long as an analysis of this version is open, no details are accepted. *)
LEMMA OpenMeansNoDetails ==
  ASSUME AnalysisInv, NEW t, HasEvidence(t), ~Validated(t.input),
         caseState = "ANALYZING", version = t.version
  PROVE  details = NoDetails /\ approval = "NONE"
<1>1. PICK i \in DOMAIN log : log[i].type \in EvidenceTypes /\ log[i].trigger = t
  BY DEF HasEvidence, EvidenceTypes
<1>2. t.input # NoInput
  BY DEF HasEvidence
<1> QED
  BY <1>1, <1>2 DEF AnalysisInv, AcceptedOnce

(* The attempt a handler may finalize is the newest and in progress. *)
LEMMA HeldIsLatest ==
  ASSUME AnalysisInv, NEW h \in Handler, held[h] # NoRun, StillCurrent(h)
  PROVE  LET i == held[h].trigger.input IN
         /\ held[h] \in Held /\ i \in Input /\ i \notin OversizedInput
         /\ held[h].number = Len(runs[i])
         /\ LatestIs(i, "PROCESSING") /\ ~Validated(i)
         /\ HasEvidence(held[h].trigger)
<1> DEFINE i == held[h].trigger.input
<1>1. held[h] \in Held /\ i \in Input
  BY DEF AnalysisInv, AnalysisTypeOK, Held
<1>2. /\ i \notin OversizedInput /\ held[h].number \in DOMAIN runs[i]
      /\ HasEvidence(held[h].trigger)
  BY DEF AnalysisInv, Grounded
<1>3. Attempts(runs[i])
  BY <1>1, TypeOfAttempts DEF AnalysisInv
<1>4. held[h].number = Len(runs[i]) /\ runs[i] # <<>>
  BY <1>2, <1>3, AttemptsLast DEF StillCurrent, Attempts
<1>5. LatestIs(i, "PROCESSING") /\ ~Validated(i)
  BY <1>2, <1>3, <1>4 DEF StillCurrent, LatestIs, Latest, Validated, Attempts, WellFormed
<1> QED
  BY <1>1, <1>2, <1>4, <1>5

(* AcceptanceFits: the insert of a READY plan never conflicts with details   *)
(* that were accepted before.                                                *)
LEMMA AcceptanceAlwaysFits == AnalysisInv => AcceptanceFits
<1> SUFFICES ASSUME AnalysisInv, NEW h \in Handler, held[h] # NoRun, StillCurrent(h)
             PROVE  details = NoDetails /\ approval = "NONE"
  BY DEF AcceptanceFits
<1> QED
  BY HeldIsLatest, OpenMeansNoDetails DEF StillCurrent

(* What any step of the analysis does to the case: nothing, or one event, of *)
(* a version it has evidence of, before details are accepted.                *)
Accepting(to, e) ==
  \/ /\ details' = NoDetails /\ approval' = "NONE"
     /\ to \notin {"PENDING_APPROVAL", "READY_FOR_ACTION"}
     /\ e.type # "ANALYSIS_READY_FOR_RETRIEVAL"
  \/ \E kind \in Kind :
       /\ details' = [kind |-> kind, by |-> "SYSTEM_RULE"]
       /\ approval' = IF kind = "GUARDED" THEN "PENDING" ELSE "NONE"
       /\ kind = "GUARDED" => to = "PENDING_APPROVAL"
       /\ kind = "SAFE" => to = "READY_FOR_ACTION"
       /\ kind = "POLICY" <=> to = "ANALYZING"
       /\ kind = "POLICY" <=> e.type = "ANALYSIS_READY_FOR_RETRIEVAL"

CaseEffect ==
  \/ UNCHANGED caseVars
  \/ \E to, e : /\ Writes(to, e) /\ CaseStep
                /\ details = NoDetails /\ Accepting(to, e)
                /\ \E t : HasEvidence(t) /\ t.version = version

LEMMA EntryTypes ==
  ASSUME NEW to, NEW type,
         to \in {"ANALYZING", "NEEDS_INFORMATION", "NEEDS_REVIEW", "PENDING_APPROVAL",
                 "READY_FOR_ACTION", "REJECTED", "FAILED"},
         type \in AnalysisTypes
  PROVE  LET e == Entry(type, "ANALYZING", to) IN
         /\ e \in Event
         /\ e.from = "ANALYZING" /\ e.to = to /\ e.trigger = NoTrigger /\ e.type = type
<1>1. type \in {"ANALYSIS_NEEDS_INFORMATION", "ANALYSIS_NEEDS_REVIEW", "ANALYSIS_REJECTED",
               "APPROVAL_REQUESTED", "ANALYSIS_READY_FOR_RETRIEVAL", "ANALYSIS_READY",
               "ANALYSIS_ATTEMPT_RECOVERED", "ANALYSIS_FAILED", "ANALYSIS_RETRY_SCHEDULED"}
  BY DEF AnalysisTypes, VerdictTypes, Plan, NotReady, Ready
<1>2. type \in EventType
  BY <1>1 DEF EventType
<1>3. to \in CaseState
  BY DEF CaseState
<1> QED
  BY <1>2, <1>3 DEF Entry, Event, CaseState

LEMMA LeaseExpiryKeeps ==
  ASSUME AnalysisInv, NEW i \in Input, RunLeaseExpires(i)
  PROVE  AnalysisInv' /\ CaseEffect
<1> DEFINE s == runs[i]
           r == [s[Len(s)] EXCEPT !.expired = TRUE]
<1>1. AnalysisTypeOK /\ Attempts(s)
  BY TypeOfAttempts DEF AnalysisInv
<1>2. s # <<>> /\ s[Len(s)].status = "PROCESSING"
  BY DEF RunLeaseExpires, LatestIs, Latest
<1>3. WellFormed(s[Len(s)])
  BY <1>1, <1>2, AttemptsLast
<1>4. WellFormed(r) /\ ~r.validated
  BY <1>2, <1>3 DEF WellFormed, Run
<1>5. runs' = [runs EXCEPT ![i] = [runs[i] EXCEPT ![Len(runs[i])] = r]]
  BY DEF RunLeaseExpires
<1>6. Touches(i, Len(runs[i]), r)
  BY <1>1, <1>4, <1>5, PutTouches DEF RunLeaseExpires
<1>7. i \notin OversizedInput
  BY <1>1, <1>2, AttemptsLast DEF AnalysisInv, Skipped
<1>8. HeldStays /\ UNCHANGED caseVars
  BY <1>1 DEF HeldStays, AnalysisTypeOK, RunLeaseExpires
<1> QED
  BY <1>4, <1>6, <1>7, <1>8, QuietKeeps DEF CaseEffect

LEMMA DropKeeps ==
  ASSUME AnalysisInv, NEW h \in Handler, RejectLateAnswer(h) \/ HandlerDies(h)
  PROVE  AnalysisInv' /\ CaseEffect
<1>1. UNCHANGED <<runs, caseVars>> /\ held' = [held EXCEPT ![h] = NoRun]
  BY DEF RejectLateAnswer, HandlerDies
<1>2. HeldStays
  BY <1>1 DEF HeldStays, AnalysisInv, AnalysisTypeOK
<1> QED
  BY <1>1, <1>2, QuietKeeps DEF CaseEffect

(* FinishRun rewrites the attempt the handler still owns. *)
LEMMA FinishTouches ==
  ASSUME AnalysisInv, NEW h \in Handler, held[h] # NoRun, StillCurrent(h),
         NEW r, WellFormed(r), FinishRun(h, r)
  PROVE  /\ Touches(held[h].trigger.input, held[h].number, r)
         /\ HeldStays
<1> DEFINE i == held[h].trigger.input
<1>1. /\ i \in Input /\ held[h].number = Len(runs[i]) /\ LatestIs(i, "PROCESSING")
  BY HeldIsLatest
<1>2. runs' = [runs EXCEPT ![i] = [runs[i] EXCEPT ![Len(runs[i])] = r]]
  BY <1>1 DEF FinishRun
<1>3. Touches(i, Len(runs[i]), r)
  BY <1>1, <1>2, PutTouches DEF AnalysisInv
<1>4. HeldStays
  BY DEF HeldStays, AnalysisInv, AnalysisTypeOK, FinishRun
<1> QED
  BY <1>1, <1>3, <1>4

LEMMA RetryableFailureKeeps ==
  ASSUME AnalysisInv, NEW h \in Handler, FinalizeRetryableFailure(h)
  PROVE  AnalysisInv' /\ CaseEffect
<1> DEFINE n == held[h].number
           to == IF FinalAttempt(n) THEN "FAILED" ELSE "ANALYZING"
           type == IF FinalAttempt(n) THEN "ANALYSIS_FAILED" ELSE "ANALYSIS_RETRY_SCHEDULED"
           e == Entry(type, "ANALYZING", to)
<1>0. PICK i : i = held[h].trigger.input
  OBVIOUS
<1>1. /\ held[h] # NoRun /\ StillCurrent(h) /\ FinishRun(h, FailedRun)
      /\ caseState = "ANALYZING" /\ UNCHANGED acceptedVars
  BY DEF FinalizeRetryableFailure, StillCurrent
<1>2. WellFormed(FailedRun) /\ FailedRun.status = "FAILED" /\ ~FailedRun.validated
  BY DEF WellFormed, FailedRun, Run
<1>3. Touches(i, n, FailedRun) /\ HeldStays
  BY <1>0, <1>1, <1>2, FinishTouches
<1>4. i \notin OversizedInput /\ n = Len(runs[i]) /\ i \in Input
  BY <1>0, <1>1, HeldIsLatest
<1>5. type \in AnalysisTypes /\ type \notin VerdictTypes
  BY DEF AnalysisTypes, VerdictTypes, Plan, NotReady, Ready
<1>6. /\ e \in Event /\ e.from = "ANALYZING" /\ e.to = to
      /\ e.trigger = NoTrigger /\ e.type = type
  BY <1>5, EntryTypes
<1>7. MoveCase(to, IF to # caseState THEN version + 1 ELSE version, e)
  BY <1>1 DEF FinalizeRetryableFailure
<1> HIDE DEF e
<1>8. Writes(to, e)
  BY <1>1, <1>5, <1>6, <1>7 DEF Writes
<1>9. details = NoDetails /\ approval = "NONE"
  BY <1>1, AcceptanceAlwaysFits DEF AcceptanceFits
<1>10. Accepts(i, FailedRun, to)
  BY <1>1, <1>9 DEF Accepts, acceptedVars
<1>11. e.type = "ANALYSIS_FAILED" => Exhausted(i)'
  <2>1. ASSUME FinalAttempt(n) PROVE Exhausted(i)'
    BY <1>2, <1>3, <2>1 DEF Exhausted, Touches, FinalAttempt
  <2> QED
    BY <1>6, <2>1
<1>12. AnalysisInv'
  BY <1>2, <1>3, <1>4, <1>5, <1>6, <1>8, <1>10, <1>11, WriteKeeps
<1>13. CaseStep
  BY <1>8, WriteMoves DEF AnalysisInv
<1>14. HasEvidence(held[h].trigger) /\ held[h].trigger.version = version
  BY <1>1, HeldIsLatest DEF StillCurrent
<1>15. Accepting(to, e)
  BY <1>1, <1>6, <1>9 DEF Accepting, acceptedVars
<1> QED
  BY <1>8, <1>9, <1>12, <1>13, <1>14, <1>15 DEF CaseEffect

LEMMA ProviderResultKeeps ==
  ASSUME AnalysisInv, NEW h \in Handler, NEW plan \in Plan, FinalizeProviderResult(h, plan)
  PROVE  AnalysisInv' /\ CaseEffect
<1> DEFINE i == held[h].trigger.input
           r == ValidatedRun(plan.run)
           e == Entry(plan.type, caseState, plan.to)
<1>1. /\ held[h] # NoRun /\ StillCurrent(h) /\ FinishRun(h, r)
      /\ caseState = "ANALYZING" /\ AcceptDetails(plan)
  BY DEF FinalizeProviderResult, StillCurrent
<1>2. /\ plan.run \in {"COMPLETED", "INVALID_OUTPUT"}
      /\ plan.type \in VerdictTypes
      /\ plan.to \in {"ANALYZING", "NEEDS_INFORMATION", "NEEDS_REVIEW", "PENDING_APPROVAL",
                      "READY_FOR_ACTION", "REJECTED", "FAILED"}
      /\ plan.type # "ANALYSIS_FAILED"
      /\ plan.accepts \in Details \cup {NoDetails}
      /\ plan.to = "NEEDS_INFORMATION" => plan.accepts = NoDetails
      /\ plan.to = "ANALYZING" => plan.accepts.kind = "POLICY"
  BY DEF VerdictTypes, Plan, NotReady, Ready, Details, Kind
<1>3. WellFormed(r) /\ r.validated
  BY <1>2 DEF WellFormed, ValidatedRun, Run
<1> HIDE DEF r
<1>4. Touches(i, held[h].number, r) /\ HeldStays
  BY <1>1, <1>3, FinishTouches
<1>5. i \notin OversizedInput /\ HasEvidence(held[h].trigger) /\ held[h] \in Held
  BY <1>1, HeldIsLatest
<1>6. /\ e \in Event /\ e.from = "ANALYZING" /\ e.to = plan.to
      /\ e.trigger = NoTrigger /\ e.type = plan.type /\ plan.type \in AnalysisTypes
  BY <1>1, <1>2, EntryTypes DEF AnalysisTypes
<1>7. MoveCase(plan.to, IF plan.to # caseState THEN version + 1 ELSE version, e)
  BY DEF FinalizeProviderResult, VersionAfter
<1> HIDE DEF e
<1>8. Writes(plan.to, e)
  BY <1>1, <1>2, <1>6, <1>7 DEF Writes
<1>9. details = NoDetails /\ approval = "NONE"
  BY <1>1, AcceptanceAlwaysFits DEF AcceptanceFits
<1>10. /\ details' = plan.accepts
       /\ approval' = IF plan.accepts.kind = "GUARDED" THEN "PENDING" ELSE approval
  <2>1. NoDetails.kind # "GUARDED"
    BY DEF NoDetails
  <2> QED
    BY <1>1, <1>9, <2>1 DEF AcceptDetails, acceptedVars
<1>11. held[h].trigger \in [version : Nat, input : Input]
  BY <1>5 DEF Held
<1>12. \E t \in Trigger : t.input = i /\ t.version = version /\ HasEvidence(t)
  BY <1>1, <1>5, <1>11 DEF StillCurrent, Trigger
<1>13. Accepts(i, r, plan.to)
  BY <1>2, <1>3, <1>9, <1>10, <1>12 DEF Accepts, NoDetails
<1>14. AnalysisInv'
  BY <1>2, <1>3, <1>4, <1>5, <1>6, <1>8, <1>13, WriteKeeps
<1>15. CaseStep
  BY <1>8, WriteMoves DEF AnalysisInv
<1>16. Accepting(plan.to, e)
  <2>1. \/ plan.accepts = NoDetails /\ plan.to \notin {"PENDING_APPROVAL", "READY_FOR_ACTION"}
           /\ plan.type # "ANALYSIS_READY_FOR_RETRIEVAL"
        \/ \E kind \in Kind :
             /\ plan.accepts = [kind |-> kind, by |-> "SYSTEM_RULE"]
             /\ kind = "GUARDED" => plan.to = "PENDING_APPROVAL"
             /\ kind = "SAFE" => plan.to = "READY_FOR_ACTION"
             /\ kind = "POLICY" <=> plan.to = "ANALYZING"
             /\ kind = "POLICY" <=> plan.type = "ANALYSIS_READY_FOR_RETRIEVAL"
    BY DEF Plan, NotReady, Ready, Kind
  <2>2. NoDetails.kind # "GUARDED"
    BY DEF NoDetails
  <2> QED
    BY <1>6, <1>9, <1>10, <2>1, <2>2 DEF Accepting
<1> QED
  BY <1>8, <1>9, <1>12, <1>14, <1>15, <1>16 DEF CaseEffect

(* A request names what the log has evidence of. *)
LEMMA EvidenceIsTrigger ==
  ASSUME AnalysisInv, NEW t, HasEvidence(t)
  PROVE  t \in [version : Nat, input : Input] /\ t \in Trigger
<1>1. PICK i \in DOMAIN log : log[i].type \in EvidenceTypes /\ log[i].trigger = t
  BY DEF HasEvidence, EvidenceTypes
<1>2. t \in Trigger
  BY <1>1 DEF AnalysisInv, OneInput
<1> QED
  BY <1>2 DEF HasEvidence, Trigger

LEMMA ClaimKeeps ==
  ASSUME AnalysisInv, NEW h \in Handler, NEW t, ClaimAttempt(h, t)
  PROVE  AnalysisInv' /\ CaseEffect
<1> DEFINE i == t.input
           n == Len(runs[i]) + 1
           r == NewRun("PROCESSING")
           x == [trigger |-> t, number |-> n]
           e == Entry("ANALYSIS_ATTEMPT_RECOVERED", "ANALYZING", "ANALYZING")
<1>1. /\ held[h] = NoRun /\ MayAttempt(t) /\ Len(runs[i]) < MaxProviderAttempts
      /\ i \notin OversizedInput /\ log' = log \o RecoveryEvents(i)
      /\ runs' = [runs EXCEPT ![i] = Append(CloseAbandoned(i), r)]
      /\ held' = [held EXCEPT ![h] = x]
      /\ UNCHANGED <<caseState, version, acceptedVars>>
  BY DEF ClaimAttempt
<1>2. /\ HasEvidence(t) /\ ~Validated(i) /\ caseState = "ANALYZING" /\ version = t.version
  BY <1>1 DEF MayAttempt
<1>3. t \in [version : Nat, input : Input] /\ i \in Input
  BY <1>2, EvidenceIsTrigger
<1>4. AnalysisTypeOK /\ CaseTypeOK
  BY DEF AnalysisInv
<1>5. WellFormed(r) /\ ~r.validated
  BY DEF WellFormed, NewRun, Run
<1> HIDE DEF r
<1>6. Touches(i, n, r)
  BY <1>1, <1>2, <1>3, <1>4, <1>5, AddTouches
<1>7. details = NoDetails /\ approval = "NONE"
  BY <1>2, OpenMeansNoDetails
<1>8. n \in 1..MaxProviderAttempts /\ n \in DOMAIN runs'[i]
  BY <1>6 DEF Touches
<1> HIDE DEF n
<1>9. x \in Held
  BY <1>3, <1>8 DEF Held
<1>10. ASSUME log' = log \/ LogGrows PROVE HeldStays
  <2>1. HasEvidence(t)'
    <3>1. CASE log' = log
      BY <1>2, <3>1 DEF HasEvidence
    <3>2. CASE LogGrows
      BY <1>2, <3>2, EvidenceStays
    <3> QED
      BY <1>10, <3>1, <3>2
  <2>2. PICK y \in Held : y = x
    BY <1>9
  <2>3. y.trigger = t /\ y.number = n
    BY <2>2
  <2>4. Ground(y)'
    BY <1>1, <1>8, <2>1, <2>3 DEF Ground, HasEvidence
  <2>5. held' \in [Handler -> Held \cup {NoRun}] /\ held'[h] = y
        /\ \A g \in Handler : g # h => held'[g] = held[g]
    BY <1>1, <1>4, <2>2 DEF AnalysisTypeOK
  <2> QED
    BY <2>4, <2>5 DEF HeldStays
<1>11. CASE ~LatestIs(i, "PROCESSING")
  <2>1. log' = log
    BY <1>1, <1>4, <1>11 DEF RecoveryEvents, CaseTypeOK
  <2>2. UNCHANGED caseVars
    BY <1>1, <2>1 DEF caseVars
  <2> QED
    BY <1>1, <1>5, <1>6, <1>10, <2>1, <2>2, QuietKeeps DEF CaseEffect
<1>12. CASE LatestIs(i, "PROCESSING")
  <2>1. /\ e \in Event /\ e.from = "ANALYZING" /\ e.to = "ANALYZING"
        /\ e.trigger = NoTrigger /\ e.type = "ANALYSIS_ATTEMPT_RECOVERED"
        /\ e.type \in AnalysisTypes
    BY EntryTypes DEF AnalysisTypes
  <2>2. log' = log \o <<e>>
    BY <1>1, <1>12 DEF RecoveryEvents
  <2> HIDE DEF e
  <2>3. log' = Append(log, e)
    BY <1>4, <2>1, <2>2, AppendIsConcat DEF CaseTypeOK
  <2>4. MoveCase("ANALYZING", version, e)
    BY <1>1, <1>2, <2>3 DEF MoveCase
  <2>5. Writes("ANALYZING", e)
    BY <1>2, <2>1, <2>4 DEF Writes
  <2>6. LogGrows /\ CaseStep
    BY <2>5, WriteMoves DEF AnalysisInv
  <2>7. Accepts(i, r, "ANALYZING")
    BY <1>1, <1>7 DEF Accepts, acceptedVars
  <2>8. e.type \notin VerdictTypes
    BY <2>1 DEF VerdictTypes, Plan, NotReady, Ready
  <2>9. AnalysisInv'
    BY <1>1, <1>5, <1>6, <1>10, <2>1, <2>5, <2>6, <2>7, <2>8, WriteKeeps
  <2>10. Accepting("ANALYZING", e)
    BY <1>1, <1>7, <2>1 DEF Accepting, acceptedVars
  <2> QED
    BY <1>2, <1>7, <2>5, <2>6, <2>9, <2>10 DEF CaseEffect
<1> QED
  BY <1>11, <1>12

LEMMA SkipKeeps ==
  ASSUME AnalysisInv, NEW t, SkipOversized(t)
  PROVE  AnalysisInv' /\ CaseEffect
<1> DEFINE i == t.input
           r == NewRun("SKIPPED")
           e == Entry("ANALYSIS_NEEDS_REVIEW", "ANALYZING", "NEEDS_REVIEW")
<1>1. /\ MayAttempt(t) /\ Len(runs[i]) < MaxProviderAttempts /\ i \in OversizedInput
      /\ runs' = [runs EXCEPT ![i] = Append(@, r)]
      /\ UNCHANGED <<held, acceptedVars>>
  BY DEF SkipOversized
<1>2. /\ HasEvidence(t) /\ ~Validated(i) /\ caseState = "ANALYZING" /\ version = t.version
  BY <1>1 DEF MayAttempt
<1>3. MoveCase("NEEDS_REVIEW", IF "NEEDS_REVIEW" # caseState THEN version + 1 ELSE version, e)
  BY <1>2 DEF SkipOversized
<1>4. i \in Input /\ AnalysisTypeOK /\ Attempts(runs[i])
  BY <1>2, EvidenceIsTrigger, TypeOfAttempts DEF AnalysisInv
<1>5. ~LatestIs(i, "PROCESSING")
  BY <1>1, <1>4, AttemptsLast DEF LatestIs, Latest, AnalysisInv, Skipped
<1>6. WellFormed(r) /\ r.validated /\ r.status = "SKIPPED"
  BY DEF WellFormed, NewRun, Run
<1> HIDE DEF r
<1>7. runs' = [runs EXCEPT ![i] = Append(CloseAbandoned(i), r)]
  BY <1>1, <1>5 DEF CloseAbandoned
<1>8. Touches(i, Len(runs[i]) + 1, r)
  BY <1>1, <1>2, <1>4, <1>6, <1>7, AddTouches
<1>9. /\ e \in Event /\ e.from = "ANALYZING" /\ e.to = "NEEDS_REVIEW"
      /\ e.trigger = NoTrigger /\ e.type = "ANALYSIS_NEEDS_REVIEW"
      /\ e.type \in AnalysisTypes /\ e.type \in VerdictTypes
  <2>1. "ANALYSIS_NEEDS_REVIEW" \in VerdictTypes
    BY DEF VerdictTypes, Plan, NotReady
  <2> QED
    BY <2>1, EntryTypes DEF AnalysisTypes
<1> HIDE DEF e
<1>10. Writes("NEEDS_REVIEW", e)
  BY <1>2, <1>3, <1>9 DEF Writes
<1>11. details = NoDetails /\ approval = "NONE"
  BY <1>2, OpenMeansNoDetails
<1>12. Accepts(i, r, "NEEDS_REVIEW")
  BY <1>1, <1>11 DEF Accepts, acceptedVars
<1>13. HeldStays
  BY <1>1, <1>4 DEF HeldStays, AnalysisTypeOK
<1>14. AnalysisInv'
  BY <1>6, <1>8, <1>9, <1>10, <1>12, <1>13, WriteKeeps
<1>15. CaseStep
  BY <1>10, WriteMoves DEF AnalysisInv
<1>16. Accepting("NEEDS_REVIEW", e)
  BY <1>1, <1>9, <1>11 DEF Accepting, acceptedVars
<1> QED
  BY <1>2, <1>10, <1>11, <1>14, <1>15, <1>16 DEF CaseEffect

LEMMA FinalLeaseKeeps ==
  ASSUME AnalysisInv, NEW t, FailFinalLease(t)
  PROVE  AnalysisInv' /\ CaseEffect
<1>0. PICK i : i = t.input
  OBVIOUS
<1> DEFINE s == runs[i]
           r == [s[Len(s)] EXCEPT !.status = "FAILED"]
           e == Entry("ANALYSIS_FAILED", "ANALYZING", "FAILED")
<1>1. /\ MayAttempt(t) /\ LatestIs(i, "PROCESSING") /\ Len(runs[i]) = MaxProviderAttempts
      /\ runs' = [runs EXCEPT ![i] = [runs[i] EXCEPT ![Len(runs[i])] = r]]
      /\ UNCHANGED <<held, acceptedVars>>
  BY <1>0 DEF FailFinalLease, CloseAbandoned
<1>2. /\ HasEvidence(t) /\ ~Validated(i) /\ caseState = "ANALYZING" /\ version = t.version
  BY <1>0, <1>1 DEF MayAttempt
<1>3. MoveCase("FAILED", IF "FAILED" # caseState THEN version + 1 ELSE version, e)
  BY <1>2 DEF FailFinalLease
<1>4. i \in Input /\ AnalysisTypeOK /\ Attempts(s)
  BY <1>0, <1>2, EvidenceIsTrigger, TypeOfAttempts DEF AnalysisInv
<1>5. s # <<>> /\ s[Len(s)].status = "PROCESSING"
  BY <1>1 DEF LatestIs, Latest
<1>6. WellFormed(s[Len(s)]) /\ Len(s) \in DOMAIN s
  BY <1>4, <1>5, AttemptsLast
<1>7. WellFormed(r) /\ ~r.validated /\ r.status = "FAILED"
  BY <1>5, <1>6 DEF WellFormed, Run
<1> HIDE DEF r
<1>8. Touches(i, Len(runs[i]), r)
  BY <1>1, <1>4, <1>7, PutTouches
<1>9. /\ e \in Event /\ e.from = "ANALYZING" /\ e.to = "FAILED"
      /\ e.trigger = NoTrigger /\ e.type = "ANALYSIS_FAILED"
      /\ e.type \in AnalysisTypes
  BY EntryTypes DEF AnalysisTypes
<1> HIDE DEF e
<1>10. Writes("FAILED", e)
  BY <1>2, <1>3, <1>9 DEF Writes
<1>11. details = NoDetails /\ approval = "NONE"
  BY <1>0, <1>2, OpenMeansNoDetails
<1>12. Accepts(i, r, "FAILED")
  BY <1>1, <1>11 DEF Accepts, acceptedVars
<1>13. HeldStays
  BY <1>1, <1>4 DEF HeldStays, AnalysisTypeOK
<1>14. i \notin OversizedInput
  BY <1>5, <1>6 DEF AnalysisInv, Skipped
<1>15. Exhausted(i)'
  BY <1>1, <1>7, <1>8 DEF Exhausted, Touches
<1>16. e.type \notin VerdictTypes
  BY <1>9 DEF VerdictTypes, Plan, NotReady, Ready
<1>17. AnalysisInv'
  BY <1>7, <1>8, <1>9, <1>10, <1>12, <1>13, <1>14, <1>15, <1>16, WriteKeeps
<1>18. CaseStep
  BY <1>10, WriteMoves DEF AnalysisInv
<1>19. Accepting("FAILED", e)
  BY <1>1, <1>9, <1>11 DEF Accepting, acceptedVars
<1> QED
  BY <1>2, <1>10, <1>11, <1>17, <1>18, <1>19 DEF CaseEffect

(* Every step of the analysis keeps the invariant, and moves the case by one *)
(* of its own events or not at all.                                          *)
Request(h, t) == ClaimAttempt(h, t) \/ SkipOversized(t) \/ FailFinalLease(t)

LEMMA AnalysisKeeps ==
  ASSUME AnalysisInv, AnalysisStep \/ \E h \in Handler : \E t : Request(h, t)
  PROVE  AnalysisInv' /\ CaseEffect
<1>1. CASE AnalysisStep
  BY <1>1, LeaseExpiryKeeps, DropKeeps, RetryableFailureKeeps, ProviderResultKeeps
     DEF AnalysisStep
<1>2. CASE \E h \in Handler : \E t : Request(h, t)
  BY <1>2, ClaimKeeps, SkipKeeps, FinalLeaseKeeps DEF Request
<1> QED
  BY <1>1, <1>2

-----------------------------------------------------------------------------
(* Steps of other components that move the case *)

(* The evidence a new event brings is of a version that had none, or it      *)
(* repeats evidence of the version.                                          *)
LEMMA NewEvidence ==
  ASSUME CaseTypeOK, OneInput, NEW e \in Event, log' = Append(log, e),
         e.type \in EvidenceTypes =>
           /\ e.trigger \in Trigger
           /\ \A k \in DOMAIN log :
                log[k].type \in EvidenceTypes /\ log[k].trigger.version = e.trigger.version
                  => log[k].trigger = e.trigger
  PROVE  OneInput'
<1>1. /\ \A k \in DOMAIN log' : (k \in DOMAIN log /\ log'[k] = log[k]) \/ log'[k] = e
  BY Grows DEF LogGrows
<1> SUFFICES ASSUME NEW k \in DOMAIN log', NEW l \in DOMAIN log',
                    log'[k].type \in EvidenceTypes, log'[l].type \in EvidenceTypes
             PROVE  /\ log'[k].trigger \in Trigger
                    /\ log'[k].trigger.version = log'[l].trigger.version =>
                         log'[k].trigger = log'[l].trigger
  BY DEF OneInput
<1>2. CASE log'[k] = e
  BY <1>1, <1>2
<1>3. CASE k \in DOMAIN log /\ log'[k] = log[k]
  BY <1>1, <1>3 DEF OneInput
<1> QED
  BY <1>1, <1>2, <1>3

LEMMA OthersKeep ==
  ASSUME AnalysisInv, UNCHANGED analysisVars,
         NEW to \in CaseState, NEW e \in Event, NEW v,
         MoveCase(to, v, e),
         v = IF to # caseState THEN version + 1 ELSE version,
         e.from = caseState, e.to = to,
         to # caseState => <<caseState, to>> \in AllowedMoves,
         e.type \notin VerdictTypes \cup {"ANALYSIS_FAILED"},
         e.type \in EvidenceTypes =>
           /\ e.trigger \in Trigger
           /\ \A k \in DOMAIN log :
                log[k].type \in EvidenceTypes /\ log[k].trigger.version = e.trigger.version
                  => log[k].trigger = e.trigger,
         details' \in Details \cup {NoDetails},
         approval' \in {"NONE", "PENDING", "APPROVED", "REJECTED"},
         AcceptedOnce'
  PROVE  AnalysisInv' /\ CaseStep /\ LogGrows /\ log' = Append(log, e) /\ version' > 0
<1> USE DEF AnalysisInv
<1>1. /\ caseState' \in CaseState /\ version' \in Nat /\ version' > 0
      /\ log' \in Seq(Event) /\ LogTellsState' /\ CaseStep
  BY CaseMoves
<1>2. CaseTypeOK'
  BY <1>1 DEF CaseTypeOK, CaseState
<1>3. log' = Append(log, e) /\ LogGrows
  BY Grows DEF MoveCase
<1>4. OneInput'
  BY <1>3, NewEvidence
<1>5. held' = held /\ runs' = runs /\ held' \in [Handler -> Held \cup {NoRun}]
  BY DEF analysisVars, AnalysisTypeOK
<1>6. AnalysisTypeOK' /\ OneVerdict' /\ FailureIsExhaustion' /\ Skipped'
        /\ IsFiniteSet(ValidatedRuns)'
  BY <1>2, <1>3, <1>5, OthersKeepVerdicts
<1>7. Grounded'
  <2>1. HeldStays
    BY <1>5 DEF HeldStays
  <2> QED
    BY <1>3, <1>5, <2>1, GroundStays
<1> QED
  BY <1>1, <1>2, <1>3, <1>4, <1>6, <1>7

LEMMA InitKeeps == CaseInit /\ AnalysisInit => AnalysisInv
<1> SUFFICES ASSUME CaseInit, AnalysisInit PROVE AnalysisInv
  OBVIOUS
<1>1. log = <<>> /\ DOMAIN log = {} /\ log \in Seq(Event)
  BY EmptySeq DEF CaseInit
<1>2. CaseTypeOK
  BY <1>1 DEF CaseTypeOK, CaseInit, NoDetails
<1>3. \A i \in Input : Attempts(runs[i]) /\ DOMAIN runs[i] = {}
  <2>1. MaxProviderAttempts \in Nat /\ <<>> \in Seq(Run) /\ Len(<<>>) = 0
    BY AnalysisAssumption, EmptySeq
  <2> QED
    BY <2>1 DEF Attempts, AnalysisInit
<1>4. AnalysisTypeOK
  <2>1. runs \in [Input -> Seq(Run)] /\ held \in [Handler -> Held \cup {NoRun}]
    BY EmptySeq DEF AnalysisInit
  <2> QED
    BY <1>3, <2>1, TypeOfAttempts
<1>5. \A W : Count(W) = 0
  BY <1>1, CountNone
<1>6. LogTellsState
  <2>1. version = Cardinality({i \in DOMAIN log : log[i].from # log[i].to})
    BY <1>1, <1>5, CountsChanges DEF CaseInit
  <2> QED
    BY <1>1, <2>1 DEF LogTellsState
<1>7. ValidatedRuns = {}
  BY <1>3 DEF ValidatedRuns
<1>8. IsFiniteSet(ValidatedRuns) /\ Cardinality(ValidatedRuns) = 0
  BY <1>7, FS_EmptySet
<1>9. OneVerdict
  BY <1>2, <1>4, <1>5, <1>8, OneVerdictIs
<1>10. Skipped
  BY <1>3, AnalysisAssumption DEF Skipped
<1>11. Grounded
  BY DEF Grounded, AnalysisInit
<1>12. OneInput /\ FailureIsExhaustion
  BY <1>1 DEF OneInput, FailureIsExhaustion, Logged
<1>13. AcceptedOnce
  BY <1>1 DEF AcceptedOnce, CaseInit
<1> QED
  BY <1>2, <1>4, <1>6, <1>8, <1>9, <1>10, <1>11, <1>12, <1>13 DEF AnalysisInv

=============================================================================

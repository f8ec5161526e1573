SPECIFICATION Spec
CONSTANTS
  text = text
  more = more
  long = long
  h1 = h1
  h2 = h2
  r1 = r1
  r2 = r2
  Input = {text, more, long}
  Original = text
  OversizedInput = {long}
  NoInput = NoInput
  NoTrigger = NoTrigger
  NoRun = NoRun
  Handler = {h1, h2}
  Retriever = {r1, r2}
  MaxProviderAttempts = 2
  MaxVersion = 8
  Message <- MCMessage
INVARIANTS HumanTypeOK LogTellsState ActionIsAuthorized EveryDecisionResumed
           OneEffectPerDecision AcceptanceFits RetrievalUndisturbed
PROPERTIES Lifecycle KeepsPromise
CHECK_DEADLOCK FALSE

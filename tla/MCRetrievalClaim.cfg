SPECIFICATION FairSpec
CONSTANTS
  text = text
  more = more
  long = long
  h1 = h1
  h2 = h2
  r1 = r1
  r2 = r2
  Input = {text}
  Original = text
  OversizedInput = {}
  NoInput = NoInput
  NoTrigger = NoTrigger
  NoRun = NoRun
  Handler = {h1}
  Retriever = {r1, r2}
  MaxProviderAttempts = 2
  MaxVersion = 3
  Message <- MCMessage
PROPERTY RetrievalEnds
CHECK_DEADLOCK FALSE

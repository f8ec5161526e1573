SPECIFICATION Spec
CONSTANTS
  text = text
  more = more
  long = long
  h1 = h1
  h2 = h2
  r1 = r1
  r2 = r2
  Input = {text, more}
  Original = text
  OversizedInput = {}
  NoInput = NoInput
  NoTrigger = NoTrigger
  NoRun = NoRun
  Handler = {h1}
  Retriever = {r1}
  MaxProviderAttempts = 2
  MaxVersion = 6
  Message <- MCMessage
INVARIANT FreshIdentity
CHECK_DEADLOCK FALSE

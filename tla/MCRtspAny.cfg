SPECIFICATION Spec
CONSTANTS
  Key = {k1, k2}
  Obj = {o1, o2}
  Sess = {s1}
  Handler = {h1, h2}
  Track = {"video"}
  DeadAfter = 0
  Ordered = FALSE
  NoObj = NoObj
  NoSess = NoSess
  NoHandler = NoHandler
  NoKey = NoKey
INVARIANTS
  OneStreamPerKey
  SetUpHasStream
PROPERTIES
  ServerReturns

SPECIFICATION Spec
CONSTANTS
  Key = {k1}
  Obj = {o1,o2,o3}
  Sess = {s1,s2}
  Handler = {h1,h2,h3,h4,h5}
  Track = {"video", "audio"}
  DeadAfter = 0
  Ordered = TRUE
  NoObj = NoObj
  NoSess = NoSess
  NoHandler = NoHandler
  NoKey = NoKey
SYMMETRY Symmetry
INVARIANTS
  TypeOK
  CallsLiveSession
  NothingLeftBehind
PROPERTIES
  WatchedStreamStays
  ViewersStayRegistered

SPECIFICATION Spec
CONSTANTS
  Bytes <- MCBytes
  Rtcp = {"rtcp"}
  Verb <- MCVerb
  Messages <- MCMessages
  ReadMax = 20
INVARIANTS
  TypeOK
  CutsDoNotMatter
  OnlyIdleRtcpRefused
CHECK_DEADLOCK FALSE

SPECIFICATION FairSpec
CONSTANTS
  c1 = c1
  c2 = c2
  Conn <- MCConn
  MaxTimeout = 1
  Grace = 1
  OutCap = 2
  SockCap = 1
  Uses <- MCUses
  MaxRequest <- MCMaxRequest
INVARIANTS
  TypeOK
PROPERTIES
  NotTimedOutEarly
  SilentLetGo
  RepliesArrive
CHECK_DEADLOCK FALSE

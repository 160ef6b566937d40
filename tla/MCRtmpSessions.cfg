SPECIFICATION Spec
CONSTANTS
  Dest = {d1}
  Stream = {main}
  StreamOf <- MCStreamOf
  BodyLen = {1, 2}
  Cap = 5
  MaxFrame = 4
  NoDest = NoDest
INVARIANTS
  TypeOK
  Playable
  RecordsIntact
  ErasedIsOver
PROPERTIES
  ManagerReturns

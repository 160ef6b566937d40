SPECIFICATION FairSpec
CONSTANTS
  r1 = r1
  Rec <- MCRec
  NoSave = NoSave
  BodyLen <- MCBodyLen
  Cap = 7
  MaxFrame = 4
INVARIANTS
  TypeOK
  WriterHasFile
  NobodyDismantled
PROPERTIES
  ImplementsFrameLog
  ExitCompletes
  FollowedFrameFiled
CHECK_DEADLOCK FALSE

SPECIFICATION Spec
CONSTANTS
  Cam = {c1, c2}
  Thread = {t1, t2}
  NoThread = NoThread
  NoCam = NoCam
  NoConfig = NoConfig
  NoStream = NoStream
  Config <- MCConfig
  StreamCfg <- MCStreamCfg
  MaxCameras = 2
  IdsPerCamera = 1
  Calls = {}
  MaxVi = 2
  MaxVpss = 1
  MaxVenc = 2
  MaxH264 = 1
  MaxH265 = 2
INVARIANTS
  TypeOK
  AvailableIffGranted
  ExclusiveOwnership
  HeldIsAllocated
  AllocatedIsHeld
  StoppedHoldsNothing
  RunningIsComplete
  OneThreadPerCamera
PROPERTIES
  ImplementsLease
  CameraLockReleased

SPECIFICATION Spec
CONSTANTS
  Cam = {c1, c2}
  Thread = {t1, t2}
  NoThread = NoThread
  NoCam = NoCam
  NoConfig = NoConfig
  NoStream = NoStream
  Config <- ConfigE
  StreamCfg <- StreamsE
  MaxCameras = 1
  IdsPerCamera = 1
  Calls = {"create_stream", "destroy_stream", "drop_ref", "release"}
  MaxVi = 2
  MaxVpss = 2
  MaxVenc = 3
  MaxH264 = 2
  MaxH265 = 1
SYMMETRY Symmetry
INVARIANTS
  ReleasedRegistryIsEmpty
  NothingHeldUninitialized
  TypeLimitsRespected
CHECK_DEADLOCK FALSE

SPECIFICATION Spec
CONSTANTS
  Cam = {c1, c2}
  Thread = {t1, t2}
  NoThread = NoThread
  NoCam = NoCam
  NoConfig = NoConfig
  NoStream = NoStream
  Config <- ConfigE
  StreamCfg <- StreamsA
  MaxCameras = 2
  IdsPerCamera = 1
  Calls = {}
  MaxVi = 2
  MaxVpss = 2
  MaxVenc = 2
  MaxH264 = 2
  MaxH265 = 1
SYMMETRY Symmetry
INVARIANTS
  PipelineHasMode

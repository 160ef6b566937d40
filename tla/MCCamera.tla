------------------------------ MODULE MCCamera ------------------------------
(***************************************************************************)
(* Small instances of the cameras: two camera objects, two threads.        *)
(* A has one stream of each type, B one stream and an explicit id, E one   *)
(* stream and no id, V a VBR encoder as its second stream (accepted by the *)
(* validation, refused by stream_instance::start), W a "_WDR" sensor name  *)
(* (accepted by the validation, refused by init_vi).                       *)
(***************************************************************************)
EXTENDS CameraLease, TLC

S(id, enc) == [id |-> id, enc |-> enc, valid |-> TRUE]
C(id, sensor, ss) ==
  [id |-> id, enabled |-> TRUE, sensor |-> sensor, streams |-> ss,
   mode |-> IF sensor = "plain" THEN "liner" ELSE "2to1wdr"]

MCStreamCfg == {S(0, "H264"), S(1, "H264"), S(1, "H265"), S(1, "H265_VBR")}
CfgA == C(-1, "plain", <<S(0, "H264"), S(1, "H265")>>)
CfgB == C(0, "plain", <<S(0, "H264")>>)
CfgE == C(-1, "plain", <<S(0, "H264")>>)
CfgV == C(-1, "plain", <<S(0, "H264"), S(1, "H265_VBR")>>)
CfgW == C(0, "wdr_name", <<S(0, "H264")>>)

MCConfig == {CfgA, CfgB, CfgV, CfgW}
ConfigE == {CfgE}
StreamsE == {S(0, "H264")}
StreamsA == {S(0, "H264"), S(1, "H265")}

Symmetry == Permutations(Cam) \cup Permutations(Thread)
=============================================================================

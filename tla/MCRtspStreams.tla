--------------------------- MODULE MCRtspStreams ---------------------------
EXTENDS RtspStreams
Symmetry == Permutations(Obj) \cup Permutations(Handler) \cup Permutations(Sess)
=============================================================================

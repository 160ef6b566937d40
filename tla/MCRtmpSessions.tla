--------------------------- MODULE MCRtmpSessions ---------------------------
EXTENDS RtmpSessions
\* Every session publishes the only stream.
MCStreamOf == [d \in Dest |-> CHOOSE s \in Stream : TRUE]
=============================================================================

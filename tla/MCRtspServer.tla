---------------------------- MODULE MCRtspServer ----------------------------
(* One client that watches, and one that only asks and keeps the server     *)
(* busy.                                                                    *)
EXTENDS RtspServer

CONSTANTS c1, c2

MCConn == {c1, c2}
MCUses == [c \in MCConn |-> IF c = c1 THEN Request ELSE {"ask"}]
MCMaxRequest == [c \in MCConn |-> IF c = c1 THEN 3 ELSE 1]
=============================================================================

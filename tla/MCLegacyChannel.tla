-------------------------- MODULE MCLegacyChannel --------------------------
(* One recorder, as main makes it.                                          *)
EXTENDS LegacyChannel, TLC

CONSTANT r1

MCRec == {r1}
MCBodyLen == {1, 2}
=============================================================================

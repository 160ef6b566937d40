------------------------------ MODULE FrameLog ------------------------------
(***************************************************************************)
(* What a recorder promises: the file gets the frames that were accepted,  *)
(* in their order, each once, none in between left out.  When the          *)
(* recording ends some of the accepted frames may not have got there.      *)
(***************************************************************************)
EXTENDS Naturals, Sequences

CONSTANTS
  Rec,     \* recordings
  Content  \* what a frame is to the recorder

VARIABLES
  taken,   \* per recording, the frames that were accepted
  filed    \* per recording, the frames in the file

logVars == <<taken, filed>>

LogInit ==
  /\ taken = [r \in Rec |-> <<>>]
  /\ filed = [r \in Rec |-> <<>>]

Begin(r) ==
  /\ taken' = [taken EXCEPT ![r] = <<>>]
  /\ filed' = [filed EXCEPT ![r] = <<>>]

Accept(r) ==
  /\ \E f \in Content : taken' = [taken EXCEPT ![r] = Append(@, f)]
  /\ UNCHANGED filed

File(r) ==
  /\ Len(filed[r]) < Len(taken[r])
  /\ filed' = [filed EXCEPT ![r] = Append(@, taken[r][Len(@) + 1])]
  /\ UNCHANGED taken

LogNext == \E r \in Rec : Begin(r) \/ Accept(r) \/ File(r)

LogSpec == LogInit /\ [][LogNext]_logVars
=============================================================================

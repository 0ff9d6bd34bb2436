-------------------------- MODULE MC_WriterHelpers --------------------------
(***************************************************************************)
(* The two writer helpers that find index entries, one stream each: of     *)
(* closed and open MPEG-2 GOPs, or of AVC GOPs whose frames are held back  *)
(* by none, one, two or more frames, with B frames before the IDR frame,   *)
(* and with a picture order count that comes twice.                        *)
(***************************************************************************)
EXTENDS MPEG2LGWriterHelper, AVCWriterHelper

Frame(t, r) == [type |-> t, ref |-> r]
MCShapes ==
  {[closed |-> TRUE,  frames |-> <<Frame("I", 0), Frame("P", 3), Frame("B", 1), Frame("B", 2)>>],
   [closed |-> FALSE, frames |-> <<Frame("I", 2), Frame("B", 0), Frame("B", 1), Frame("P", 4), Frame("B", 3)>>]}

Picture(t, o) == [type |-> t, order |-> o]
MCAVCShapes ==
  {[idr |-> TRUE, frames |-> <<Picture("I", 0), Picture("P", 3), Picture("B", 1), Picture("B", 2)>>],
   [idr |-> TRUE, frames |-> <<Picture("I", 0), Picture("B", -1), Picture("P", 2), Picture("P", 1)>>],
   [idr |-> FALSE, frames |-> <<Picture("I", 2), Picture("B", 0), Picture("B", 1), Picture("P", 4), Picture("B", 3)>>],
   [idr |-> FALSE, frames |-> <<Picture("I", 3), Picture("P", 2), Picture("B", 1), Picture("B", 0)>>],
   [idr |-> FALSE, frames |-> <<Picture("I", 0), Picture("P", 2), Picture("B", 2)>>]}
MCOffsetMin == -3
MCNoKeyFrame == -100

VARIABLE part  \* the helper that the stream is for

MCInit == part \in {"mpeg2", "avc"} /\ Init /\ AVCInit
MCNext ==
  /\ UNCHANGED part
  /\ \/ part = "mpeg2" /\ Next /\ UNCHANGED avcVars
     \/ part = "avc" /\ AVCNext /\ UNCHANGED vars
MCSpec == MCInit /\ [][MCNext]_<<part, vars, avcVars>>
=============================================================================

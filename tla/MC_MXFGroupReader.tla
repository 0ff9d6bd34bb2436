------------------------ MODULE MC_MXFGroupReader ------------------------
(* Instances of MXFGroupReader: complete picture and sound files of         *)
(* different lengths, the sound in a sequence of two counts; a picture with *)
(* precharge; growing files, in a group and as essence of one file with an  *)
(* external one.                                                            *)
EXTENDS MXFGroupReader, TLC

CONSTANTS Picture, Sound, Data
MCTrack == {Picture, Sound, Data}
MCSampleSequence == (Picture :> <<1>>) @@ (Data :> <<1>>) @@ (Sound :> <<2, 1>>)
MCSampleOffset ==
  [t \in {Picture, Data} |-> [i \in 0 .. 1 |-> i]]
    @@ (Sound :> [i \in 0 .. 2 |-> <<0, 2, 3>>[i + 1]])
MCPastEnd == [t \in MCTrack |-> 0]

Complete ==
  [members |-> <<Picture, Sound>>, internal |-> FALSE, growing |-> FALSE,
   origin |-> [t \in MCTrack |-> 0],
   size |-> (Picture :> 5) @@ (Sound :> 6) @@ (Data :> 4),
   start |-> 1, duration |-> 4]
SoundFirst == [Complete EXCEPT !.members = <<Sound, Picture>>, !.start = 0]
Precharge ==
  [Complete EXCEPT !.members = <<Picture, Data>>, !.origin[Picture] = 2,
                   !.start = -2, !.duration = 5]
SoundPrecharge == [Precharge EXCEPT !.members = <<Picture, Sound>>, !.start = -1]
GrowingGroup ==
  [Complete EXCEPT !.growing = TRUE, !.start = 0, !.size = (Picture :> 3) @@ (Sound :> 4)]
GrowingFile ==
  [GrowingGroup EXCEPT !.members = <<Picture, Data>>, !.internal = TRUE,
                       !.size = (Picture :> 3) @@ (Data :> 3)]

MCConfigs == {Complete, SoundFirst, Precharge, GrowingGroup, GrowingFile}
MCRetryConfigs == {GrowingGroup}
MCPrechargeConfigs == {SoundPrecharge}
=============================================================================

---------------------------- MODULE MC_OP1AFile ----------------------------
(* Instances of OP1AFile: a variable table for AVC and sound in body        *)
(* partitions, or MPEG-2 and repeated in its own; a constant one for        *)
(* AVC-Intra, with a first edit unit of its own size, before the essence,   *)
(* after it, and in a single pass.                                          *)
EXTENDS OP1AFile

Variable ==
  [elements |-> <<"picture", "sound">>, cbe |-> {"sound"}, avci |-> FALSE,
   mpeg2 |-> FALSE, repeat |-> FALSE, inputDuration |-> NoDuration, partitions |-> "body",
   follows |-> FALSE, interval |-> 1, frames |-> 6,
   sizes |-> [p \in 0 .. 5 |-> <<1 + (p % 3), 1>>]]

Separate == [Variable EXCEPT !.mpeg2 = TRUE, !.partitions = "separate", !.repeat = TRUE]

AVCIntra ==
  [Separate EXCEPT !.cbe = {"picture", "sound"}, !.avci = TRUE, !.repeat = FALSE,
                   !.interval = 2, !.frames = 4,
                   !.sizes = [p \in 0 .. 3 |-> <<IF p = 0 THEN 3 ELSE 2, 1>>]]
EvenSizes == [AVCIntra EXCEPT !.sizes = [p \in 0 .. 3 |-> <<2, 1>>]]
InHeader == [AVCIntra EXCEPT !.partitions = "body", !.repeat = TRUE]
Follows == [AVCIntra EXCEPT !.follows = TRUE]
SinglePassWrite ==
  [AVCIntra EXCEPT !.inputDuration = 3, !.interval = 0, !.partitions = "minimal"]

MCConfigs == {Variable, Separate, AVCIntra, EvenSizes, InHeader, Follows, SinglePassWrite}
MCIntervalConfigs == {[AVCIntra EXCEPT !.interval = 1]}

(* What the proof supposes of the frames holds of these.                    *)
ASSUME RegularAssumption == \A c \in Configs : Regular(c)

MCGOPStart == {0, 2, 3}
MCFinal == [p \in 0 .. 5 |->
  [temporal |-> <<0, 1, -1, 0, 1, -1>>[p + 1], key |-> <<0, 1, 2, 0, 1, 2>>[p + 1]]]
=============================================================================

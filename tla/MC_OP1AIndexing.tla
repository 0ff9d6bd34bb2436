-------------------------- MODULE MC_OP1AIndexing --------------------------
(* Instances of OP1AIndexing: a variable table for data, picture and sound  *)
(* elements with two GOPs in coding order I P B and I P; one for MPEG-2     *)
(* picture and sound that is repeated, with any partitions; a constant one  *)
(* for AVC-Intra picture and sound, repeated, with and without a duration   *)
(* known beforehand; and a clip wrapped sound element.                      *)
EXTENDS OP1AIndexing

Variable ==
  [elements |-> <<"data", "picture", "sound">>, cbe |-> {"sound"}, avci |-> FALSE,
   repeat |-> FALSE, inputDuration |-> NoDuration, sizes |-> {<<1, 2, 1>>, <<2, 1, 1>>},
   mpeg2 |-> FALSE, partitions |-> "body", clip |-> FALSE,
   editUnits |-> 5, samples |-> 1]

Repeated ==
  [Variable EXCEPT !.elements = <<"picture", "sound">>, !.sizes = {<<1, 1>>, <<2, 1>>},
                   !.repeat = TRUE, !.mpeg2 = TRUE, !.partitions = "separate",
                   !.editUnits = 4]

InBody == [Repeated EXCEPT !.partitions = "body"]
Minimal == [Repeated EXCEPT !.partitions = "minimal"]

AVCIntra ==
  [Repeated EXCEPT !.cbe = {"picture", "sound"}, !.avci = TRUE,
                   !.sizes = {<<3, 1>>, <<2, 1>>}, !.editUnits = 6]

SinglePass == [AVCIntra EXCEPT !.inputDuration = 4]

Clip ==
  [Variable EXCEPT !.elements = <<"sound">>, !.cbe = {"sound"}, !.sizes = {<<2>>, <<3>>},
                   !.partitions = "separate", !.clip = TRUE, !.editUnits = 7, !.samples = 3]

MCConfigs == {Variable, Repeated, InBody, Minimal, AVCIntra, SinglePass, Clip}
MCClipConfigs == {[Clip EXCEPT !.sizes = {<<2>>}]}

(* Display order: the P of a GOP is shown after the B that is coded next.   *)
MCFinal == [p \in 0 .. 4 |->
  [temporal |-> <<0, 1, -1, 0, 0>>[p + 1], key |-> <<0, 1, 1, 0, 1>>[p + 1]]]
MCGOPStart == {0, 3}
=============================================================================

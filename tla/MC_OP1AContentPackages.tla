----------------------- MODULE MC_OP1AContentPackages -----------------------
(* Instances of OP1AContentPackages: a picture track with one sample per    *)
(* package, and a sound track that alternates two counts as the five frame  *)
(* sequence of 48 kHz sound at 29.97 Hz does.  Instances of                 *)
(* SoundSequencePackages: three counts, of which each rotation differs.     *)
EXTENDS OP1AContentPackages, SoundSequencePackages, TLC

CONSTANTS Picture, Sound

MCTrack == {Picture, Sound}
MCSampleSequence == (Picture :> <<1>>) @@ (Sound :> <<2, 1>>)
MCSampleOffset ==
  (Picture :> [i \in 0 .. 1 |-> i]) @@ (Sound :> [i \in 0 .. 2 |-> <<0, 2, 3>>[i + 1]])

Two == {"sound1", "sound2"}
D10(phase) ==
  [format |-> "d10", sequence |-> <<2, 1, 2>>, sounds |-> DOMAIN phase, phase |-> phase,
   preset |-> FALSE, data |-> {}, timecode |-> FALSE]
RDD9(phase) == [D10(phase) EXCEPT !.format = "rdd9"]
Same(sounds, p) == [s \in sounds |-> p]

MCPackageConfigs ==
  UNION {{D10(Same(Two, p)), RDD9(Same(Two, p)),
          [D10(Same({"sound1"}, p)) EXCEPT !.timecode = TRUE],
          [RDD9(Same({"sound1"}, p)) EXCEPT !.timecode = TRUE, !.data = {"data"}],
          [D10(Same({"sound1"}, p)) EXCEPT !.preset = TRUE],
          [RDD9(Same(Two, p)) EXCEPT !.preset = TRUE]} : p \in 0 .. 2}
  \cup {D10("sound1" :> 0 @@ "sound2" :> 2), D10(Same({}, 0)),
        [D10(Same(Two, 0)) EXCEPT !.sequence = <<2>>],
        RDD9(Same({"sound1"}, 0))}

VARIABLE part  \* the format whose manager is at work

MCVars == <<part, vars, packagesVars>>
MCInit ==
  /\ part \in {"op1a", "others"} /\ Init /\ PackagesInit
  /\ part = "op1a" => layout = CHOOSE c \in PackageConfigs : TRUE
MCNext ==
  /\ UNCHANGED part
  /\ \/ part = "op1a" /\ Next /\ UNCHANGED packagesVars
     \/ part = "others" /\ PackagesNext /\ UNCHANGED vars
MCSpec ==
  MCInit /\ [][MCNext]_MCVars /\ WF_vars(WriteSamplesLoop) /\ WF_vars(WriteNextContentPackage)
=============================================================================

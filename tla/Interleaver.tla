---------------------------- MODULE Interleaver ----------------------------
(***************************************************************************)
(* What the essence container writers promise.  Every track is a stream of *)
(* samples, submitted in calls of any size and in any order between the    *)
(* tracks.  The file is a sequence of content packages that depends on the *)
(* streams alone: package p holds, for every track, exactly the samples    *)
(* that the track's sample sequence assigns to p, in order, and it is      *)
(* written only once they have all been submitted.                         *)
(***************************************************************************)
EXTENDS SampleSequences

VARIABLES
  accepted,  \* per track, the number of samples submitted so far
  file       \* the content packages written, each a function of the track

vars == <<accepted, file>>

Init == /\ accepted = [t \in Track |-> 0]
        /\ file = <<>>

Submit == \E t \in Track :
            /\ accepted'[t] > accepted[t]
            /\ accepted' = [accepted EXCEPT ![t] = accepted'[t]]
            /\ UNCHANGED file

Emit == /\ \A t \in Track : SamplesBefore(t, Len(file) + 1) <= accepted[t]
        /\ file' = Append(file, [t \in Track |-> Span(t, Len(file))])
        /\ UNCHANGED accepted

Next == Submit \/ Emit

Spec == Init /\ [][Next]_vars
=============================================================================

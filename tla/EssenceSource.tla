--------------------------- MODULE EssenceSource ---------------------------
(***************************************************************************)
(* EssenceSource: what the reader of an essence container promises.  There *)
(* is a sequence of content packages, of which more and more is there; the *)
(* application asks for some from a position on and gets them, or as many  *)
(* as there are before the end.  What was not whole when it was opened may *)
(* refuse; it gives no other content packages, and no fewer while there    *)
(* may be more.                                                            *)
(***************************************************************************)
EXTENDS Integers, SequencesExt

VARIABLES
  content,  \* the content packages, each a sequence of elements
  whole,    \* whether everything was there when it was opened
  there,    \* how many content packages are there, and one more for the end
  asked,    \* [position, count], with count 0 if nothing is asked for
  answer    \* [ok, elements]

sourceVars == <<content, whole, there, asked, answer>>

NothingAsked == [position |-> 0, count |-> 0]
NoAnswer == [ok |-> TRUE, elements |-> <<>>]

Elements(p, n) == FlattenSeq([i \in 1 .. n |-> content[p + i]])

(* How many content packages there are from a position on.                  *)
Given(p, n) == IF p >= Len(content) THEN 0 ELSE Min({n, Len(content) - p})

SourceInit ==
  /\ whole \in BOOLEAN /\ there \in Nat
  /\ asked = NothingAsked /\ answer = NoAnswer

Appear ==
  /\ ~whole /\ there' > there
  /\ UNCHANGED <<content, whole, asked, answer>>

Ask ==
  /\ asked = NothingAsked
  /\ asked' \in [position : Nat, count : Nat \ {0}]
  /\ UNCHANGED <<content, whole, there, answer>>

Give(p, n) ==
  /\ p + Given(p, n) <= there
  /\ Given(p, n) < n => there > Len(content)
  /\ answer' = [ok |-> TRUE, elements |-> Elements(p, Given(p, n))]

Answer ==
  /\ asked # NothingAsked /\ asked' = NothingAsked
  /\ Give(asked.position, asked.count)
  /\ UNCHANGED <<content, whole, there>>

(* An answer that needs no reading.                                         *)
AnswerAtOnce ==
  /\ asked = NothingAsked
  /\ \E p \in 0 .. Len(content) + 1, n \in 1 .. Len(content) + 1 : Give(p, n)
  /\ UNCHANGED <<content, whole, there, asked>>

Refuse ==
  /\ ~whole /\ asked # NothingAsked /\ asked' = NothingAsked
  /\ answer' = [NoAnswer EXCEPT !.ok = FALSE]
  /\ UNCHANGED <<content, whole, there>>

(* The application starts afresh.                                           *)
Forget ==
  /\ asked = NothingAsked /\ answer' = NoAnswer
  /\ UNCHANGED <<content, whole, there, asked>>

SourceNext == Appear \/ Ask \/ Answer \/ AnswerAtOnce \/ Refuse \/ Forget

SourceSpec == SourceInit /\ [][SourceNext]_sourceVars
=============================================================================

-------------------------- MODULE MC_EssenceReader --------------------------
(***************************************************************************)
(* Files for EssenceReader, built from the kinds and sizes of their items. *)
(***************************************************************************)
EXTENDS EssenceReader

Pack(body, footer) == [kind |-> "partition", size |-> 1, body |-> body, footer |-> footer]
HeaderPack == Pack(FALSE, FALSE)
BodyPack == Pack(TRUE, FALSE)
FooterPack == Pack(FALSE, TRUE)
Other(kind, size) == [kind |-> kind, size |-> size]
S == Other("start", 2)
S3 == Other("start", 3)
E == Other("element", 2)
Fill == Other("filler", 1)
Meta == Other("metadata", 1)
RIP == Other("rip", 1)
Table(start, duration) == [kind |-> "index", size |-> 1, from |-> start, count |-> duration, unit |-> 0]
ConstantTable(duration, unit) == [kind |-> "index", size |-> 1, from |-> 0, count |-> duration, unit |-> unit]

Build(layout, options) ==
  LET n == Len(layout)
      At0[i \in 1 .. n + 1] == IF i = 1 THEN 0 ELSE At0[i - 1] + layout[i - 1].size
      Kind(i) == layout[i].kind
      Parts == {i \in 1 .. n : Kind(i) = "partition"}
      PartOf(i) == CHOOSE p \in Parts : p <= i /\ \A q \in p + 1 .. i : q \notin Parts
      starts == SelectSeq([i \in 1 .. n |-> i], LAMBDA i : Kind(i) = "start")
      InContainer(i) == /\ layout[PartOf(i)].body /\ Kind(i) # "partition"
                        /\ \E s \in PartOf(i) .. i : Kind(s) = "start"
      OffsetOf[i \in 1 .. n] ==
        IF i = 1 THEN 0 ELSE OffsetOf[i - 1] + (IF InContainer(i - 1) THEN layout[i - 1].size ELSE 0)
      Offsets == [k \in 1 .. Len(starts) |-> OffsetOf[starts[k]]]
      Segment(i) ==
        [start |-> layout[i].from, duration |-> layout[i].count, unit |-> layout[i].unit, base |-> 0,
         entries |-> IF layout[i].unit > 0 THEN <<>>
                     ELSE SubSeq(Offsets, layout[i].from + 1, layout[i].from + layout[i].count),
         num |-> IF layout[i].unit > 0 THEN 0 ELSE layout[i].count,
         first |-> 0, alloc |-> IF layout[i].unit > 0 THEN 0 ELSE layout[i].count, fromFile |-> TRUE]
      TableIn(p) == \E i \in p .. n : Kind(i) = "index" /\ PartOf(i) = p
      item(i) ==
        LET base == [at |-> At0[i], size |-> layout[i].size, kind |-> Kind(i)]
        IN  IF Kind(i) = "partition"
            THEN base @@ [body |-> layout[i].body, footer |-> layout[i].footer,
                          index |-> TableIn(i), indexed |-> TableIn(i)]
            ELSE IF Kind(i) = "index" THEN base @@ [segment |-> Segment(i)]
            ELSE base
      items == [i \in 1 .. n |-> item(i)]
      length == At0[n + 1]
      Ends(k) == IF k = Len(starts) THEN n + 1 ELSE starts[k + 1]
      Content(k) == SelectSeq([i \in 1 .. n |-> i],
                              LAMBDA i : /\ i >= starts[k] /\ i < Ends(k)
                                         /\ PartOf(i) = PartOf(starts[k])
                                         /\ Kind(i) \in {"start", "element"})
  IN  [items |-> items,
       itemAt |-> [p \in 0 .. length - 1 |->
                     IF \E i \in 1 .. n : At0[i] = p THEN CHOOSE i \in 1 .. n : At0[i] = p ELSE 0],
       length |-> length,
       packages |-> Len(starts),
       content |-> [k \in 1 .. Len(starts) |-> Content(k)],
       starts |-> [k \in 1 .. Len(starts) |-> At0[starts[k]]],
       offsets |-> Offsets,
       ends |-> IF options.complete THEN {length}
                ELSE options.from .. length,
       seekable |-> options.seekable, complete |-> options.complete, extract |-> options.extract]

Growing(from) == [complete |-> FALSE, seekable |-> TRUE, extract |-> 0, from |-> from]
Streamed == [complete |-> FALSE, seekable |-> FALSE, extract |-> 2, from |-> 1]
Whole == [complete |-> TRUE, seekable |-> TRUE, extract |-> 0, from |-> 1]

Indexed == <<HeaderPack, Meta, BodyPack, S, E, S, E, Pack(FALSE, FALSE), Table(0, 2), BodyPack, S3, E, Fill, FooterPack, Table(2, 1), RIP>>
Several == <<HeaderPack, Meta, BodyPack, S, E, S3, E, BodyPack, S, E, FooterPack, Table(0, 2), Table(2, 1), RIP>>
Cut == <<HeaderPack, Meta, BodyPack, S, E, Fill, BodyPack, Meta, S3, E, S, E>>
Plain == <<HeaderPack, Meta, BodyPack, S, E, S3, E, BodyPack, S, E, FooterPack, RIP>>
AtEnd == <<HeaderPack, Meta, BodyPack, S, E, S3, E, S, E, FooterPack, Table(0, 3), RIP>>
ConstantParts == <<HeaderPack, ConstantTable(0, 4), BodyPack, S, E, S, E, BodyPack, S, E, FooterPack, ConstantTable(3, 4), RIP>>
ConstantFull == <<HeaderPack, ConstantTable(3, 4), BodyPack, S, E, S, E, BodyPack, S, E, FooterPack, RIP>>
Lagging == <<HeaderPack, BodyPack, S, E, S3, E, Pack(FALSE, FALSE), Table(0, 1), BodyPack, S, E, FooterPack, Table(1, 2), RIP>>

MCFiles ==
  {Build(l, Growing(3)) : l \in {Indexed, Plain, AtEnd, ConstantParts, Cut}}
    \cup {Build(l, Whole) : l \in {Indexed, AtEnd, ConstantParts, ConstantFull, Several, Lagging}}
    \cup {Build(l, Streamed) : l \in {Indexed, Several, ConstantFull, Cut}}
MCLaggingFiles == {Build(Lagging, Growing(3))}
MCUnlimited == 100

(* What the proofs suppose of complete files holds of these.                *)
ASSUME WellFormedAssumption == \A f \in Files : f.complete => WellFormed(f)

=============================================================================

------------------------------- MODULE FxPack -------------------------------
(***************************************************************************)
(* The packer of tools/fx_pack.py: logical data in pages, each compressed  *)
(* on its own into literal runs and copies from behind, and an index of    *)
(* where each page begins.  Sizes are smaller than the code's, in          *)
(* proportion: a control below Literal starts a run of control + 1         *)
(* literals, any other one a copy of control - Literal + 3.  The header is *)
(* three cells (the page it was packed for, the length, the number of      *)
(* pages), an entry of the index is one.                                   *)
(***************************************************************************)
EXTENDS Integers, Sequences, FiniteSetsExt

CONSTANTS
  Page,      \* bytes of a page: 256 in the code
  Literal    \* the first control of a copy: 128 in the code

ASSUME PackAssumption == Page \in Nat \ {0} /\ Literal \in Nat \ {0}

\* How far the data at o repeats the data at p; a copy may overlap itself.
RepeatLength(d, p, o) ==
  Max({0} \cup {k \in 1 .. Min({Literal + 2, Len(d) - o}) :
                  \A i \in 1 .. k : d[p + i] = d[o + i]})

Best(d, o) == Max({0} \cup {RepeatLength(d, p, o) : p \in 0 .. o - 1})

\* The first of the longest ones.
Distance(d, o) == o - Min({p \in 0 .. o - 1 : RepeatLength(d, p, o) = Best(d, o)})

\* Where the literals from o on are flushed: before a copy, when they fill a
\* run, or with the data.
RunEnd(d, o) ==
  Min({e \in o + 1 .. Len(d) : e = Len(d) \/ e - o = Literal \/ Best(d, e) >= 3})

Token(d, o) ==
  IF Best(d, o) >= 3
    THEN <<Literal + Best(d, o) - 3, Distance(d, o) % Page>>
    ELSE <<RunEnd(d, o) - o - 1>> \o SubSeq(d, o + 1, RunEnd(d, o))

Behind(d, o) == IF Best(d, o) >= 3 THEN o + Best(d, o) ELSE RunEnd(d, o)

\* What the data from each offset on is encoded into, nothing pending there.
Encoding(d) ==
  LET enc[o \in 0 .. Len(d)] ==
        IF o = Len(d) THEN <<>> ELSE Token(d, o) \o enc[Behind(d, o)]
  IN enc

Encode(d) == Encoding(d)[0]

HeaderCells == 3
PageCount(n) == (n + Page - 1) \div Page
PageData(d, p) == SubSeq(d, p * Page + 1, Min({Len(d), (p + 1) * Page}))

Block(d, p) == Encode(PageData(d, p))

\* The blocks of the pages before each page.
Joined(d) ==
  LET join[p \in 0 .. PageCount(Len(d))] ==
        IF p = 0 THEN <<>> ELSE join[p - 1] \o Block(d, p - 1)
  IN join

\* Where each page begins, and last where the pack ends.
Starts(d, p) == HeaderCells + PageCount(Len(d)) + 1 + Len(Joined(d)[p])

Pack(d, id) ==
  LET n == PageCount(Len(d)) IN
  <<id, Len(d), n>> \o [p \in 1 .. n + 1 |-> Starts(d, p - 1)] \o Joined(d)[n]
=============================================================================

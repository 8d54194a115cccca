----------------------------- MODULE MCFxData ------------------------------
(***************************************************************************)
(* Pages of five bytes, a cache of four cells and controls of eight        *)
(* values; packs of one and of two pages with literals, copies, copies     *)
(* that overlap themselves and runs of literals of the greatest length;    *)
(* packs with a broken index or a broken page; files that are not the      *)
(* resource.                                                               *)
(***************************************************************************)
EXTENDS FxData

MCCell  == 0 .. 31
MCDatas == { <<1, 0, 1, 0, 1, 1, 1>>,        \* an overlapping copy, then two literals
             <<0, 0, 0, 0, 0, 1, 0, 0>>,     \* the shortest distance
             <<1, 2, 1, 2, 1, 2, 1, 2, 1, 2>>,     \* two full pages
             <<1, 2, 3, 4, 5>>,              \* more literals than one run holds
             <<1>> }

Two == Pack(<<1, 0, 1, 0, 1, 1, 1>>, PackId)
Changed(s, i, c) == [s EXCEPT ![i] = c]
Payloads ==
  {Pack(d, PackId) : d \in MCDatas}
    \cup { Pack(<<1>>, PackId + 1),                    \* packed for another page
           Changed(Two, HeaderCells + 2, Len(Two)),    \* the second page begins at the end
           Changed(Two, HeaderCells + 2, 31),          \* ... or behind it
           Changed(Two, Len(Two) - 2, Literal - 1),    \* its literals do not end in it
           Changed(Changed(Two, 2, 10), Len(Two) - 2, Literal - 1),   \* ... nor in the resource
           Changed(Two, HeaderCells + 4, Literal),     \* the first page begins with a copy
           <<PackId, 1>> }                             \* no pack at all

SpecOf(s, version) == [identity |-> "game", version |-> version, length |-> Len(s), crc |-> s]
MCSpecs == {SpecOf(s, 1) : s \in Payloads} \cup {SpecOf(<<PackId>>, 0), SpecOf(<<>>, 1),
                                                    SpecOf([i \in 1 .. 31 |-> 0], 1)}

FileOf(s, identity, body) ==
  [header |-> [sound |-> TRUE, format |-> 1, identity |-> identity, version |-> 1,
               length |-> Len(s), crc |-> s],
   body   |-> body]
Good(s) == FileOf(s, "game", s)
Broken ==
  { FileOf(Two, "game", SubSeq(Two, 1, Len(Two) - 1)),
    FileOf(Two, "game", Append(Two, 0)),
    FileOf(Two, "game", Changed(Two, 5, 9)),
    FileOf(Two, "other", Two),
    [Good(Two) EXCEPT !.header.sound = FALSE],
    [Good(Two) EXCEPT !.header.format = 2],
    [Good(Two) EXCEPT !.header.version = 2] }
MCFiles == [s \in MCSpecs |-> IF s.crc = Two THEN Broken \cup {Good(Two)} ELSE {Good(s.crc)}]

MCReads   == {<<0, 1>>, <<2, 4>>, <<3, 9>>, <<7, 31>>, <<1, 31>>, <<40, 1>>, <<5, 0>>}
MCFxReads == {<<0, 1>>, <<3, 4>>, <<5, 2>>, <<0, 8>>, <<2, 31>>, <<7, 0>>}
=============================================================================

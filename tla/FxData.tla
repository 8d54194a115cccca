------------------------------- MODULE FxData -------------------------------
(***************************************************************************)
(* FxData of include/meshbus_arduboy/fx_data.hpp on the ResourceBundle of  *)
(* the session: begin() checks the header and the whole index of the pack, *)
(* read() serves bytes out of one decompressed page.  Each step runs from  *)
(* the return of one resource_read() to the next call of it, so that every *)
(* failure of the bundle is met at every place.  The sketch may also read  *)
(* the resource directly.                                                  *)
(***************************************************************************)
EXTENDS ResourceBundle, FxPack

CONSTANTS
  Reads,         \* the <<offset, count>> a sketch asks resource_read() for
  FxReads,       \* ... and those it asks FxData::read() for
  PackId,        \* the page a sketch gives to begin()
  Datas          \* the logical data the packs of the sketch are made from

ASSUME FxAssumption ==
  /\ Cell \subseteq Nat
  /\ Reads \subseteq Nat \X Nat /\ FxReads \subseteq Nat \X Nat
  /\ PackId \in Nat /\ \A d \in Datas : d \in Seq(Nat) /\ d # <<>>

NoPage == -1                    \* UINT32_MAX
LongestBlock == 2 * Page        \* 512

VARIABLES fx,                   \* where the FxData call under way is
          error, fxLength, cachedPage, fxCache,
          entry, previous,      \* of begin(): the entry of the index it reads
          fxFrom, fxOffset, fxCount, fxOut,      \* of read()
          position, end, produced, run           \* of decode()

indexVars  == <<entry, previous>>
fxReadVars == <<fxFrom, fxOffset, fxCount, fxOut>>
decodeVars == <<position, end, produced, run>>
fxVars == <<fx, error, fxLength, cachedPage, fxCache, indexVars, fxReadVars, decodeVars>>
vars == <<bundleVars, fxVars>>

FxInit ==
  /\ fx = "idle" /\ error = "ENODEV" /\ fxLength = 0 /\ cachedPage = NoPage
  /\ fxCache = [i \in 0 .. Page - 1 |-> 0]
  /\ entry = 0 /\ previous = 0
  /\ fxFrom = 0 /\ fxOffset = 0 /\ fxCount = 0 /\ fxOut = <<>>
  /\ position = 0 /\ end = 0 /\ produced = 0 /\ run = 0

\* The variables of begin(), of decode() and of read() end with them.
Decode(at, upto, have) == position' = at /\ end' = upto /\ produced' = have /\ run' = 0
LocalsEnd == entry' = 0 /\ previous' = 0 /\ Decode(0, 0, 0)

FxReturn  == fx' = "idle" /\ fxFrom' = 0 /\ fxOffset' = 0 /\ fxCount' = 0 /\ fxOut' = <<>>

\* fail(), and the return of the call.
Fail(e) == FxReturn /\ error' = e /\ cachedPage' = NoPage /\ LocalsEnd

\* resource_read() has returned to FxData at f.
Back(f)     == fx = f /\ pc = "idle"
BackWith(f) == Back(f) /\ rc = "OK"

\* decode() waits for one of these reads.
Decoding == {"position", "end", "control", "literal", "distance"}

\* Cells are put into the page behind those already produced.
Overlay(cells) ==
  [i \in DOMAIN fxCache |->
     IF i >= produced /\ i < produced + Len(cells) THEN cells[i - produced + 1] ELSE fxCache[i]]

\* Any resource_read() that fails makes the call fail with its error; literals
\* that were on their way into the page are there in part.
ReadFailed ==
  /\ fx # "idle" /\ fx # "copy" /\ pc = "idle" /\ rc # "OK"
  /\ Fail(rc)
  /\ fxCache' = IF fx = "literal" THEN Overlay([i \in 1 .. run |-> Spoilt]) ELSE fxCache
  /\ Take /\ UNCHANGED fxLength

IndexAt(p) == HeaderCells + p

---------------------------------------------------------------------------
Begin ==
  /\ fx = "idle" /\ Ready
  /\ error' = "OK" /\ cachedPage' = NoPage
  /\ fx' = "header" /\ Read(0, HeaderCells)
  /\ UNCHANGED <<fxLength, fxCache, indexVars, fxReadVars, decodeVars>>

BeginHeader ==
  /\ BackWith("header")
  /\ fxLength' = IF out[1] = PackId THEN out[2] ELSE fxLength
  /\ LET blocks == out[3] IN
     CASE out[1] # PackId -> Fail("EPROTONOSUPPORT") /\ Take
       [] out[1] = PackId /\ (out[2] = 0 \/ blocks # PageCount(out[2])) ->
            Fail("EBADMSG") /\ Take
       [] OTHER -> /\ entry' = 0 /\ previous' = IndexAt(blocks + 1)
                   /\ fx' = "index" /\ Read(IndexAt(0), 1)
                   /\ UNCHANGED <<error, cachedPage, decodeVars, fxReadVars>>
  /\ UNCHANGED fxCache

\* resource_length()
ResourceLength == IF opened THEN length ELSE 0

IndexSound(at) ==
  /\ at <= ResourceLength
  /\ IF entry = 0 THEN at = previous ELSE at > previous /\ at - previous <= LongestBlock

BeginIndex ==
  /\ BackWith("index")
  /\ \/ /\ IndexSound(out[1]) /\ entry < PageCount(fxLength)
        /\ entry' = entry + 1 /\ previous' = out[1] /\ Read(IndexAt(entry + 1), 1)
        /\ UNCHANGED <<fx, error, cachedPage, decodeVars, fxReadVars>>
     \/ /\ IndexSound(out[1]) /\ entry = PageCount(fxLength) /\ out[1] = ResourceLength
        /\ FxReturn /\ LocalsEnd
        /\ Take /\ UNCHANGED <<error, cachedPage>>
     \/ /\ \/ ~IndexSound(out[1])
           \/ entry = PageCount(fxLength) /\ out[1] # ResourceLength
        /\ Fail("EBADMSG") /\ Take
  /\ UNCHANGED <<fxLength, fxCache>>

---------------------------------------------------------------------------
FxRead(o, n) ==
  /\ fx = "idle" /\ Ready /\ error = "OK"
  /\ IF o <= fxLength /\ n <= fxLength - o
       THEN /\ fx' = "copy"
            /\ fxFrom' = o /\ fxOffset' = o /\ fxCount' = n /\ fxOut' = <<>>
            /\ UNCHANGED <<error, cachedPage, indexVars, decodeVars>>
       ELSE Fail("ERANGE")
  /\ UNCHANGED <<bundleVars, fxLength, fxCache>>

FxCopy ==
  /\ fx = "copy" /\ fxCount > 0 /\ fxOffset \div Page = cachedPage
  /\ LET take == Lesser(Page - (fxOffset % Page), fxCount) IN
     /\ fxOut' = fxOut \o [i \in 1 .. take |-> fxCache[(fxOffset % Page) + i - 1]]
     /\ fxOffset' = fxOffset + take /\ fxCount' = fxCount - take
  /\ UNCHANGED <<bundleVars, fx, error, fxLength, cachedPage, fxCache, indexVars, fxFrom, decodeVars>>

FxReadEnd ==
  /\ fx = "copy" /\ fxCount = 0
  /\ FxReturn
  /\ UNCHANGED <<bundleVars, error, fxLength, cachedPage, fxCache, indexVars, decodeVars>>

\* decode(): where the page begins, and where it ends.
DecodePage ==
  /\ fx = "copy" /\ fxCount > 0 /\ fxOffset \div Page # cachedPage
  /\ fx' = "position" /\ Read(IndexAt(fxOffset \div Page), 1)
  /\ UNCHANGED <<error, fxLength, cachedPage, fxCache, indexVars, fxReadVars, decodeVars>>

DecodePosition ==
  /\ BackWith("position")
  /\ position' = out[1]
  /\ fx' = "end" /\ Read(IndexAt(fxOffset \div Page) + 1, 1)
  /\ UNCHANGED <<error, fxLength, cachedPage, fxCache, indexVars, fxReadVars, end, produced, run>>

\* The bytes the page has.
Wanted == Lesser(fxLength - (fxOffset \div Page) * Page, Page)

\* The head of the loop: another control, or the end of the page, which must
\* have been reached with the last byte.
NextToken(at, upto, have) ==
  IF at < upto /\ have < Wanted
    THEN /\ fx' = "control" /\ Read(at, 1)
         /\ Decode(at + 1, upto, have)
         /\ UNCHANGED <<error, cachedPage, indexVars, fxReadVars>>
    ELSE /\ Take
         /\ IF have = Wanted /\ at = upto
              THEN /\ fx' = "copy" /\ cachedPage' = fxOffset \div Page /\ LocalsEnd
                   /\ UNCHANGED <<error, fxReadVars>>
              ELSE Fail("EBADMSG")

DecodeEnd ==
  /\ BackWith("end")
  /\ NextToken(position, out[1], 0)
  /\ UNCHANGED <<fxLength, fxCache>>

\* mutant: a copy is one byte short
ShortCount(control) == IF control < Literal THEN control + 1 ELSE control - Literal + 2

Count(control) == IF control < Literal THEN control + 1 ELSE control - Literal + 3

\* mutant: only the page limits a run
FitsInPage(control) == Count(control) <= Wanted - produced

\* A run fits in the page, and what it is made from in the block.
RunFits(control) ==
  /\ Count(control) <= Wanted - produced
  /\ IF control < Literal THEN Count(control) <= end - position ELSE position < end

DecodeControl ==
  /\ BackWith("control")
  /\ LET control == out[1] IN
     IF ~RunFits(control)
       THEN Fail("EBADMSG") /\ Take
       ELSE /\ run' = Count(control)
            /\ IF control < Literal
                 THEN fx' = "literal" /\ Read(position, run') /\ UNCHANGED position
                 ELSE fx' = "distance" /\ Read(position, 1) /\ position' = position + 1
            /\ UNCHANGED <<error, cachedPage, indexVars, end, produced, fxReadVars>>
  /\ UNCHANGED <<fxLength, fxCache>>

DecodeLiteral ==
  /\ BackWith("literal")
  /\ fxCache' = Overlay(out)
  /\ NextToken(position + run, end, produced + run)
  /\ UNCHANGED fxLength

\* mutant: the bytes of a copy are moved at once
Moved(distance) ==
  [i \in DOMAIN fxCache |->
     IF i >= produced /\ i < produced + run THEN fxCache[i - distance] ELSE fxCache[i]]

\* A copy byte by byte, so that it may repeat what it has just written.
Repeated(distance) ==
  [i \in DOMAIN fxCache |->
     IF i >= produced /\ i < produced + run
       THEN fxCache[produced - distance + ((i - produced) % distance)] ELSE fxCache[i]]

DecodeDistance ==
  /\ BackWith("distance")
  /\ LET distance == IF out[1] = 0 THEN Page ELSE out[1] IN
     IF distance > produced
       THEN Fail("EBADMSG") /\ Take /\ UNCHANGED fxCache
       ELSE fxCache' = Repeated(distance) /\ NextToken(position, end, produced + run)
  /\ UNCHANGED fxLength

---------------------------------------------------------------------------
FxStep ==
  \/ BeginHeader \/ BeginIndex
  \/ FxCopy \/ FxReadEnd
  \/ DecodePage \/ DecodePosition \/ DecodeEnd \/ DecodeControl \/ DecodeLiteral \/ DecodeDistance
  \/ ReadFailed

\* The session around the sketch opens and closes the bundle; a sketch calls
\* nothing while it is in a call.
Direct ==
  /\ fx = "idle"
  /\ \/ Install \/ Open \/ Close
     \/ Ready /\ \E r \in Reads : Read(r[1], r[2])
     \/ ~Ready /\ Take
  /\ UNCHANGED fxVars

Next ==
  \/ Direct
  \/ Begin
  \/ \E r \in FxReads : FxRead(r[1], r[2])
  \/ FxStep
  \/ BundleStep /\ UNCHANGED fxVars

Init == BundleInit /\ FxInit
Spec == Init /\ [][Next]_vars

\* A call is one thread running; every operation on the file returns.
FairSpec == Spec /\ WF_vars(FxStep \/ (BundleStep /\ UNCHANGED fxVars))

---------------------------------------------------------------------------
Packs == [d \in Datas |-> Pack(d, PackId)]

(* Data that tools/fx_pack.py packed comes out of FxData::read() as it went *)
(* in, over whatever pages and caches it goes.                              *)
FxServesTheData ==
  \A d \in Datas : spec.crc = Packs[d] =>
    \A i \in DOMAIN fxOut : fxOut[i] = d[fxFrom + i]

(* A sound pack is never refused: errors are those of the file, of a call   *)
(* outside a session, or of a read out of range.                            *)
SoundPacksAreRead ==
  \A d \in Datas : spec.crc = Packs[d] => error \notin {"EBADMSG", "EPROTONOSUPPORT"}

(* Once begin() has checked the index, decoding stays inside the resource   *)
(* and inside the page, however broken the pages are: no read of it is out  *)
(* of range, and nothing is written behind the cache or copied from before  *)
(* it.                                                                      *)
DecodingStaysInside ==
  /\ fx \in Decoding /\ pc = "idle" => rc # "ERANGE"
  /\ produced + run <= Page

(* Every call returns: read() and the loops of FxData make progress with    *)
(* every page, also at the end of a page and at the end of the resource.    *)
CallsReturn == (pc # "idle" \/ fx # "idle") ~> (pc = "idle" /\ fx = "idle")

---------------------------------------------------------------------------
(* The states of a call, and what each has seen of the index and the page. *)

Asking == fx \notin {"idle", "copy"}

\* The cells the call has asked resource_read() for.
Requested == CASE fx = "header" -> HeaderCells
               [] fx = "literal" -> run
               [] OTHER -> 1

FxTypeOK ==
  /\ fx \in {"idle", "header", "index", "copy"} \cup Decoding
  /\ fxLength \in Nat /\ entry \in Nat /\ previous \in Nat
  /\ fxOffset \in Nat /\ fxCount \in Nat
  /\ position \in Nat /\ end \in Nat /\ produced \in Nat /\ run \in Nat

\* A resource_read() that has returned 0 has delivered what was asked for.
Asked ==
  Asking => /\ ~Opening
            /\ Reading => offset + size = from + Requested
            /\ pc = "idle" /\ rc = "OK" => opened /\ Len(out) = Requested

Blocks == PageCount(fxLength)
Entry(p) == spec.crc[IndexAt(p) + 1]

\* The entries up to n are in the resource and rise, up to its end at most.
IndexRises(n) ==
  /\ IndexAt(n) < spec.length
  /\ \A p \in 0 .. n : Entry(p) \in Nat /\ Entry(p) <= spec.length
  /\ \A p \in 0 .. n - 1 : Entry(p) < Entry(p + 1)

Indexed ==
  /\ fx = "index" => /\ entry <= Blocks /\ from = IndexAt(entry)
                     /\ entry > 0 => IndexRises(entry - 1) /\ previous = Entry(entry - 1)
  /\ error = "OK" /\ fx \notin {"header", "index"} => IndexRises(Blocks)

\* Where decode() is in its block and in its page.
Placed ==
  /\ fx \in Decoding \cup {"copy"} => error = "OK" /\ fxOffset + fxCount <= fxLength
  /\ fx \in Decoding => fxCount > 0
  /\ fx = "position" => from = IndexAt(fxOffset \div Page)
  /\ fx = "end" => /\ from = IndexAt(fxOffset \div Page) + 1
                   /\ position = Entry(fxOffset \div Page)
  /\ fx \in {"control", "literal", "distance"} =>
       position <= end /\ end <= spec.length /\ produced + run <= Wanted
  /\ fx = "literal" => position + run <= end

(* The inductive invariant behind DecodingStaysInside: the index begin() has *)
(* checked is that of every later page, and decode() keeps its two limits.   *)
FxInv == FxTypeOK /\ Asked /\ Indexed /\ Placed /\ DecodingStaysInside

---------------------------------------------------------------------------
(* What each state of a call owes to the data the resource was packed from. *)

Data(d) == PageData(d, fxOffset \div Page)

\* From at on the block is what the data of the page from have on is encoded into.
Remains(d, at, have) ==
  /\ at <= end /\ have <= Len(Data(d))
  /\ Len(Encoding(Data(d))[have]) = end - at
  /\ \A i \in 1 .. end - at : spec.crc[at + i] = Encoding(Data(d))[have][i]

\* What decode() has read of a run is what the packer made of the data there.
Decoded(d) ==
  /\ fx \in {"control", "literal", "distance"} =>
       \A i \in 1 .. produced : fxCache[i - 1] = Data(d)[i]
  /\ fx = "control" => from = position - 1 /\ from < end /\ Remains(d, from, produced)
  /\ fx = "literal" => /\ from = position
                       /\ \A i \in 1 .. run : spec.crc[position + i] = Data(d)[produced + i]
                       /\ Remains(d, position + run, produced + run)
  /\ fx = "distance" =>
       /\ from = position - 1
       /\ \E k \in 1 .. produced :
            /\ spec.crc[position] = k % Page
            /\ \A i \in 1 .. run : Data(d)[produced + i] = Data(d)[produced - k + i]
       /\ Remains(d, position, produced + run)

CacheTells(d) ==
  /\ DOMAIN fxCache = 0 .. Page - 1
  /\ cachedPage # NoPage /\ fx \notin Decoding =>
       /\ cachedPage \in Nat /\ cachedPage * Page < Len(d)
       /\ \A i \in 1 .. Len(PageData(d, cachedPage)) : fxCache[i - 1] = PageData(d, cachedPage)[i]

Served(d) ==
  /\ fx \in Decoding \cup {"copy"} => fxFrom \in Nat /\ fxOffset = fxFrom + Len(fxOut)
  /\ fxOut \in Seq(Nat) /\ \A i \in DOMAIN fxOut : fxOut[i] = d[fxFrom + i]

Refused == {"EBADMSG", "EPROTONOSUPPORT"}

Accepted(d) ==
  /\ error \notin Refused
  /\ Asking /\ pc = "idle" => rc \notin Refused
  /\ fx = "header" => from = 0
  /\ fx \in {"header", "index"} => error = "OK"
  /\ fx = "index" /\ entry = 0 => previous = IndexAt(Blocks + 1)
  /\ error = "OK" /\ fx # "header" => fxLength = Len(d)

(* The inductive invariant behind FxServesTheData and SoundPacksAreRead:     *)
(* every cell decode() has read is one the packer wrote for the data there.  *)
Tells(d) == Accepted(d) /\ Decoded(d) /\ CacheTells(d) /\ Served(d)
PackInv == \A d \in Datas : spec.crc = Packs[d] => Tells(d)
=============================================================================

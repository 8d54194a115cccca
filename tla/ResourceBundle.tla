--------------------------- MODULE ResourceBundle --------------------------
(***************************************************************************)
(* ResourceBundle of include/meshbus_arduboy/resources.hpp: a read-only    *)
(* file beside the sketch, verified against the specification compiled     *)
(* into it and read through one cache, which open() also scans with.  The  *)
(* application thread is its only user; a call is several steps because    *)
(* each operation on the file may work, end early or fail.                 *)
(*                                                                         *)
(* Data: a file is its header, one record, and its body, a sequence of     *)
(* cells; positions count the header as one.  A CRC is represented by the  *)
(* bytes it was computed from, so that it agrees when they do.             *)
(***************************************************************************)
EXTENDS Integers, Sequences

CONSTANTS
  CacheSize,     \* cells of the cache: 256 in the code
  Word,          \* offsets and sizes are below it: 2^32 in the code
  Cell,          \* the values of a cell
  Specs,         \* the ResourceSpec a sketch is compiled with is one of these
  Files,         \* Files[s]: what may be found at the path of s
  NoFile         \* ... if there is nothing

ASSUME BundleAssumption ==
  /\ CacheSize \in Nat \ {0} /\ Word \in Nat \ {0} /\ 0 \in Cell
  /\ \A s \in Specs : s.crc \in Seq(Cell) /\ s.length = Len(s.crc)
  /\ \A s \in Specs : \A f \in Files[s] : f.body \in Seq(Cell)

VARIABLES disk,                            \* the file at the path, or NoFile
          pc,                              \* where the call under way is, "idle" between calls
          rc,                              \* the result of the last call
          opened, length, start, cached, cache,
          handle, pos,                     \* an open file, and its position
          spec,                            \* the ResourceSpec of the sketch
          done, intact,                    \* of open(): the cells scanned, and their CRC
          from, offset, size, out          \* of read(): where it began, what is left, the copy

fileVars  == <<disk, handle, pos>>
openVars  == <<done, intact>>
readVars  == <<from, offset, size, out>>
cacheVars == <<start, cached, cache>>
bundleVars == <<spec, fileVars, pc, rc, opened, length, cacheVars, openVars, readVars>>

Lesser(a, b) == IF a < b THEN a ELSE b

BundleInit ==
  /\ spec \in Specs /\ disk \in Files[spec] \cup {NoFile}
  /\ pc = "idle" /\ rc = "OK"
  /\ opened = FALSE /\ length = 0 /\ start = 0 /\ cached = 0
  /\ cache = [i \in 0 .. CacheSize - 1 |-> 0]
  /\ handle = FALSE /\ pos = 0
  /\ done = 0 /\ intact = TRUE
  /\ from = 0 /\ offset = 0 /\ size = 0 /\ out = <<>>

\* A call returns; the caller takes the result before it calls again.
Return(result) == pc' = "idle" /\ rc' = result
Taken == rc' = "OK" /\ from' = 0 /\ offset' = 0 /\ size' = 0 /\ out' = <<>>
Ready == pc = "idle" /\ rc = "OK" /\ from = 0 /\ out = <<>>
Take ==
  /\ pc = "idle" /\ Taken
  /\ UNCHANGED <<spec, fileVars, pc, opened, length, cacheVars, openVars>>

---------------------------------------------------------------------------
\* What is left of the file behind the position, the header left out.
Left == Len(disk.body) + 1 - pos

\* read_exact() of count cells at the position, after the header.  What one
\* that fails leaves in its part of the buffer is not told apart: it may be
\* anything, and nothing may use it.
Spoilt == -1
Fetched(count) ==
  /\ count <= Left
  /\ cache' = [i \in DOMAIN cache |-> IF i < count THEN disk.body[pos + i] ELSE cache[i]]
  /\ pos' = pos + count
FetchFails(count) ==
  /\ \/ Return("EIO")
     \/ count > Left /\ Return("ENODATA")
  /\ cache' = [i \in DOMAIN cache |-> IF i < count THEN Spoilt ELSE cache[i]]
  /\ UNCHANGED pos

\* Another file is installed; never while the bundle is open.
Install ==
  /\ Ready /\ ~handle
  /\ disk' \in Files[spec] \cup {NoFile}
  /\ UNCHANGED <<spec, pc, rc, opened, length, handle, pos, cacheVars, openVars, readVars>>

\* The file, header included, must be within a signed word.
Acceptable == spec.version # 0 /\ spec.length # 0 /\ spec.length < Word \div 2 - 1

\* validate_header()
Verdict(h, s) ==
  CASE ~h.sound                                  -> "EBADMSG"
    [] h.sound /\ h.format # 1                   -> "EPROTONOSUPPORT"
    [] h.sound /\ h.format = 1 /\ h.identity # s.identity -> "EXDEV"
    [] h.sound /\ h.format = 1 /\ h.identity = s.identity /\ h.version # s.version
                                                 -> "EPROTONOSUPPORT"
    [] OTHER -> IF h.length = s.length /\ h.crc = s.crc THEN "OK" ELSE "EBADMSG"

Open ==
  /\ Ready
  /\ \/ /\ opened \/ ~Acceptable
        /\ Return(IF opened THEN "EBUSY" ELSE "EINVAL")
        /\ UNCHANGED <<opened, handle, pos, openVars>>
     \/ /\ ~opened /\ Acceptable
        /\ Return("ENOENT")
        /\ UNCHANGED <<opened, handle, pos, openVars>>
     \/ /\ ~opened /\ Acceptable /\ disk # NoFile
        /\ opened' = TRUE /\ handle' = TRUE /\ pos' = 0
        /\ done' = 0 /\ intact' = TRUE
        /\ pc' = "header" /\ UNCHANGED rc
  /\ UNCHANGED <<spec, disk, length, cacheVars, readVars>>

\* close(): fs_close() gives the file back even if it reports an error.
Release == opened' = FALSE /\ cached' = 0 /\ length' = 0 /\ handle' = FALSE

OpenHeader ==
  /\ pc = "header"
  /\ \/ /\ pos' = 1 /\ Verdict(disk.header, spec) = "OK"
        /\ pc' = "scan"
        /\ UNCHANGED <<rc, opened, cached, length, handle>>
     \/ /\ \/ pos' = 1 /\ Verdict(disk.header, spec) # "OK" /\ Return(Verdict(disk.header, spec))
           \/ pos' = 0 /\ Return("EIO")
        /\ Release
  /\ UNCHANGED <<spec, disk, start, cache, openVars, readVars>>

\* mutant: the first cell of a chunk is left out of the CRC
AgreesButFirst(count) == \A i \in 1 .. count - 1 : cache'[i] = spec.crc[done + i + 1]

\* The cells just fetched are those the CRC was computed from.
Agrees(count) == \A i \in 0 .. count - 1 : cache'[i] = spec.crc[done + i + 1]

OpenScan ==
  /\ pc = "scan" /\ done < spec.length
  /\ LET count == Lesser(spec.length - done, CacheSize) IN
     \/ /\ Fetched(count)
        /\ done' = done + count
        /\ intact' = (intact /\ Agrees(count))
        /\ UNCHANGED <<pc, rc, opened, cached, length, handle>>
     \/ /\ FetchFails(count)
        /\ Release
        /\ UNCHANGED openVars
  /\ UNCHANGED <<spec, disk, start, readVars>>

\* mutant: a file longer than its header says is taken
AnyLength == FALSE

Trailing == Left > 0

\* The CRC, then one byte more, which must not be there.
OpenEnd ==
  /\ pc = "scan" /\ done = spec.length
  /\ \/ /\ ~intact /\ Return("EBADMSG") /\ Release
        /\ UNCHANGED <<cache, pos>>
     \/ /\ intact /\ Return("EIO") /\ Release
        /\ UNCHANGED <<cache, pos>>
     \/ /\ intact /\ Trailing /\ Fetched(1) /\ Return("EFBIG") /\ Release
     \/ /\ intact /\ ~Trailing
        /\ length' = spec.length /\ cached' = 0
        /\ Return("OK")
        /\ UNCHANGED <<cache, pos, opened, handle>>
  /\ UNCHANGED <<spec, disk, start, openVars, readVars>>

Close ==
  /\ Ready
  /\ IF opened THEN Release /\ rc' \in {"OK", "EIO"}
               ELSE rc' = "OK" /\ UNCHANGED <<opened, cached, length, handle>>
  /\ UNCHANGED <<spec, disk, pc, pos, start, cache, openVars, readVars>>

---------------------------------------------------------------------------
InRange(o, n) == o <= length /\ n <= length - o

\* read(): the checks, and the entry of the loop.
Read(o, n) ==
  /\ pc = "idle"
  /\ from' = o /\ offset' = o /\ size' = n /\ out' = <<>>
  /\ \/ ~opened /\ Return("ENODEV")
     \/ opened /\ ~InRange(o, n) /\ Return("ERANGE")
     \/ opened /\ InRange(o, n) /\ pc' = "read" /\ UNCHANGED rc
  /\ UNCHANGED <<spec, fileVars, opened, length, cacheVars, openVars>>

\* mutant: the cell behind the page counts as held
HeldOrNext == cached > 0 /\ start <= offset /\ offset - start <= cached

Held == cached > 0 /\ start <= offset /\ offset - start < cached

\* mutant: the old page stays valid until the new one is read
KeepsPage == UNCHANGED cached

Forget == cached' = 0

\* A page that is not held: the seek, and the page.
ReadMiss ==
  /\ pc = "read" /\ size > 0 /\ ~Held
  /\ start' = offset - (offset % CacheSize)
  /\ Forget
  /\ \/ Return("EIO") /\ UNCHANGED pos
     \/ pos' = 1 + start' /\ pc' = "fill" /\ UNCHANGED rc
  /\ UNCHANGED <<spec, disk, handle, cache, opened, length, openVars, readVars>>

ReadFill ==
  /\ pc = "fill"
  /\ LET count == Lesser(length - start, CacheSize) IN
     \/ Fetched(count) /\ cached' = count /\ pc' = "read" /\ UNCHANGED rc
     \/ FetchFails(count) /\ UNCHANGED cached
  /\ UNCHANGED <<spec, disk, handle, start, opened, length, openVars, readVars>>

ReadCopy ==
  /\ pc = "read" /\ size > 0 /\ Held
  /\ LET count == Lesser(cached - (offset - start), size) IN
     /\ out' = out \o [i \in 1 .. count |-> cache[offset - start + i - 1]]
     /\ offset' = offset + count /\ size' = size - count
  /\ UNCHANGED <<spec, fileVars, pc, rc, opened, length, cacheVars, openVars, from>>

ReadEnd ==
  /\ pc = "read" /\ size = 0
  /\ Return("OK")
  /\ UNCHANGED <<spec, fileVars, opened, length, cacheVars, openVars, readVars>>

\* The steps of a call under way.
BundleStep ==
  OpenHeader \/ OpenScan \/ OpenEnd \/ ReadMiss \/ ReadFill \/ ReadCopy \/ ReadEnd

BundleNext ==
  \/ Install \/ Open \/ Close \/ Take
  \/ \E o, n \in 0 .. Word - 1 : Read(o, n)
  \/ BundleStep

BundleSpec == BundleInit /\ [][BundleNext]_bundleVars

---------------------------------------------------------------------------
(* A bundle that is open between calls is the resource the sketch was      *)
(* compiled with: same header, same bytes, nothing behind them; and the    *)
(* file is held exactly as long as the bundle is open.                     *)
OpenIsVerified ==
  /\ handle <=> opened
  /\ pc = "idle" /\ opened => /\ Verdict(disk.header, spec) = "OK"
                              /\ length = spec.length /\ Len(disk.body) = length
                              /\ disk.body = spec.crc

(* The cache holds what it says, after whatever failure: open() scans with *)
(* it, and a page that could not be read leaves its cells behind.          *)
CacheIsHonest ==
  cached > 0 => /\ pc \notin {"header", "scan"} /\ opened
                /\ \A i \in 0 .. cached - 1 : cache[i] = disk.body[start + i + 1]

(* A read never delivers, not even before it fails, a byte that is not the *)
(* resource's.                                                             *)
ReadsTellTheResource ==
  opened /\ pc \notin {"header", "scan"} =>
    \A i \in DOMAIN out : from + i <= spec.length /\ out[i] = spec.crc[from + i]

---------------------------------------------------------------------------
Opening == pc \in {"header", "scan"}
Reading == pc \in {"read", "fill"}

FlagsOK == opened \in BOOLEAN /\ handle \in BOOLEAN /\ intact \in BOOLEAN

BundleTypeOK ==
  /\ spec \in Specs /\ disk \in Files[spec] \cup {NoFile}
  /\ pc \in {"idle", "header", "scan", "read", "fill"}
  /\ FlagsOK /\ (handle <=> opened)
  /\ length \in Nat /\ start \in Nat /\ cached \in Nat /\ pos \in Nat /\ done \in Nat
  /\ from \in Nat /\ offset \in Nat /\ size \in Nat /\ out \in Seq(Cell)
  /\ cache \in [0 .. CacheSize - 1 -> Cell \cup {Spoilt}]

\* What has been scanned agrees with the specification as long as intact says so.
Scanned ==
  /\ opened => disk \in Files[spec]
  /\ Opening => opened /\ cached = 0
  /\ pc = "header" => done = 0
  /\ pc = "scan" => /\ pos = done + 1 /\ done <= spec.length /\ done <= Len(disk.body)
                    /\ Verdict(disk.header, spec) = "OK"
                    /\ intact => \A i \in 1 .. done : disk.body[i] = spec.crc[i]

Verified ==
  opened /\ ~Opening => /\ Verdict(disk.header, spec) = "OK"
                        /\ length = spec.length /\ disk.body = spec.crc

CacheWithin ==
  /\ ~opened => cached = 0
  /\ cached > 0 => cached <= CacheSize /\ start + cached <= length
  /\ CacheIsHonest

Copied ==
  /\ ~opened \/ Opening => out = <<>>
  /\ Reading => opened /\ offset + size <= length /\ offset = from + Len(out)
  /\ pc = "fill" => cached = 0 /\ size > 0 /\ start <= offset /\ pos = start + 1
  /\ ReadsTellTheResource

(* The inductive invariant: what each step of a call has seen of the file.  *)
BundleInv == BundleTypeOK /\ Scanned /\ Verified /\ CacheWithin /\ Copied
=============================================================================

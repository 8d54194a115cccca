--------------------------- MODULE FxData_proofs ---------------------------
(***************************************************************************)
(* The bundle for every cache size, file and specification, alone and      *)
(* under the decoder.  BundleInv is inductive: the CRC, verified at open,  *)
(* makes the file the resource, the cache repeats the file, and what       *)
(* read() copies repeats the cache.  FxInv is inductive beside it: the     *)
(* index begin() has checked is the one every page is found by, and        *)
(* decode() keeps within its block and within its page.  PackInv is        *)
(* inductive beside both: the recursion of the packer defines what it says *)
(* it does, and decode() undoes it run by run, for data of every length.   *)
(***************************************************************************)
EXTENDS FxData, SequenceTheorems, WellFoundedInduction, TLAPS

USE DEF fileVars, openVars, readVars, cacheVars

\* The page an offset is in begins at or before it.
LEMMA PageBegins ==
  ASSUME NEW o \in Nat
  PROVE  o - (o % CacheSize) \in Nat /\ o - (o % CacheSize) <= o
  BY BundleAssumption, SMT

LEMMA LesserBounds ==
  ASSUME NEW a \in Nat, NEW b \in Nat
  PROVE  Lesser(a, b) \in Nat /\ Lesser(a, b) <= a /\ Lesser(a, b) <= b
  BY SMT DEF Lesser

\* The cells a chunk of c takes from position d + 1 are in a file of l.
LEMMA CellsAhead ==
  ASSUME NEW l \in Nat, NEW d \in Nat, NEW p, p = d + 1, NEW c \in Nat, c <= l + 1 - p,
         NEW i \in 0 .. c - 1
  PROVE  p + i \in 1 .. l
  BY SMT

\* Two sequences of one length that agree everywhere are the same.
LEMMA SameSequence ==
  ASSUME NEW S, NEW s \in Seq(S), NEW t \in Seq(S), Len(s) = Len(t),
         \A i \in 1 .. Len(s) : s[i] = t[i]
  PROVE  s = t
  BY SMT

\* The sequences of an open bundle.
LEMMA Sequences ==
  ASSUME BundleTypeOK, Scanned
  PROVE  /\ spec.crc \in Seq(Cell) /\ spec.length = Len(spec.crc) /\ spec.length \in Nat
         /\ opened => disk.body \in Seq(Cell) /\ Len(disk.body) \in Nat
  BY BundleAssumption, LenProperties DEF BundleTypeOK, Scanned

LEMMA InitBundle == ASSUME BundleInit PROVE BundleInv
  <1>1. FlagsOK /\ ~opened /\ ~handle
    BY Zenon DEF BundleInit, FlagsOK
  <1>2. cache \in [0 .. CacheSize - 1 -> Cell \cup {Spoilt}]
    BY BundleAssumption, SMT DEF BundleInit
  <1>3. out \in Seq(Cell) /\ out = <<>>
    BY EmptySeq DEF BundleInit
  <1>4. BundleTypeOK
    BY <1>1, <1>2, <1>3, SMT DEF BundleInit, BundleTypeOK
  <1>5. Scanned /\ Verified /\ CacheWithin /\ Copied
    BY <1>1, <1>3, SMT DEF BundleInit, Scanned, Verified, CacheWithin, CacheIsHonest, Copied,
                           ReadsTellTheResource, Opening, Reading
  <1> QED
    BY <1>4, <1>5 DEF BundleInv

-----------------------------------------------------------------------------
(* Between calls. *)

LEMMA InstallKeeps == ASSUME BundleInv, Install PROVE BundleInv'
  BY SMT DEF BundleInv, BundleTypeOK, FlagsOK, Scanned, Verified, CacheWithin, CacheIsHonest, Copied,
             ReadsTellTheResource, Opening, Reading, Install, Ready

LEMMA TakeKeeps == ASSUME BundleInv, Take PROVE BundleInv'
  <1>1. out' \in Seq(Cell) /\ out' = <<>>
    BY EmptySeq DEF Take, Taken
  <1> QED
    BY <1>1, SMT DEF BundleInv, BundleTypeOK, FlagsOK, Scanned, Verified, CacheWithin, CacheIsHonest,
                     Copied, ReadsTellTheResource, Opening, Reading, Take, Taken

LEMMA CloseKeeps == ASSUME BundleInv, Close PROVE BundleInv'
  <1> USE DEF BundleInv, Opening, Reading, Close, Ready, Release
  <1>1. FlagsOK' /\ (opened' => opened /\ UNCHANGED <<length, cached>>) /\ (opened' = FALSE => cached' = 0)
    BY Zenon DEF BundleTypeOK, FlagsOK, CacheWithin
  <1>2. BundleTypeOK'
    BY <1>1, SMT DEF BundleTypeOK
  <1>3. Scanned' /\ Verified'
    BY <1>1, SMT DEF Scanned, Verified
  <1>4. CacheWithin' /\ Copied'
    BY <1>1, SMT DEF BundleTypeOK, CacheWithin, CacheIsHonest, Copied, ReadsTellTheResource
  <1> QED
    BY <1>2, <1>3, <1>4

-----------------------------------------------------------------------------
(* Opening: until the last check nothing is served. *)

LEMMA OpenKeeps == ASSUME BundleInv, Open PROVE BundleInv'
  <1> USE DEF BundleInv, Opening, Reading, Open, Ready, Return
  <1>1. FlagsOK'
    BY Zenon DEF BundleTypeOK, FlagsOK
  <1>2. BundleTypeOK'
    BY <1>1, SMT DEF BundleTypeOK
  <1>3. Scanned' /\ Verified'
    BY SMT DEF BundleTypeOK, Scanned, Verified, CacheWithin
  <1>4. CacheWithin' /\ Copied'
    BY SMT DEF BundleTypeOK, CacheWithin, CacheIsHonest, Copied, ReadsTellTheResource
  <1> QED
    BY <1>2, <1>3, <1>4

\* An open that is refused, wherever it is, leaves a bundle that is not open.
LEMMA RefusalKeeps ==
  ASSUME BundleInv, Opening, Release, pc' = "idle", pos' \in Nat,
         cache' \in [0 .. CacheSize - 1 -> Cell \cup {Spoilt}],
         UNCHANGED <<spec, disk, start, openVars, readVars>>
  PROVE  BundleInv'
  <1> USE DEF BundleInv, Opening, Reading, Release
  <1>1. FlagsOK' /\ ~opened' /\ ~handle'
    BY Zenon DEF BundleTypeOK, FlagsOK
  <1>2. BundleTypeOK'
    BY <1>1, SMT DEF BundleTypeOK
  <1>3. Scanned' /\ Verified' /\ CacheWithin'
    BY <1>1, SMT DEF BundleTypeOK, Scanned, Verified, CacheWithin, CacheIsHonest
  <1>4. Copied'
    BY <1>1, SMT DEF BundleTypeOK, Copied, ReadsTellTheResource
  <1> QED
    BY <1>2, <1>3, <1>4

LEMMA HeaderKeeps == ASSUME BundleInv, OpenHeader PROVE BundleInv'
  <1> USE DEF BundleInv, Opening, Reading, OpenHeader
  <1>1. CASE pc' = "scan"
    <2>1. spec.length \in Nat /\ Len(disk.body) \in Nat /\ opened
      BY Sequences DEF Scanned
    <2>2. UNCHANGED <<opened, cached, length, handle, cache, start>> /\ pos' = 1
      BY <1>1 DEF Return
    <2>3. Verdict(disk.header, spec) = "OK"
      BY <1>1 DEF Return
    <2>4. BundleTypeOK'
      BY <1>1, <2>2, SMT DEF BundleTypeOK, FlagsOK
    <2>5. Scanned' /\ Verified' 
      BY <1>1, <2>1, <2>2, <2>3, SMT DEF BundleTypeOK, Scanned, Verified
    <2>6. CacheWithin' /\ Copied'
      BY <1>1, <2>1, <2>2, SMT DEF BundleTypeOK, Scanned, CacheWithin, CacheIsHonest, Copied,
                                   ReadsTellTheResource
    <2> QED
      BY <2>4, <2>5, <2>6
  <1>2. CASE pc' # "scan"
    <2>1. Release /\ pc' = "idle" /\ pos' \in Nat
      BY <1>2 DEF Return
    <2> QED
      BY <2>1, RefusalKeeps DEF BundleTypeOK
  <1> QED
    BY <1>1, <1>2

LEMMA ScanKeeps == ASSUME BundleInv, OpenScan PROVE BundleInv'
  <1> DEFINE count == Lesser(spec.length - done, CacheSize)
  <1> USE DEF BundleInv, Opening, Reading, OpenScan
  <1>0. /\ spec.crc \in Seq(Cell) /\ disk.body \in Seq(Cell)
        /\ spec.length \in Nat /\ spec.length = Len(spec.crc) /\ Len(disk.body) \in Nat /\ opened
    BY Sequences DEF Scanned
  <1>1. count \in Nat /\ count <= spec.length - done /\ count <= CacheSize
    BY <1>0, BundleAssumption, SMT DEF Lesser, BundleTypeOK
  <1>2. CASE Fetched(count) /\ pc' = pc
    <2>1. /\ UNCHANGED <<opened, cached, length, handle, start>> /\ done' = done + count
          /\ pos' = pos + count /\ pos = done + 1 /\ done \in Nat
      BY <1>2 DEF Fetched, FetchFails, Return, Scanned, BundleTypeOK
    <2>c. count \in Nat /\ count <= spec.length - done
      BY <1>1
    <2>2. \A i \in 0 .. count - 1 : cache'[i] = disk.body[pos + i] /\ pos + i \in 1 .. Len(disk.body)
      <3>1. count <= Len(disk.body) + 1 - pos
        BY <1>2 DEF Fetched, Left
      <3>2. DOMAIN cache = 0 .. CacheSize - 1
        BY DEF BundleTypeOK
      <3>3. ASSUME NEW i \in 0 .. count - 1 PROVE cache'[i] = disk.body[pos + i]
        BY <1>1, <1>2, <3>2, BundleAssumption, SMT DEF Fetched
      <3>n. Len(disk.body) \in Nat /\ done \in Nat /\ pos = done + 1 /\ count \in Nat
        BY <1>0, <2>c, <2>1, Zenon
      <3> HIDE DEF count, OpenScan, BundleInv
      <3>4. ASSUME NEW i \in 0 .. count - 1 PROVE pos + i \in 1 .. Len(disk.body)
        BY <3>1, <3>n, CellsAhead
      <3> QED
        BY <3>3, <3>4
    <2>3. cache' \in [0 .. CacheSize - 1 -> Cell \cup {Spoilt}]
      <3>1. \A i \in 0 .. count - 1 : disk.body[pos + i] \in Cell
        BY <2>2, <1>0, ElementOfSeq
      <3> QED
        BY <1>1, <1>2, <3>1, SMT DEF Fetched, BundleTypeOK
    <2>4. intact' \in BOOLEAN /\ (intact' => intact /\ Agrees(count))
      BY <1>2, Zenon DEF Fetched, FetchFails, Return, BundleTypeOK, FlagsOK
    <2>5. BundleTypeOK'
      BY <1>0, <1>1, <1>2, <2>1, <2>3, <2>4, SMT DEF BundleTypeOK, FlagsOK
    <2>6. intact' => \A i \in 1 .. done' : disk.body[i] = spec.crc[i]
      <3> SUFFICES ASSUME intact', NEW i \in 1 .. done' PROVE disk.body[i] = spec.crc[i]
        OBVIOUS
      <3>0. done \in Nat /\ count \in Nat /\ done' = done + count
        BY <1>1, <2>1 DEF BundleTypeOK
      <3>c. pc = "scan" /\ intact /\ pos = done + 1
        BY <2>1, <2>4
      <3>s. \A j \in 1 .. done : disk.body[j] = spec.crc[j]
        BY <3>c DEF Scanned
      <3> HIDE DEF count, OpenScan, BundleInv
      <3>1. CASE i <= done
        BY <3>0, <3>1, <3>s, SMT
      <3>2. CASE i > done
        <4>1. i - done - 1 \in 0 .. count - 1
          BY <3>0, <3>2, SMT
        <4>2. cache'[i - done - 1] = spec.crc[done + (i - done - 1) + 1]
          BY <2>4, <4>1 DEF Agrees
        <4>3. cache'[i - done - 1] = disk.body[pos + (i - done - 1)]
          BY <2>2, <4>1
        <4> QED
          <5>1. done + (i - done - 1) + 1 = i /\ pos + (i - done - 1) = i
            BY <3>0, <3>c, SMT
          <5> QED
            BY <5>1, <4>2, <4>3
      <3> QED
        BY <3>0, <3>1, <3>2, SMT
    <2>7. Scanned' /\ Verified'
      <3>1. count <= Len(disk.body) + 1 - pos
        BY <1>2 DEF Fetched, Left
      <3>n. /\ Len(disk.body) \in Nat /\ spec.length \in Nat /\ done \in Nat /\ pos = done + 1
            /\ count \in Nat /\ count <= spec.length - done
            /\ done' = done + count /\ pos' = pos + count
        BY <1>0, <2>c, <2>1, Zenon
      <3> HIDE DEF count, OpenScan, BundleInv
      <3>2. done' <= spec.length /\ done' <= Len(disk.body) /\ pos' = done' + 1
        <4> DEFINE l == Len(disk.body)
                   m == spec.length
        <4>0. l \in Nat /\ m \in Nat /\ count <= l + 1 - pos /\ count <= m - done
          BY <3>1, <3>n, Zenon
        <4> HIDE DEF l, m
        <4>1. done + count <= m /\ done + count <= l /\ pos + count = done + count + 1
          BY <3>n, <4>0, SMT
        <4> QED
          BY <3>n, <4>1, Zenon DEF l, m
      <3>3. Verdict(disk.header, spec) = "OK"
        BY <1>2 DEF Scanned, OpenScan, BundleInv
      <3>4. UNCHANGED <<spec, disk>> /\ pc' = "scan" /\ opened' /\ cached' = 0 /\ disk \in Files[spec]
        BY <1>0, <1>2, <2>1 DEF Scanned, OpenScan, BundleInv
      <3> QED
        BY <2>6, <3>2, <3>3, <3>4 DEF Scanned, Verified
    <2>8. CacheWithin' /\ Copied'
      BY <1>0, <1>2, <2>1, SMT DEF BundleTypeOK, Scanned, CacheWithin, CacheIsHonest, Copied,
                                   ReadsTellTheResource
    <2> QED
      BY <2>5, <2>7, <2>8
  <1>3. CASE FetchFails(count) /\ Release
    <2>1. pc' = "idle" /\ pos' \in Nat
      BY <1>3 DEF FetchFails, Return, BundleTypeOK
    <2>2. cache' \in [0 .. CacheSize - 1 -> Cell \cup {Spoilt}]
      BY <1>3, SMT DEF FetchFails, BundleTypeOK
    <2> QED
      BY <1>3, <2>1, <2>2, RefusalKeeps
  <1> QED
    BY <1>2, <1>3

LEMMA EndKeeps == ASSUME BundleInv, OpenEnd PROVE BundleInv'
  <1> USE DEF BundleInv, Opening, Reading, OpenEnd
  <1>0. /\ spec.crc \in Seq(Cell) /\ disk.body \in Seq(Cell)
        /\ spec.length \in Nat /\ spec.length = Len(spec.crc) /\ Len(disk.body) \in Nat /\ opened
    BY Sequences DEF Scanned
  <1>1. CASE ~Release
    <2>1. /\ intact /\ Left <= 0 /\ length' = spec.length /\ cached' = 0 /\ pc' = "idle"
          /\ UNCHANGED <<cache, pos, opened, handle>>
      <3>1. intact /\ ~Trailing /\ length' = spec.length /\ cached' = 0 /\ pc' = "idle"
            /\ UNCHANGED <<cache, pos, opened, handle>>
        BY <1>1, Zenon DEF Return
      <3>2. Left <= 0
        BY <1>0, <3>1, SMT DEF Trailing, Left, BundleTypeOK
      <3> QED
        BY <3>1, <3>2
    <2>2. disk.body = spec.crc
      <3>1. Len(disk.body) = Len(spec.crc)
        BY <1>0, <2>1, SMT DEF Scanned, Left, BundleTypeOK
      <3>2. \A i \in 1 .. Len(disk.body) : disk.body[i] = spec.crc[i]
        BY <1>0, <2>1, <3>1 DEF Scanned
      <3> QED
        BY <1>0, <3>1, <3>2, SameSequence
    <2>3. BundleTypeOK'
      BY <1>0, <2>1, SMT DEF BundleTypeOK, FlagsOK
    <2>4. Scanned' /\ Verified'
      BY <1>0, <2>1, <2>2, SMT DEF Scanned, Verified
    <2>5. CacheWithin' /\ Copied'
      BY <1>0, <2>1, SMT DEF BundleTypeOK, CacheWithin, CacheIsHonest, Copied, ReadsTellTheResource
    <2> QED
      BY <2>3, <2>4, <2>5
  <1>2. CASE Release
    <2>1. pc' = "idle"
      BY DEF Return
    <2>2. CASE UNCHANGED <<cache, pos>>
      BY <1>2, <2>1, <2>2, RefusalKeeps DEF BundleTypeOK
    <2>3. CASE Trailing /\ Fetched(1)
      <3>1. pos' \in Nat
        BY <2>3, SMT DEF Fetched, BundleTypeOK
      <3>2. pos \in 1 .. Len(disk.body)
        BY <1>0, <2>3, SMT DEF Trailing, Left, Scanned, BundleTypeOK
      <3>3. disk.body[pos] \in Cell
        BY <1>0, <3>2, ElementOfSeq
      <3>4. cache' \in [0 .. CacheSize - 1 -> Cell \cup {Spoilt}]
        BY <2>3, <3>2, <3>3, SMT DEF Fetched, BundleTypeOK
      <3> QED
        BY <1>2, <2>1, <3>1, <3>4, RefusalKeeps
    <2> QED
      BY <2>2, <2>3
  <1> QED
    BY <1>1, <1>2

-----------------------------------------------------------------------------
(* Reading. *)

LEMMA ReadKeeps ==
  ASSUME BundleInv, NEW o \in Nat, NEW n \in Nat, Read(o, n)
  PROVE  BundleInv'
  <1> USE DEF BundleInv, Opening, Reading, Read
  <1>1. out' \in Seq(Cell) /\ out' = <<>> /\ Len(out') = 0
    BY EmptySeq
  <1>2. pc' = "idle" \/ (pc' = "read" /\ opened /\ InRange(o, n))
    BY Zenon DEF Return
  <1>3. BundleTypeOK'
    BY <1>1, <1>2, SMT DEF BundleTypeOK, FlagsOK
  <1>4. Scanned' /\ Verified' /\ CacheWithin'
    BY <1>2, SMT DEF Scanned, Verified, CacheWithin, CacheIsHonest
  <1>5. Copied'
    BY <1>1, <1>2, SMT DEF BundleTypeOK, Copied, ReadsTellTheResource, InRange
  <1> QED
    BY <1>3, <1>4, <1>5

LEMMA MissKeeps == ASSUME BundleInv, ReadMiss PROVE BundleInv'
  <1>0. /\ pc = "read" /\ size > 0 /\ start' = offset - (offset % CacheSize) /\ cached' = 0
        /\ UNCHANGED <<spec, disk, handle, cache, opened, length, done, intact, from, offset, size, out>>
    BY Zenon DEF ReadMiss, Forget
  <1>1. start' \in Nat /\ start' <= offset
    BY <1>0, PageBegins DEF BundleInv, BundleTypeOK
  <1>2. (pc' = "idle" /\ pos' = pos) \/ (pc' = "fill" /\ pos' = 1 + start')
    BY Zenon DEF ReadMiss, Return
  <1>p. pos' \in Nat
    BY <1>1, <1>2, SMT DEF BundleInv, BundleTypeOK
  <1>3. BundleTypeOK'
    BY <1>0, <1>1, <1>2, <1>p, Zenon DEF BundleInv, BundleTypeOK, FlagsOK
  <1>4. opened
    BY <1>0 DEF BundleInv, Copied, Reading
  <1>5. Scanned' /\ Verified'
    BY <1>0, <1>2, <1>4, Zenon DEF BundleInv, Opening, Scanned, Verified
  <1>6. ~(cached' > 0)
    BY <1>0, SMT
  <1>7. CacheWithin' 
    BY <1>0, <1>6, Zenon DEF CacheWithin, CacheIsHonest
  <1>8. Copied'
    <2>1. pc' = "fill" => pos' = start' + 1
      BY <1>1, <1>2, SMT
    <2> QED
      BY <1>0, <1>1, <1>2, <1>4, <2>1, Zenon DEF BundleInv, Opening, Reading, Copied, ReadsTellTheResource
  <1> QED
    BY <1>3, <1>5, <1>7, <1>8 DEF BundleInv

\* A page that is fetched: the cells of the file from start on.
LEMMA FillKeeps == ASSUME BundleInv, ReadFill PROVE BundleInv'
  <1> DEFINE count == Lesser(length - start, CacheSize)
  <1> USE DEF BundleInv, Opening, Reading, ReadFill
  <1>0. /\ disk.body \in Seq(Cell) /\ length = Len(disk.body) /\ length \in Nat /\ opened
        /\ pos = start + 1 /\ start \in Nat /\ start < length /\ cached = 0
    <2>1. opened /\ offset + size <= length /\ size > 0 /\ start <= offset /\ pos = start + 1 /\ cached = 0
      BY DEF Copied
    <2>2. length \in Nat /\ start \in Nat /\ offset \in Nat /\ size \in Nat
      BY DEF BundleTypeOK
    <2>3. disk.body \in Seq(Cell) /\ length = Len(disk.body)
      BY <2>1, Sequences DEF Verified
    <2> QED
      BY <2>1, <2>2, <2>3, SMT
  <1>1. count \in Nat /\ count <= length - start /\ count <= CacheSize
    BY <1>0, BundleAssumption, SMT DEF Lesser
  <1>2. UNCHANGED <<spec, disk, handle, start, opened, length, openVars, readVars>>
    OBVIOUS
  <1>3. CASE Fetched(count) /\ cached' = count /\ pc' = "read"
    <2>1. pos' \in Nat /\ pos' = pos + count
      BY <1>0, <1>1, <1>3, SMT DEF Fetched
    <2>2. \A i \in 0 .. count - 1 : cache'[i] = disk.body[start + i + 1] /\ pos + i \in 1 .. Len(disk.body)
      <3>1. DOMAIN cache = 0 .. CacheSize - 1
        BY DEF BundleTypeOK
      <3>2. ASSUME NEW i \in 0 .. count - 1 PROVE cache'[i] = disk.body[pos + i]
        BY <1>1, <1>3, <3>1, BundleAssumption, SMT DEF Fetched
      <3>c. count \in Nat /\ count <= length - start
        BY <1>1
      <3> HIDE DEF count
      <3>3. ASSUME NEW i \in 0 .. count - 1
            PROVE  pos + i \in 1 .. Len(disk.body) /\ pos + i = start + i + 1
        BY <1>0, <3>c, SMT
      <3> QED
        BY <3>2, <3>3
    <2>3. cache' \in [0 .. CacheSize - 1 -> Cell \cup {Spoilt}]
      <3>1. \A i \in 0 .. count - 1 : disk.body[pos + i] \in Cell
        BY <2>2, <1>0, ElementOfSeq
      <3> QED
        BY <1>1, <1>3, <3>1, SMT DEF Fetched, BundleTypeOK
    <2>c. count \in Nat /\ count <= length - start /\ count <= CacheSize /\ cached' = count
      BY <1>1, <1>3
    <2> HIDE DEF count
    <2>4. BundleTypeOK'
      BY <1>2, <1>3, <2>1, <2>3, <2>c DEF BundleTypeOK, FlagsOK
    <2>5. Scanned' /\ Verified'
      BY <1>0, <1>2, <1>3 DEF Scanned, Verified
    <2>6. CacheIsHonest'
      BY <1>0, <1>2, <1>3, <2>2, <2>c DEF CacheIsHonest
    <2>7. CacheWithin' /\ Copied'
      <3>1. start + count <= length
        BY <1>0, <2>c, SMT
      <3>2. CacheWithin'
        BY <1>0, <1>2, <2>6, <2>c, <3>1 DEF CacheWithin
      <3>3. Copied'
        BY <1>0, <1>2, <1>3 DEF Copied, ReadsTellTheResource
      <3> QED
        BY <3>2, <3>3
    <2> QED
      BY <2>4, <2>5, <2>7
  <1>4. CASE FetchFails(count) /\ cached' = cached
    <2>1. pc' = "idle" /\ pos' = pos
      BY <1>4 DEF FetchFails, Return
    <2>2. cache' \in [0 .. CacheSize - 1 -> Cell \cup {Spoilt}]
      BY <1>4, SMT DEF FetchFails, BundleTypeOK
    <2>3. cached' = 0
      BY <1>0, <1>4
    <2>c. pc = "fill"
      OBVIOUS
    <2> HIDE DEF ReadFill, count
    <2>4. BundleTypeOK'
      BY <1>2, <2>1, <2>2, <2>3 DEF BundleTypeOK, FlagsOK
    <2>5. Scanned' /\ Verified'
      BY <1>0, <1>2, <2>1, <2>c DEF Scanned, Verified
    <2>6. CacheWithin'
      BY <2>3, SMT DEF CacheWithin, CacheIsHonest
    <2>7. Copied'
      <3>1. pc = "fill"
        BY DEF ReadFill
      <3> QED
        BY <1>0, <1>2, <2>1, <3>1, Zenon DEF Copied, ReadsTellTheResource
    <2> QED
      BY <2>4, <2>5, <2>6, <2>7
  <1> QED
    BY <1>3, <1>4

\* What is copied is behind what was, and repeats the cache.
LEMMA CopyKeeps == ASSUME BundleInv, ReadCopy PROVE BundleInv'
  <1> DEFINE count == Lesser(cached - (offset - start), size)
             piece == [i \in 1 .. count |-> cache[offset - start + i - 1]]
  <1> USE DEF BundleInv, Opening, Reading, ReadCopy
  <1>0. /\ length = spec.length /\ disk.body = spec.crc /\ opened /\ offset = from + Len(out)
        /\ offset + size <= length /\ start <= offset /\ offset - start < cached
        /\ cached <= CacheSize /\ start + cached <= length /\ cached > 0 /\ size > 0
    <2>1. opened /\ offset + size <= length /\ offset = from + Len(out)
      BY DEF Copied
    <2> QED
      BY <2>1 DEF Held, Verified, CacheWithin
  <1>1. /\ length \in Nat /\ start \in Nat /\ offset \in Nat /\ size \in Nat /\ cached \in Nat
        /\ from \in Nat /\ out \in Seq(Cell) /\ Len(out) \in Nat
    BY LenProperties DEF BundleTypeOK
  <1>2. count \in Nat /\ count <= size /\ offset - start + count <= cached
    <2>1. /\ start <= offset /\ offset - start < cached
          /\ offset \in Nat /\ start \in Nat /\ cached \in Nat /\ size \in Nat
      BY <1>0, <1>1, Zenon
    <2> HIDE DEF ReadCopy, BundleInv
    <2>2. cached - (offset - start) \in Nat
      BY <2>1, SMT
    <2>3. count \in Nat /\ count <= size /\ count <= cached - (offset - start)
      BY <2>1, <2>2, LesserBounds
    <2> HIDE DEF count
    <2> QED
      BY <2>1, <2>3, SMT
  <1>3. /\ out' = out \o piece /\ offset' = offset + count /\ size' = size - count
        /\ UNCHANGED <<spec, fileVars, pc, rc, opened, length, cacheVars, openVars, from>>
    OBVIOUS
  <1>4. \A i \in 0 .. cached - 1 : cache[i] = disk.body[start + i + 1]
    BY <1>0 DEF CacheWithin, CacheIsHonest
  <1>5. ASSUME NEW i \in 1 .. count
        PROVE  /\ piece[i] = spec.crc[offset + i] /\ offset + i \in 1 .. spec.length
               /\ piece[i] \in Cell
    <2>c. count \in Nat /\ count <= size /\ offset - start + count <= cached
      BY <1>2
    <2>1. piece[i] = cache[offset - start + i - 1]
      OBVIOUS
    <2> HIDE DEF count, piece
    <2>2. /\ offset - start + i - 1 \in 0 .. cached - 1
          /\ start + (offset - start + i - 1) + 1 = offset + i
          /\ offset + i \in 1 .. length
      BY <1>0, <1>1, <2>c, SMT
    <2>3. piece[i] = spec.crc[offset + i]
      BY <1>0, <1>4, <2>1, <2>2
    <2>4. spec.crc \in Seq(Cell) /\ Len(spec.crc) = length
      BY <1>0, Sequences
    <2> QED
      BY <1>0, <2>2, <2>3, <2>4, ElementOfSeq
  <1>6. piece \in Seq(Cell) /\ Len(piece) = count
    <2>1. piece \in [1 .. count -> Cell]
      BY <1>5
    <2>2. piece \in Seq(Cell)
      BY <1>2, <2>1, SeqDef
    <2>3. DOMAIN piece = 1 .. count /\ Len(piece) \in Nat /\ DOMAIN piece = 1 .. Len(piece)
      BY <2>2, LenProperties
    <2> HIDE DEF piece, count
    <2> QED
      BY <1>2, <2>2, <2>3, SMT
  <1>c. count \in Nat /\ count <= size /\ \A i \in 1 .. count : piece[i] = spec.crc[offset + i]
                                                          /\ offset + i \in 1 .. spec.length
    BY <1>2, <1>5
  <1> HIDE DEF count, piece, ReadCopy
  <1>7. /\ out' \in Seq(Cell) /\ Len(out') = Len(out) + count
        /\ \A i \in 1 .. Len(out) + count :
             out'[i] = IF i <= Len(out) THEN out[i] ELSE piece[i - Len(out)]
    BY <1>1, <1>3, <1>6, ConcatProperties
  <1>8. BundleTypeOK'
    <2>1. offset' \in Nat /\ size' \in Nat
      BY <1>1, <1>3, <1>c, SMT
    <2> QED
      BY <1>3, <1>7, <2>1 DEF BundleTypeOK, FlagsOK
  <1>9. Scanned' /\ Verified' /\ CacheWithin'
    BY <1>3 DEF Scanned, Verified, CacheWithin, CacheIsHonest
  <1>10. \A i \in DOMAIN out' : from + i <= spec.length /\ out'[i] = spec.crc[from + i]
    <2> SUFFICES ASSUME NEW i \in 1 .. Len(out) + count
                 PROVE  from + i <= spec.length /\ out'[i] = spec.crc[from + i]
      BY <1>7
    <2>1. CASE i <= Len(out)
      <3>1. i \in DOMAIN out
        BY <1>1, <2>1, SMT
      <3>2. pc = "read"
        BY DEF ReadCopy
      <3> QED
        BY <1>0, <1>7, <2>1, <3>1, <3>2 DEF Copied, ReadsTellTheResource
    <2>2. CASE i > Len(out)
      <3>1. i - Len(out) \in 1 .. count /\ offset + (i - Len(out)) = from + i
        BY <1>0, <1>1, <1>c, <2>2, SMT
      <3>2. out'[i] = piece[i - Len(out)]
        BY <1>1, <1>c, <1>7, <2>2, SMT
      <3>3. from + i \in 1 .. spec.length
        BY <1>c, <3>1
      <3> QED
        BY <1>0, <1>1, <1>c, <3>1, <3>2, <3>3
    <2> QED
      BY <1>1, <1>c, <2>1, <2>2, SMT
  <1>11. Copied'
    <2>1. pc' = "read"
      BY <1>3 DEF ReadCopy
    <2>2. offset' + size' <= length' /\ offset' = from' + Len(out')
      BY <1>0, <1>1, <1>3, <1>c, <1>7, SMT
    <2> QED
      BY <1>0, <1>3, <1>10, <2>1, <2>2 DEF Copied, ReadsTellTheResource
  <1> QED
    BY <1>8, <1>9, <1>11

LEMMA EndOfReadKeeps == ASSUME BundleInv, ReadEnd PROVE BundleInv'
  BY SMT DEF BundleInv, BundleTypeOK, FlagsOK, Scanned, Verified, CacheWithin, CacheIsHonest, Copied,
             ReadsTellTheResource, Opening, Reading, ReadEnd, Return

-----------------------------------------------------------------------------
LEMMA InnerStepKeeps == ASSUME BundleInv, BundleStep PROVE BundleInv'
  BY HeaderKeeps, ScanKeeps, EndKeeps, MissKeeps, FillKeeps, CopyKeeps, EndOfReadKeeps
     DEF BundleStep

LEMMA BundleStepKeeps == ASSUME BundleInv, BundleNext PROVE BundleInv'
  <1>1. CASE Install \/ Open \/ Close \/ Take
    BY <1>1, InstallKeeps, OpenKeeps, CloseKeeps, TakeKeeps
  <1>2. CASE \E o, n \in 0 .. Word - 1 : Read(o, n)
    <2>1. PICK o \in 0 .. Word - 1, n \in 0 .. Word - 1 : Read(o, n)
      BY <1>2
    <2>2. o \in Nat /\ n \in Nat
      BY BundleAssumption, SMT
    <2> QED
      BY <2>1, <2>2, ReadKeeps
  <1> QED
    BY <1>1, <1>2, InnerStepKeeps DEF BundleNext

LEMMA BundleStutterKeeps == ASSUME BundleInv, UNCHANGED bundleVars PROVE BundleInv'
  BY DEF BundleInv, BundleTypeOK, FlagsOK, Scanned, Verified, CacheWithin, CacheIsHonest, Copied,
         ReadsTellTheResource, Opening, Reading, bundleVars

(* The bundle's inductive invariant: in every state of every call, whatever *)
(* operation on the file failed before it.                                  *)
THEOREM BundleInvariance == BundleSpec => []BundleInv
  <1>1. BundleInv /\ [BundleNext]_bundleVars => BundleInv'
    BY BundleStepKeeps, BundleStutterKeeps
  <1>2. BundleInit => BundleInv
    BY InitBundle
  <1> QED
    BY <1>1, <1>2, PTL DEF BundleSpec

(* ResourceBundle::open() accepts the file the sketch was compiled for and  *)
(* no other, and the file is held exactly as long as the bundle is open.    *)
THEOREM OpenBundlesAreVerified == BundleSpec => []OpenIsVerified
  <1>1. BundleInv => OpenIsVerified
    <2> SUFFICES ASSUME BundleInv PROVE OpenIsVerified
      OBVIOUS
    <2>1. pc = "idle" /\ opened => /\ Verdict(disk.header, spec) = "OK"
                                   /\ length = spec.length /\ disk.body = spec.crc
      BY DEF BundleInv, Verified, Opening
    <2> QED
      BY <2>1, Sequences DEF BundleInv, BundleTypeOK, OpenIsVerified
  <1> QED
    BY <1>1, BundleInvariance, PTL

(* The cache of ResourceBundle repeats the open file wherever it says so,   *)
(* also after a seek or a page that failed.                                 *)
THEOREM CacheTellsTheFile == BundleSpec => []CacheIsHonest
  <1>1. BundleInv => CacheIsHonest
    BY DEF BundleInv, CacheWithin
  <1> QED
    BY <1>1, BundleInvariance, PTL

(* ResourceBundle::read() delivers the bytes the sketch was compiled with,  *)
(* and none behind them, in every prefix of every read.                     *)
THEOREM ReadsAreTrue == BundleSpec => []ReadsTellTheResource
  <1>1. BundleInv => ReadsTellTheResource
    BY DEF BundleInv, Copied
  <1> QED
    BY <1>1, BundleInvariance, PTL

-----------------------------------------------------------------------------
(* The decoder on the bundle.  First the arithmetic of pages. *)

\* The page of an offset within the data is one of its blocks.
LEMMA PageOfOffset ==
  ASSUME NEW o \in Nat, NEW n \in Nat, o < n
  PROVE  /\ o \div Page \in Nat /\ (o \div Page) * Page <= o
         /\ (o \div Page) + 1 <= PageCount(n) /\ PageCount(n) \in Nat
  <1> DEFINE q == o \div Page
  <1>1. Page \in Nat /\ Page > 0
    BY PackAssumption
  <1>2. q \in Nat /\ q * Page <= o /\ o < q * Page + Page
    BY <1>1, SMT
  <1>3. (q + 1) * Page <= n + Page - 1
    BY <1>1, <1>2, SMT
  <1>4. PageCount(n) \in Nat /\ n + Page - 1 < (PageCount(n) + 1) * Page
    BY <1>1, SMT DEF PageCount
  <1>5. q + 1 < PageCount(n) + 1
    BY <1>1, <1>2, <1>3, <1>4, SMT
  <1> QED
    BY <1>2, <1>4, <1>5, SMT

LEMMA BlocksAreNatural ==
  ASSUME NEW n \in Nat
  PROVE  PageCount(n) \in Nat
  BY PackAssumption, SMT DEF PageCount

\* An index that rises step by step rises over any distance, and an entry
\* before the last one is less than it.
LEMMA EntriesOfPage ==
  ASSUME NEW n \in Nat, NEW p \in Nat, p + 1 <= n, spec.length \in Nat, IndexRises(n)
  PROVE  /\ IndexAt(p) + 1 < spec.length
         /\ Entry(p) \in Nat /\ Entry(p + 1) \in Nat
         /\ Entry(p) < Entry(p + 1) /\ Entry(p + 1) <= spec.length
  <1>1. p \in 0 .. n /\ p + 1 \in 0 .. n /\ p \in 0 .. n - 1
    BY SMT
  <1>2. Entry(p) \in Nat /\ Entry(p + 1) \in Nat /\ Entry(p) < Entry(p + 1)
        /\ Entry(p + 1) <= spec.length
    BY <1>1 DEF IndexRises
  <1> QED
    BY <1>2, SMT DEF IndexRises, IndexAt, HeaderCells

\* What is left of the data behind the page of an offset within it.
LEMMA WantedFits ==
  ASSUME FxTypeOK, fxOffset < fxLength
  PROVE  Wanted \in Nat /\ Wanted <= Page
  <1>1. fxLength - (fxOffset \div Page) * Page \in Nat
    BY PageOfOffset, PackAssumption, SMT DEF FxTypeOK
  <1> QED
    BY <1>1, LesserBounds, PackAssumption DEF Wanted

\* What is left of a block is left of the resource.
LEMMA Within ==
  ASSUME NEW p \in Nat, NEW r \in Nat, NEW e \in Nat, NEW l \in Nat, r <= e - p, e <= l
  PROVE  p + r <= e /\ p <= l /\ r <= l - p
  BY SMT

\* The two kinds of run.
LEMMA CountIsNatural ==
  ASSUME NEW control \in Nat
  PROVE  Count(control) \in Nat
  BY PackAssumption, SMT DEF Count

-----------------------------------------------------------------------------
(* What a call of resource_read() does to a call of FxData. *)

\* A read that starts is under way or has failed, out of range only if it is.
LEMMA ReadStarts ==
  ASSUME BundleInv, NEW o \in Nat, NEW n \in Nat, Read(o, n)
  PROVE  /\ from' = o /\ UNCHANGED <<spec, opened, length>> /\ ~Opening'
         /\ Reading' => offset' + size' = from' + n
         /\ pc' = "idle" => rc' # "OK"
         /\ pc' = "idle" /\ o <= spec.length /\ n <= spec.length - o => rc' # "ERANGE"
  <1>1. /\ pc = "idle" /\ from' = o /\ offset' = o /\ size' = n
        /\ UNCHANGED <<spec, opened, length>>
    BY DEF Read
  <1>2. opened => length = spec.length
    BY <1>1 DEF BundleInv, Verified, Opening
  <1>3. \/ pc' = "read"
        \/ pc' = "idle" /\ ~opened /\ rc' = "ENODEV"
        \/ pc' = "idle" /\ opened /\ ~InRange(o, n) /\ rc' = "ERANGE"
    BY DEF Read, Return
  <1> QED
    BY <1>1, <1>2, <1>3 DEF Opening, Reading, InRange

\* A step of the bundle within a call of FxData.
LEMMA BundleStepAsks ==
  ASSUME BundleInv, FxInv, BundleStep, UNCHANGED fxVars
  PROVE  FxInv'
  <1> USE DEF fxVars, indexVars, fxReadVars, decodeVars
  <1>1. UNCHANGED <<spec, from>>
    BY DEF BundleStep, OpenHeader, OpenScan, OpenEnd, ReadMiss, ReadFill, ReadCopy, ReadEnd
  <1>2. FxTypeOK' /\ Indexed' /\ Placed'
    BY <1>1 DEF FxInv, FxTypeOK, Indexed, Placed, Blocks, IndexRises, Entry, Wanted
  <1>3. CASE Opening
    <2>1. fx \in {"idle", "copy"}
      BY <1>3 DEF FxInv, Asked, Asking
    <2> QED
      BY <1>2, <2>1 DEF FxInv, Asked, Asking, DecodingStaysInside, Decoding
  <1>4. CASE ~Opening
    <2>1. ReadMiss \/ ReadFill \/ ReadCopy \/ ReadEnd
      BY <1>4 DEF BundleStep, OpenHeader, OpenScan, OpenEnd, Opening
    <2>2. opened /\ offset = from + Len(out) /\ Reading
      BY <2>1 DEF BundleInv, Copied, Reading, ReadMiss, ReadFill, ReadCopy, ReadEnd
    <2>t. offset \in Nat /\ size \in Nat /\ from \in Nat /\ Len(out) \in Nat
      BY LenProperties DEF BundleInv, BundleTypeOK
    <2>3. CASE ReadMiss \/ ReadFill
      <3>1. UNCHANGED <<offset, size, out>> /\ ~Opening'
            /\ (pc' = "idle" => rc' \in {"EIO", "ENODATA"})
        BY <2>3 DEF ReadMiss, ReadFill, FetchFails, Fetched, Return, Opening
      <3> QED
        BY <1>1, <1>2, <2>2, <3>1 DEF FxInv, Asked, Asking, Reading, Requested, DecodingStaysInside
    <2>4. CASE ReadCopy
      <3> DEFINE count == Lesser(cached - (offset - start), size)
      <3>1. pc' = pc /\ pc = "read" /\ offset' = offset + count /\ size' = size - count
        BY <2>4 DEF ReadCopy
      <3>2. count \in Int
        BY <2>t, SMT DEF Lesser, BundleInv, BundleTypeOK
      <3> HIDE DEF count
      <3>3. offset' + size' = offset + size
        BY <2>t, <3>1, <3>2, SMT
      <3> QED
        BY <1>1, <1>2, <2>2, <3>1, <3>3
           DEF FxInv, Asked, Asking, Reading, Opening, Requested, DecodingStaysInside
    <2>5. CASE ReadEnd
      <3>1. pc' = "idle" /\ rc' = "OK" /\ size = 0 /\ UNCHANGED <<out, opened>>
        BY <2>5 DEF ReadEnd, Return
      <3>2. Asking => Requested \in Nat /\ offset + size = from + Requested
        BY <2>2 DEF FxInv, Asked, Requested, HeaderCells, FxTypeOK
      <3>3. Asking => Len(out) = Requested
        BY <2>2, <2>t, <3>1, <3>2, SMT
      <3> QED
        BY <1>1, <1>2, <2>2, <3>1, <3>3
           DEF FxInv, Asked, Asking, Reading, Opening, Requested, DecodingStaysInside
    <2> QED
      BY <2>1, <2>3, <2>4, <2>5
  <1> QED
    BY <1>3, <1>4

\* What a resource_read() that returned 0 has delivered.
LEMMA Delivered ==
  ASSUME BundleInv, FxInv, Asking, pc = "idle", rc = "OK"
  PROVE  /\ opened /\ length = spec.length /\ spec.length \in Nat /\ from \in Nat
         /\ \A i \in 1 .. Requested : /\ out[i] \in Nat /\ out[i] = spec.crc[from + i]
                                      /\ from + i <= spec.length
  <1>1. opened /\ Len(out) = Requested /\ ~Opening
    BY DEF FxInv, Asked
  <1>2. length = spec.length /\ spec.length \in Nat
    BY <1>1, Sequences DEF BundleInv, Verified
  <1>3. out \in Seq(Cell) /\ from \in Nat
    BY DEF BundleInv, BundleTypeOK
  <1>4. ASSUME NEW i \in 1 .. Requested
        PROVE  out[i] \in Nat /\ out[i] = spec.crc[from + i] /\ from + i <= spec.length
    <2>1. i \in DOMAIN out /\ out[i] \in Cell
      BY <1>1, <1>3, LenProperties, ElementOfSeq
    <2> QED
      BY <1>1, <2>1, FxAssumption DEF BundleInv, Copied, ReadsTellTheResource, Opening
  <1> QED
    BY <1>1, <1>2, <1>3, <1>4

\* A call that fails forgets all it was about.
LEMMA FailKeeps ==
  ASSUME NEW e, e # "OK", Fail(e), fxLength' \in Nat
  PROVE  FxInv'
  <1>1. /\ fx' = "idle" /\ error' = e /\ fxOffset' = 0 /\ fxCount' = 0
        /\ entry' = 0 /\ previous' = 0
        /\ position' = 0 /\ end' = 0 /\ produced' = 0 /\ run' = 0
    BY DEF Fail, FxReturn, LocalsEnd, Decode
  <1> QED
    BY <1>1, PackAssumption, SMT
       DEF FxInv, FxTypeOK, Asked, Asking, Indexed, Placed, DecodingStaysInside, Decoding

\* The bundle between the calls of FxData.
LEMMA DirectKeeps ==
  ASSUME BundleInv, FxInv, Direct
  PROVE  BundleInv' /\ FxInv'
  <1>1. fx = "idle" /\ UNCHANGED fxVars
    BY DEF Direct
  <1>2. Install \/ Open \/ Close \/ Take \/ \E r \in Reads : Read(r[1], r[2])
    BY DEF Direct
  <1>3. UNCHANGED spec
    BY <1>2 DEF Install, Open, Close, Take, Read
  <1>4. FxInv'
    BY <1>1, <1>3 DEF fxVars, indexVars, fxReadVars, decodeVars, FxInv, FxTypeOK, Asked, Asking,
                      Indexed, Placed, DecodingStaysInside, Decoding, IndexRises, Entry, Blocks
  <1>5. CASE \E r \in Reads : Read(r[1], r[2])
    <2>1. PICK r \in Reads : Read(r[1], r[2])
      BY <1>5
    <2>2. r[1] \in Nat /\ r[2] \in Nat
      BY FxAssumption
    <2> QED
      BY <1>4, <2>1, <2>2, ReadKeeps
  <1> QED
    BY <1>2, <1>4, <1>5, InstallKeeps, OpenKeeps, CloseKeeps, TakeKeeps

-----------------------------------------------------------------------------
(* begin() *)

LEMMA BeginKeeps == ASSUME BundleInv, FxInv, Begin PROVE BundleInv' /\ FxInv'
  <1>1. /\ fx = "idle" /\ fx' = "header" /\ Read(0, HeaderCells)
        /\ UNCHANGED <<fxLength, entry, previous, fxOffset, fxCount, position, end, produced, run>>
    BY DEF Begin, indexVars, fxReadVars, decodeVars
  <1>2. BundleInv' /\ ~Opening' /\ (Reading' => offset' + size' = from' + HeaderCells)
        /\ (pc' = "idle" => rc' # "OK")
    BY <1>1, ReadKeeps, ReadStarts DEF HeaderCells
  <1>3. FxTypeOK' /\ Asked'
    BY <1>1, <1>2 DEF FxInv, FxTypeOK, Asked, Requested
  <1>4. Indexed' /\ Placed' /\ DecodingStaysInside'
    BY <1>1 DEF FxInv, Indexed, Placed, DecodingStaysInside, Decoding
  <1> QED
    BY <1>2, <1>3, <1>4 DEF FxInv

LEMMA HeaderOfPackKeeps == ASSUME BundleInv, FxInv, BeginHeader PROVE BundleInv' /\ FxInv'
  <1>1. fx = "header" /\ pc = "idle" /\ rc = "OK"
    BY DEF BeginHeader, BackWith, Back
  <1>2. out[1] \in Nat /\ out[2] \in Nat /\ out[3] \in Nat /\ opened
    <2>1. Requested = 3
      BY <1>1 DEF Requested, HeaderCells
    <2> QED
      BY <1>1, <2>1, Delivered DEF Asking
  <1>3. fxLength' \in Nat
    BY <1>2 DEF BeginHeader, FxInv, FxTypeOK
  <1>4. CASE \E e \in {"EPROTONOSUPPORT", "EBADMSG"} : Fail(e) /\ Take
    <2> QED
      BY <1>3, <1>4, FailKeeps, TakeKeeps
  <1>5. CASE /\ entry' = 0 /\ previous' = IndexAt(out[3] + 1) /\ fx' = "index"
             /\ Read(IndexAt(0), 1) /\ UNCHANGED <<error, cachedPage, decodeVars, fxReadVars>>
    <2>1. IndexAt(0) \in Nat /\ previous' \in Nat
      BY <1>2, <1>5, SMT DEF IndexAt, HeaderCells
    <2>2. BundleInv' /\ ~Opening' /\ (Reading' => offset' + size' = from' + 1)
          /\ (pc' = "idle" => rc' # "OK") /\ from' = IndexAt(0)
      BY <1>5, <2>1, ReadKeeps, ReadStarts
    <2>3. FxTypeOK' /\ Asked'
      BY <1>3, <1>5, <2>1, <2>2 DEF FxInv, FxTypeOK, Asked, Requested, decodeVars, fxReadVars
    <2>4. Indexed'
      BY <1>3, <1>5, <2>2, BlocksAreNatural, SMT DEF Indexed, Blocks
    <2>5. Placed' /\ DecodingStaysInside'
      BY <1>5 DEF FxInv, Placed, DecodingStaysInside, Decoding, decodeVars
    <2> QED
      BY <2>2, <2>3, <2>4, <2>5 DEF FxInv
  <1> QED
    BY <1>4, <1>5 DEF BeginHeader

\* Every entry begin() has read carries the rise of the index one step further.
LEMMA IndexRisesOn ==
  ASSUME BundleInv, FxInv, BackWith("index"), IndexSound(out[1])
  PROVE  IndexRises(entry) /\ out[1] = Entry(entry) /\ out[1] \in Nat
  <1>1. fx = "index" /\ pc = "idle" /\ rc = "OK" /\ Requested = 1
    BY DEF BackWith, Back, Requested
  <1>2. /\ opened /\ length = spec.length /\ spec.length \in Nat
        /\ out[1] \in Nat /\ out[1] = spec.crc[from + 1] /\ from + 1 <= spec.length
    BY <1>1, Delivered DEF Asking
  <1>3. from = IndexAt(entry) /\ (entry > 0 => IndexRises(entry - 1) /\ previous = Entry(entry - 1))
    BY <1>1 DEF FxInv, Indexed
  <1>4. entry \in Nat /\ IndexAt(entry) < spec.length /\ out[1] = Entry(entry)
    BY <1>2, <1>3 DEF FxInv, FxTypeOK, Entry, IndexAt, HeaderCells
  <1>5. out[1] <= spec.length /\ (entry > 0 => Entry(entry) > Entry(entry - 1))
    BY <1>2, <1>3, <1>4 DEF IndexSound, ResourceLength
  <1>6. CASE entry = 0
    BY <1>2, <1>4, <1>5, <1>6 DEF IndexRises
  <1>7. CASE entry > 0
    <2>1. IndexRises(entry - 1)
      BY <1>3, <1>7
    <2>2. ASSUME NEW p \in 0 .. entry PROVE Entry(p) \in Nat /\ Entry(p) <= spec.length
      <3>1. p \in 0 .. entry - 1 \/ p = entry
        BY <1>4
      <3> QED
        BY <1>2, <1>4, <1>5, <2>1, <3>1 DEF IndexRises
    <2>3. ASSUME NEW p \in 0 .. entry - 1 PROVE Entry(p) < Entry(p + 1)
      <3>1. p \in 0 .. entry - 1 - 1 \/ (p = entry - 1 /\ p + 1 = entry)
        BY <1>4, <1>7
      <3> QED
        BY <1>5, <1>7, <2>1, <3>1 DEF IndexRises
    <2> QED
      BY <1>4, <2>2, <2>3 DEF IndexRises
  <1> QED
    BY <1>2, <1>4, <1>6, <1>7

LEMMA IndexKeeps == ASSUME BundleInv, FxInv, BeginIndex PROVE BundleInv' /\ FxInv'
  <1>0. BackWith("index") /\ fx = "index" /\ pc = "idle" /\ fxLength' = fxLength
    BY DEF BeginIndex, BackWith, Back
  <1>t. fxLength \in Nat /\ entry \in Nat
    BY DEF FxInv, FxTypeOK
  <1>1. CASE /\ IndexSound(out[1]) /\ entry < PageCount(fxLength)
             /\ entry' = entry + 1 /\ previous' = out[1] /\ Read(IndexAt(entry + 1), 1)
             /\ UNCHANGED <<fx, error, cachedPage, decodeVars, fxReadVars>>
    <2>1. IndexRises(entry) /\ out[1] = Entry(entry) /\ out[1] \in Nat
      BY <1>0, <1>1, IndexRisesOn
    <2>2. IndexAt(entry + 1) \in Nat /\ entry' \in Nat /\ entry' - 1 = entry
      BY <1>1, <1>t, SMT DEF IndexAt, HeaderCells
    <2>3. BundleInv' /\ ~Opening' /\ (Reading' => offset' + size' = from' + 1) /\ spec' = spec
          /\ (pc' = "idle" => rc' # "OK") /\ from' = IndexAt(entry')
      BY <1>1, <2>2, ReadKeeps, ReadStarts
    <2>4. FxTypeOK' /\ Asked'
      BY <1>0, <1>1, <2>1, <2>2, <2>3 DEF FxInv, FxTypeOK, Asked, Requested, decodeVars, fxReadVars
    <2>5. Indexed'
      <3>1. entry' <= PageCount(fxLength)
        BY <1>1, <1>t, BlocksAreNatural, SMT
      <3>2. fx' = "index" /\ fxLength' = fxLength
        BY <1>0, <1>1
      <3>3. IndexRises(entry - 1)' /\ previous' = Entry(entry - 1)'
        BY <1>1, <2>1, <2>2, <2>3 DEF IndexRises, Entry
      <3> QED
        BY <2>3, <3>1, <3>2, <3>3 DEF Indexed, Blocks
    <2>6. Placed' /\ DecodingStaysInside'
      BY <1>0, <1>1 DEF FxInv, Placed, DecodingStaysInside, Decoding, decodeVars
    <2> QED
      BY <2>3, <2>4, <2>5, <2>6 DEF FxInv
  <1>2. CASE /\ IndexSound(out[1]) /\ entry = PageCount(fxLength) /\ FxReturn /\ LocalsEnd
             /\ Take /\ UNCHANGED <<error, cachedPage>>
    <2>1. IndexRises(entry)
      BY <1>0, <1>2, IndexRisesOn
    <2>2. /\ fx' = "idle" /\ fxOffset' = 0 /\ fxCount' = 0 /\ entry' = 0 /\ previous' = 0
          /\ position' = 0 /\ end' = 0 /\ produced' = 0 /\ run' = 0 /\ spec' = spec
      BY <1>2 DEF FxReturn, LocalsEnd, Decode, Take
    <2>3. IndexRises(Blocks)'
      BY <1>0, <1>2, <2>1, <2>2 DEF IndexRises, Entry, Blocks
    <2>4. FxInv'
      BY <1>0, <1>t, <2>2, <2>3, PackAssumption, SMT
         DEF FxInv, FxTypeOK, Asked, Asking, Indexed, Placed, DecodingStaysInside, Decoding
    <2> QED
      BY <1>2, <2>4, TakeKeeps
  <1>3. CASE Fail("EBADMSG") /\ Take
    BY <1>0, <1>3, <1>t, FailKeeps, TakeKeeps
  <1> QED
    BY <1>1, <1>2, <1>3 DEF BeginIndex

-----------------------------------------------------------------------------
(* read() and decode() *)

LEMMA FxReadKeeps ==
  ASSUME BundleInv, FxInv, NEW o \in Nat, NEW n \in Nat, FxRead(o, n)
  PROVE  BundleInv' /\ FxInv'
  <1>1. BundleInv' /\ UNCHANGED <<spec, fxLength>> /\ fxLength \in Nat
    BY BundleStutterKeeps DEF FxRead, bundleVars, FxInv, FxTypeOK
  <1>2. CASE /\ o <= fxLength /\ n <= fxLength - o
             /\ fx' = "copy" /\ fxOffset' = o /\ fxCount' = n
             /\ UNCHANGED <<error, cachedPage, indexVars, decodeVars>>
    <2>1. o + n <= fxLength
      BY <1>1, <1>2, SMT
    <2>2. fx = "idle" /\ error = "OK"
      BY DEF FxRead
    <2>3. FxTypeOK' /\ Asked'
      BY <1>1, <1>2 DEF FxInv, FxTypeOK, Asked, Asking, indexVars, decodeVars
    <2>4. Indexed' /\ Placed' /\ DecodingStaysInside'
      BY <1>1, <1>2, <2>1, <2>2
         DEF FxInv, Indexed, Placed, DecodingStaysInside, Decoding, IndexRises, Entry, Blocks, decodeVars
    <2> QED
      BY <1>1, <2>3, <2>4 DEF FxInv
  <1>3. CASE Fail("ERANGE")
    BY <1>1, <1>3, FailKeeps
  <1> QED
    BY <1>2, <1>3 DEF FxRead

\* A step between the pages of a read leaves the index checked.
LEMMA StillIndexed ==
  ASSUME FxInv, UNCHANGED <<spec, error, fxLength>>, fx \notin {"header", "index"},
         fx' \notin {"header", "index"}
  PROVE  Indexed'
  BY DEF FxInv, Indexed, IndexRises, Entry, Blocks

LEMMA CopyOfPageKeeps == ASSUME BundleInv, FxInv, FxCopy PROVE BundleInv' /\ FxInv'
  <1> DEFINE take == Lesser(Page - (fxOffset % Page), fxCount)
  <1>1. /\ fx = "copy" /\ fx' = "copy" /\ fxOffset' = fxOffset + take /\ fxCount' = fxCount - take
        /\ UNCHANGED <<bundleVars, error, fxLength, indexVars, decodeVars>>
    BY DEF FxCopy
  <1>t. fxOffset \in Nat /\ fxCount \in Nat /\ fxLength \in Nat /\ fxOffset + fxCount <= fxLength
    BY <1>1 DEF FxInv, FxTypeOK, Placed
  <1>2. take \in Nat /\ take <= fxCount
    <2>1. Page - (fxOffset % Page) \in Nat
      BY <1>t, PackAssumption, SMT
    <2> QED
      BY <1>t, <2>1, LesserBounds
  <1> HIDE DEF take
  <1>3. fxOffset' \in Nat /\ fxCount' \in Nat /\ fxOffset' + fxCount' <= fxLength
    BY <1>1, <1>2, <1>t, SMT
  <1>4. FxTypeOK' /\ Asked'
    BY <1>1, <1>3 DEF FxInv, FxTypeOK, Asked, Asking, indexVars, decodeVars
  <1>5. Indexed'
    BY <1>1, StillIndexed DEF bundleVars
  <1>6. Placed' /\ DecodingStaysInside'
    BY <1>1, <1>3 DEF FxInv, Placed, DecodingStaysInside, Decoding, decodeVars
  <1> QED
    BY <1>1, <1>4, <1>5, <1>6, BundleStutterKeeps DEF FxInv

LEMMA EndOfFxReadKeeps == ASSUME BundleInv, FxInv, FxReadEnd PROVE BundleInv' /\ FxInv'
  <1>1. /\ fx = "copy" /\ fx' = "idle" /\ fxOffset' = 0 /\ fxCount' = 0
        /\ UNCHANGED <<bundleVars, error, fxLength, indexVars, decodeVars>>
    BY DEF FxReadEnd, FxReturn
  <1>2. FxTypeOK' /\ Asked'
    BY <1>1 DEF FxInv, FxTypeOK, Asked, Asking, indexVars, decodeVars
  <1>3. Indexed'
    BY <1>1, StillIndexed DEF bundleVars
  <1>4. Placed' /\ DecodingStaysInside'
    BY <1>1 DEF FxInv, Placed, DecodingStaysInside, Decoding, decodeVars
  <1> QED
    BY <1>1, <1>2, <1>3, <1>4, BundleStutterKeeps DEF FxInv

\* The entries of the page a read is at.
LEMMA PageIsIndexed ==
  ASSUME BundleInv, FxInv, fx \in Decoding \cup {"copy"}, fxCount > 0
  PROVE  LET p == fxOffset \div Page IN
         /\ fxOffset < fxLength /\ p \in Nat /\ IndexAt(p) \in Nat
         /\ spec.length \in Nat /\ IndexAt(p) + 1 < spec.length
         /\ Entry(p) \in Nat /\ Entry(p + 1) \in Nat
         /\ Entry(p) < Entry(p + 1) /\ Entry(p + 1) <= spec.length
  <1> DEFINE p == fxOffset \div Page
  <1>1. fxOffset \in Nat /\ fxLength \in Nat /\ fxOffset < fxLength
    <2>1. fxOffset \in Nat /\ fxLength \in Nat /\ fxCount \in Nat /\ fxOffset + fxCount <= fxLength
      BY DEF FxInv, FxTypeOK, Placed
    <2> QED
      BY <2>1, SMT
  <1>2. p \in Nat /\ p + 1 <= Blocks /\ Blocks \in Nat
    BY <1>1, PageOfOffset DEF Blocks
  <1>3. IndexRises(Blocks)
    BY DEF FxInv, Placed, Indexed, Decoding
  <1>4. spec.length \in Nat
    BY Sequences DEF BundleInv
  <1> HIDE DEF p
  <1>5. /\ IndexAt(p) + 1 < spec.length
        /\ Entry(p) \in Nat /\ Entry(p + 1) \in Nat
        /\ Entry(p) < Entry(p + 1) /\ Entry(p + 1) <= spec.length
    BY <1>2, <1>3, <1>4, EntriesOfPage
  <1>6. IndexAt(p) \in Nat
    BY <1>2, SMT DEF IndexAt, HeaderCells
  <1> QED
    BY <1>1, <1>2, <1>4, <1>5, <1>6 DEF p

LEMMA PageKeeps == ASSUME BundleInv, FxInv, DecodePage PROVE BundleInv' /\ FxInv'
  <1> DEFINE p == fxOffset \div Page
  <1>1. /\ fx = "copy" /\ fxCount > 0 /\ fx' = "position" /\ Read(IndexAt(p), 1)
        /\ UNCHANGED <<error, fxLength, entry, previous, fxOffset, fxCount, position, end, produced, run>>
    BY DEF DecodePage, indexVars, fxReadVars, decodeVars
  <1>2. IndexAt(p) \in Nat /\ spec.length \in Nat /\ IndexAt(p) + 1 < spec.length
    BY <1>1, PageIsIndexed
  <1>3. IndexAt(p) <= spec.length /\ 1 <= spec.length - IndexAt(p)
    BY <1>2, SMT
  <1> HIDE DEF p
  <1>4. /\ BundleInv' /\ ~Opening' /\ (Reading' => offset' + size' = from' + 1) /\ spec' = spec
        /\ (pc' = "idle" => rc' # "OK" /\ rc' # "ERANGE") /\ from' = IndexAt(p)
    BY <1>1, <1>2, <1>3, ReadKeeps, ReadStarts
  <1>5. FxTypeOK' /\ Asked'
    BY <1>1, <1>4 DEF FxInv, FxTypeOK, Asked, Requested, Decoding
  <1>6. Indexed'
    BY <1>1, <1>4, StillIndexed
  <1>7. Placed' /\ DecodingStaysInside'
    BY <1>1, <1>4 DEF FxInv, Placed, DecodingStaysInside, Decoding, p
  <1> QED
    BY <1>4, <1>5, <1>6, <1>7 DEF FxInv

LEMMA PositionKeeps == ASSUME BundleInv, FxInv, DecodePosition PROVE BundleInv' /\ FxInv'
  <1> DEFINE p == fxOffset \div Page
  <1>1. /\ fx = "position" /\ pc = "idle" /\ rc = "OK" /\ position' = out[1]
        /\ fx' = "end" /\ Read(IndexAt(p) + 1, 1)
        /\ UNCHANGED <<error, fxLength, entry, previous, fxOffset, fxCount, end, produced, run>>
    BY DEF DecodePosition, BackWith, Back, indexVars, fxReadVars
  <1>2. fxCount > 0 /\ from = IndexAt(p) /\ Requested = 1
    BY <1>1 DEF FxInv, Placed, Decoding, Requested
  <1>3. IndexAt(p) \in Nat /\ spec.length \in Nat /\ IndexAt(p) + 1 < spec.length
    BY <1>1, <1>2, PageIsIndexed DEF Decoding
  <1>4. position' \in Nat /\ position' = Entry(p)
    BY <1>1, <1>2, Delivered DEF Asking, Entry
  <1>5. IndexAt(p) + 1 \in Nat /\ IndexAt(p) + 1 <= spec.length /\ 1 <= spec.length - (IndexAt(p) + 1)
    BY <1>3, SMT
  <1> HIDE DEF p
  <1>6. /\ BundleInv' /\ ~Opening' /\ (Reading' => offset' + size' = from' + 1) /\ spec' = spec
        /\ (pc' = "idle" => rc' # "OK" /\ rc' # "ERANGE") /\ from' = IndexAt(p) + 1
    BY <1>1, <1>3, <1>5, ReadKeeps, ReadStarts
  <1>7. FxTypeOK' /\ Asked'
    BY <1>1, <1>4, <1>6 DEF FxInv, FxTypeOK, Asked, Requested, Decoding
  <1>8. Indexed'
    BY <1>1, <1>6, StillIndexed
  <1>9. Placed' /\ DecodingStaysInside'
    BY <1>1, <1>4, <1>6 DEF FxInv, Placed, DecodingStaysInside, Decoding, Entry, p
  <1> QED
    BY <1>6, <1>7, <1>8, <1>9 DEF FxInv

\* The head of the loop keeps the limits of the block and of the page.
LEMMA NextTokenKeeps ==
  ASSUME BundleInv, FxInv, fx \in {"end", "literal", "distance"}, pc = "idle",
         NEW at \in Nat, NEW upto \in Nat, NEW have \in Nat,
         at <= upto, upto <= spec.length, have <= Wanted,
         NextToken(at, upto, have), fxLength' = fxLength
  PROVE  BundleInv' /\ FxInv'
  <1>t. /\ fxLength \in Nat /\ fxOffset \in Nat /\ fxCount \in Nat /\ entry \in Nat /\ previous \in Nat
        /\ fx \notin {"header", "index"} /\ fxCount > 0 /\ fxOffset + fxCount <= fxLength /\ error = "OK"
    BY DEF FxInv, FxTypeOK, Placed, Decoding
  <1>l. spec.length \in Nat /\ Wanted \in Nat /\ Wanted <= Page
    <2>1. fxOffset < fxLength
      BY <1>t, SMT
    <2> QED
      BY <2>1, Sequences, WantedFits DEF BundleInv, FxInv
  <1>1. CASE /\ at < upto /\ have < Wanted /\ fx' = "control" /\ Read(at, 1)
             /\ Decode(at + 1, upto, have)
             /\ UNCHANGED <<error, cachedPage, indexVars, fxReadVars>>
    <2>1. at <= spec.length /\ 1 <= spec.length - at /\ at + 1 \in Nat /\ at + 1 <= upto
      BY <1>1, <1>l, SMT
    <2>2. /\ BundleInv' /\ ~Opening' /\ (Reading' => offset' + size' = from' + 1) /\ spec' = spec
          /\ (pc' = "idle" => rc' # "OK" /\ rc' # "ERANGE")
      BY <1>1, <2>1, ReadKeeps, ReadStarts
    <2>3. /\ position' = at + 1 /\ end' = upto /\ produced' = have /\ run' = 0
          /\ UNCHANGED <<error, entry, previous, fxOffset, fxCount>>
      BY <1>1 DEF Decode, indexVars, fxReadVars
    <2>4. FxTypeOK' /\ Asked'
      BY <1>1, <1>t, <2>1, <2>2, <2>3 DEF FxInv, FxTypeOK, Asked, Requested, Decoding
    <2>5. Indexed'
      BY <1>1, <1>t, <2>2, <2>3, StillIndexed
    <2>6. produced' + run' <= Wanted /\ Wanted' = Wanted /\ produced' + run' <= Page
      BY <1>1, <1>l, <2>3, PackAssumption, SMT DEF Wanted
    <2>7. Placed' /\ DecodingStaysInside'
      BY <1>1, <1>t, <2>1, <2>2, <2>3, <2>6 DEF Placed, DecodingStaysInside, Decoding
    <2> QED
      BY <2>2, <2>4, <2>5, <2>7 DEF FxInv
  <1>2. CASE /\ Take /\ fx' = "copy" /\ LocalsEnd /\ UNCHANGED <<error, fxReadVars>>
    <2>1. /\ position' = 0 /\ end' = 0 /\ produced' = 0 /\ run' = 0 /\ entry' = 0 /\ previous' = 0
          /\ UNCHANGED <<error, fxOffset, fxCount, spec>>
      BY <1>2 DEF LocalsEnd, Decode, fxReadVars, Take
    <2>2. FxTypeOK' /\ Asked'
      BY <1>2, <1>t, <2>1 DEF FxTypeOK, Asked, Asking
    <2>3. Indexed'
      BY <1>2, <1>t, <2>1, StillIndexed
    <2>4. Placed' /\ DecodingStaysInside'
      BY <1>2, <1>t, <2>1, PackAssumption DEF Placed, DecodingStaysInside, Decoding
    <2> QED
      BY <1>2, <2>2, <2>3, <2>4, TakeKeeps DEF FxInv
  <1>3. CASE Take /\ Fail("EBADMSG")
    BY <1>3, <1>t, FailKeeps, TakeKeeps
  <1> QED
    BY <1>1, <1>2, <1>3 DEF NextToken

LEMMA EndOfPageKeeps == ASSUME BundleInv, FxInv, DecodeEnd PROVE BundleInv' /\ FxInv'
  <1> DEFINE p == fxOffset \div Page
  <1>1. fx = "end" /\ pc = "idle" /\ rc = "OK" /\ NextToken(position, out[1], 0) /\ fxLength' = fxLength
    BY DEF DecodeEnd, BackWith, Back
  <1>2. fxCount > 0 /\ from = IndexAt(p) + 1 /\ position = Entry(p) /\ Requested = 1
    BY <1>1 DEF FxInv, Placed, Decoding, Requested
  <1>3. /\ fxOffset < fxLength /\ p \in Nat /\ Entry(p) \in Nat /\ Entry(p + 1) \in Nat
        /\ Entry(p) < Entry(p + 1) /\ Entry(p + 1) <= spec.length
    BY <1>1, <1>2, PageIsIndexed DEF Decoding
  <1>4. out[1] = spec.crc[from + 1]
    BY <1>1, <1>2, Delivered DEF Asking
  <1> HIDE DEF p
  <1>5. IndexAt(p) + 1 = IndexAt(p + 1)
    BY <1>3, SMT DEF IndexAt, HeaderCells
  <1>6. out[1] = Entry(p + 1)
    BY <1>2, <1>4, <1>5 DEF Entry
  <1>7. 0 <= Wanted
    BY <1>3, WantedFits, SMT DEF FxInv
  <1>8. position <= out[1]
    BY <1>2, <1>3, <1>6, SMT
  <1> QED
    BY <1>1, <1>2, <1>3, <1>6, <1>7, <1>8, NextTokenKeeps

\* Between the tokens of a page.
LEMMA InPage ==
  ASSUME BundleInv, FxInv, fx \in {"control", "literal", "distance"}
  PROVE  /\ fxCount > 0 /\ error = "OK" /\ fxOffset + fxCount <= fxLength
         /\ position <= end /\ end <= spec.length /\ produced + run <= Wanted
         /\ position \in Nat /\ end \in Nat /\ produced \in Nat /\ run \in Nat /\ fxLength \in Nat
         /\ spec.length \in Nat /\ Wanted \in Nat /\ Wanted <= Page
  <1>1. /\ fxCount > 0 /\ error = "OK" /\ fxOffset + fxCount <= fxLength
        /\ position <= end /\ end <= spec.length /\ produced + run <= Wanted
    BY DEF FxInv, Placed, Decoding
  <1>2. /\ position \in Nat /\ end \in Nat /\ produced \in Nat /\ run \in Nat
        /\ fxLength \in Nat /\ fxOffset \in Nat /\ fxCount \in Nat
    BY DEF FxInv, FxTypeOK
  <1>3. fxOffset < fxLength
    BY <1>1, <1>2, SMT
  <1> QED
    BY <1>1, <1>2, <1>3, WantedFits, Sequences DEF BundleInv, FxInv

LEMMA ControlKeeps == ASSUME BundleInv, FxInv, DecodeControl PROVE BundleInv' /\ FxInv'
  <1> DEFINE control == out[1]
  <1>1. fx = "control" /\ pc = "idle" /\ rc = "OK" /\ fxLength' = fxLength
    BY DEF DecodeControl, BackWith, Back
  <1>2. control \in Nat
    <2>1. Requested = 1
      BY <1>1 DEF Requested
    <2> QED
      BY <1>1, <2>1, Delivered DEF Asking
  <1>3. /\ position <= end /\ end <= spec.length /\ error = "OK"
        /\ position \in Nat /\ end \in Nat /\ produced \in Nat /\ fxLength \in Nat
        /\ spec.length \in Nat /\ Wanted \in Nat /\ Wanted <= Page
    BY <1>1, InPage
  <1>4. Count(control) \in Nat
    BY <1>2, CountIsNatural
  <1>5. CASE Fail("EBADMSG") /\ Take
    BY <1>1, <1>3, <1>5, FailKeeps, TakeKeeps
  <1>6. CASE ~(Fail("EBADMSG") /\ Take)
    <2>1. /\ RunFits(control) /\ run' = Count(control)
          /\ UNCHANGED <<error, entry, previous, fxOffset, fxCount, end, produced>>
          /\ \/ control < Literal /\ fx' = "literal" /\ Read(position, run') /\ position' = position
             \/ control >= Literal /\ fx' = "distance" /\ Read(position, 1) /\ position' = position + 1
      BY <1>2, <1>6, PackAssumption DEF DecodeControl, indexVars, fxReadVars
    <2> HIDE DEF control
    <2>2. run' \in Nat /\ produced' + run' <= Wanted /\ Wanted' = Wanted /\ produced' + run' <= Page
      <3>1. run' <= Wanted - produced
        BY <2>1 DEF RunFits
      <3> QED
        BY <1>1, <1>3, <1>4, <2>1, <3>1, PackAssumption, SMT DEF Wanted
    <2>3. CASE control < Literal /\ fx' = "literal" /\ Read(position, run') /\ position' = position
      <3>1. position + run' <= end /\ position <= spec.length /\ run' <= spec.length - position
        <4>1. run' <= end - position
          BY <2>1, <2>3 DEF RunFits
        <4>2. /\ position \in Nat /\ end \in Nat /\ run' \in Nat /\ spec.length \in Nat
              /\ end <= spec.length
          BY <1>3, <2>2, Zenon
        <4> QED
          BY <4>1, <4>2, Within
      <3>2. /\ BundleInv' /\ ~Opening' /\ (Reading' => offset' + size' = from' + run') /\ spec' = spec
            /\ (pc' = "idle" => rc' # "OK" /\ rc' # "ERANGE")
        BY <1>3, <2>2, <2>3, <3>1, ReadKeeps, ReadStarts
      <3>3. FxTypeOK' /\ Asked'
        BY <1>1, <1>3, <2>1, <2>2, <2>3, <3>2 DEF FxInv, FxTypeOK, Asked, Requested, Decoding
      <3>4. Indexed'
        BY <1>1, <2>1, <2>3, <3>2, StillIndexed
      <3>5. Placed' /\ DecodingStaysInside'
        BY <1>1, <1>3, <2>1, <2>2, <2>3, <3>1, <3>2 DEF FxInv, Placed, DecodingStaysInside, Decoding
      <3> QED
        BY <3>2, <3>3, <3>4, <3>5 DEF FxInv
    <2>4. CASE control >= Literal /\ fx' = "distance" /\ Read(position, 1) /\ position' = position + 1
      <3>1. position' \in Nat /\ position' <= end /\ position <= spec.length /\ 1 <= spec.length - position
        <4>1. position < end
          BY <1>2, <2>1, <2>4, PackAssumption DEF RunFits, control
        <4> QED
          BY <1>3, <2>4, <4>1, SMT
      <3>2. /\ BundleInv' /\ ~Opening' /\ (Reading' => offset' + size' = from' + 1) /\ spec' = spec
            /\ (pc' = "idle" => rc' # "OK" /\ rc' # "ERANGE")
        BY <1>3, <2>4, <3>1, ReadKeeps, ReadStarts
      <3>3. FxTypeOK' /\ Asked'
        BY <1>1, <1>3, <2>1, <2>2, <2>4, <3>1, <3>2 DEF FxInv, FxTypeOK, Asked, Requested, Decoding
      <3>4. Indexed'
        BY <1>1, <2>1, <2>4, <3>2, StillIndexed
      <3>5. Placed' /\ DecodingStaysInside'
        BY <1>1, <1>3, <2>1, <2>2, <2>4, <3>1, <3>2 DEF FxInv, Placed, DecodingStaysInside, Decoding
      <3> QED
        BY <3>2, <3>3, <3>4, <3>5 DEF FxInv
    <2> QED
      BY <2>1, <2>3, <2>4
  <1> QED
    BY <1>5, <1>6

LEMMA LiteralKeeps == ASSUME BundleInv, FxInv, DecodeLiteral PROVE BundleInv' /\ FxInv'
  <1>1. fx = "literal" /\ pc = "idle" /\ NextToken(position + run, end, produced + run) /\ fxLength' = fxLength
    BY DEF DecodeLiteral, BackWith, Back
  <1>2. position + run <= end
    BY <1>1 DEF FxInv, Placed
  <1>3. /\ end <= spec.length /\ produced + run <= Wanted
        /\ position + run \in Nat /\ end \in Nat /\ produced + run \in Nat
    BY <1>1, InPage
  <1> QED
    BY <1>1, <1>2, <1>3, NextTokenKeeps

LEMMA DistanceKeeps == ASSUME BundleInv, FxInv, DecodeDistance PROVE BundleInv' /\ FxInv'
  <1>1. fx = "distance" /\ pc = "idle" /\ fxLength' = fxLength
    BY DEF DecodeDistance, BackWith, Back
  <1>2. /\ position <= end /\ end <= spec.length /\ produced + run <= Wanted /\ fxLength \in Nat
        /\ position \in Nat /\ end \in Nat /\ produced + run \in Nat
    BY <1>1, InPage
  <1>3. CASE Fail("EBADMSG") /\ Take
    BY <1>1, <1>2, <1>3, FailKeeps, TakeKeeps
  <1>4. CASE NextToken(position, end, produced + run)
    BY <1>1, <1>2, <1>4, NextTokenKeeps
  <1> QED
    BY <1>3, <1>4 DEF DecodeDistance

LEMMA FailedReadKeeps == ASSUME BundleInv, FxInv, ReadFailed PROVE BundleInv' /\ FxInv'
  BY FailKeeps, TakeKeeps DEF ReadFailed, FxInv, FxTypeOK

-----------------------------------------------------------------------------
LEMMA FxStepKeeps == ASSUME BundleInv, FxInv, [Next]_vars PROVE BundleInv' /\ FxInv'
  <1>1. CASE Direct \/ Begin
    BY <1>1, DirectKeeps, BeginKeeps
  <1>2. CASE \E r \in FxReads : FxRead(r[1], r[2])
    <2>1. PICK r \in FxReads : FxRead(r[1], r[2])
      BY <1>2
    <2>2. r[1] \in Nat /\ r[2] \in Nat
      BY FxAssumption
    <2> QED
      BY <2>1, <2>2, FxReadKeeps
  <1>3. CASE FxStep
    BY <1>3, HeaderOfPackKeeps, IndexKeeps, CopyOfPageKeeps, EndOfFxReadKeeps, PageKeeps, PositionKeeps,
       EndOfPageKeeps, ControlKeeps, LiteralKeeps, DistanceKeeps, FailedReadKeeps DEF FxStep
  <1>4. CASE BundleStep /\ UNCHANGED fxVars
    BY <1>4, InnerStepKeeps, BundleStepAsks
  <1>5. CASE UNCHANGED vars
    <2>1. UNCHANGED bundleVars /\ UNCHANGED fxVars
      BY <1>5 DEF vars
    <2>2. FxInv'
      BY <2>1 DEF fxVars, indexVars, fxReadVars, decodeVars, bundleVars, FxInv, FxTypeOK, Asked,
                  Asking, Requested, Opening, Reading, Indexed, Placed, DecodingStaysInside,
                  IndexRises, Entry, Blocks, Wanted
    <2> QED
      BY <2>1, <2>2, BundleStutterKeeps
  <1> QED
    BY <1>1, <1>2, <1>3, <1>4, <1>5 DEF Next

\* FxData never drives the bundle anywhere its own callers could not: what the
\* bundle promises holds under the decoder as well.
THEOREM FxInvariance == Spec => [](BundleInv /\ FxInv)
  <1>1. Init => BundleInv /\ FxInv
    <2> SUFFICES ASSUME Init PROVE BundleInv /\ FxInv
      OBVIOUS
    <2>1. FxInv
      BY PackAssumption, SMT
         DEF Init, FxInit, FxInv, FxTypeOK, Asked, Asking, Indexed, Placed, DecodingStaysInside, Decoding
    <2> QED
      BY <2>1, InitBundle DEF Init
  <1>2. BundleInv /\ FxInv /\ [Next]_vars => (BundleInv /\ FxInv)'
    BY FxStepKeeps
  <1> QED
    BY <1>1, <1>2, PTL DEF Spec

\* Whatever the pages hold, decode() of FxData reads inside the resource and
\* writes inside its page.
THEOREM DecodingIsInside == Spec => []DecodingStaysInside
  <1>1. FxInv => DecodingStaysInside
    BY DEF FxInv
  <1> QED
    BY <1>1, FxInvariance, PTL

\* resource_read() under FxData delivers the bytes the sketch was compiled with.
THEOREM FxReadsAreTrue == Spec => []ReadsTellTheResource
  <1>1. BundleInv => ReadsTellTheResource
    BY DEF BundleInv, Copied
  <1> QED
    BY <1>1, FxInvariance, PTL

-----------------------------------------------------------------------------
(* The packer.  First greatest and least elements, and induction. *)

LEMMA LeastOf ==
  ASSUME NEW T \in SUBSET Nat, T # {}
  PROVE  \E x \in T : \A y \in T : x <= y
  <1>1. IsWellFoundedOn(OpToRel(<, Nat), Nat)
    BY NatLessThanWellFounded
  <1>2. \E x \in T : \A y \in T : ~(<<y, x>> \in OpToRel(<, Nat))
    BY <1>1, WFMin
  <1>3. PICK x \in T : \A y \in T : ~(<<y, x>> \in OpToRel(<, Nat))
    BY <1>2
  <1>4. \A y \in T : ~(y < x)
    BY <1>3 DEF OpToRel
  <1> QED
    BY <1>4, SMT

\* Induction, over a set instead of a predicate.
LEMMA Reached ==
  ASSUME NEW T, 0 \in T, \A m \in Nat : m \in T => m + 1 \in T
  PROVE  \A m \in Nat : m \in T
  <1> DEFINE U == {m \in Nat : m \notin T}
  <1>1. SUFFICES ASSUME U # {} PROVE FALSE
    OBVIOUS
  <1>2. PICK m \in U : \A y \in U : m <= y
    BY <1>1, LeastOf
  <1>3. m \in Nat /\ m \notin T /\ m # 0
    BY <1>2
  <1>4. m - 1 \in Nat /\ (m - 1) + 1 = m /\ ~(m <= m - 1)
    BY <1>3, SMT
  <1>5. m - 1 \in T
    BY <1>2, <1>4
  <1> QED
    BY <1>3, <1>4, <1>5

LEMMA MinOf ==
  ASSUME NEW T \in SUBSET Nat, T # {}
  PROVE  Min(T) \in T /\ \A y \in T : Min(T) <= y
  <1>1. \E x \in T : \A y \in T : x <= y
    BY LeastOf
  <1> QED
    BY <1>1, Zenon DEF Min

LEMMA MaxOf ==
  ASSUME NEW m \in Nat, NEW T \in SUBSET (0 .. m), T # {}
  PROVE  Max(T) \in T /\ \A y \in T : y <= Max(T)
  <1> DEFINE U == {m - t : t \in T}
  <1>t. \A t \in T : t \in Int /\ m - t \in Nat
    BY SMT
  <1>1. U \in SUBSET Nat /\ U # {}
    BY <1>t, Zenon
  <1>2. PICK u \in U : \A y \in U : u <= y
    BY <1>1, LeastOf
  <1>3. PICK x \in T : u = m - x
    BY <1>2
  <1>4. \A y \in T : x >= y
    <2> TAKE y \in T
    <2>1. u <= m - y
      BY <1>2
    <2> QED
      BY <1>t, <1>3, <2>1, SMT
  <1>5. Max(T) \in T /\ \A y \in T : Max(T) >= y
    BY <1>3, <1>4, Zenon DEF Max
  <1> QED
    BY <1>t, <1>5, SMT

LEMMA MinOfTwo ==
  ASSUME NEW a \in Nat, NEW b \in Nat
  PROVE  Min({a, b}) = IF a < b THEN a ELSE b
  BY MinOf, SMT

-----------------------------------------------------------------------------
(* A copy is of data that is there, and a run of literals of its length. *)

LEMMA RepeatIs ==
  ASSUME NEW d \in Seq(Nat), NEW o \in 0 .. Len(d), NEW p \in 0 .. o - 1
  PROVE  /\ RepeatLength(d, p, o) \in Nat /\ RepeatLength(d, p, o) <= Literal + 2
         /\ o + RepeatLength(d, p, o) <= Len(d)
         /\ \A i \in 1 .. RepeatLength(d, p, o) : d[p + i] = d[o + i]
  <1> DEFINE limit == Min({Literal + 2, Len(d) - o})
             K == {0} \cup {k \in 1 .. limit : \A i \in 1 .. k : d[p + i] = d[o + i]}
  <1>1. Len(d) \in Nat /\ Len(d) - o \in Nat /\ Literal \in Nat /\ Literal + 2 \in Nat
    BY LenProperties, PackAssumption, SMT
  <1>2. limit \in Nat /\ limit <= Literal + 2 /\ limit <= Len(d) - o
    BY <1>1, MinOfTwo, SMT
  <1> HIDE DEF limit
  <1>3. K \in SUBSET (0 .. limit) /\ K # {}
    BY <1>2, SMT
  <1>4. Max(K) \in K
    BY <1>2, <1>3, MaxOf
  <1>5. RepeatLength(d, p, o) = Max(K)
    BY DEF RepeatLength, limit
  <1>6. \A i \in 1 .. Max(K) : d[p + i] = d[o + i]
    BY <1>4, SMT
  <1>7. Max(K) \in Nat /\ Max(K) <= limit
    BY <1>2, <1>3, <1>4, SMT
  <1> HIDE DEF K
  <1> QED
    BY <1>1, <1>2, <1>5, <1>6, <1>7, SMT

LEMMA CopyIs ==
  ASSUME NEW d \in Seq(Nat), NEW o \in 0 .. Len(d)
  PROVE  /\ Best(d, o) \in Nat /\ Best(d, o) <= Literal + 2 /\ o + Best(d, o) <= Len(d)
         /\ Best(d, o) >= 3 =>
              /\ Distance(d, o) \in 1 .. o
              /\ \A i \in 1 .. Best(d, o) : d[o + i] = d[o - Distance(d, o) + i]
  <1> DEFINE B == {0} \cup {RepeatLength(d, p, o) : p \in 0 .. o - 1}
             P == {p \in 0 .. o - 1 : RepeatLength(d, p, o) = Best(d, o)}
  <1>1. Literal + 2 \in Nat /\ o \in Nat /\ Len(d) \in Nat
    BY LenProperties, PackAssumption, SMT
  <1>2. B \in SUBSET (0 .. Literal + 2) /\ B # {}
    BY <1>1, RepeatIs, SMT
  <1>3. Best(d, o) \in B
    BY <1>1, <1>2, MaxOf DEF Best
  <1>4. Best(d, o) \in Nat /\ Best(d, o) <= Literal + 2
    BY <1>1, <1>2, <1>3, SMT
  <1>5. o + Best(d, o) <= Len(d)
    BY <1>1, <1>3, RepeatIs, SMT
  <1>6. ASSUME Best(d, o) >= 3
        PROVE  /\ Distance(d, o) \in 1 .. o
               /\ \A i \in 1 .. Best(d, o) : d[o + i] = d[o - Distance(d, o) + i]
    <2>1. P # {} /\ P \in SUBSET Nat
      BY <1>3, <1>6
    <2>2. Min(P) \in P
      BY <2>1, MinOf
    <2>3. Distance(d, o) = o - Min(P)
      BY DEF Distance
    <2> DEFINE m == Min(P)
    <2>4. m \in 0 .. o - 1 /\ RepeatLength(d, m, o) = Best(d, o)
      BY <2>2
    <2> HIDE DEF m
    <2>5. \A i \in 1 .. Best(d, o) : d[m + i] = d[o + i]
      BY <2>4, RepeatIs
    <2>6. Distance(d, o) \in 1 .. o /\ o - Distance(d, o) = m
      BY <1>1, <2>3, <2>4, SMT DEF m
    <2> QED
      BY <2>5, <2>6
  <1> QED
    BY <1>4, <1>5, <1>6

LEMMA LiteralsAre ==
  ASSUME NEW d \in Seq(Nat), NEW o \in 0 .. Len(d) - 1
  PROVE  RunEnd(d, o) \in o + 1 .. Len(d) /\ RunEnd(d, o) - o <= Literal
  <1> DEFINE E == {e \in o + 1 .. Len(d) : e = Len(d) \/ e - o = Literal \/ Best(d, e) >= 3}
             last == IF o + Literal < Len(d) THEN o + Literal ELSE Len(d)
  <1>1. Len(d) \in Nat /\ o \in Nat /\ Literal \in Nat /\ Literal > 0 /\ o + 1 <= Len(d)
    BY LenProperties, PackAssumption, SMT
  <1>2. last \in o + 1 .. Len(d) /\ (last = Len(d) \/ last - o = Literal) /\ last - o <= Literal
    BY <1>1, SMT
  <1> HIDE DEF last
  <1>3. last \in E
    BY <1>2
  <1>4. E \in SUBSET Nat
    BY <1>1, SMT
  <1>5. Min(E) \in E /\ Min(E) <= last
    BY <1>3, <1>4, MinOf
  <1>6. RunEnd(d, o) = Min(E)
    BY DEF RunEnd
  <1> QED
    BY <1>1, <1>2, <1>5, <1>6, SMT

LEMMA Remainder ==
  ASSUME NEW a \in Nat
  PROVE  a % Page \in Nat
  BY PackAssumption, SMT

LEMMA TwoCells ==
  ASSUME NEW x \in Nat, NEW y \in Nat
  PROVE  <<x, y>> \in Seq(Nat) /\ Len(<<x, y>>) = 2 /\ <<x, y>>[1] = x /\ <<x, y>>[2] = y
  BY SMT

\* A copy, of at least three bytes, or a run of literals.
LEMMA CopyToken ==
  ASSUME NEW d \in Seq(Nat), NEW o \in 0 .. Len(d) - 1, Best(d, o) >= 3
  PROVE  /\ Behind(d, o) \in o + 3 .. Len(d) /\ Behind(d, o) - o = Best(d, o)
         /\ Token(d, o) \in Seq(Nat) /\ Len(Token(d, o)) = 2
         /\ Token(d, o)[1] = Literal + (Behind(d, o) - o) - 3
         /\ Token(d, o)[2] = Distance(d, o) % Page
  <1> DEFINE b == Best(d, o)
             k == Distance(d, o)
  <1>1. Len(d) \in Nat /\ o \in 0 .. Len(d) /\ Literal \in Nat
    BY LenProperties, PackAssumption, SMT
  <1>2. b \in Nat /\ b >= 3 /\ o + b <= Len(d) /\ k \in 1 .. o
    BY <1>1, CopyIs
  <1>3. Behind(d, o) = o + b /\ Token(d, o) = <<Literal + b - 3, k % Page>>
    BY DEF Behind, Token
  <1> HIDE DEF b, k
  <1>4. Literal + b - 3 \in Nat /\ k \in Nat
    BY <1>1, <1>2, SMT
  <1>5. k % Page \in Nat
    BY <1>4, Remainder
  <1>6. /\ Token(d, o) \in Seq(Nat) /\ Len(Token(d, o)) = 2
        /\ Token(d, o)[1] = Literal + b - 3 /\ Token(d, o)[2] = k % Page
    BY <1>3, <1>4, <1>5, TwoCells
  <1>7. Behind(d, o) \in o + 3 .. Len(d) /\ Behind(d, o) - o = b
    BY <1>1, <1>2, <1>3, SMT
  <1> QED
    BY <1>6, <1>7 DEF b, k

LEMMA LiteralToken ==
  ASSUME NEW d \in Seq(Nat), NEW o \in 0 .. Len(d) - 1, ~(Best(d, o) >= 3)
  PROVE  /\ Behind(d, o) \in o + 1 .. Len(d) /\ Behind(d, o) - o <= Literal
         /\ Token(d, o) \in Seq(Nat) /\ Len(Token(d, o)) = Behind(d, o) - o + 1
         /\ Token(d, o)[1] = Behind(d, o) - o - 1
         /\ \A i \in 1 .. Behind(d, o) - o : Token(d, o)[i + 1] = d[o + i]
  <1> DEFINE e == Behind(d, o)
             t == SubSeq(d, o + 1, e)
  <1>1. e \in o + 1 .. Len(d) /\ e - o <= Literal
    BY LiteralsAre DEF Behind
  <1>2. Token(d, o) = <<e - o - 1>> \o t
    BY DEF Token, Behind
  <1> HIDE DEF e
  <1>3. Len(d) \in Nat /\ o \in Nat /\ e \in Nat /\ e - o - 1 \in Nat
    BY <1>1, LenProperties, SMT
  <1>4. o + 1 \in 1 .. Len(d) + 1 /\ e \in o + 1 - 1 .. Len(d) /\ e - (o + 1) + 1 = e - o
    BY <1>1, <1>3, SMT
  <1>5. t \in Seq(Nat) /\ Len(t) = e - o /\ \A i \in 1 .. e - o : t[i] = d[o + i]
    <2>1. t \in Seq(Nat) /\ Len(t) = e - o /\ \A i \in 1 .. e - o : t[i] = d[o + 1 + i - 1]
      BY <1>4, SubSeqProperties
    <2>2. \A i \in 1 .. e - o : o + 1 + i - 1 = o + i
      BY <1>3, SMT
    <2> QED
      BY <2>1, <2>2
  <1> HIDE DEF t
  <1>6. Token(d, o) \in Seq(Nat) /\ Len(Token(d, o)) = e - o + 1
    <2>1. <<e - o - 1>> \in Seq(Nat) /\ Len(<<e - o - 1>>) = 1
      BY <1>3, SMT
    <2>2. Token(d, o) \in Seq(Nat) /\ Len(Token(d, o)) = 1 + Len(t)
      BY <1>2, <1>5, <2>1, ConcatProperties
    <2> QED
      BY <1>3, <1>5, <2>2, SMT
  <1>7. Token(d, o)[1] = e - o - 1 /\ \A i \in 1 .. e - o : Token(d, o)[i + 1] = t[i]
    BY <1>1, <1>2, <1>3, <1>5, SMT
  <1> QED
    BY <1>1, <1>5, <1>6, <1>7 DEF e

LEMMA TokenIs ==
  ASSUME NEW d \in Seq(Nat), NEW o \in 0 .. Len(d) - 1
  PROVE  /\ Behind(d, o) \in o + 1 .. Len(d) /\ Token(d, o) \in Seq(Nat)
         /\ Len(Token(d, o)) >= 1 /\ Len(Token(d, o)) <= 2 * (Behind(d, o) - o)
  <1>1. Len(d) \in Nat
    BY LenProperties
  <1>2. CASE Best(d, o) >= 3
    <2>1. Behind(d, o) \in o + 3 .. Len(d) /\ Token(d, o) \in Seq(Nat) /\ Len(Token(d, o)) = 2
      BY <1>2, CopyToken
    <2> QED
      BY <1>1, <2>1, SMT
  <1>3. CASE ~(Best(d, o) >= 3)
    BY <1>1, <1>3, LiteralToken, SMT
  <1> QED
    BY <1>2, <1>3

\* The recursion ends, and so it defines a function.
LEMMA EncodingIs ==
  ASSUME NEW d \in Seq(Nat)
  PROVE  Encoding(d) = [o \in 0 .. Len(d) |->
                          IF o = Len(d) THEN <<>> ELSE Token(d, o) \o Encoding(d)[Behind(d, o)]]
  <1> DEFINE n == Len(d)
             Enc(f, o) == IF o = n THEN <<>> ELSE Token(d, o) \o f[Behind(d, o)]
             From(m) == n - m .. n
             T == {m \in Nat : m <= n => \E f : f = [o \in From(m) |-> Enc(f, o)]}
  <1>1. n \in Nat
    BY LenProperties
  <1>2. 0 \in T
    <2> DEFINE f == [o \in From(0) |-> <<>>]
    <2>1. \A o \in From(0) : o = n
      BY <1>1, SMT
    <2>2. f = [o \in From(0) |-> Enc(f, o)]
      BY <2>1, Zenon
    <2> QED
      BY <2>2
  <1>3. ASSUME NEW m \in Nat, m \in T
        PROVE  m + 1 \in T
    <2> SUFFICES ASSUME m + 1 <= n
                 PROVE  \E h : h = [o \in From(m + 1) |-> Enc(h, o)]
      OBVIOUS
    <2>1. m <= n
      BY <1>1, SMT
    <2>2. PICK f : f = [o \in From(m) |-> Enc(f, o)]
      BY <1>3, <2>1
    <2> DEFINE h == [o \in From(m + 1) |-> IF o \in From(m) THEN f[o] ELSE Enc(f, o)]
    <2>3. ASSUME NEW o \in From(m + 1)
          PROVE  h[o] = Enc(f, o) /\ (o # n => Behind(d, o) \in From(m) \cap From(m + 1))
      <3>1. h[o] = Enc(f, o)
        BY <2>2, Zenon
      <3>2. ASSUME o # n PROVE Behind(d, o) \in From(m) \cap From(m + 1)
        <4>1. o \in 0 .. Len(d) - 1
          BY <1>1, <3>2, SMT
        <4>2. Behind(d, o) \in o + 1 .. n
          BY <4>1, TokenIs
        <4> QED
          BY <1>1, <4>1, <4>2, SMT
      <3> QED
        BY <3>1, <3>2
    <2>4. ASSUME NEW o \in From(m + 1)
          PROVE  Enc(h, o) = Enc(f, o)
      <3>1. CASE o = n
        BY <3>1
      <3>2. CASE o # n
        <4>1. h[Behind(d, o)] = f[Behind(d, o)]
          BY <2>3, <3>2, Zenon
        <4> HIDE DEF h
        <4> QED
          BY <3>2, <4>1, Zenon
      <3> QED
        BY <3>1, <3>2
    <2>5. h = [o \in From(m + 1) |-> Enc(h, o)]
      <3>1. \A o \in From(m + 1) : h[o] = Enc(h, o)
        BY <2>3, <2>4
      <3> HIDE DEF Enc
      <3> QED
        BY <3>1
    <2> QED
      BY <2>5
  <1> HIDE DEF T
  <1>4. n \in T
    BY <1>1, <1>2, <1>3, Reached
  <1>5. PICK f : f = [o \in 0 .. n |-> Enc(f, o)]
    <2>1. n - n = 0 /\ n <= n
      BY <1>1, SMT
    <2> QED
      BY <1>4, <2>1 DEF T
  <1> QED
    BY <1>5 DEF Encoding

\* What the recursion gives at the end of the data, and before it.
LEMMA EncodingAt ==
  ASSUME NEW d \in Seq(Nat), NEW o \in 0 .. Len(d)
  PROVE  /\ o = Len(d) => Encoding(d)[o] = <<>>
         /\ o # Len(d) => Encoding(d)[o] = Token(d, o) \o Encoding(d)[Behind(d, o)]
  BY EncodingIs, Zenon

\* It is at least a byte if there is data, and at most twice as long.
LEMMA EncodingOf ==
  ASSUME NEW d \in Seq(Nat), NEW o \in 0 .. Len(d)
  PROVE  /\ Encoding(d)[o] \in Seq(Nat) /\ Len(Encoding(d)[o]) <= 2 * (Len(d) - o)
         /\ o # Len(d) => Len(Encoding(d)[o]) >= 1
  <1> DEFINE n == Len(d)
             E == Encoding(d)
             Fine(q) == /\ E[q] \in Seq(Nat) /\ Len(E[q]) <= 2 * (n - q)
                        /\ q # n => Len(E[q]) >= 1
             T == {m \in Nat : \A q \in 0 .. n : n - q <= m => Fine(q)}
  <1>1. n \in Nat
    BY LenProperties
  <1>2. Fine(n)
    <2>1. E[n] = <<>>
      BY <1>1, EncodingAt, SMT
    <2>2. E[n] \in Seq(Nat) /\ Len(E[n]) = 0
      BY <2>1, EmptySeq
    <2> QED
      BY <1>1, <2>2, SMT
  <1>3. 0 \in T
    <2> SUFFICES ASSUME NEW q \in 0 .. n, n - q <= 0
                 PROVE  Fine(q)
      OBVIOUS
    <2>1. q = n
      BY <1>1, SMT
    <2> HIDE DEF Fine
    <2> QED
      BY <1>2, <2>1
  <1>4. ASSUME NEW m \in Nat, m \in T
        PROVE  m + 1 \in T
    <2> SUFFICES ASSUME NEW q \in 0 .. n, n - q <= m + 1
                 PROVE  Fine(q)
      OBVIOUS
    <2>1. CASE q = n
      <3> HIDE DEF Fine
      <3> QED
        BY <1>2, <2>1
    <2>2. CASE q # n
      <3> DEFINE b == Behind(d, q)
                 t == Token(d, q)
      <3>1. q \in 0 .. Len(d) - 1
        BY <1>1, <2>2, SMT
      <3>2. b \in q + 1 .. n /\ t \in Seq(Nat) /\ Len(t) >= 1 /\ Len(t) <= 2 * (b - q)
        BY <3>1, TokenIs
      <3>3. E[q] = t \o E[b]
        BY <2>2, EncodingAt
      <3> HIDE DEF b, t, E
      <3>4. b \in 0 .. n /\ n - b <= m
        BY <1>1, <3>1, <3>2, SMT
      <3>5. E[b] \in Seq(Nat) /\ Len(E[b]) <= 2 * (n - b)
        BY <1>4, <3>4
      <3>6. E[q] \in Seq(Nat) /\ Len(E[q]) = Len(t) + Len(E[b])
        BY <3>2, <3>3, <3>5, ConcatProperties
      <3>7. Len(t) \in Nat /\ Len(E[b]) \in Nat
        BY <3>2, <3>5, LenProperties
      <3>8. Len(E[q]) <= 2 * (n - q) /\ Len(E[q]) >= 1
        <4> DEFINE x == Len(t)
                   y == Len(E[b])
        <4>1. /\ x \in Nat /\ y \in Nat /\ x >= 1 /\ x <= 2 * (b - q) /\ y <= 2 * (n - b)
              /\ q \in Nat /\ b \in Nat /\ n \in Nat
          BY <1>1, <3>1, <3>2, <3>4, <3>5, <3>7, SMT
        <4> HIDE DEF x, y, n
        <4>2. x + y <= 2 * (n - q) /\ x + y >= 1
          BY <4>1, SMT
        <4> QED
          BY <3>6, <4>2 DEF x, y, n
      <3> QED
        BY <3>6, <3>8
    <2> QED
      BY <2>1, <2>2
  <1> HIDE DEF T, Fine
  <1>5. n - o \in T
    <2>1. n - o \in Nat
      BY <1>1, SMT
    <2> QED
      BY <1>3, <1>4, <2>1, Reached
  <1>6. Fine(o)
    <2>1. n - o <= n - o
      BY <1>1, SMT
    <2> QED
      BY <1>5, <2>1 DEF T
  <1> QED
    BY <1>6 DEF Fine

\* The cells of what is encoded are those of its first token, and then those of
\* what is behind it.
LEMMA EncodingCells ==
  ASSUME NEW d \in Seq(Nat), NEW o \in 0 .. Len(d) - 1
  PROVE  LET b == Behind(d, o)
             t == Token(d, o)
         IN  /\ b \in 0 .. Len(d)
             /\ Len(Encoding(d)[o]) = Len(t) + Len(Encoding(d)[b])
             /\ \A i \in 1 .. Len(t) : Encoding(d)[o][i] = t[i]
             /\ \A i \in 1 .. Len(Encoding(d)[b]) : Encoding(d)[o][Len(t) + i] = Encoding(d)[b][i]
  <1> DEFINE b == Behind(d, o)
             t == Token(d, o)
             E == Encoding(d)
  <1>1. Len(d) \in Nat /\ o \in 0 .. Len(d) /\ o # Len(d)
    BY LenProperties, SMT
  <1>2. b \in o + 1 .. Len(d) /\ t \in Seq(Nat)
    BY TokenIs
  <1>3. E[o] = t \o E[b]
    BY <1>1, EncodingAt
  <1> HIDE DEF b, t, E
  <1>4. b \in 0 .. Len(d)
    BY <1>1, <1>2, SMT
  <1>5. E[b] \in Seq(Nat)
    BY <1>4, EncodingOf DEF E
  <1>6. /\ Len(E[o]) = Len(t) + Len(E[b])
        /\ \A i \in 1 .. Len(t) + Len(E[b]) :
             E[o][i] = IF i <= Len(t) THEN t[i] ELSE E[b][i - Len(t)]
    BY <1>2, <1>3, <1>5, ConcatProperties
  <1>7. Len(t) \in Nat /\ Len(E[b]) \in Nat
    BY <1>2, <1>5, LenProperties
  <1>8. ASSUME NEW i \in 1 .. Len(t)
        PROVE  E[o][i] = t[i]
    <2>1. i \in 1 .. Len(t) + Len(E[b]) /\ i <= Len(t)
      BY <1>7, SMT
    <2> QED
      BY <1>6, <2>1
  <1>9. ASSUME NEW i \in 1 .. Len(E[b])
        PROVE  E[o][Len(t) + i] = E[b][i]
    <2>1. /\ Len(t) + i \in 1 .. Len(t) + Len(E[b]) /\ ~(Len(t) + i <= Len(t))
          /\ (Len(t) + i) - Len(t) = i
      BY <1>7, SMT
    <2> QED
      BY <1>6, <2>1
  <1> QED
    BY <1>4, <1>6, <1>8, <1>9 DEF b, t, E

-----------------------------------------------------------------------------
(* The pages of the data, their blocks, and the pack. *)

\* A page that begins within the data.
LEMMA PageDataIs ==
  ASSUME NEW d \in Seq(Nat), NEW p \in Nat, p * Page < Len(d)
  PROVE  LET rest == Len(d) - p * Page
             D == PageData(d, p)
         IN  /\ D \in Seq(Nat) /\ Len(D) = (IF rest < Page THEN rest ELSE Page)
             /\ Len(D) \in Nat /\ Len(D) >= 1 /\ Len(D) <= Page
             /\ \A i \in 1 .. Len(D) : D[i] = d[p * Page + i]
  <1> DEFINE a == p * Page
             n == Len(d)
             e == Min({n, (p + 1) * Page})
             D == PageData(d, p)
  <1>1. n \in Nat /\ Page \in Nat /\ Page > 0 /\ a \in Nat /\ (p + 1) * Page = a + Page /\ a < n
    BY LenProperties, PackAssumption, SMT
  <1>2. D = SubSeq(d, a + 1, e)
    BY DEF PageData
  <1>3. e = IF n < a + Page THEN n ELSE a + Page
    <2>1. a + Page \in Nat
      BY <1>1, SMT
    <2> QED
      BY <1>1, <2>1, MinOfTwo
  <1> HIDE DEF a, n, e, D
  <1>4. a + 1 \in Int /\ e \in Int /\ a + 1 <= e /\ e <= n /\ e - (a + 1) + 1 = e - a
    BY <1>1, <1>3, SMT
  <1>5. \A i \in a + 1 .. e : d[i] \in Nat
    <2> TAKE i \in a + 1 .. e
    <2>1. i \in 1 .. n
      BY <1>1, <1>4, SMT
    <2> QED
      BY <2>1, ElementOfSeq DEF n
  <1>6. D \in Seq(Nat) /\ Len(D) = e - a /\ \A i \in 1 .. e - a : D[i] = d[a + 1 + i - 1]
    BY <1>2, <1>4, <1>5, SubSeqProperties
  <1>7. \A i \in 1 .. e - a : a + 1 + i - 1 = a + i
    BY <1>1, <1>4, SMT
  <1>8. e - a \in Nat /\ e - a >= 1 /\ e - a <= Page /\ e - a = (IF n - a < Page THEN n - a ELSE Page)
    BY <1>1, <1>3, <1>4, SMT
  <1> QED
    BY <1>6, <1>7, <1>8 DEF a, n, D

LEMMA PagesBegin ==
  ASSUME NEW n \in Nat, NEW p \in Nat
  PROVE  PageCount(n) \in Nat /\ (p < PageCount(n) <=> p * Page < n)
  <1> DEFINE c == PageCount(n)
  <1>1. Page \in Nat /\ Page > 0
    BY PackAssumption
  <1>2. c \in Nat /\ c * Page <= n + Page - 1 /\ n + Page - 1 < c * Page + Page
    BY <1>1, SMT DEF PageCount
  <1> HIDE DEF c
  <1>3. ASSUME p < c PROVE p * Page < n
    <2>1. (p + 1) * Page <= c * Page
      BY <1>1, <1>2, <1>3, SMT
    <2> QED
      BY <1>1, <1>2, <2>1, SMT
  <1>4. ASSUME p * Page < n PROVE p < c
    <2>1. SUFFICES ASSUME c <= p PROVE FALSE
      BY <1>2, SMT
    <2>2. c * Page <= p * Page
      BY <1>1, <1>2, <2>1, SMT
    <2> QED
      BY <1>1, <1>2, <1>4, <2>2, SMT
  <1> QED
    BY <1>2, <1>3, <1>4 DEF c

LEMMA BlockIs ==
  ASSUME NEW d \in Seq(Nat), NEW p \in Nat, p < PageCount(Len(d))
  PROVE  /\ Block(d, p) \in Seq(Nat) /\ Len(Block(d, p)) \in Nat
         /\ Len(Block(d, p)) >= 1 /\ Len(Block(d, p)) <= 2 * Page
  <1> DEFINE D == PageData(d, p)
  <1>1. D \in Seq(Nat) /\ Len(D) \in Nat /\ Len(D) >= 1 /\ Len(D) <= Page
    BY LenProperties, PagesBegin, PageDataIs
  <1> HIDE DEF D
  <1>2. 0 \in 0 .. Len(D) /\ 0 # Len(D) /\ Page \in Nat
    BY <1>1, PackAssumption, SMT
  <1> DEFINE b == Encoding(D)[0]
  <1>3. b \in Seq(Nat) /\ Len(b) <= 2 * (Len(D) - 0) /\ Len(b) >= 1
    BY <1>1, <1>2, EncodingOf
  <1> HIDE DEF b
  <1>4. Len(b) \in Nat
    BY <1>3, LenProperties
  <1>5. Len(b) <= 2 * Page
    BY <1>1, <1>2, <1>3, <1>4, SMT
  <1> QED
    BY <1>3, <1>4, <1>5 DEF b, D, Block, Encode

LEMMA JoinedIs ==
  ASSUME NEW d \in Seq(Nat)
  PROVE  Joined(d) = [p \in 0 .. PageCount(Len(d)) |->
                        IF p = 0 THEN <<>> ELSE Joined(d)[p - 1] \o Block(d, p - 1)]
  <1> DEFINE n == PageCount(Len(d))
             Join(f, p) == IF p = 0 THEN <<>> ELSE f[p - 1] \o Block(d, p - 1)
             T == {m \in Nat : \E f : f = [p \in 0 .. m |-> Join(f, p)]}
  <1>1. n \in Nat
    BY LenProperties, PagesBegin
  <1>2. 0 \in T
    <2> DEFINE f == [p \in 0 .. 0 |-> <<>>]
    <2>1. \A p \in 0 .. 0 : p = 0
      BY SMT
    <2>2. f = [p \in 0 .. 0 |-> Join(f, p)]
      BY <2>1, Zenon
    <2> QED
      BY <2>2
  <1>3. ASSUME NEW m \in Nat, m \in T
        PROVE  m + 1 \in T
    <2>2. PICK f : f = [p \in 0 .. m |-> Join(f, p)]
      BY <1>3
    <2> DEFINE h == [p \in 0 .. m + 1 |-> IF p \in 0 .. m THEN f[p] ELSE Join(f, p)]
    <2>3. ASSUME NEW p \in 0 .. m + 1
          PROVE  h[p] = Join(f, p)
      BY <2>2, Zenon
    <2>4. ASSUME NEW p \in 0 .. m + 1
          PROVE  Join(h, p) = Join(f, p)
      <3>1. CASE p = 0
        BY <3>1
      <3>2. CASE p # 0
        <4>1. p - 1 \in 0 .. m /\ p - 1 \in 0 .. m + 1
          BY <3>2, SMT
        <4>2. h[p - 1] = f[p - 1]
          BY <4>1, Zenon
        <4> HIDE DEF h
        <4> QED
          BY <3>2, <4>2, Zenon
      <3> QED
        BY <3>1, <3>2
    <2>5. h = [p \in 0 .. m + 1 |-> Join(h, p)]
      <3>1. \A p \in 0 .. m + 1 : h[p] = Join(h, p)
        BY <2>3, <2>4
      <3> HIDE DEF Join
      <3> QED
        BY <3>1
    <2>6. m + 1 \in Nat
      BY SMT
    <2> QED
      BY <2>5, <2>6
  <1> HIDE DEF T
  <1>4. n \in T
    BY <1>1, <1>2, <1>3, Reached
  <1>5. PICK f : f = [p \in 0 .. n |-> Join(f, p)]
    BY <1>4 DEF T
  <1> QED
    BY <1>5 DEF Joined

LEMMA JoinedAt ==
  ASSUME NEW d \in Seq(Nat), NEW p \in 0 .. PageCount(Len(d))
  PROVE  /\ p = 0 => Joined(d)[p] = <<>>
         /\ p # 0 => Joined(d)[p] = Joined(d)[p - 1] \o Block(d, p - 1)
  BY JoinedIs, Zenon

LEMMA JoinedOf ==
  ASSUME NEW d \in Seq(Nat), NEW p \in 0 .. PageCount(Len(d))
  PROVE  Joined(d)[p] \in Seq(Nat) /\ Len(Joined(d)[p]) \in Nat
  <1> DEFINE n == PageCount(Len(d))
             J == Joined(d)
             T == {m \in Nat : m <= n => J[m] \in Seq(Nat)}
  <1>1. n \in Nat
    BY LenProperties, PagesBegin
  <1>2. 0 \in T
    <2>1. 0 \in 0 .. n
      BY <1>1, SMT
    <2> QED
      BY <2>1, JoinedAt, EmptySeq
  <1>3. ASSUME NEW m \in Nat, m \in T
        PROVE  m + 1 \in T
    <2>1. m + 1 \in Nat /\ (m + 1) - 1 = m
      BY SMT
    <2>2. ASSUME m + 1 <= n PROVE J[m + 1] \in Seq(Nat)
      <3>1. m < n /\ m <= n /\ m + 1 \in 0 .. n /\ m + 1 # 0
        BY <1>1, <2>2, SMT
      <3>2. J[m + 1] = J[m] \o Block(d, m)
        BY <2>1, <3>1, JoinedAt
      <3>3. Block(d, m) \in Seq(Nat)
        BY <3>1, BlockIs
      <3> HIDE DEF J
      <3> QED
        BY <1>3, <3>1, <3>2, <3>3, ConcatProperties
    <2> QED
      BY <2>1, <2>2
  <1> HIDE DEF T
  <1>4. p \in T
    <2>1. p \in Nat
      BY <1>1, SMT
    <2> QED
      BY <1>2, <1>3, <2>1, Reached
  <1>5. J[p] \in Seq(Nat)
    <2>1. p <= n
      BY <1>1, SMT
    <2> QED
      BY <1>4, <2>1 DEF T
  <1> QED
    BY <1>5, LenProperties

\* A block follows on what is before it.
LEMMA JoinedGrows ==
  ASSUME NEW d \in Seq(Nat), NEW p \in Nat, p < PageCount(Len(d))
  PROVE  /\ Len(Joined(d)[p]) \in Nat /\ Len(Joined(d)[p + 1]) = Len(Joined(d)[p]) + Len(Block(d, p))
         /\ \A i \in 1 .. Len(Joined(d)[p]) : Joined(d)[p + 1][i] = Joined(d)[p][i]
         /\ \A i \in 1 .. Len(Block(d, p)) :
              Joined(d)[p + 1][Len(Joined(d)[p]) + i] = Block(d, p)[i]
  <1> DEFINE j == Joined(d)[p]
             k == Joined(d)[p + 1]
             b == Block(d, p)
  <1>1. /\ p \in 0 .. PageCount(Len(d)) /\ p + 1 \in 0 .. PageCount(Len(d))
        /\ p + 1 # 0 /\ (p + 1) - 1 = p
    BY LenProperties, PagesBegin, SMT
  <1>2. j \in Seq(Nat) /\ Len(j) \in Nat
    BY <1>1, JoinedOf
  <1>3. b \in Seq(Nat) /\ Len(b) \in Nat
    BY BlockIs
  <1>4. k = j \o b
    BY <1>1, JoinedAt
  <1> HIDE DEF j, k, b
  <1>5. /\ Len(k) = Len(j) + Len(b)
        /\ \A i \in 1 .. Len(j) + Len(b) : k[i] = IF i <= Len(j) THEN j[i] ELSE b[i - Len(j)]
    BY <1>2, <1>3, <1>4, ConcatProperties
  <1>6. ASSUME NEW i \in 1 .. Len(j)
        PROVE  k[i] = j[i]
    <2>1. i \in 1 .. Len(j) + Len(b) /\ i <= Len(j)
      BY <1>2, <1>3, SMT
    <2> QED
      BY <1>5, <2>1
  <1>7. ASSUME NEW i \in 1 .. Len(b)
        PROVE  k[Len(j) + i] = b[i]
    <2>1. /\ Len(j) + i \in 1 .. Len(j) + Len(b) /\ ~(Len(j) + i <= Len(j))
          /\ (Len(j) + i) - Len(j) = i
      BY <1>2, <1>3, SMT
    <2> QED
      BY <1>5, <2>1
  <1> QED
    BY <1>2, <1>5, <1>6, <1>7 DEF j, k, b

\* ... and stays where it is under all that follow.
LEMMA JoinedKeeps ==
  ASSUME NEW d \in Seq(Nat), NEW p \in Nat, p < PageCount(Len(d))
  PROVE  /\ Len(Joined(d)[p]) + Len(Block(d, p)) <= Len(Joined(d)[PageCount(Len(d))])
         /\ \A i \in 1 .. Len(Block(d, p)) :
              Joined(d)[PageCount(Len(d))][Len(Joined(d)[p]) + i] = Block(d, p)[i]
  <1> DEFINE n == PageCount(Len(d))
             J == Joined(d)
             b == Block(d, p)
             at == Len(J[p])
             Kept(q) == /\ at + Len(b) <= Len(J[q])
                        /\ \A i \in 1 .. Len(b) : J[q][at + i] = b[i]
             T == {m \in Nat : p + 1 + m <= n => Kept(p + 1 + m)}
  <1>1. n \in Nat /\ p + 1 <= n
    BY LenProperties, PagesBegin, SMT
  <1>2. at \in Nat /\ Len(J[p + 1]) = at + Len(b) /\ \A i \in 1 .. Len(b) : J[p + 1][at + i] = b[i]
    BY JoinedGrows
  <1>3. Len(b) \in Nat
    BY BlockIs
  <1>4. 0 \in T
    <2>1. p + 1 + 0 = p + 1 /\ Len(J[p + 1]) \in Nat
      BY <1>2, <1>3, SMT
    <2>2. at + Len(b) <= Len(J[p + 1])
      BY <1>2, <1>3, SMT
    <2> QED
      BY <1>2, <2>1, <2>2
  <1>5. ASSUME NEW m \in Nat, m \in T
        PROVE  m + 1 \in T
    <2> SUFFICES ASSUME p + 1 + (m + 1) <= n
                 PROVE  Kept(p + 1 + (m + 1))
      BY SMT
    <2> DEFINE q == p + 1 + m
    <2>1. q \in Nat /\ q < n /\ q <= n /\ p + 1 + (m + 1) = q + 1
      BY <1>1, SMT
    <2>2. Kept(q)
      BY <1>5, <2>1
    <2> HIDE DEF q
    <2>3. /\ Len(J[q]) \in Nat /\ Len(J[q + 1]) = Len(J[q]) + Len(Block(d, q))
          /\ \A i \in 1 .. Len(J[q]) : J[q + 1][i] = J[q][i]
      BY <2>1, JoinedGrows
    <2>4. Len(Block(d, q)) \in Nat
      BY <2>1, BlockIs
    <2> HIDE DEF J, b, at
    <2>5. at + Len(b) <= Len(J[q + 1])
      <3> DEFINE x == Len(J[q])
                 y == Len(J[q + 1])
                 z == Len(Block(d, q))
      <3>1. x \in Nat /\ z \in Nat /\ y = x + z /\ at + Len(b) <= x
        BY <2>2, <2>3, <2>4
      <3> HIDE DEF x, y, z
      <3>2. at + Len(b) <= y
        BY <1>2, <1>3, <3>1, SMT
      <3> QED
        BY <3>2 DEF y
    <2>6. ASSUME NEW i \in 1 .. Len(b)
          PROVE  J[q + 1][at + i] = b[i]
      <3>1. at + i \in 1 .. Len(J[q])
        BY <1>2, <1>3, <2>2, <2>3, SMT
      <3> QED
        BY <2>2, <2>3, <3>1
    <2> QED
      BY <2>1, <2>5, <2>6
  <1> HIDE DEF T, Kept
  <1>6. Kept(n)
    <2>1. n - (p + 1) \in Nat /\ p + 1 + (n - (p + 1)) = n /\ n <= n
      BY <1>1, SMT
    <2>2. n - (p + 1) \in T
      BY <1>4, <1>5, <2>1, Reached
    <2> QED
      BY <2>1, <2>2 DEF T
  <1> QED
    BY <1>6 DEF Kept

\* Where the pages begin rises by their blocks.
LEMMA StartsRise ==
  ASSUME NEW d \in Seq(Nat)
  PROVE  LET n == PageCount(Len(d))
         IN  /\ n \in Nat /\ \A p \in 0 .. n : Starts(d, p) \in Nat
             /\ Starts(d, 0) = HeaderCells + n + 1
             /\ \A p \in 0 .. n - 1 : Starts(d, p + 1) = Starts(d, p) + Len(Block(d, p))
             /\ \A p \in 0 .. n : Starts(d, p) <= Starts(d, n)
  <1> DEFINE n == PageCount(Len(d))
             J == Joined(d)
  <1>1. n \in Nat
    BY LenProperties, PagesBegin
  <1>2. \A p \in 0 .. n : Starts(d, p) = 4 + n + Len(J[p]) /\ Len(J[p]) \in Nat
    <2> TAKE p \in 0 .. n
    <2>1. Len(J[p]) \in Nat
      BY JoinedOf
    <2> DEFINE x == Len(J[p])
    <2>x. x \in Nat
      BY <2>1
    <2>2. Starts(d, p) = 3 + n + 1 + x
      BY DEF Starts, HeaderCells
    <2> HIDE DEF n, J, x
    <2>3. 3 + n + 1 + x = 4 + n + x
      BY <1>1, <2>x, SMT
    <2> QED
      BY <2>1, <2>2, <2>3 DEF x
  <1>3. Starts(d, 0) = HeaderCells + n + 1
    <2>1. 0 \in 0 .. n
      BY <1>1, SMT
    <2>2. J[0] = <<>>
      BY <2>1, JoinedAt
    <2>3. Len(J[0]) = 0
      BY <2>2, EmptySeq
    <2> HIDE DEF n, J
    <2>4. Starts(d, 0) = 4 + n + 0
      BY <1>2, <2>1, <2>3
    <2> QED
      BY <1>1, <2>4, SMT DEF HeaderCells
  <1>4. \A p \in 0 .. n - 1 : Starts(d, p + 1) = Starts(d, p) + Len(Block(d, p))
    <2> TAKE p \in 0 .. n - 1
    <2>1. p \in Nat /\ p < n /\ p \in 0 .. n /\ p + 1 \in 0 .. n
      BY <1>1, SMT
    <2>2. Len(J[p + 1]) = Len(J[p]) + Len(Block(d, p))
      BY <2>1, JoinedGrows
    <2>3. Len(Block(d, p)) \in Nat
      BY <2>1, BlockIs
    <2> HIDE DEF n, J
    <2>4. Starts(d, p) = 4 + n + Len(J[p]) /\ Len(J[p]) \in Nat /\ Starts(d, p + 1) = 4 + n + Len(J[p + 1])
      BY <1>2, <2>1
    <2> DEFINE x == Len(J[p])
               y == Len(J[p + 1])
               z == Len(Block(d, p))
    <2>5. Starts(d, p) = 4 + n + x /\ x \in Nat /\ z \in Nat /\ y = x + z /\ Starts(d, p + 1) = 4 + n + y
      BY <2>2, <2>3, <2>4
    <2> HIDE DEF x, y, z
    <2>6. Starts(d, p + 1) = Starts(d, p) + z
      BY <1>1, <2>5, SMT
    <2> QED
      BY <2>6 DEF z
  <1>5. \A p \in 0 .. n : Starts(d, p) <= Starts(d, n)
    <2> TAKE p \in 0 .. n
    <2>0. n \in 0 .. n
      BY <1>1, SMT
    <2>1. CASE p = n
      <3> DEFINE s == Starts(d, n)
      <3>1. s \in Nat
        <4>1. Len(J[n]) \in Nat /\ s = 4 + n + Len(J[n])
          BY <1>2, <2>0
        <4> DEFINE x == Len(J[n])
        <4>2. s = 4 + n + x /\ x \in Nat
          BY <4>1
        <4> HIDE DEF n, s, x
        <4> QED
          BY <1>1, <4>2, SMT
      <3> HIDE DEF s
      <3>2. s <= s
        BY <3>1, SMT
      <3> QED
        BY <2>1, <3>2 DEF s
    <2>2. CASE p # n
      <3>1. p \in Nat /\ p < n
        BY <1>1, <2>2, SMT
      <3>2. Len(J[p]) + Len(Block(d, p)) <= Len(J[n]) /\ Len(Block(d, p)) \in Nat
        BY <3>1, JoinedKeeps, BlockIs
      <3> DEFINE x == Len(J[p])
                 y == Len(J[n])
                 z == Len(Block(d, p))
      <3>3. /\ x \in Nat /\ y \in Nat /\ z \in Nat /\ x + z <= y
            /\ Starts(d, p) = 4 + n + x /\ Starts(d, n) = 4 + n + y
        BY <1>2, <2>0, <3>2
      <3> HIDE DEF n, J, x, y, z
      <3> QED
        BY <1>1, <3>3, SMT
    <2> QED
      BY <2>1, <2>2
  <1>6. \A p \in 0 .. n : Starts(d, p) \in Nat
    <2> TAKE p \in 0 .. n
    <2> DEFINE x == Len(J[p])
    <2>1. x \in Nat /\ Starts(d, p) = 4 + n + x
      BY <1>2
    <2> HIDE DEF n, x
    <2>2. 4 + n + x \in Nat
      BY <1>1, <2>1, SMT
    <2> QED
      BY <2>1, <2>2
  <1> QED
    BY <1>1, <1>3, <1>4, <1>5, <1>6

\* The cells of three sequences in a row.
LEMMA ThreeInARow ==
  ASSUME NEW a \in Seq(Nat), NEW b \in Seq(Nat), NEW c \in Seq(Nat)
  PROVE  LET s == a \o b \o c
         IN  /\ s \in Seq(Nat) /\ Len(s) = Len(a) + Len(b) + Len(c)
             /\ \A i \in 1 .. Len(a) : s[i] = a[i]
             /\ \A i \in 1 .. Len(b) : s[Len(a) + i] = b[i]
             /\ \A i \in 1 .. Len(c) : s[Len(a) + Len(b) + i] = c[i]
  <1> DEFINE t == a \o b
             s == t \o c
  <1>1. Len(a) \in Nat /\ Len(b) \in Nat /\ Len(c) \in Nat
    BY LenProperties
  <1>2. /\ t \in Seq(Nat) /\ Len(t) = Len(a) + Len(b)
        /\ \A i \in 1 .. Len(a) + Len(b) : t[i] = IF i <= Len(a) THEN a[i] ELSE b[i - Len(a)]
    BY ConcatProperties
  <1>0. s = t \o c
    OBVIOUS
  <1> HIDE DEF s, t
  <1>t. t \in Seq(Nat)
    BY <1>2
  <1>3. /\ s \in Seq(Nat) /\ Len(s) = Len(t) + Len(c)
        /\ \A i \in 1 .. Len(t) + Len(c) : s[i] = IF i <= Len(t) THEN t[i] ELSE c[i - Len(t)]
    BY <1>0, <1>t, ConcatProperties
  <1>4. \A i \in 1 .. Len(a) : s[i] = a[i]
    <2> TAKE i \in 1 .. Len(a)
    <2>1. i \in 1 .. Len(a) + Len(b) /\ i \in 1 .. Len(t) + Len(c) /\ i <= Len(a) /\ i <= Len(t)
      BY <1>1, <1>2, SMT
    <2> QED
      BY <1>2, <1>3, <2>1
  <1>5. ASSUME NEW i \in 1 .. Len(b)
        PROVE  s[Len(a) + i] = b[i]
    <2>1. /\ Len(a) + i \in 1 .. Len(a) + Len(b) /\ Len(a) + i \in 1 .. Len(t) + Len(c)
          /\ ~(Len(a) + i <= Len(a)) /\ Len(a) + i <= Len(t) /\ (Len(a) + i) - Len(a) = i
      BY <1>1, <1>2, SMT
    <2> QED
      BY <1>2, <1>3, <2>1
  <1>6. ASSUME NEW i \in 1 .. Len(c)
        PROVE  s[Len(a) + Len(b) + i] = c[i]
    <2>1. /\ Len(t) + i \in 1 .. Len(t) + Len(c) /\ ~(Len(t) + i <= Len(t)) /\ (Len(t) + i) - Len(t) = i
      BY <1>1, <1>2, SMT
    <2> QED
      BY <1>2, <1>3, <2>1
  <1> QED
    BY <1>2, <1>3, <1>4, <1>5, <1>6 DEF s, t

\* What begin() and decode() find in a pack.
LEMMA PackIs ==
  ASSUME NEW d \in Seq(Nat), NEW id \in Nat
  PROVE  LET n == PageCount(Len(d))
             s == Pack(d, id)
         IN  /\ s[1] = id /\ s[2] = Len(d) /\ s[3] = n
             /\ Len(s) = Starts(d, n)
             /\ \A p \in 0 .. n : s[HeaderCells + p + 1] = Starts(d, p)
             /\ \A p \in 0 .. n - 1 : \A i \in 1 .. Len(Block(d, p)) :
                  s[Starts(d, p) + i] = Block(d, p)[i]
  <1> DEFINE n == PageCount(Len(d))
             a == <<id, Len(d), n>>
             b == [p \in 1 .. n + 1 |-> Starts(d, p - 1)]
             c == Joined(d)[n]
             s == Pack(d, id)
  <1>1. n \in Nat /\ Len(d) \in Nat /\ n \in 0 .. n
    BY LenProperties, PagesBegin, SMT
  <1>2. a \in Seq(Nat) /\ Len(a) = 3 /\ a[1] = id /\ a[2] = Len(d) /\ a[3] = n
    <2> HIDE DEF n
    <2> QED
      BY <1>1, SMT
  <1>3. b \in Seq(Nat) /\ Len(b) = n + 1
    <2>1. \A p \in 1 .. n + 1 : p - 1 \in 0 .. n
      BY <1>1, SMT
    <2>2. \A p \in 1 .. n + 1 : Starts(d, p - 1) \in Nat
      BY <2>1, StartsRise
    <2>3. n + 1 \in Nat
      BY <1>1, SMT
    <2> HIDE DEF n
    <2> QED
      BY <2>2, <2>3, SMT
  <1>4. c \in Seq(Nat) /\ Len(c) \in Nat
    BY <1>1, JoinedOf
  <1>5. s = a \o b \o c
    BY DEF Pack
  <1>6. Starts(d, n) = 3 + n + 1 + Len(c)
    BY DEF Starts, HeaderCells
  <1> HIDE DEF a, b, c, s
  <1>7. /\ Len(s) = Len(a) + Len(b) + Len(c)
        /\ \A i \in 1 .. Len(a) : s[i] = a[i]
        /\ \A i \in 1 .. Len(b) : s[Len(a) + i] = b[i]
        /\ \A i \in 1 .. Len(c) : s[Len(a) + Len(b) + i] = c[i]
    <2>1. a \in Seq(Nat) /\ b \in Seq(Nat) /\ c \in Seq(Nat)
      BY <1>2, <1>3, <1>4
    <2> QED
      BY <1>5, <2>1, ThreeInARow
  <1>8. s[1] = id /\ s[2] = Len(d) /\ s[3] = n
    BY <1>2, <1>7, SMT
  <1>9. Len(s) = Starts(d, n)
    <2> HIDE DEF n
    <2> QED
      BY <1>1, <1>2, <1>3, <1>4, <1>6, <1>7, SMT
  <1>10. ASSUME NEW p \in 0 .. n
         PROVE  s[HeaderCells + p + 1] = Starts(d, p)
    <2>1. p + 1 \in 1 .. n + 1 /\ HeaderCells + p + 1 = 3 + (p + 1) /\ (p + 1) - 1 = p
      BY <1>1, SMT DEF HeaderCells
    <2>2. s[3 + (p + 1)] = b[p + 1]
      BY <1>2, <1>3, <1>7, <2>1
    <2>3. b[p + 1] = Starts(d, p)
      BY <2>1 DEF b
    <2> QED
      BY <2>1, <2>2, <2>3
  <1>11. ASSUME NEW p \in 0 .. n - 1, NEW i \in 1 .. Len(Block(d, p))
         PROVE  s[Starts(d, p) + i] = Block(d, p)[i]
    <2> DEFINE j == Len(Joined(d)[p])
               l == Len(Block(d, p))
    <2>1. p \in Nat /\ p < n /\ p \in 0 .. n
      BY <1>1, SMT
    <2>2. j \in Nat /\ l \in Nat
      BY <2>1, JoinedOf, BlockIs
    <2>3. j + l <= Len(c) /\ c[j + i] = Block(d, p)[i]
      BY <2>1, JoinedKeeps DEF c
    <2>4. Starts(d, p) = 3 + n + 1 + j
      BY DEF Starts, HeaderCells
    <2> HIDE DEF j, n
    <2>5. i \in 1 .. l
      OBVIOUS
    <2> HIDE DEF l
    <2>6. j + i \in 1 .. Len(c) /\ Starts(d, p) + i = Len(a) + Len(b) + (j + i)
      BY <1>1, <1>2, <1>3, <1>4, <2>2, <2>3, <2>4, <2>5, SMT
    <2> QED
      BY <1>7, <2>3, <2>6
  <1> QED
    BY <1>8, <1>9, <1>10, <1>11 DEF s

-----------------------------------------------------------------------------
(* The decoder on a pack. *)

\* What the resource holds if it was packed from d.
LEMMA PackFacts ==
  ASSUME BundleInv, NEW d \in Datas, spec.crc = Packs[d]
  PROVE  LET n == PageCount(Len(d)) IN
         /\ d \in Seq(Nat) /\ Len(d) \in Nat /\ Len(d) # 0 /\ n \in Nat
         /\ spec.crc[1] = PackId /\ spec.crc[2] = Len(d) /\ spec.crc[3] = n
         /\ spec.length = Entry(n) /\ Entry(0) = IndexAt(n + 1)
         /\ \A p \in 0 .. n : Entry(p) \in Nat /\ Entry(p) <= spec.length
         /\ \A p \in 0 .. n - 1 :
              /\ Entry(p + 1) = Entry(p) + Len(Block(d, p))
              /\ \A i \in 1 .. Len(Block(d, p)) : spec.crc[Entry(p) + i] = Block(d, p)[i]
  <1> DEFINE n == PageCount(Len(d))
             s == Pack(d, PackId)
  <1>1. d \in Seq(Nat) /\ d # <<>> /\ PackId \in Nat
    BY FxAssumption
  <1>2. Len(d) \in Nat /\ Len(d) # 0
    BY <1>1, EmptySeq, LenProperties
  <1>3. spec.crc = s /\ spec.length = Len(spec.crc)
    BY Sequences DEF Packs, BundleInv
  <1>4. /\ s[1] = PackId /\ s[2] = Len(d) /\ s[3] = n /\ Len(s) = Starts(d, n)
        /\ \A p \in 0 .. n : s[HeaderCells + p + 1] = Starts(d, p)
        /\ \A p \in 0 .. n - 1 : \A i \in 1 .. Len(Block(d, p)) : s[Starts(d, p) + i] = Block(d, p)[i]
    BY <1>1, PackIs
  <1>5. /\ n \in Nat /\ \A p \in 0 .. n : Starts(d, p) \in Nat
        /\ Starts(d, 0) = HeaderCells + n + 1
        /\ \A p \in 0 .. n - 1 : Starts(d, p + 1) = Starts(d, p) + Len(Block(d, p))
        /\ \A p \in 0 .. n : Starts(d, p) <= Starts(d, n)
    BY <1>1, StartsRise
  <1> HIDE DEF s
  <1>6. \A p \in 0 .. n : Entry(p) = Starts(d, p)
    BY <1>3, <1>4 DEF Entry, IndexAt
  <1> HIDE DEF n
  <1>7. 0 \in 0 .. n /\ n \in 0 .. n /\ \A p \in 0 .. n - 1 : p \in 0 .. n /\ p + 1 \in 0 .. n
    BY <1>5, SMT
  <1>8. Entry(0) = IndexAt(n + 1)
    BY <1>5, <1>6, <1>7, SMT DEF IndexAt, HeaderCells
  <1>9. spec.length = Entry(n)
    BY <1>3, <1>4, <1>6, <1>7
  <1>10. \A p \in 0 .. n : Entry(p) \in Nat /\ Entry(p) <= spec.length
    BY <1>5, <1>6, <1>7, <1>9
  <1>11. \A p \in 0 .. n - 1 : /\ Entry(p + 1) = Entry(p) + Len(Block(d, p))
                               /\ \A i \in 1 .. Len(Block(d, p)) : spec.crc[Entry(p) + i] = Block(d, p)[i]
    BY <1>3, <1>4, <1>5, <1>6, <1>7
  <1> QED
    BY <1>1, <1>2, <1>3, <1>4, <1>5, <1>8, <1>9, <1>10, <1>11 DEF n

LEMMA ReadTells ==
  ASSUME NEW o, NEW n, Read(o, n)
  PROVE  from' = o /\ spec' = spec /\ (pc' = "idle" => rc' \notin Refused)
  BY DEF Read, Return, Refused

\* A call that fails has served nothing and forgets its page.
LEMMA FailTells ==
  ASSUME NEW d, NEW e, Fail(e), e # "OK", e \notin Refused, DOMAIN fxCache' = 0 .. Page - 1
  PROVE  Tells(d)'
  <1>1. fx' = "idle" /\ error' = e /\ cachedPage' = NoPage /\ fxOut' = <<>>
    BY DEF Fail, FxReturn
  <1>2. Accepted(d)' /\ Decoded(d)' /\ CacheTells(d)'
    BY <1>1 DEF Accepted, Asking, Decoded, CacheTells
  <1>3. fxOut' \in Seq(Nat) /\ DOMAIN fxOut' = {}
    BY <1>1, EmptySeq, LenProperties, SMT
  <1>4. Served(d)'
    BY <1>1, <1>3 DEF Served, Decoding
  <1> QED
    BY <1>2, <1>4 DEF Tells

\* A step that leaves FxData alone leaves what it has told as it was.
LEMMA AloneTells ==
  ASSUME NEW d, Tells(d), UNCHANGED fxVars, spec' = spec, from' = from \/ fx = "idle" \/ fx = "copy",
         Asking /\ pc' = "idle" => rc' \notin Refused
  PROVE  Tells(d)'
  <1> USE DEF fxVars, indexVars, fxReadVars, decodeVars
  <1>1. Data(d)' = Data(d)
    BY DEF Data
  <1>2. Accepted(d)'
    BY DEF Tells, Accepted, Asking, Blocks
  <1>3. Decoded(d)'
    BY <1>1 DEF Tells, Decoded, Remains
  <1>4. CacheTells(d)' /\ Served(d)'
    BY DEF Tells, CacheTells, Served
  <1> QED
    BY <1>2, <1>3, <1>4 DEF Tells

LEMMA DirectTells ==
  ASSUME NEW d, Tells(d), Direct
  PROVE  Tells(d)'
  <1>1. fx = "idle" /\ UNCHANGED fxVars
    BY DEF Direct
  <1>2. spec' = spec
    BY DEF Direct, Install, Open, Close, Take, Read
  <1> QED
    BY <1>1, <1>2, AloneTells DEF Asking

LEMMA BundleStepTells ==
  ASSUME FxInv, NEW d, Tells(d), BundleStep, UNCHANGED fxVars
  PROVE  Tells(d)'
  <1>1. spec' = spec /\ from' = from
    BY DEF BundleStep, OpenHeader, OpenScan, OpenEnd, ReadMiss, ReadFill, ReadCopy, ReadEnd
  <1>2. ASSUME Asking, pc' = "idle" PROVE rc' \notin Refused
    <2>1. ReadMiss \/ ReadFill \/ ReadCopy \/ ReadEnd
      BY <1>2 DEF BundleStep, OpenHeader, OpenScan, OpenEnd, Opening, FxInv, Asked
    <2> QED
      BY <1>2, <2>1 DEF ReadMiss, ReadFill, ReadCopy, ReadEnd, FetchFails, Return, Refused
  <1> QED
    BY <1>1, <1>2, AloneTells

LEMMA BeginTells ==
  ASSUME NEW d, Tells(d), Begin
  PROVE  Tells(d)'
  <1>1. /\ fx = "idle" /\ fx' = "header" /\ error' = "OK" /\ cachedPage' = NoPage /\ Read(0, HeaderCells)
        /\ UNCHANGED <<fxCache, fxOut, fxFrom>>
    BY DEF Begin, fxReadVars
  <1>2. Accepted(d)'
    BY <1>1, ReadTells DEF Accepted, Refused
  <1>3. Decoded(d)' /\ CacheTells(d)' /\ Served(d)'
    BY <1>1 DEF Tells, Decoded, CacheTells, Served, Decoding
  <1> QED
    BY <1>2, <1>3 DEF Tells

LEMMA FailedReadTells ==
  ASSUME NEW d, Tells(d), ReadFailed
  PROVE  Tells(d)'
  <1>1. Fail(rc) /\ Asking /\ pc = "idle" /\ rc # "OK"
    BY DEF ReadFailed, Asking
  <1>2. DOMAIN fxCache' = 0 .. Page - 1
    BY DEF ReadFailed, Tells, CacheTells, Overlay
  <1> QED
    BY <1>1, <1>2, FailTells DEF Tells, Accepted

LEMMA HeaderTells ==
  ASSUME BundleInv, FxInv, NEW d \in Datas, spec.crc = Packs[d], Tells(d), BeginHeader
  PROVE  Tells(d)'
  <1>1. fx = "header" /\ pc = "idle" /\ rc = "OK" /\ from = 0 /\ fxCache' = fxCache
    BY DEF BeginHeader, BackWith, Back, Tells, Accepted
  <1>2. out[1] = spec.crc[1] /\ out[2] = spec.crc[2] /\ out[3] = spec.crc[3]
    <2>1. Requested = 3
      BY <1>1 DEF Requested, HeaderCells
    <2>2. \A i \in 1 .. 3 : out[i] = spec.crc[0 + i]
      BY <1>1, <2>1, Delivered DEF Asking
    <2> QED
      BY <2>2, SMT
  <1>3. out[1] = PackId /\ out[2] = Len(d) /\ Len(d) # 0 /\ out[3] = PageCount(Len(d))
    BY <1>2, PackFacts
  <1>4. /\ fxLength' = Len(d) /\ fx' = "index" /\ Read(IndexAt(0), 1)
        /\ entry' = 0 /\ previous' = IndexAt(PageCount(Len(d)) + 1)
        /\ UNCHANGED <<error, cachedPage, decodeVars, fxReadVars>>
    BY <1>3 DEF BeginHeader
  <1>5. Accepted(d)'
    BY <1>1, <1>4, ReadTells DEF Tells, Accepted, Blocks
  <1>6. Decoded(d)' /\ CacheTells(d)' /\ Served(d)'
    BY <1>1, <1>4 DEF Tells, Decoded, CacheTells, Served, Decoding, fxReadVars
  <1> QED
    BY <1>5, <1>6 DEF Tells

LEMMA IndexTells ==
  ASSUME BundleInv, FxInv, NEW d \in Datas, spec.crc = Packs[d], Tells(d), BeginIndex
  PROVE  Tells(d)'
  <1> DEFINE n == PageCount(Len(d))
  <1>1. fx = "index" /\ pc = "idle" /\ rc = "OK" /\ UNCHANGED <<fxCache, fxLength>>
    BY DEF BeginIndex, BackWith, Back
  <1>2. /\ error = "OK" /\ fxLength = Len(d) /\ Blocks = n
        /\ entry = 0 => previous = IndexAt(n + 1)
    BY <1>1 DEF Tells, Accepted, Blocks
  <1>3. /\ entry \in Nat /\ entry <= n /\ from = IndexAt(entry)
        /\ entry > 0 => previous = Entry(entry - 1)
    BY <1>1, <1>2 DEF FxInv, FxTypeOK, Indexed
  <1>4. out[1] = Entry(entry) /\ length = spec.length /\ opened
    <2>1. Requested = 1
      BY <1>1 DEF Requested
    <2> QED
      BY <1>1, <1>3, <2>1, Delivered DEF Asking, Entry
  <1>5. /\ d \in Seq(Nat) /\ n \in Nat /\ spec.length = Entry(n) /\ Entry(0) = IndexAt(n + 1)
        /\ \A p \in 0 .. n : Entry(p) \in Nat /\ Entry(p) <= spec.length
        /\ \A p \in 0 .. n - 1 : Entry(p + 1) = Entry(p) + Len(Block(d, p))
    BY PackFacts
  <1> HIDE DEF n
  <1>6. IndexSound(out[1])
    <2>1. Entry(entry) \in Nat /\ Entry(entry) <= spec.length
      <3>1. entry \in 0 .. n
        BY <1>3, <1>5, SMT
      <3> QED
        BY <1>5, <3>1
    <2>2. CASE entry = 0
      BY <1>2, <1>4, <1>5, <2>1, <2>2 DEF IndexSound, ResourceLength
    <2>3. CASE entry # 0
      <3> DEFINE q == entry - 1
                 l == Len(Block(d, q))
      <3>1. q \in 0 .. n - 1 /\ q \in Nat /\ q < n /\ q + 1 = entry /\ q \in 0 .. n /\ entry > 0
        BY <1>3, <1>5, <2>3, SMT
      <3> HIDE DEF q
      <3>2. l \in Nat /\ l >= 1 /\ l <= 2 * Page
        BY <1>5, <3>1, BlockIs DEF n
      <3>3. Entry(entry) = Entry(q) + l /\ Entry(q) \in Nat
        BY <1>5, <3>1
      <3>4. previous = Entry(q)
        BY <1>3, <3>1 DEF q
      <3> HIDE DEF l
      <3>5. out[1] > previous /\ out[1] - previous <= LongestBlock
        <4> DEFINE x == Entry(q)
        <4>1. x \in Nat /\ previous = x /\ out[1] = x + l
          BY <1>4, <3>3, <3>4
        <4> HIDE DEF x
        <4>2. x + l > x /\ (x + l) - x <= 2 * Page
          BY <3>2, <4>1, PackAssumption, SMT
        <4> QED
          BY <4>1, <4>2 DEF LongestBlock
      <3> QED
        BY <1>4, <2>1, <2>3, <3>5 DEF IndexSound, ResourceLength
    <2> QED
      BY <2>2, <2>3
  <1>7. entry = n => out[1] = ResourceLength
    BY <1>4, <1>5 DEF ResourceLength
  <1>8. CASE /\ entry' = entry + 1 /\ Read(IndexAt(entry + 1), 1)
             /\ UNCHANGED <<fx, error, cachedPage, decodeVars, fxReadVars>>
    <2>1. entry' # 0
      BY <1>3, <1>8, SMT
    <2>2. Accepted(d)'
      BY <1>1, <1>2, <1>8, <2>1, ReadTells DEF Tells, Accepted
    <2> QED
      BY <1>1, <1>8, <2>2 DEF Tells, Decoded, CacheTells, Served, Decoding, fxReadVars
  <1>9. CASE FxReturn /\ LocalsEnd /\ Take /\ UNCHANGED <<error, cachedPage>>
    <2>1. fx' = "idle" /\ fxOut' = <<>>
      BY <1>9 DEF FxReturn
    <2>2. Accepted(d)' /\ Decoded(d)' /\ CacheTells(d)'
      BY <1>1, <1>2, <1>9, <2>1 DEF Tells, Accepted, Asking, Decoded, CacheTells, Decoding
    <2>3. fxOut' \in Seq(Nat) /\ DOMAIN fxOut' = {}
      BY <2>1, EmptySeq, LenProperties, SMT
    <2> QED
      BY <2>1, <2>2, <2>3 DEF Tells, Served, Decoding
  <1>10. ~(IndexSound(out[1]) /\ entry < PageCount(fxLength)) => entry = n
    BY <1>2, <1>3, <1>5, <1>6, SMT DEF n
  <1> QED
    BY <1>2, <1>6, <1>7, <1>8, <1>9, <1>10 DEF BeginIndex, n

-----------------------------------------------------------------------------
(* read() *)

LEMMA FxReadTells ==
  ASSUME FxInv, NEW d, Tells(d), NEW o \in Nat, NEW m \in Nat, FxRead(o, m)
  PROVE  Tells(d)'
  <1>1. fx = "idle" /\ error = "OK" /\ UNCHANGED <<bundleVars, fxLength, fxCache>>
    BY DEF FxRead
  <1>2. CASE /\ fx' = "copy" /\ fxFrom' = o /\ fxOffset' = o /\ fxOut' = <<>>
             /\ UNCHANGED <<error, cachedPage, indexVars, decodeVars>>
    <2>1. Accepted(d)' /\ Decoded(d)' /\ CacheTells(d)'
      BY <1>1, <1>2 DEF Tells, Accepted, Asking, Decoded, CacheTells, Decoding
    <2>2. fxOut' \in Seq(Nat) /\ DOMAIN fxOut' = {} /\ Len(fxOut') = 0
      BY <1>2, EmptySeq, LenProperties, SMT
    <2>3. fxOffset' = fxFrom' + Len(fxOut')
      BY <1>2, <2>2, SMT
    <2> QED
      BY <1>2, <2>1, <2>2, <2>3 DEF Tells, Served
  <1>3. CASE Fail("ERANGE")
    BY <1>1, <1>3, FailTells DEF Refused, Tells, CacheTells
  <1> QED
    BY <1>2, <1>3 DEF FxRead

LEMMA FxReadEndTells ==
  ASSUME NEW d, Tells(d), FxReadEnd
  PROVE  Tells(d)'
  <1>1. /\ fx = "copy" /\ fx' = "idle" /\ fxOut' = <<>>
        /\ UNCHANGED <<bundleVars, error, fxLength, cachedPage, fxCache>>
    BY DEF FxReadEnd, FxReturn
  <1>2. Accepted(d)' /\ Decoded(d)' /\ CacheTells(d)'
    BY <1>1 DEF Tells, Accepted, Asking, Decoded, CacheTells, Decoding
  <1>3. fxOut' \in Seq(Nat) /\ DOMAIN fxOut' = {}
    BY <1>1, EmptySeq, LenProperties, SMT
  <1> QED
    BY <1>1, <1>2, <1>3 DEF Tells, Served, Decoding

LEMMA PageTells ==
  ASSUME NEW d, Tells(d), DecodePage
  PROVE  Tells(d)'
  <1>1. /\ fx = "copy" /\ fx' = "position" /\ Read(IndexAt(fxOffset \div Page), 1)
        /\ UNCHANGED <<error, fxLength, cachedPage, fxCache, fxReadVars>>
    BY DEF DecodePage
  <1>2. Accepted(d)'
    BY <1>1, ReadTells DEF Tells, Accepted
  <1> QED
    BY <1>1, <1>2 DEF Tells, Decoded, CacheTells, Served, Decoding, fxReadVars

LEMMA PositionTells ==
  ASSUME NEW d, Tells(d), DecodePosition
  PROVE  Tells(d)'
  <1>1. /\ fx = "position" /\ fx' = "end" /\ Read(IndexAt(fxOffset \div Page) + 1, 1)
        /\ UNCHANGED <<error, fxLength, cachedPage, fxCache, fxReadVars>>
    BY DEF DecodePosition, BackWith, Back
  <1>2. Accepted(d)'
    BY <1>1, ReadTells DEF Tells, Accepted
  <1> QED
    BY <1>1, <1>2 DEF Tells, Decoded, CacheTells, Served, Decoding, fxReadVars

\* Where an offset is in its page.
LEMMA OffsetInPage ==
  ASSUME NEW o \in Nat, NEW q, NEW r, q = o \div Page, r = o % Page
  PROVE  q \in Nat /\ r \in Nat /\ q * Page \in Nat /\ r < Page /\ o = q * Page + r
  <1>1. Page \in Nat /\ Page > 0
    BY PackAssumption
  <1>2. q \in Nat /\ r \in Nat /\ r < Page
    BY <1>1, SMT
  <1>3. o = q * Page + r
    BY <1>1, SMT
  <1>4. q * Page \in Nat
    BY <1>1, <1>2, SMT
  <1> QED
    BY <1>2, <1>3, <1>4

\* The page a call is at, and the data of it.
LEMMA PageOfCall ==
  ASSUME BundleInv, FxInv, NEW d \in Datas, spec.crc = Packs[d], Tells(d),
         fx \in Decoding \cup {"copy"}, fxCount > 0
  PROVE  LET p == fxOffset \div Page
             n == Len(Data(d))
         IN  /\ error = "OK" /\ fxLength = Len(d) /\ d \in Seq(Nat) /\ fxOffset \in Nat /\ fxCount \in Nat
             /\ fxOffset + fxCount <= Len(d) /\ p \in 0 .. PageCount(Len(d)) - 1 /\ p * Page < Len(d)
             /\ Data(d) \in Seq(Nat) /\ n \in Nat /\ n >= 1 /\ n <= Page /\ Wanted = n
             /\ n = (IF Len(d) - p * Page < Page THEN Len(d) - p * Page ELSE Page)
             /\ \A i \in 1 .. n : Data(d)[i] = d[p * Page + i]
  <1> DEFINE p == fxOffset \div Page
  <1>1. error = "OK" /\ fxLength = Len(d) /\ fxOffset \in Nat /\ fxCount \in Nat /\ fxOffset + fxCount <= fxLength
    BY DEF Tells, Accepted, FxInv, FxTypeOK, Placed, Decoding
  <1>2. d \in Seq(Nat) /\ Len(d) \in Nat /\ PageCount(Len(d)) \in Nat
    BY PackFacts
  <1>3. p \in Nat /\ p * Page \in Nat /\ p * Page <= fxOffset
    <2> DEFINE r == fxOffset % Page
    <2>1. p = fxOffset \div Page /\ r = fxOffset % Page
      OBVIOUS
    <2> HIDE DEF p, r
    <2>2. p \in Nat /\ r \in Nat /\ p * Page \in Nat /\ fxOffset = p * Page + r
      BY <1>1, <2>1, OffsetInPage
    <2> QED
      BY <2>2, PackAssumption, SMT
  <1>4. p * Page < Len(d)
    BY <1>1, <1>2, <1>3, SMT
  <1>5. p \in 0 .. PageCount(Len(d)) - 1
    <2>1. p < PageCount(Len(d))
      BY <1>2, <1>3, <1>4, PagesBegin
    <2> QED
      BY <1>2, <1>3, <2>1, SMT
  <1>6. Wanted = (IF Len(d) - p * Page < Page THEN Len(d) - p * Page ELSE Page)
    BY <1>1 DEF Wanted, Lesser
  <1> QED
    BY <1>1, <1>2, <1>3, <1>4, <1>5, <1>6, PageDataIs DEF Data

LEMMA Position ==
  ASSUME NEW r \in Nat, NEW b \in Nat, NEW n \in Nat, NEW l \in Nat, NEW f \in Nat, NEW m \in Nat,
         NEW t \in Nat, r + t <= n, b + r = f + l, b + n <= m, NEW i \in 1 .. t
  PROVE  /\ r + i \in 1 .. n /\ b + (r + i) = f + (l + i) /\ f + (l + i) \in 1 .. m
         /\ r + i - 1 = (r + i) - 1
  BY SMT

LEMMA CopyTells ==
  ASSUME BundleInv, FxInv, NEW d \in Datas, spec.crc = Packs[d], Tells(d), FxCopy
  PROVE  Tells(d)'
  <1> DEFINE r == fxOffset % Page
             q == fxOffset \div Page
             b == q * Page
             n == Len(Data(d))
             take == Lesser(Page - r, fxCount)
             more == [i \in 1 .. take |-> fxCache[r + i - 1]]
  <1>1. /\ fx = "copy" /\ fxCount > 0 /\ fxOffset \div Page = cachedPage
        /\ fxOut' = fxOut \o more /\ fxOffset' = fxOffset + take
        /\ UNCHANGED <<bundleVars, fx, error, fxLength, cachedPage, fxCache, fxFrom>>
    BY DEF FxCopy
  <1>2. /\ d \in Seq(Nat) /\ fxOffset \in Nat /\ fxCount \in Nat /\ fxOffset + fxCount <= Len(d)
        /\ b < Len(d) /\ n \in Nat /\ n <= Page /\ Data(d) = PageData(d, fxOffset \div Page)
        /\ n = (IF Len(d) - b < Page THEN Len(d) - b ELSE Page)
        /\ \A i \in 1 .. n : Data(d)[i] = d[b + i]
    BY <1>1, PageOfCall DEF Data
  <1>3. /\ r \in Nat /\ b \in Nat /\ r < Page /\ fxOffset = b + r /\ q \in Nat
    <2>1. fxOffset \in Nat /\ q = fxOffset \div Page /\ r = fxOffset % Page
      BY <1>2
    <2> HIDE DEF q, r
    <2> QED
      BY <2>1, OffsetInPage
  <1>4. \A i \in 1 .. n : fxCache[i - 1] = Data(d)[i]
    <2>1. cachedPage # NoPage /\ fx \notin Decoding
      BY <1>1, <1>3, SMT DEF NoPage, Decoding
    <2> QED
      BY <1>1, <1>2, <2>1 DEF Tells, CacheTells
  <1>5. fxFrom \in Nat /\ fxOffset = fxFrom + Len(fxOut) /\ fxOut \in Seq(Nat)
        /\ \A i \in 1 .. Len(fxOut) : fxOut[i] = d[fxFrom + i]
    BY <1>1, LenProperties DEF Tells, Served
  <1>p. Page \in Nat /\ Len(fxOut) \in Nat /\ Len(d) \in Nat
    BY <1>2, <1>5, PackAssumption, LenProperties
  <1>6. take \in Nat /\ r + take <= n
    BY <1>2, <1>3, <1>p, SMT DEF Lesser
  <1> HIDE DEF r, b, n, take
  <1>7. ASSUME NEW i \in 1 .. take
        PROVE  more[i] = d[fxFrom + (Len(fxOut) + i)] /\ more[i] \in Nat
    <2> DEFINE l == Len(fxOut)
    <2>t. /\ r \in Nat /\ b \in Nat /\ n \in Nat /\ l \in Nat /\ fxFrom \in Nat /\ take \in Nat
          /\ r + take <= n /\ b + r = fxFrom + l /\ b + n <= Len(d) /\ i \in 1 .. take
      <3>1. b + n <= Len(d)
        <4>1. b \in Nat /\ b < Len(d) /\ n = (IF Len(d) - b < Page THEN Len(d) - b ELSE Page)
          BY <1>2, <1>3
        <4> QED
          BY <1>p, <4>1, SMT
      <3> QED
        BY <1>2, <1>3, <1>5, <1>6, <1>p, <3>1
    <2> HIDE DEF l
    <2>1. r + i \in 1 .. n /\ b + (r + i) = fxFrom + (l + i) /\ fxFrom + (l + i) \in 1 .. Len(d)
          /\ r + i - 1 = (r + i) - 1
      BY <1>p, <2>t, Position
    <2> USE DEF l
    <2>2. more[i] = d[b + (r + i)]
      <3>1. fxCache[(r + i) - 1] = d[b + (r + i)]
        BY <1>2, <1>4, <2>1
      <3> QED
        BY <2>1, <3>1
    <2>3. d[fxFrom + (Len(fxOut) + i)] \in Nat
      BY <1>2, <2>1, ElementOfSeq
    <2> QED
      BY <2>1, <2>2, <2>3
  <1>8. more \in Seq(Nat) /\ Len(more) = take
    <2>1. \A i \in 1 .. take : fxCache[r + i - 1] \in Nat
      BY <1>7
    <2> QED
      BY <1>6, <2>1, SMT
  <1> HIDE DEF more
  <1>9. /\ fxOut' \in Seq(Nat) /\ Len(fxOut') = Len(fxOut) + take
        /\ \A i \in 1 .. Len(fxOut) + take :
             fxOut'[i] = IF i <= Len(fxOut) THEN fxOut[i] ELSE more[i - Len(fxOut)]
    BY <1>1, <1>5, <1>8, ConcatProperties
  <1>10. ASSUME NEW i \in DOMAIN fxOut'
         PROVE  fxOut'[i] = d[fxFrom + i]
    <2>1. i \in 1 .. Len(fxOut) + take
      BY <1>9, LenProperties
    <2>2. CASE i <= Len(fxOut)
      <3>1. i \in 1 .. Len(fxOut)
        BY <1>6, <1>p, <2>1, <2>2, SMT
      <3> QED
        BY <1>5, <1>9, <2>1, <2>2, <3>1
    <2>3. CASE ~(i <= Len(fxOut))
      <3>1. i - Len(fxOut) \in 1 .. take /\ Len(fxOut) + (i - Len(fxOut)) = i
        BY <1>6, <1>p, <2>1, <2>3, SMT
      <3> QED
        BY <1>7, <1>9, <2>1, <2>3, <3>1
    <2> QED
      BY <2>2, <2>3
  <1>11. fxOffset' = fxFrom + Len(fxOut')
    BY <1>1, <1>5, <1>6, <1>9, <1>p, SMT
  <1>12. Served(d)'
    BY <1>1, <1>5, <1>9, <1>10, <1>11 DEF Served
  <1>13. Accepted(d)' /\ Decoded(d)' /\ CacheTells(d)'
    BY <1>1 DEF Tells, Accepted, Asking, Decoded, CacheTells, Decoding, bundleVars
  <1> QED
    BY <1>12, <1>13 DEF Tells

\* The head of the loop finds the block and the page at their ends together.
LEMMA NextTokenTells ==
  ASSUME BundleInv, FxInv, NEW d \in Datas, spec.crc = Packs[d], Tells(d),
         fx \in {"end", "literal", "distance"},
         NEW at \in Nat, NEW upto \in Nat, NEW have \in Nat,
         at <= upto, have <= Len(Data(d)), Len(Encoding(Data(d))[have]) = upto - at,
         \A i \in 1 .. upto - at : spec.crc[at + i] = Encoding(Data(d))[have][i],
         DOMAIN fxCache' = 0 .. Page - 1, \A i \in 1 .. have : fxCache'[i - 1] = Data(d)[i],
         NextToken(at, upto, have), fxLength' = fxLength
  PROVE  Tells(d)'
  <1> DEFINE p == fxOffset \div Page
             n == Len(Data(d))
             e == Encoding(Data(d))[have]
  <1>1. fx \in Decoding \cup {"copy"} /\ fxCount > 0
    BY DEF Decoding, FxInv, Placed
  <1>2. /\ error = "OK" /\ fxLength = Len(d) /\ p \in Nat /\ p * Page < Len(d)
        /\ Data(d) \in Seq(Nat) /\ n \in Nat /\ Wanted = n
    <2>1. \A q \in 0 .. PageCount(Len(d)) - 1 : q \in Nat
      BY SMT
    <2> QED
      BY <1>1, <2>1, PageOfCall
  <1>3. have \in 0 .. n
    BY <1>2, SMT
  <1>4. e \in Seq(Nat) /\ (have = n => e = <<>>) /\ (have # n => Len(e) >= 1) /\ Len(e) = upto - at
    BY <1>2, <1>3, EncodingAt, EncodingOf
  <1> HIDE DEF e, n
  <1>5. CASE at < upto /\ have < n
    <2>1. /\ fx' = "control" /\ Read(at, 1) /\ Decode(at + 1, upto, have)
          /\ UNCHANGED <<error, cachedPage, fxReadVars>>
      BY <1>2, <1>5 DEF NextToken
    <2>2. /\ from' = at /\ spec' = spec /\ (pc' = "idle" => rc' \notin Refused)
          /\ position' = at + 1 /\ end' = upto /\ produced' = have
      BY <2>1, ReadTells DEF Decode
    <2>3. Data(d)' = Data(d)
      BY <2>1 DEF Data, fxReadVars
    <2>4. from' = position' - 1 /\ from' < end'
      BY <1>5, <2>2, SMT
    <2>5. Decoded(d)'
      BY <1>3, <2>1, <2>2, <2>3, <2>4 DEF Decoded, Remains
    <2>6. Accepted(d)' /\ CacheTells(d)' /\ Served(d)'
      BY <1>2, <2>1, <2>2 DEF Tells, Accepted, CacheTells, Served, Decoding, fxReadVars
    <2> QED
      BY <2>5, <2>6 DEF Tells
  <1>6. CASE ~(at < upto /\ have < n)
    <2>1. have = n /\ at = upto
      <3>1. CASE have = n
        <4>1. Len(e) = 0
          BY <1>4, <3>1, EmptySeq
        <4> QED
          BY <1>4, <3>1, <4>1, SMT
      <3>2. CASE have # n
        BY <1>2, <1>3, <1>4, <1>6, <3>2, LenProperties, SMT
      <3> QED
        BY <3>1, <3>2
    <2>2. Take /\ fx' = "copy" /\ cachedPage' = p /\ UNCHANGED <<error, fxReadVars>>
      BY <1>2, <1>6, <2>1 DEF NextToken
    <2>3. spec' = spec
      BY <2>2 DEF Take
    <2>4. Data(d) = PageData(d, p)
      BY DEF Data
    <2>5. CacheTells(d)'
      BY <1>2, <2>1, <2>2, <2>4 DEF CacheTells, n
    <2>6. Accepted(d)' /\ Decoded(d)' /\ Served(d)'
      BY <1>1, <1>2, <2>2, <2>3 DEF Tells, Accepted, Asking, Decoded, Served, Decoding, fxReadVars
    <2> QED
      BY <2>5, <2>6 DEF Tells
  <1> QED
    BY <1>5, <1>6

LEMMA EndTells ==
  ASSUME BundleInv, FxInv, NEW d \in Datas, spec.crc = Packs[d], Tells(d), DecodeEnd
  PROVE  Tells(d)'
  <1> DEFINE p == fxOffset \div Page
             e == Encoding(Data(d))[0]
  <1>1. /\ fx = "end" /\ pc = "idle" /\ rc = "OK" /\ NextToken(position, out[1], 0)
        /\ UNCHANGED <<fxLength, fxCache>>
    BY DEF DecodeEnd, BackWith, Back
  <1>2. fxCount > 0 /\ from = IndexAt(p) + 1 /\ position = Entry(p) /\ Requested = 1
    BY <1>1 DEF FxInv, Placed, Decoding, Requested
  <1>3. d \in Seq(Nat) /\ p \in 0 .. PageCount(Len(d)) - 1 /\ Len(Data(d)) \in Nat /\ Len(Data(d)) >= 1
    BY <1>1, <1>2, PageOfCall DEF Decoding
  <1>4. out[1] = spec.crc[from + 1]
    BY <1>1, <1>2, Delivered DEF Asking
  <1>5. e = Block(d, p)
    BY DEF Block, Encode, Data
  <1> HIDE DEF p, e
  <1>6. PageCount(Len(d)) \in Nat
    BY PackFacts
  <1>7. p \in Nat /\ p < PageCount(Len(d)) /\ p \in 0 .. PageCount(Len(d))
    BY <1>3, <1>6, SMT
  <1>8. out[1] = Entry(p + 1)
    <2>1. IndexAt(p) + 1 = IndexAt(p + 1)
      BY <1>7, SMT DEF IndexAt, HeaderCells
    <2> QED
      BY <1>2, <1>4, <2>1 DEF Entry
  <1>9. /\ Entry(p) \in Nat /\ Entry(p + 1) = Entry(p) + Len(e)
        /\ \A i \in 1 .. Len(e) : spec.crc[Entry(p) + i] = e[i]
    BY <1>3, <1>5, <1>7, PackFacts
  <1>10. Len(e) \in Nat
    BY <1>3, <1>5, <1>7, BlockIs
  <1> DEFINE l == Len(e)
             u == out[1]
  <1>11. u = position + l /\ l \in Nat /\ position \in Nat
    BY <1>2, <1>8, <1>9, <1>10
  <1> HIDE DEF l, u
  <1>12. u \in Nat /\ position <= u /\ u - position = l
    BY <1>11, SMT
  <1>13. 0 <= Len(Data(d)) /\ 0 \in Nat
    BY <1>3, SMT
  <1>14. /\ Len(Encoding(Data(d))[0]) = u - position
         /\ \A i \in 1 .. u - position : spec.crc[position + i] = Encoding(Data(d))[0][i]
    BY <1>2, <1>9, <1>12 DEF e, l
  <1>15. DOMAIN fxCache' = 0 .. Page - 1 /\ \A i \in 1 .. 0 : fxCache'[i - 1] = Data(d)[i]
    BY <1>1, SMT DEF Tells, CacheTells
  <1>16. NextToken(position, u, 0) /\ fx \in {"end", "literal", "distance"} /\ fxLength' = fxLength
    BY <1>1 DEF u
  <1> QED
    BY <1>11, <1>12, <1>13, <1>14, <1>15, <1>16, NextTokenTells

\* The run that follows, and what is left behind it.
LEMMA TokenFollows ==
  ASSUME BundleInv, FxInv, NEW d \in Datas, spec.crc = Packs[d], Tells(d), fx = "control"
  PROVE  LET D == Data(d)
             b == Behind(D, produced)
             t == Token(D, produced)
         IN  /\ D \in Seq(Nat) /\ Len(D) \in Nat /\ produced \in 0 .. Len(D) - 1
             /\ b \in produced + 1 .. Len(D) /\ t \in Seq(Nat) /\ Len(t) \in Nat
             /\ from \in Nat /\ end \in Nat /\ Len(Encoding(D)[b]) \in Nat
             /\ end = from + Len(t) + Len(Encoding(D)[b])
             /\ \A i \in 1 .. Len(t) : spec.crc[from + i] = t[i]
             /\ \A i \in 1 .. Len(Encoding(D)[b]) :
                  spec.crc[from + Len(t) + i] = Encoding(D)[b][i]
  <1> DEFINE D == Data(d)
             E == Encoding(D)
             b == Behind(D, produced)
             t == Token(D, produced)
             k == Len(t)
             l == Len(E[b])
  <1>1. D \in Seq(Nat) /\ Len(D) \in Nat
    <2>1. fxCount > 0
      BY DEF FxInv, Placed, Decoding
    <2> QED
      BY <2>1, PageOfCall DEF Decoding
  <1>2. /\ from \in Nat /\ end \in Nat /\ produced \in Nat /\ from < end /\ produced <= Len(D)
        /\ Len(E[produced]) = end - from
        /\ \A i \in 1 .. end - from : spec.crc[from + i] = E[produced][i]
    BY DEF Tells, Decoded, Remains, FxInv, FxTypeOK, BundleInv, BundleTypeOK
  <1>3. produced \in 0 .. Len(D) - 1
    <2>1. produced \in 0 .. Len(D)
      BY <1>1, <1>2, SMT
    <2>2. CASE produced = Len(D)
      <3>1. E[produced] = <<>>
        BY <1>1, <2>1, <2>2, EncodingAt
      <3>2. end - from = 0
        BY <1>2, <3>1, EmptySeq
      <3> QED
        BY <1>2, <3>2, SMT
    <2> QED
      BY <1>1, <2>1, <2>2, SMT
  <1>4. b \in produced + 1 .. Len(D) /\ t \in Seq(Nat) /\ k \in Nat
    BY <1>1, <1>3, TokenIs, LenProperties
  <1>5. /\ b \in 0 .. Len(D) /\ Len(E[produced]) = k + l
        /\ \A i \in 1 .. k : E[produced][i] = t[i]
        /\ \A i \in 1 .. l : E[produced][k + i] = E[b][i]
    BY <1>1, <1>3, EncodingCells
  <1>6. l \in Nat
    BY <1>1, <1>5, EncodingOf, LenProperties
  <1> HIDE DEF D, E, b, t, k, l
  <1>7. end - from = k + l
    BY <1>2, <1>5
  <1>8. end = from + k + l
    <2>1. from \in Nat /\ end \in Nat /\ k \in Nat /\ l \in Nat /\ end - from = k + l
      BY <1>2, <1>4, <1>6, <1>7
    <2> QED
      BY <2>1, SMT
  <1>9. ASSUME NEW i \in 1 .. k PROVE spec.crc[from + i] = t[i]
    <2>1. i \in 1 .. end - from
      BY <1>4, <1>6, <1>7, SMT
    <2> QED
      BY <1>2, <1>5, <2>1
  <1>10. ASSUME NEW i \in 1 .. l PROVE spec.crc[from + k + i] = E[b][i]
    <2>1. k + i \in 1 .. end - from /\ from + (k + i) = from + k + i
      BY <1>2, <1>4, <1>6, <1>7, SMT
    <2> QED
      BY <1>2, <1>5, <2>1
  <1> QED
    BY <1>1, <1>2, <1>3, <1>4, <1>6, <1>8, <1>9, <1>10 DEF D, E, b, t, k, l

LEMMA LiteralTells ==
  ASSUME BundleInv, FxInv, NEW d \in Datas, spec.crc = Packs[d], Tells(d), DecodeLiteral
  PROVE  Tells(d)'
  <1> DEFINE D == Data(d)
             have == produced + run
             at == position + run
  <1>1. /\ fx = "literal" /\ pc = "idle" /\ rc = "OK" /\ fxCache' = Overlay(out)
        /\ NextToken(at, end, have) /\ fxLength' = fxLength
    BY DEF DecodeLiteral, BackWith, Back
  <1>2. /\ from = position /\ \A i \in 1 .. run : spec.crc[position + i] = D[produced + i]
        /\ \A i \in 1 .. produced : fxCache[i - 1] = D[i]
        /\ at <= end /\ have <= Len(D) /\ Len(Encoding(D)[have]) = end - at
        /\ \A i \in 1 .. end - at : spec.crc[at + i] = Encoding(D)[have][i]
        /\ DOMAIN fxCache = 0 .. Page - 1
    BY <1>1 DEF Tells, Decoded, Remains, CacheTells
  <1>3. /\ position \in Nat /\ run \in Nat /\ produced \in Nat /\ end \in Nat /\ have <= Page /\ Page \in Nat
    BY <1>1, PackAssumption DEF FxInv, FxTypeOK, DecodingStaysInside
  <1>4. at \in Nat /\ have \in Nat
    BY <1>3, SMT
  <1>5. Requested = run /\ Len(out) = run /\ \A i \in 1 .. run : out[i] = spec.crc[from + i]
    <2>1. Requested = run
      BY <1>1 DEF Requested
    <2> QED
      BY <1>1, <2>1, Delivered DEF Asking, FxInv, Asked
  <1> HIDE DEF D, have, at
  <1>6. /\ DOMAIN fxCache' = 0 .. Page - 1
        /\ \A i \in 0 .. Page - 1 :
             fxCache'[i] = IF i >= produced /\ i < produced + run THEN out[i - produced + 1] ELSE fxCache[i]
    BY <1>1, <1>2, <1>5 DEF Overlay
  <1>7. ASSUME NEW i \in 1 .. have
        PROVE  fxCache'[i - 1] = D[i]
    <2>1. i - 1 \in 0 .. Page - 1 /\ i - 1 < produced + run
      BY <1>3, <1>4, SMT DEF have
    <2>2. CASE i - 1 >= produced
      <3>1. i - 1 - produced + 1 \in 1 .. run /\ produced + (i - 1 - produced + 1) = i
        BY <1>3, <1>4, <2>1, <2>2, SMT DEF have
      <3>2. fxCache'[i - 1] = out[i - 1 - produced + 1]
        BY <1>6, <2>1, <2>2
      <3> QED
        BY <1>2, <1>5, <3>1, <3>2
    <2>3. CASE ~(i - 1 >= produced)
      <3>1. i \in 1 .. produced
        BY <1>3, <1>4, <2>3, SMT
      <3> QED
        BY <1>2, <1>6, <2>1, <2>3, <3>1
    <2> QED
      BY <2>2, <2>3
  <1>8. fx \in {"end", "literal", "distance"}
    BY <1>1
  <1> QED
    BY <1>1, <1>2, <1>3, <1>4, <1>6, <1>7, <1>8, NextTokenTells DEF D

LEMMA ControlTells ==
  ASSUME BundleInv, FxInv, NEW d \in Datas, spec.crc = Packs[d], Tells(d), DecodeControl
  PROVE  Tells(d)'
  <1> DEFINE D == Data(d)
             E == Encoding(D)
             b == Behind(D, produced)
             t == Token(D, produced)
             k == b - produced
             c == out[1]
             l == Len(E[b])
  <1>1. fx = "control" /\ pc = "idle" /\ rc = "OK" /\ UNCHANGED <<fxLength, fxCache>>
    BY DEF DecodeControl, BackWith, Back
  <1>2. fxCount > 0 /\ error = "OK" /\ from = position - 1 /\ fxLength = Len(d)
        /\ \A i \in 1 .. produced : fxCache[i - 1] = D[i]
    BY <1>1 DEF FxInv, Placed, Decoding, Tells, Decoded, Accepted
  <1>3. Wanted = Len(D)
    BY <1>1, <1>2, PageOfCall DEF Decoding
  <1>4. /\ D \in Seq(Nat) /\ Len(D) \in Nat /\ produced \in 0 .. Len(D) - 1
        /\ b \in produced + 1 .. Len(D) /\ Len(t) \in Nat /\ t \in Seq(Nat)
        /\ from \in Nat /\ end \in Nat /\ l \in Nat
        /\ end = from + Len(t) + l
        /\ \A i \in 1 .. Len(t) : spec.crc[from + i] = t[i]
        /\ \A i \in 1 .. l : spec.crc[from + Len(t) + i] = E[b][i]
    BY <1>1, TokenFollows
  <1>5. position \in Nat /\ produced \in Nat /\ run \in Nat
    BY DEF FxInv, FxTypeOK
  <1>6. Len(t) >= 1
    BY <1>4, TokenIs
  <1>7. c = t[1]
    <2>1. c = spec.crc[from + 1]
      <3>1. Requested = 1
        BY <1>1 DEF Requested
      <3> QED
        BY <1>1, <3>1, Delivered DEF Asking
    <2>2. 1 \in 1 .. Len(t)
      BY <1>4, <1>6, SMT
    <2> QED
      BY <1>4, <2>1, <2>2
  <1>8. Literal \in Nat /\ Literal > 0
    BY PackAssumption
  <1>9. CASE Best(D, produced) >= 3
    <2>1. /\ k \in Nat /\ k >= 3 /\ k = Best(D, produced) /\ Len(t) = 2
          /\ t[1] = Literal + k - 3 /\ t[2] = Distance(D, produced) % Page
      <3>1. b \in produced + 3 .. Len(D) /\ k = Best(D, produced) /\ Len(t) = 2
            /\ t[1] = Literal + k - 3 /\ t[2] = Distance(D, produced) % Page
        BY <1>4, <1>9, CopyToken
      <3>2. k \in Nat /\ k >= 3
        <4> DEFINE n == Len(D)
        <4>1. b \in produced + 3 .. n /\ n \in Nat
          BY <1>4, <3>1
        <4> HIDE DEF b, n
        <4> QED
          BY <1>5, <4>1, SMT
      <3> QED
        BY <3>1, <3>2
    <2>2. /\ Distance(D, produced) \in 1 .. produced
          /\ \A i \in 1 .. k : D[produced + i] = D[produced - Distance(D, produced) + i]
      <3>1. produced \in 0 .. Len(D)
        BY <1>4, SMT
      <3> QED
        BY <1>4, <1>9, <2>1, <3>1, CopyIs
    <2> HIDE DEF D, E, b, t, k, c, l
    <2>3. c = Literal + k - 3 /\ Count(c) = k /\ ~(c < Literal)
      <3>1. c = Literal + k - 3
        BY <1>7, <2>1
      <3> QED
        BY <1>8, <2>1, <3>1, SMT DEF Count
    <2>4. produced + k = b /\ k <= Len(D) - produced
      <3>1. k = b - produced /\ b \in produced + 1 .. Len(D)
        BY <1>4 DEF k
      <3> QED
        BY <1>4, <1>5, <3>1, SMT
    <2>5. position = from + 1 /\ end = position + 1 + l
      <3>1. end = from + 2 + l /\ from \in Nat /\ end \in Nat /\ l \in Nat
        BY <1>4, <2>1
      <3> QED
        BY <1>2, <1>5, <3>1, SMT
    <2>6. position < end /\ position + 1 <= end /\ end - (position + 1) = l
      <3>1. position \in Nat /\ l \in Nat /\ end = position + 1 + l
        BY <1>4, <1>5, <2>5
      <3> QED
        BY <3>1, SMT
    <2>7. RunFits(c)
      BY <1>3, <2>3, <2>4, <2>6 DEF RunFits
    <2>8. /\ run' = k /\ fx' = "distance" /\ Read(position, 1) /\ position' = position + 1
          /\ UNCHANGED <<error, cachedPage, end, produced, fxReadVars>>
      BY <2>3, <2>7 DEF DecodeControl, c
    <2>9. from' = position /\ spec' = spec /\ (pc' = "idle" => rc' \notin Refused)
      BY <2>8, ReadTells
    <2>10. Data(d)' = D
      BY <2>8 DEF Data, D, fxReadVars
    <2>11. spec.crc[position'] = Distance(D, produced) % Page
      <3>1. 2 \in 1 .. Len(t) /\ position' = from + 2
        BY <1>4, <2>1, <2>5, <2>8, SMT
      <3> QED
        BY <1>4, <2>1, <3>1
    <2>12. Remains(d, position, produced + run)'
      <3>1. \A i \in 1 .. l : spec.crc[position' + i] = E[b][i]
        <4>1. from + Len(t) = position'
          BY <1>4, <1>5, <2>1, <2>5, <2>8, SMT
        <4> QED
          BY <1>4, <4>1
      <3>2. position' <= end' /\ end' - position' = l /\ produced' + run' = b
        BY <2>4, <2>6, <2>8
      <3>3. b <= Len(D) /\ Len(E[b]) = l
        BY <1>4, SMT DEF l
      <3> QED
        BY <2>9, <2>10, <3>1, <3>2, <3>3 DEF Remains, E
    <2>13. Decoded(d)'
      <3>1. from' = position' - 1
        BY <1>5, <2>8, <2>9, SMT
      <3> QED
        BY <1>1, <1>2, <2>2, <2>8, <2>9, <2>10, <2>11, <2>12, <3>1 DEF Decoded
    <2>14. Accepted(d)' /\ CacheTells(d)' /\ Served(d)'
      BY <1>1, <1>2, <2>8, <2>9 DEF Tells, Accepted, CacheTells, Served, Decoding, fxReadVars
    <2> QED
      BY <2>13, <2>14 DEF Tells
  <1>10. CASE ~(Best(D, produced) >= 3)
    <2>1. /\ k \in Nat /\ k >= 1 /\ k <= Literal /\ Len(t) = k + 1 /\ t[1] = k - 1
          /\ \A i \in 1 .. k : t[i + 1] = D[produced + i]
      <3>1. b \in produced + 1 .. Len(D) /\ k <= Literal /\ Len(t) = k + 1 /\ t[1] = k - 1
            /\ \A i \in 1 .. k : t[i + 1] = D[produced + i]
        BY <1>4, <1>10, LiteralToken
      <3>2. k \in Nat /\ k >= 1
        <4> HIDE DEF b
        <4> QED
          BY <1>4, <1>5, SMT
      <3> QED
        BY <3>1, <3>2
    <2> HIDE DEF D, E, b, t, k, c, l
    <2>3. c = k - 1 /\ Count(c) = k /\ c < Literal
      <3>1. c = k - 1
        BY <1>7, <2>1
      <3> QED
        BY <1>8, <2>1, <3>1, SMT DEF Count
    <2>4. produced + k = b /\ k <= Len(D) - produced
      <3>1. k = b - produced /\ b \in produced + 1 .. Len(D)
        BY <1>4 DEF k
      <3> QED
        BY <1>4, <1>5, <3>1, SMT
    <2>5. position = from + 1 /\ end = position + k + l /\ from + Len(t) = position + k
      <3>1. end = from + (k + 1) + l /\ from \in Nat /\ end \in Nat /\ l \in Nat
        BY <1>4, <2>1
      <3> QED
        BY <1>2, <1>5, <2>1, <3>1, SMT
    <2>6. k <= end - position /\ position + k <= end /\ end - (position + k) = l
      BY <1>4, <1>5, <2>1, <2>5, SMT
    <2>7. RunFits(c)
      BY <1>3, <2>3, <2>4, <2>6 DEF RunFits
    <2>8. /\ run' = k /\ fx' = "literal" /\ Read(position, run') /\ position' = position
          /\ UNCHANGED <<error, cachedPage, end, produced, fxReadVars>>
      BY <2>3, <2>7 DEF DecodeControl, c
    <2>9. from' = position /\ spec' = spec /\ (pc' = "idle" => rc' \notin Refused)
      BY <2>8, ReadTells
    <2>10. Data(d)' = D
      BY <2>8 DEF Data, D, fxReadVars
    <2>11. ASSUME NEW i \in 1 .. k
           PROVE  spec.crc[position + i] = D[produced + i]
      <3>1. i + 1 \in 1 .. Len(t) /\ from + (i + 1) = position + i
        BY <1>4, <1>5, <2>1, <2>5, SMT
      <3> QED
        BY <1>4, <2>1, <3>1
    <2>12. Remains(d, position + run, produced + run)'
      <3>1. \A i \in 1 .. l : spec.crc[position' + run' + i] = E[b][i]
        BY <1>4, <2>5, <2>8
      <3>2. position' + run' <= end' /\ end' - (position' + run') = l /\ produced' + run' = b
        BY <2>4, <2>6, <2>8
      <3>3. b <= Len(D) /\ Len(E[b]) = l
        BY <1>4, SMT DEF l
      <3> QED
        BY <2>9, <2>10, <3>1, <3>2, <3>3 DEF Remains, E
    <2>13. Decoded(d)'
      BY <1>1, <1>2, <2>8, <2>9, <2>10, <2>11, <2>12 DEF Decoded
    <2>14. Accepted(d)' /\ CacheTells(d)' /\ Served(d)'
      BY <1>1, <1>2, <2>8, <2>9 DEF Tells, Accepted, CacheTells, Served, Decoding, fxReadVars
    <2> QED
      BY <2>13, <2>14 DEF Tells
  <1> QED
    BY <1>9, <1>10

\* What a remainder is, and that it is the same a divisor before.
LEMMA OneRemainder ==
  ASSUME NEW k \in Nat \ {0}, NEW a \in Nat, NEW b \in Nat, NEW x \in Nat, NEW y \in Nat,
         x < k, y < k, k * a + x = k * b + y
  PROVE  x = y
  <1>1. CASE a < b
    <2>1. k * (a + 1) <= k * b
      BY <1>1, SMT
    <2> QED
      BY <2>1, SMT
  <1>2. CASE b < a
    <2>1. k * (b + 1) <= k * a
      BY <1>2, SMT
    <2> QED
      BY <2>1, SMT
  <1>3. CASE a = b
    BY <1>3, SMT
  <1> QED
    BY <1>1, <1>2, <1>3, SMT

LEMMA Divided ==
  ASSUME NEW k \in Nat \ {0}, NEW j \in Nat
  PROVE  j % k \in Nat /\ j % k < k /\ j \div k \in Nat /\ k * (j \div k) + (j % k) = j
  BY SMT

LEMMA SmallRemainder ==
  ASSUME NEW k \in Nat \ {0}, NEW j \in Nat, j < k
  PROVE  j % k = j
  <1>1. k * (j \div k) + (j % k) = k * 0 + j
    BY Divided, SMT
  <1> QED
    BY <1>1, Divided, OneRemainder

LEMMA RemainderBefore ==
  ASSUME NEW k \in Nat \ {0}, NEW j \in Nat, k <= j
  PROVE  j - k \in Nat /\ (j - k) % k = j % k
  <1> DEFINE i == j - k
             p == i \div k
             x == i % k
             q == j \div k
             y == j % k
  <1>1. i \in Nat /\ i + k = j
    BY SMT
  <1>2. x \in Nat /\ x < k /\ p \in Nat /\ k * p + x = i
    BY <1>1, Divided
  <1>3. y \in Nat /\ y < k /\ q \in Nat /\ k * q + y = j
    BY Divided
  <1> HIDE DEF i, p, x, q, y
  <1>4. k * (p + 1) + x = k * q + y /\ p + 1 \in Nat
    BY <1>1, <1>2, <1>3, SMT
  <1>5. x = y
    BY <1>2, <1>3, <1>4, OneRemainder
  <1> QED
    BY <1>1, <1>5 DEF i, x, y

\* A copy that overlaps itself repeats what is between its two ends.
LEMMA CopyRepeats ==
  ASSUME NEW D, NEW h \in Nat, NEW k \in 1 .. h, NEW r \in Nat,
         \A i \in 1 .. r : D[h + i] = D[h - k + i], NEW j \in 0 .. r - 1
  PROVE  D[h + 1 + j] = D[h - k + 1 + (j % k)] /\ j % k \in 0 .. k - 1
  <1> DEFINE Same(i) == D[h + 1 + i] = D[h - k + 1 + (i % k)]
             T == {m \in Nat : \A i \in 0 .. r - 1 : i <= m => Same(i)}
  <1>1. k \in Nat \ {0}
    BY SMT
  <1>2. ASSUME NEW i \in 0 .. r - 1
        PROVE  /\ i \in Nat /\ D[h + 1 + i] = D[h - k + 1 + i]
               /\ i % k \in 0 .. k - 1
    <2>1. i \in Nat /\ i + 1 \in 1 .. r /\ h + (i + 1) = h + 1 + i /\ h - k + (i + 1) = h - k + 1 + i
      BY SMT
    <2>2. D[h + (i + 1)] = D[h - k + (i + 1)]
      BY <2>1
    <2>3. i % k \in Nat /\ i % k < k
      BY <1>1, <2>1, Divided
    <2> DEFINE x == i % k
    <2>4. x \in Nat /\ x < k
      BY <2>3
    <2> HIDE DEF x
    <2>5. x \in 0 .. k - 1
      BY <1>1, <2>4, SMT
    <2> QED
      BY <2>1, <2>2, <2>5 DEF x
  <1>3. ASSUME NEW i \in 0 .. r - 1, i < k
        PROVE  Same(i)
    <2>1. i % k = i
      BY <1>1, <1>2, <1>3, SmallRemainder
    <2> QED
      BY <1>2, <2>1
  <1>4. 0 \in T
    <2> SUFFICES ASSUME NEW i \in 0 .. r - 1, i <= 0
                 PROVE  Same(i)
      OBVIOUS
    <2>1. i < k
      BY <1>1, SMT
    <2> HIDE DEF Same
    <2> QED
      BY <1>3, <2>1
  <1>5. ASSUME NEW m \in Nat, m \in T
        PROVE  m + 1 \in T
    <2> SUFFICES ASSUME NEW i \in 0 .. r - 1, i <= m + 1
                 PROVE  Same(i)
      BY SMT
    <2>1. CASE i < k
      <3> HIDE DEF Same
      <3> QED
        BY <1>3, <2>1
    <2>2. CASE ~(i < k)
      <3> DEFINE e == i - k
      <3>1. k <= i /\ i \in Nat
        BY <1>1, <2>2, SMT
      <3>2. e \in Nat /\ e % k = i % k
        BY <1>1, <3>1, RemainderBefore
      <3>3. e \in 0 .. r - 1 /\ e <= m /\ h + 1 + e = h - k + 1 + i
        BY <1>1, <3>1, SMT
      <3> HIDE DEF e
      <3>4. Same(e)
        BY <1>5, <3>3
      <3>5. D[h + 1 + i] = D[h - k + 1 + i]
        BY <1>2
      <3> QED
        BY <3>2, <3>3, <3>4, <3>5
    <2> QED
      BY <2>1, <2>2
  <1> HIDE DEF T, Same
  <1>6. j \in T
    <2>1. j \in Nat
      BY <1>2
    <2> QED
      BY <1>4, <1>5, <2>1, Reached
  <1>7. Same(j)
    <2>1. j <= j
      BY <1>2, SMT
    <2> QED
      BY <1>6, <2>1 DEF T
  <1> QED
    BY <1>2, <1>7 DEF Same

LEMMA DistanceTells ==
  ASSUME BundleInv, FxInv, NEW d \in Datas, spec.crc = Packs[d], Tells(d), DecodeDistance
  PROVE  Tells(d)'
  <1> DEFINE D == Data(d)
             have == produced + run
             dist == IF out[1] = 0 THEN Page ELSE out[1]
  <1>1. fx = "distance" /\ pc = "idle" /\ rc = "OK" /\ fxLength' = fxLength
    BY DEF DecodeDistance, BackWith, Back
  <1>2. /\ from = position - 1
        /\ \A i \in 1 .. produced : fxCache[i - 1] = D[i]
        /\ position <= end /\ have <= Len(D) /\ Len(Encoding(D)[have]) = end - position
        /\ \A i \in 1 .. end - position : spec.crc[position + i] = Encoding(D)[have][i]
        /\ DOMAIN fxCache = 0 .. Page - 1
    BY <1>1 DEF Tells, Decoded, Remains, CacheTells
  <1>3. PICK k \in 1 .. produced : /\ spec.crc[position] = k % Page
                                   /\ \A i \in 1 .. run : D[produced + i] = D[produced - k + i]
    BY <1>1 DEF Tells, Decoded
  <1>4. /\ position \in Nat /\ run \in Nat /\ produced \in Nat /\ end \in Nat /\ have <= Page
        /\ Page \in Nat /\ Page > 0 /\ from \in Nat
    BY <1>1, PackAssumption DEF FxInv, FxTypeOK, DecodingStaysInside, BundleInv, BundleTypeOK
  <1>5. have \in Nat /\ k \in Nat \ {0} /\ k <= produced /\ k <= Page
    BY <1>4, SMT
  <1>6. out[1] = k % Page
    <2>1. Requested = 1
      BY <1>1 DEF Requested
    <2>2. out[1] = spec.crc[from + 1]
      BY <1>1, <2>1, Delivered DEF Asking
    <2>3. from + 1 = position
      BY <1>2, <1>4, SMT
    <2> QED
      BY <1>3, <2>2, <2>3
  <1>7. dist = k
    <2>1. CASE k = Page
      <3>1. Page % Page = 0
        BY <1>4, SMT
      <3> QED
        BY <1>6, <2>1, <3>1
    <2>2. CASE k # Page
      <3>1. k < Page /\ Page \in Nat \ {0} /\ k \in Nat
        BY <1>4, <1>5, <2>2, SMT
      <3>2. k % Page = k
        BY <3>1, SmallRemainder
      <3> QED
        BY <1>5, <1>6, <3>2
    <2> QED
      BY <2>1, <2>2
  <1>8. ~(dist > produced)
    BY <1>4, <1>5, <1>7, SMT
  <1>9. fxCache' = Repeated(k) /\ NextToken(position, end, have)
    BY <1>7, <1>8 DEF DecodeDistance
  <1> HIDE DEF D, have, dist
  <1>10. /\ DOMAIN fxCache' = 0 .. Page - 1
         /\ \A i \in 0 .. Page - 1 :
              fxCache'[i] = IF i >= produced /\ i < produced + run
                              THEN fxCache[produced - k + ((i - produced) % k)] ELSE fxCache[i]
    BY <1>2, <1>9 DEF Repeated
  <1>11. ASSUME NEW i \in 1 .. have
         PROVE  fxCache'[i - 1] = D[i]
    <2>1. i - 1 \in 0 .. Page - 1 /\ i - 1 < produced + run
      BY <1>4, <1>5, SMT DEF have
    <2>2. CASE i - 1 >= produced
      <3> DEFINE j == i - 1 - produced
                 x == j % k
      <3>1. j \in 0 .. run - 1 /\ produced + 1 + j = i
        BY <1>4, <1>5, <2>1, <2>2, SMT DEF have
      <3>2. fxCache'[i - 1] = fxCache[produced - k + x]
        BY <1>10, <2>1, <2>2
      <3> HIDE DEF j
      <3>3. D[produced + 1 + j] = D[produced - k + 1 + x] /\ x \in 0 .. k - 1
        <4>1. \A n \in 1 .. run : D[produced + n] = D[produced - k + n]
          BY <1>3
        <4>2. produced \in Nat /\ run \in Nat /\ k \in 1 .. produced
          BY <1>4
        <4>3. j \in 0 .. run - 1
          BY <3>1
        <4>4. D[produced + 1 + j] = D[produced - k + 1 + (j % k)]
          BY <4>1, <4>2, <4>3, CopyRepeats
        <4>5. j % k \in 0 .. k - 1
          BY <4>1, <4>2, <4>3, CopyRepeats
        <4> QED
          BY <4>4, <4>5
      <3> HIDE DEF x
      <3>4. produced - k + 1 + x \in 1 .. produced /\ (produced - k + 1 + x) - 1 = produced - k + x
        BY <1>4, <1>5, <3>3, SMT
      <3>5. fxCache[produced - k + x] = D[produced - k + 1 + x]
        BY <1>2, <3>4
      <3> QED
        BY <3>1, <3>2, <3>3, <3>5
    <2>3. CASE ~(i - 1 >= produced)
      <3>1. i \in 1 .. produced
        BY <1>4, <1>5, <2>3, SMT
      <3> QED
        BY <1>2, <1>10, <2>1, <2>3, <3>1
    <2> QED
      BY <2>2, <2>3
  <1>12. fx \in {"end", "literal", "distance"}
    BY <1>1
  <1> QED
    BY <1>1, <1>2, <1>4, <1>5, <1>9, <1>10, <1>11, <1>12, NextTokenTells DEF D

-----------------------------------------------------------------------------
LEMMA StepTells ==
  ASSUME BundleInv, FxInv, NEW d \in Datas, spec.crc = Packs[d], Tells(d), [Next]_vars
  PROVE  Tells(d)'
  <1>1. CASE Direct \/ Begin
    BY <1>1, DirectTells, BeginTells
  <1>2. CASE \E r \in FxReads : FxRead(r[1], r[2])
    <2>1. PICK r \in FxReads : FxRead(r[1], r[2])
      BY <1>2
    <2>2. r[1] \in Nat /\ r[2] \in Nat
      BY FxAssumption
    <2> QED
      BY <2>1, <2>2, FxReadTells
  <1>3. CASE FxStep
    BY <1>3, HeaderTells, IndexTells, CopyTells, FxReadEndTells, PageTells, PositionTells, EndTells,
       ControlTells, LiteralTells, DistanceTells, FailedReadTells DEF FxStep
  <1>4. CASE BundleStep /\ UNCHANGED fxVars
    BY <1>4, BundleStepTells
  <1>5. CASE UNCHANGED vars
    <2>1. UNCHANGED fxVars /\ spec' = spec /\ from' = from /\ pc' = pc /\ rc' = rc
      BY <1>5 DEF vars, bundleVars
    <2> QED
      BY <2>1, AloneTells DEF Tells, Accepted
  <1> QED
    BY <1>1, <1>2, <1>3, <1>4, <1>5 DEF Next

\* The resource a sketch was compiled with stays what it is.
LEMMA SpecStays == ASSUME [Next]_vars PROVE spec' = spec
  <1>1. CASE Direct
    BY <1>1 DEF Direct, Install, Open, Close, Take, Read
  <1>2. CASE Begin \/ \E r \in FxReads : FxRead(r[1], r[2])
    BY <1>2 DEF Begin, FxRead, Read, bundleVars
  <1>3. CASE BundleStep
    BY <1>3 DEF BundleStep, OpenHeader, OpenScan, OpenEnd, ReadMiss, ReadFill, ReadCopy, ReadEnd
  <1>4. CASE BeginHeader \/ BeginIndex \/ FxCopy \/ FxReadEnd \/ DecodePage \/ DecodePosition
    BY <1>4 DEF BeginHeader, BeginIndex, FxCopy, FxReadEnd, DecodePage, DecodePosition, Read, Take, bundleVars
  <1>5. CASE DecodeEnd \/ DecodeControl \/ DecodeLiteral \/ DecodeDistance \/ ReadFailed
    BY <1>5 DEF DecodeEnd, DecodeControl, DecodeLiteral, DecodeDistance, ReadFailed, NextToken, Read, Take
  <1>6. CASE UNCHANGED vars
    BY <1>6 DEF vars, bundleVars
  <1> QED
    BY <1>1, <1>2, <1>3, <1>4, <1>5, <1>6 DEF Next, FxStep

THEOREM PackInvariance == Spec => []PackInv
  <1>1. Init => PackInv
    <2> SUFFICES ASSUME Init, NEW d \in Datas PROVE Tells(d)
      BY DEF PackInv
    <2>1. fxOut \in Seq(Nat) /\ DOMAIN fxOut = {}
      BY EmptySeq, LenProperties, SMT DEF Init, FxInit
    <2>2. /\ fx = "idle" /\ error = "ENODEV" /\ cachedPage = NoPage
          /\ fxCache = [i \in 0 .. Page - 1 |-> 0]
      BY DEF Init, FxInit
    <2> QED
      BY <2>1, <2>2 DEF Tells, Accepted, Asking, Refused, Decoded, CacheTells, Served, Decoding
  <1>2. BundleInv /\ FxInv /\ PackInv /\ [Next]_vars => PackInv'
    <2> SUFFICES ASSUME BundleInv, FxInv, PackInv, [Next]_vars, NEW d \in Datas, (spec.crc = Packs[d])'
                 PROVE  Tells(d)'
      BY DEF PackInv
    <2>1. spec.crc = Packs[d]
      BY SpecStays DEF Packs
    <2> QED
      BY <2>1, StepTells DEF PackInv
  <1> QED
    BY <1>1, <1>2, FxInvariance, PTL DEF Spec

\* Whatever data tools/fx_pack.py has packed, of any size, FxData::read() serves
\* it as it went in.
THEOREM PackedDataIsServed == Spec => []FxServesTheData
  <1>1. PackInv => FxServesTheData
    BY DEF PackInv, Tells, Served, FxServesTheData
  <1> QED
    BY <1>1, PackInvariance, PTL

\* ... and neither begin() nor decode() refuses it.
THEOREM PacksAreAccepted == Spec => []SoundPacksAreRead
  <1>1. PackInv => SoundPacksAreRead
    BY DEF PackInv, Tells, Accepted, Refused, SoundPacksAreRead
  <1> QED
    BY <1>1, PackInvariance, PTL
=============================================================================

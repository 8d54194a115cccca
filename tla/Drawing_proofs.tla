--------------------------- MODULE Drawing_proofs ----------------------------
(***************************************************************************)
(* For every size of the screen and whatever a sketch draws: a line is     *)
(* true, a circle round, no byte outside of the framebuffer changes, and   *)
(* every pixel of it is the one the picture has there.                     *)
(***************************************************************************)
EXTENDS Drawing, TLAPS

-----------------------------------------------------------------------------
(* Where a byte of the screen is.                                          *)

LEMMA Sizes ==
  /\ PageBits \in Nat /\ PageBits >= 1 /\ Width \in Nat /\ Width >= 1
  /\ Pages \in Nat /\ Pages >= 1 /\ Height \in Nat /\ Size \in Nat
  /\ Half \in Nat /\ Half >= 1 /\ ByteRange \in Nat /\ ByteRange >= 1
  /\ Framebuffer \subseteq Memory /\ Memory \subseteq Int
  <1>1. /\ PageBits \in Nat /\ PageBits >= 1 /\ Width \in Nat /\ Width >= 1
        /\ Pages \in Nat /\ Pages >= 1 /\ Half \in Nat /\ ByteRange \in Nat
        /\ Framebuffer \subseteq Memory /\ Memory \subseteq Int
        /\ Width < ByteRange /\ ByteRange < Half
    BY CanvasAssumption, SMT
  <1>2. Height \in Nat /\ Size \in Nat
    BY <1>1, SMT DEF Height, Size
  <1> QED
    BY <1>1, <1>2, SMT

\* A whole number of pages below the height is a page of the screen.
LEMMA PageOfRow ==
  ASSUME NEW y \in Int, 0 <= y, y < Height
  PROVE  y \div PageBits \in 0 .. Pages - 1
  <1> DEFINE q == y \div PageBits
  <1>1. q \in Int /\ q * PageBits <= y /\ y < q * PageBits + PageBits
    BY Sizes, SMT
  <1>2. y < Pages * PageBits
    BY DEF Height
  <1> HIDE DEF q
  <1>3. 0 <= q
    <2> SUFFICES ASSUME q <= -1 PROVE FALSE
      BY <1>1, SMT
    <2>1. q * PageBits <= (-1) * PageBits
      BY <1>1, Sizes, SMT
    <2> QED
      BY <2>1, <1>1, Sizes, SMT
  <1>4. q <= Pages - 1
    <2> SUFFICES ASSUME q >= Pages PROVE FALSE
      BY <1>1, Sizes, SMT
    <2>1. q * PageBits >= Pages * PageBits
      BY <1>1, Sizes, SMT
    <2> QED
      BY <2>1, <1>1, <1>2, Sizes, SMT
  <1> QED
    BY <1>1, <1>3, <1>4, Sizes, SMT DEF q

LEMMA ByteOfPage ==
  ASSUME NEW q \in 0 .. Pages - 1, NEW x \in Int, 0 <= x, x < Width
  PROVE  q * Width + x \in Framebuffer
  <1>1. q * Width <= (Pages - 1) * Width /\ 0 <= q * Width /\ q * Width \in Int
    BY Sizes, SMT
  <1>2. (Pages - 1) * Width = Size - Width
    BY Sizes, SMT DEF Size
  <1> QED
    BY <1>1, <1>2, Sizes, SMT DEF Framebuffer

LEMMA ByteOfPixel ==
  ASSUME NEW x \in Int, NEW y \in Int, 0 <= x, x < Width, 0 <= y, y < Height
  PROVE  PageIndex(x, y) \in Framebuffer
  BY PageOfRow, ByteOfPage DEF PageIndex

LEMMA Int16IsInt ==
  ASSUME NEW v \in Int
  PROVE  Int16(v) \in Int
  BY Sizes, SMT DEF Int16

-----------------------------------------------------------------------------
(* Each writer of compat.hpp changes bytes of the framebuffer alone.       *)

IsMemory(c) == c \in [Memory -> Bytes]

Changed(c, d) == IsMemory(d) /\ \A i \in Memory \ Framebuffer : d[i] = c[i]

Pixels == Int \X Int

LEMMA BitsOfScreen ==
  ASSUME NEW i \in Memory, NEW pts \in SUBSET Pixels
  PROVE  BitsAt(i, pts) \in Bytes /\ (i \notin Framebuffer => BitsAt(i, pts) = {})
  <1> DEFINE here == {q \in pts : InBounds(q[1], q[2]) /\ PageIndex(q[1], q[2]) = i}
  <1>1. ASSUME NEW p \in here
        PROVE  p[2] % PageBits \in Bits /\ i \in Framebuffer
    <2>1. p[1] \in Int /\ p[2] \in Int /\ InBounds(p[1], p[2]) /\ PageIndex(p[1], p[2]) = i
      BY DEF Pixels
    <2>2. i \in Framebuffer
      BY <2>1, ByteOfPixel DEF InBounds
    <2>3. p[2] % PageBits \in 0 .. PageBits - 1
      BY <2>1, Sizes, SMT
    <2> QED
      BY <2>2, <2>3 DEF Bits
  <1>2. BitsAt(i, pts) = {p[2] % PageBits : p \in here}
    BY DEF BitsAt
  <1> HIDE DEF here
  <1> QED
    BY <1>1, <1>2 DEF Bytes

LEMMA PixelsStayInside ==
  ASSUME NEW c, IsMemory(c), NEW white \in SUBSET Pixels, NEW black \in SUBSET Pixels
  PROVE  Changed(c, DrawPixels(c, white, black))
  <1>1. ASSUME NEW i \in Memory
        PROVE  /\ DrawPixels(c, white, black)[i] \in Bytes
               /\ i \notin Framebuffer => DrawPixels(c, white, black)[i] = c[i]
    <2>1. DrawPixels(c, white, black)[i] = (c[i] \ BitsAt(i, black)) \cup BitsAt(i, white)
      BY DEF DrawPixels
    <2>2. c[i] \in Bytes
      BY DEF IsMemory
    <2>3. /\ BitsAt(i, black) \in Bytes /\ (i \notin Framebuffer => BitsAt(i, black) = {})
          /\ BitsAt(i, white) \in Bytes /\ (i \notin Framebuffer => BitsAt(i, white) = {})
      BY BitsOfScreen
    <2> QED
      BY <2>1, <2>2, <2>3 DEF Bytes
  <1>2. DrawPixels(c, white, black) = [i \in Memory |-> DrawPixels(c, white, black)[i]]
    BY DEF DrawPixels
  <1> QED
    BY <1>1, <1>2 DEF Changed, IsMemory

LEMMA FillingStaysInside ==
  ASSUME NEW c, IsMemory(c), NEW white \in BOOLEAN
  PROVE  Changed(c, FillScreen(c, white))
  BY SMT DEF Changed, IsMemory, FillScreen, Bytes

\* A step that changes one byte of the framebuffer, or none.
LEMMA OneByte ==
  ASSUME NEW c, IsMemory(c), NEW i \in Framebuffer, NEW b \in Bytes
  PROVE  Changed(c, [c EXCEPT ![i] = b])
  <1> DEFINE d == [c EXCEPT ![i] = b]
  <1>1. i \in Memory /\ c \in [Memory -> Bytes]
    BY Sizes DEF IsMemory
  <1>2. d \in [Memory -> Bytes]
    BY <1>1
  <1>3. \A j \in Memory \ Framebuffer : d[j] = c[j]
    BY <1>1
  <1> QED
    BY <1>2, <1>3 DEF Changed, IsMemory

LEMMA ChangedTwice ==
  ASSUME NEW c, NEW d, NEW e, Changed(c, d), Changed(d, e)
  PROVE  Changed(c, e)
  BY DEF Changed

LEMMA BytesFromBits ==
  ASSUME NEW b \in Bytes, NEW d, NEW m, NEW n
  PROVE  /\ Merge(b, ShiftUp(d, n), ShiftUp(m, n)) \in Bytes
         /\ Merge(b, ShiftDown(d, n), ShiftDown(m, n)) \in Bytes
         /\ b \cup ShiftUp(d, n) \in Bytes
         /\ b \cup ShiftDown(d, n) \in Bytes
  BY DEF Merge, ShiftUp, ShiftDown, Bytes

\* The two bytes a byte of a bitmap goes to, where it lands.
LEMMA LandingBytes ==
  ASSUME NEW x \in Int, NEW y \in Int, NEW mask, Lands(x, y, mask)
  PROVE  /\ PageIndex(x, Top(y)) \in Framebuffer
         /\ NextPage(Top(y)) => PageIndex(x, Top(y)) + Width \in Framebuffer
  <1>1. Top(y) \in Int /\ 0 <= Top(y) /\ Top(y) < Height /\ 0 <= x /\ x < Width
    BY SMT DEF Lands, Top
  <1>2. PageIndex(x, Top(y)) \in Framebuffer
    BY <1>1, ByteOfPixel
  <1>3. ASSUME NextPage(Top(y)) PROVE PageIndex(x, Top(y)) + Width \in Framebuffer
    <2> DEFINE q == Top(y) \div PageBits
    <2>1. q \in 0 .. Pages - 1
      BY <1>1, PageOfRow
    <2>2. q + 1 < Pages
      BY <1>3 DEF NextPage
    <2>3. PageIndex(x, Top(y)) = q * Width + x
      BY DEF PageIndex
    <2> HIDE DEF q
    <2>4. q + 1 \in 0 .. Pages - 1
      BY <2>1, <2>2, Sizes, SMT
    <2>5. (q + 1) * Width + x \in Framebuffer
      BY <2>4, <1>1, ByteOfPage
    <2>6. (q + 1) * Width + x = (q * Width + x) + Width
      BY <2>1, <1>1, Sizes, SMT
    <2> QED
      BY <2>3, <2>5, <2>6
  <1> QED
    BY <1>2, <1>3

LEMMA MaskedStaysInside ==
  ASSUME NEW c, IsMemory(c), NEW x \in Int, NEW y \in Int, NEW data, NEW mask
  PROVE  Changed(c, ApplyMasked(c, x, y, data, mask))
  <1> DEFINE d == ShiftDown(data, Cut(y))
             m == ShiftDown(mask, Cut(y))
             offset == Top(y) % PageBits
             index  == PageIndex(x, Top(y))
             low    == [c EXCEPT ![index] = Merge(c[index], ShiftUp(d, offset), ShiftUp(m, offset))]
             rest   == PageBits - offset
             high   == [low EXCEPT ![index + Width] =
                          Merge(low[index + Width], ShiftDown(d, rest), ShiftDown(m, rest))]
  <1>1. ApplyMasked(c, x, y, data, mask) =
          IF ~Lands(x, y, mask) THEN c ELSE IF ~NextPage(Top(y)) THEN low ELSE high
    BY DEF ApplyMasked
  <1>2. Changed(c, c)
    BY DEF Changed
  <1>3. ASSUME Lands(x, y, mask) PROVE Changed(c, low)
    <2>1. index \in Framebuffer
      BY <1>3, LandingBytes
    <2>2. c[index] \in Bytes
      BY <2>1, Sizes DEF IsMemory
    <2> HIDE DEF index, offset, d, m
    <2>3. Merge(c[index], ShiftUp(d, offset), ShiftUp(m, offset)) \in Bytes
      BY <2>2, BytesFromBits
    <2> QED
      BY <2>1, <2>3, OneByte
  <1>4. ASSUME Lands(x, y, mask), NextPage(Top(y)) PROVE Changed(c, high)
    <2>1. index + Width \in Framebuffer
      BY <1>4, LandingBytes
    <2>2. Changed(c, low) /\ IsMemory(low)
      BY <1>3, <1>4 DEF Changed
    <2> HIDE DEF low, d, m, index, rest
    <2>3. low[index + Width] \in Bytes
      BY <2>1, <2>2, Sizes DEF IsMemory
    <2>4. Merge(low[index + Width], ShiftDown(d, rest), ShiftDown(m, rest)) \in Bytes
      BY <2>3, BytesFromBits
    <2>5. Changed(low, high)
      BY <2>1, <2>2, <2>4, OneByte
    <2> QED
      BY <2>2, <2>5, ChangedTwice
  <1> HIDE DEF low, high
  <1> QED
    BY <1>1, <1>2, <1>3, <1>4

LEMMA OrStaysInside ==
  ASSUME NEW c, IsMemory(c), NEW x \in Int, NEW y \in Int, NEW data
  PROVE  Changed(c, ApplyOr(c, x, y, data))
  <1> DEFINE d == ShiftDown(data, Cut(y))
             offset == Top(y) % PageBits
             index  == PageIndex(x, Top(y))
             low    == [c EXCEPT ![index] = c[index] \cup ShiftUp(d, offset)]
             rest   == PageBits - offset
             high   == [low EXCEPT ![index + Width] = low[index + Width] \cup ShiftDown(d, rest)]
  <1>1. ApplyOr(c, x, y, data) =
          IF ~Lands(x, y, data) THEN c ELSE IF ~NextPage(Top(y)) THEN low ELSE high
    BY DEF ApplyOr
  <1>2. Changed(c, c)
    BY DEF Changed
  <1>3. ASSUME Lands(x, y, data) PROVE Changed(c, low)
    <2>1. index \in Framebuffer
      BY <1>3, LandingBytes
    <2>2. c[index] \in Bytes
      BY <2>1, Sizes DEF IsMemory
    <2> HIDE DEF index, offset, d
    <2>3. c[index] \cup ShiftUp(d, offset) \in Bytes
      BY <2>2, BytesFromBits
    <2> QED
      BY <2>1, <2>3, OneByte
  <1>4. ASSUME Lands(x, y, data), NextPage(Top(y)) PROVE Changed(c, high)
    <2>1. index + Width \in Framebuffer
      BY <1>4, LandingBytes
    <2>2. Changed(c, low) /\ IsMemory(low)
      BY <1>3, <1>4 DEF Changed
    <2> HIDE DEF low, d, index, rest
    <2>3. low[index + Width] \in Bytes
      BY <2>1, <2>2, Sizes DEF IsMemory
    <2>4. low[index + Width] \cup ShiftDown(d, rest) \in Bytes
      BY <2>3, BytesFromBits
    <2>5. Changed(low, high)
      BY <2>1, <2>2, <2>4, OneByte
    <2> QED
      BY <2>2, <2>5, ChangedTwice
  <1> HIDE DEF low, high
  <1> QED
    BY <1>1, <1>2, <1>3, <1>4

-----------------------------------------------------------------------------
(* Rectangles.                                                             *)

Rects == [x : Int, y : Int, w : Int, h : Int]

\* What is left of a rectangle is on the screen, in every row of it.
LEMMA ClippedRect ==
  ASSUME NEW r \in Rects, NEW k \in Nat, k < ClipRect(r).h
  PROVE  /\ ClipRect(r).x \in Int /\ ClipRect(r).y \in Int /\ ClipRect(r).w \in Int
         /\ ClipRect(r).h \in Int
         /\ 0 <= ClipRect(r).x /\ ClipRect(r).x + ClipRect(r).w <= Width
         /\ 0 <= ClipRect(r).y + k /\ ClipRect(r).y + k < Height
  <1> DEFINE x1 == Int16(r.x + r.w)
             y1 == Int16(r.y + r.h)
             x  == Larger(r.x, 0)
             y  == Larger(r.y, 0)
             full == [x |-> x, y |-> y, w |-> Smaller(x1, Width) - x, h |-> Smaller(y1, Height) - y]
  <1>1. r.x \in Int /\ r.y \in Int /\ r.w \in Int /\ r.h \in Int
    BY DEF Rects
  <1>2. x1 \in Int /\ y1 \in Int
    BY <1>1, Int16IsInt
  <1>3. ClipRect(r) \in {Nothing, full}
    BY DEF ClipRect
  <1> HIDE DEF x1, y1
  <1>4. ClipRect(r) # Nothing
    <2>1. Nothing.h = 0
      BY DEF Nothing
    <2> QED
      BY <2>1, SMT
  <1>5. ClipRect(r) = full
    BY <1>3, <1>4
  <1>6. /\ full.x = x /\ full.y = y /\ full.w = Smaller(x1, Width) - x
        /\ full.h = Smaller(y1, Height) - y
    OBVIOUS
  <1>7. /\ x \in Int /\ y \in Int /\ 0 <= x /\ 0 <= y
        /\ Smaller(x1, Width) \in Int /\ Smaller(x1, Width) <= Width
        /\ Smaller(y1, Height) \in Int /\ Smaller(y1, Height) <= Height
    BY <1>1, <1>2, Sizes, SMT DEF Larger, Smaller
  <1> HIDE DEF full, x, y
  <1> QED
    BY <1>5, <1>6, <1>7, Sizes, SMT

LEMMA RowsStayInside ==
  ASSUME NEW c, IsMemory(c), NEW x \in Int, NEW y \in Int, NEW w \in Int, NEW rows,
         NEW white \in BOOLEAN, 0 <= x, x + w <= Width, 0 <= y, y < Height
  PROVE  Changed(c, FillRows(c, x, y, w, rows, white))
  <1> DEFINE mask == ShiftUp(MaskForHeight(rows), y % PageBits)
             at   == PageIndex(x, y) .. PageIndex(x, y) + w - 1
             d    == FillRows(c, x, y, w, rows, white)
             q    == y \div PageBits
  <1>1. at \subseteq Framebuffer
    <2> SUFFICES ASSUME NEW i \in at PROVE i \in Framebuffer
      OBVIOUS
    <2>1. q \in 0 .. Pages - 1
      BY PageOfRow
    <2>2. PageIndex(x, y) = q * Width + x
      BY DEF PageIndex
    <2> HIDE DEF q
    <2>3. q * Width \in Int
      BY <2>1, Sizes, SMT
    <2> DEFINE col == i - q * Width
    <2>4. col \in Int /\ 0 <= col /\ col < Width /\ q * Width + col = i
      BY <2>2, <2>3, Sizes, SMT
    <2> HIDE DEF col
    <2> QED
      BY <2>1, <2>4, ByteOfPage
  <1>2. mask \in Bytes
    BY DEF ShiftUp, Bytes
  <1>3. d = [i \in Memory |-> IF i \notin at THEN c[i]
                              ELSE IF white THEN c[i] \cup mask ELSE c[i] \ mask]
    BY DEF FillRows
  <1> HIDE DEF at, mask, d
  <1>4. ASSUME NEW i \in Memory
        PROVE  d[i] \in Bytes /\ (i \notin Framebuffer => d[i] = c[i])
    <2>1. d[i] = IF i \notin at THEN c[i] ELSE IF white THEN c[i] \cup mask ELSE c[i] \ mask
      BY <1>3
    <2>2. c[i] \in Bytes
      BY DEF IsMemory
    <2> QED
      BY <1>1, <1>2, <2>1, <2>2 DEF Bytes
  <1>5. d \in [Memory -> Bytes]
    BY <1>3, <1>4
  <1> QED
    BY <1>4, <1>5 DEF Changed, IsMemory, d

-----------------------------------------------------------------------------
(* What the variables are between two steps.                               *)

Areals == Paged \cup Fx \cup {"xy"}

CallOK ==
  /\ page \in Nat /\ px \in Nat /\ todo \in Seq(Rects) /\ cursor \in [x : Int, y : Int]
  /\ call.op \in Areals => call.x \in Int /\ call.y \in Int
  /\ call.op \in {"xy", "rect", "stroke"} => call.white \in BOOLEAN
  /\ call.op = "glyph" => call.frame \in Frames

StrokeTypeOK ==
  /\ stroke \in {NoStroke} \cup LineCalls \cup CircleCalls
  /\ penX \in Int /\ penY \in Int /\ error \in Int /\ ddx \in Int /\ ddy \in Int
  /\ points \in SUBSET Pixels

StrokeIsCalled == stroke # NoStroke => call.op = "stroke"

DrawTypeOK == IsMemory(canvas) /\ CallOK /\ StrokeTypeOK /\ StrokeIsCalled

DrawInv == DrawTypeOK /\ NeighboursUntouched /\ StrokeInv

-----------------------------------------------------------------------------
(* Whatever the step, the canvas stays as it is or is written by one of    *)
(* the writers above.                                                      *)

Written == canvas' = canvas \/ Changed(canvas, canvas')

LEMMA PaintByteWrites == DrawTypeOK /\ PaintByte => Written
  <1> SUFFICES ASSUME DrawTypeOK, PaintByte PROVE Written
    OBVIOUS
  <1> DEFINE x == Int16(call.x + px)
             y == Int16(call.y + page * PageBits)
             data == IF call.op = "bitmap" /\ ~call.white THEN {} ELSE Image(call)
  <1>1. canvas' = IF call.op = "self" THEN ApplyOr(canvas, x, y, Image(call))
                  ELSE ApplyMasked(canvas, x, y, data, Mask(call))
    BY DEF PaintByte
  <1>2. call.x \in Int /\ call.y \in Int /\ px \in Int /\ page \in Int
    BY DEF PaintByte, DrawTypeOK, CallOK, Areals
  <1>3. call.x + px \in Int /\ call.y + page * PageBits \in Int
    BY <1>2, Sizes, SMT
  <1>4. x \in Int /\ y \in Int
    BY <1>3, Int16IsInt
  <1>5. IsMemory(canvas)
    BY DEF DrawTypeOK
  <1> HIDE DEF x, y, data
  <1> QED
    BY <1>1, <1>4, <1>5, MaskedStaysInside, OrStaysInside DEF Written

LEMMA PaintBitWrites == DrawTypeOK /\ PaintBit => Written
  <1> SUFFICES ASSUME DrawTypeOK, PaintBit PROVE Written
    OBVIOUS
  <1> DEFINE x == Int16(call.x + px)
             y == Int16(call.y + page)
             p == {<<x, y>>}
  <1>1. canvas' = canvas \/ canvas' = DrawOne(x, y, call.white)
    BY DEF PaintBit
  <1>2. /\ call.x \in Int /\ call.y \in Int /\ px \in Int /\ page \in Int
        /\ call.white \in BOOLEAN /\ IsMemory(canvas)
    BY DEF PaintBit, DrawTypeOK, CallOK, Areals
  <1>3. call.x + px \in Int /\ call.y + page \in Int
    BY <1>2, SMT
  <1>4. x \in Int /\ y \in Int
    BY <1>3, Int16IsInt
  <1> HIDE DEF x, y
  <1>5. p \in SUBSET Pixels /\ {} \in SUBSET Pixels
    BY <1>4 DEF Pixels
  <1>6. DrawOne(x, y, call.white) \in {DrawPixels(canvas, p, {}), DrawPixels(canvas, {}, p)}
    BY <1>2 DEF DrawOne
  <1> HIDE DEF p
  <1> QED
    BY <1>1, <1>2, <1>5, <1>6, PixelsStayInside DEF Written

LEMMA FillChunkWrites == DrawTypeOK /\ FillChunk => Written
  <1> SUFFICES ASSUME DrawTypeOK, FillChunk PROVE Written
    OBVIOUS
  <1> DEFINE r == ClipRect(Head(todo))
  <1>1. Head(todo) \in Rects /\ page \in Nat /\ call.white \in BOOLEAN /\ IsMemory(canvas)
    <2>1. todo \in Seq(Rects) /\ todo # <<>>
      BY DEF FillChunk, DrawTypeOK, CallOK
    <2>2. Head(todo) \in Rects
      BY <2>1
    <2> QED
      BY <2>2 DEF FillChunk, DrawTypeOK, CallOK
  <1>2. page < r.h
    BY DEF FillChunk
  <1>3. PICK rows : canvas' = FillRows(canvas, r.x, r.y + page, r.w, rows, call.white)
    BY DEF FillChunk
  <1>4. /\ r.x \in Int /\ r.y \in Int /\ r.w \in Int
        /\ 0 <= r.x /\ r.x + r.w <= Width /\ 0 <= r.y + page /\ r.y + page < Height
    BY <1>1, <1>2, ClippedRect
  <1> HIDE DEF r
  <1>5. r.y + page \in Int
    BY <1>1, <1>4, SMT
  <1> QED
    BY <1>1, <1>3, <1>4, <1>5, RowsStayInside DEF Written

LEMMA FxPageWrites == DrawTypeOK /\ FxPage => Written
  <1> SUFFICES ASSUME DrawTypeOK, FxPage PROVE Written
    OBVIOUS
  <1> DEFINE pixels == {p \in Columns(call) \X Bits :
                          /\ page * PageBits + p[2] < call.h
                          /\ Stride(call) = 1 \/ p[2] \in FxByte(call, p[1], 1)}
             lit == {p \in pixels : p[2] \in FxByte(call, p[1], 0)}
             at(P) == {<<Int16(call.x + p[1]), Int16(FxTop + p[2])>> : p \in P}
  <1>1. canvas' = DrawPixels(canvas, at(lit), at(pixels \ lit))
    BY DEF FxPage
  <1>2. call.x \in Int /\ call.y \in Int /\ page \in Int /\ IsMemory(canvas)
    BY DEF FxPage, DrawTypeOK, CallOK, Areals
  <1>3. FxTop \in Int
    BY <1>2, Sizes, SMT DEF FxTop
  <1>4. ASSUME NEW p \in Int \X Int
        PROVE  <<Int16(call.x + p[1]), Int16(FxTop + p[2])>> \in Pixels
    <2>1. call.x + p[1] \in Int /\ FxTop + p[2] \in Int
      BY <1>2, <1>3, SMT
    <2> QED
      BY <2>1, Int16IsInt DEF Pixels
  <1>5. pixels \subseteq Int \X Int
    BY Sizes DEF Columns, Bits
  <1> HIDE DEF pixels
  <1>6. at(lit) \in SUBSET Pixels /\ at(pixels \ lit) \in SUBSET Pixels
    BY <1>4, <1>5
  <1> HIDE DEF at, lit
  <1> QED
    BY <1>1, <1>2, <1>6, PixelsStayInside DEF Written

LEMMA PaintColumnWrites == DrawTypeOK /\ PaintColumn => Written
  <1> SUFFICES ASSUME DrawTypeOK, PaintColumn PROVE Written
    OBVIOUS
  <1> DEFINE at(B) == {<<Int16(cursor.x + px), Int16(cursor.y + b)>> : b \in B}
  <1>1. canvas' = DrawPixels(canvas, at(Glyph(call, px)), at(Bits \ Glyph(call, px)))
    BY DEF PaintColumn
  <1>2. cursor.x \in Int /\ cursor.y \in Int /\ px \in Nat /\ IsMemory(canvas)
    BY DEF DrawTypeOK, CallOK
  <1>3. Glyph(call, px) \in SUBSET Int
    <2>1. call.frame \in Frames
      BY DEF PaintColumn, DrawTypeOK, CallOK
    <2>2. CASE px < GlyphWidth
      <3>1. px \in 0 .. GlyphWidth - 1
        BY <1>2, <2>2, DrawingAssumption, SMT
      <3>2. Font[call.frame * GlyphWidth + px] \in Bytes
        BY <2>1, <3>1, DrawingAssumption
      <3> QED
        BY <2>2, <3>2 DEF Glyph, Bytes, Bits
    <2>3. CASE ~(px < GlyphWidth)
      BY <2>3 DEF Glyph
    <2> QED
      BY <2>2, <2>3
  <1>4. ASSUME NEW b \in Int
        PROVE  <<Int16(cursor.x + px), Int16(cursor.y + b)>> \in Pixels
    <2>1. cursor.x + px \in Int /\ cursor.y + b \in Int
      BY <1>2, SMT
    <2> QED
      BY <2>1, Int16IsInt DEF Pixels
  <1>5. Bits \ Glyph(call, px) \in SUBSET Int
    BY DEF Bits
  <1>6. at(Glyph(call, px)) \in SUBSET Pixels /\ at(Bits \ Glyph(call, px)) \in SUBSET Pixels
    BY <1>3, <1>4, <1>5
  <1> HIDE DEF at
  <1> QED
    BY <1>1, <1>2, <1>6, PixelsStayInside DEF Written

LEMMA PointsWrite ==
  ASSUME IsMemory(canvas), NEW new \in SUBSET Pixels, NEW white \in BOOLEAN
  PROVE  Changed(canvas, DrawPoints(new, white))
  <1> DEFINE at == {<<Int16(p[1]), Int16(p[2])>> : p \in new}
  <1>1. at \in SUBSET Pixels
    BY Int16IsInt DEF Pixels
  <1>2. DrawPoints(new, white) \in {DrawPixels(canvas, at, {}), DrawPixels(canvas, {}, at)}
    BY DEF DrawPoints
  <1> HIDE DEF at
  <1>3. {} \in SUBSET Pixels
    OBVIOUS
  <1> QED
    BY <1>1, <1>2, <1>3, PixelsStayInside

-----------------------------------------------------------------------------
(* Lines.  a and b are the long and the short side, i and j how far the    *)
(* loop has come along them, e is the error.                               *)

LEMMA MajorStep ==
  ASSUME NEW a \in Nat, NEW b \in Nat, NEW i \in Nat, NEW j \in Nat, NEW e \in Int,
         b <= a, i <= a, j <= b, j <= i, ~(i = a /\ j = b),
         -a <= 2 * (j * a - i * b), 2 * (j * a - i * b) <= a,
         e = (j + 1) * a - (i + 1) * b
  PROVE  /\ 2 * e >= -b /\ i + 1 <= a
         /\ 2 * e <= a => j + 1 <= b /\ -a <= 2 * e
         /\ ~(2 * e <= a) => /\ -a <= 2 * (j * a - (i + 1) * b)
                             /\ 2 * (j * a - (i + 1) * b) <= a
  <1> DEFINE p == j * a
             q == i * b
  <1>1. p \in Int /\ q \in Int /\ e = p + a - q - b
    BY SMT
  <1>2. 2 * e >= -b
    BY <1>1, SMT
  <1>3. i + 1 <= a
    <2> SUFFICES ASSUME i = a PROVE FALSE
      BY SMT
    <2>1. j + 1 <= b
      BY SMT
    <2>2. (j + 1) * a <= b * a
      BY <2>1, SMT
    <2>3. p + a <= q
      BY <2>2, SMT
    <2>4. a = 0
      BY <2>3, <1>1, SMT
    <2> QED
      BY <2>1, <2>4, SMT
  <1>4. ASSUME 2 * e <= a PROVE j + 1 <= b /\ -a <= 2 * e
    <2>1. -a <= 2 * e
      BY <1>2, SMT
    <2>2. j + 1 <= b
      <3> SUFFICES ASSUME j = b PROVE FALSE
        BY SMT
      <3>1. (i + 1) * b <= a * b
        BY <1>3, SMT
      <3>2. q + b <= p
        BY <3>1, SMT
      <3>3. 2 * e >= 2 * a
        BY <3>2, <1>1, SMT
      <3> QED
        BY <3>3, <1>3, <1>4, SMT
    <2> QED
      BY <2>1, <2>2
  <1>5. j * a - (i + 1) * b = e - a
    BY SMT
  <1>6. ASSUME ~(2 * e <= a) PROVE -a <= 2 * (e - a) /\ 2 * (e - a) <= a
    BY <1>1, <1>6, SMT
  <1> QED
    BY <1>2, <1>3, <1>4, <1>5, <1>6

Sign(s) == s = 1 \/ s = -1

LEMMA Walk ==
  ASSUME NEW x \in Int, NEW s \in Int, Sign(s), NEW i \in Nat
  PROVE  Abs((x + i * s) - x) = i /\ (x + i * s) + s = x + (i + 1) * s /\ x + i * s \in Int
  <1>1. CASE s = 1
    BY <1>1, SMT DEF Abs
  <1>2. CASE s = -1
    BY <1>2, SMT DEF Abs
  <1> QED
    BY <1>1, <1>2 DEF Sign

LEMMA EndOfWalk ==
  ASSUME NEW x \in Int, NEW y \in Int
  PROVE  /\ Step(x, y) \in Int /\ Sign(Step(x, y)) /\ Abs(y - x) \in Nat
         /\ x + Abs(y - x) * Step(x, y) = y
  BY SMT DEF Step, Sign, Abs

\* The walk in numbers: LineIsTrue with the absolute values resolved.
Walks(c, i, j, x, y, e) ==
  LET a == DeltaX(c)
      b == -DeltaY(c)
  IN /\ i \in Nat /\ j \in Nat /\ i <= a /\ j <= b
     /\ x = c.x0 + i * Step(c.x0, c.x1) /\ y = c.y0 + j * Step(c.y0, c.y1)
     /\ e = (j + 1) * a - (i + 1) * b
     /\ b <= a => j <= i /\ -a <= 2 * (j * a - i * b) /\ 2 * (j * a - i * b) <= a
     /\ a < b => i <= j /\ -b <= 2 * (i * b - j * a) /\ 2 * (i * b - j * a) <= b

LEMMA LineIsAWalk ==
  ASSUME NEW c \in LineCalls, NEW x \in Int, NEW y \in Int, NEW e \in Int
  PROVE  LET a == DeltaX(c)
             b == -DeltaY(c)
             i == Abs(x - c.x0)
             j == Abs(y - c.y0)
         IN Walks(c, i, j, x, y, e) <=>
              /\ x = c.x0 + i * Step(c.x0, c.x1) /\ i <= a
              /\ y = c.y0 + j * Step(c.y0, c.y1) /\ j <= b
              /\ e = (j + 1) * a - (i + 1) * b
              /\ 2 * Abs(j * a - i * b) <= (IF a < b THEN b ELSE a)
              /\ IF a < b THEN i <= j ELSE j <= i
  <1> DEFINE a == DeltaX(c)
             b == -DeltaY(c)
             i == Abs(x - c.x0)
             j == Abs(y - c.y0)
  <1>1. a \in Nat /\ b \in Nat /\ i \in Nat /\ j \in Nat
    BY SMT DEF LineCalls, DeltaX, DeltaY, Abs
  <1>2. Walks(c, i, j, x, y, e) <=>
          /\ i \in Nat /\ j \in Nat /\ i <= a /\ j <= b
          /\ x = c.x0 + i * Step(c.x0, c.x1) /\ y = c.y0 + j * Step(c.y0, c.y1)
          /\ e = (j + 1) * a - (i + 1) * b
          /\ b <= a => j <= i /\ -a <= 2 * (j * a - i * b) /\ 2 * (j * a - i * b) <= a
          /\ a < b => i <= j /\ -b <= 2 * (i * b - j * a) /\ 2 * (i * b - j * a) <= b
    BY DEF Walks
  <1> HIDE DEF a, b, i, j
  <1> DEFINE p == j * a
             q == i * b
  <1>3. p \in Int /\ q \in Int
    BY <1>1, SMT
  <1> HIDE DEF p, q
  <1>4. (IF a < b THEN i <= j ELSE j <= i) /\ 2 * Abs(p - q) <= (IF a < b THEN b ELSE a)
          <=> /\ b <= a => j <= i /\ -a <= 2 * (p - q) /\ 2 * (p - q) <= a
              /\ a < b => i <= j /\ -b <= 2 * (q - p) /\ 2 * (q - p) <= b
    BY <1>1, <1>3, SMT DEF Abs
  <1> QED
    BY <1>1, <1>2, <1>4 DEF p, q, a, b, i, j

LEMMA WalkedSoFar ==
  ASSUME NEW c \in LineCalls, NEW i, NEW j, NEW x, NEW y, NEW e, Walks(c, i, j, x, y, e)
  PROVE  i = Abs(x - c.x0) /\ j = Abs(y - c.y0)
  <1>1. i \in Nat /\ j \in Nat /\ x = c.x0 + i * Step(c.x0, c.x1) /\ y = c.y0 + j * Step(c.y0, c.y1)
    BY DEF Walks
  <1>2. c.x0 \in Int /\ c.x1 \in Int /\ c.y0 \in Int /\ c.y1 \in Int
    BY DEF LineCalls
  <1>3. /\ Step(c.x0, c.x1) \in Int /\ Sign(Step(c.x0, c.x1))
        /\ Step(c.y0, c.y1) \in Int /\ Sign(Step(c.y0, c.y1))
    BY <1>2, EndOfWalk
  <1> QED
    BY <1>1, <1>2, <1>3, Walk

\* Where the walk is after a step of the loop, by the two tests of the code.
LEMMA WalkOn ==
  ASSUME NEW c \in LineCalls, NEW i, NEW j, NEW x, NEW y, NEW e, Walks(c, i, j, x, y, e),
         ~(x = c.x1 /\ y = c.y1),
         NEW i2, NEW j2, NEW x2, NEW y2, NEW e2,
         i2 = i + (IF 2 * e >= DeltaY(c) THEN 1 ELSE 0),
         j2 = j + (IF 2 * e <= DeltaX(c) THEN 1 ELSE 0),
         x2 = x + (IF 2 * e >= DeltaY(c) THEN Step(c.x0, c.x1) ELSE 0),
         y2 = y + (IF 2 * e <= DeltaX(c) THEN Step(c.y0, c.y1) ELSE 0),
         e2 = e + (IF 2 * e >= DeltaY(c) THEN DeltaY(c) ELSE 0)
                + (IF 2 * e <= DeltaX(c) THEN DeltaX(c) ELSE 0)
  PROVE  Walks(c, i2, j2, x2, y2, e2)
  <1> DEFINE a == DeltaX(c)
             b == -DeltaY(c)
             sx == Step(c.x0, c.x1)
             sy == Step(c.y0, c.y1)
  <1>1. c.x0 \in Int /\ c.x1 \in Int /\ c.y0 \in Int /\ c.y1 \in Int
    BY DEF LineCalls
  <1>2. /\ sx \in Int /\ Sign(sx) /\ a \in Nat /\ c.x0 + a * sx = c.x1
        /\ sy \in Int /\ Sign(sy) /\ c.y0 + b * sy = c.y1
    <2>1. a = Abs(c.x1 - c.x0) /\ b = -(-Abs(c.y1 - c.y0))
      BY DEF DeltaX, DeltaY
    <2>2. Abs(c.y1 - c.y0) \in Nat
      BY <1>1, EndOfWalk
    <2>3. b = Abs(c.y1 - c.y0)
      BY <2>1, <2>2, SMT
    <2>4. /\ sx \in Int /\ Sign(sx) /\ Abs(c.x1 - c.x0) \in Nat
          /\ c.x0 + Abs(c.x1 - c.x0) * sx = c.x1
          /\ sy \in Int /\ Sign(sy) /\ c.y0 + Abs(c.y1 - c.y0) * sy = c.y1
      BY <1>1, EndOfWalk
    <2> HIDE DEF a, b, sx, sy
    <2> QED
      BY <2>1, <2>3, <2>4
  <1>3. b \in Nat /\ DeltaY(c) = -b /\ DeltaY(c) \in Int
    BY <1>1, SMT DEF DeltaY, Abs
  <1>4. /\ i \in Nat /\ j \in Nat /\ i <= a /\ j <= b
        /\ x = c.x0 + i * sx /\ y = c.y0 + j * sy
        /\ e = (j + 1) * a - (i + 1) * b
        /\ b <= a => j <= i /\ -a <= 2 * (j * a - i * b) /\ 2 * (j * a - i * b) <= a
        /\ a < b => i <= j /\ -b <= 2 * (i * b - j * a) /\ 2 * (i * b - j * a) <= b
    BY DEF Walks
  <1>5. ~(i = a /\ j = b)
    BY <1>2, <1>4
  <1>6. /\ i2 = i + (IF 2 * e >= -b THEN 1 ELSE 0)
        /\ j2 = j + (IF 2 * e <= a THEN 1 ELSE 0)
        /\ x2 = x + (IF 2 * e >= -b THEN sx ELSE 0)
        /\ y2 = y + (IF 2 * e <= a THEN sy ELSE 0)
        /\ e2 = e + (IF 2 * e >= -b THEN -b ELSE 0) + (IF 2 * e <= a THEN a ELSE 0)
    BY <1>3
  <1>7. Walks(c, i2, j2, x2, y2, e2) <=>
          /\ i2 \in Nat /\ j2 \in Nat /\ i2 <= a /\ j2 <= b
          /\ x2 = c.x0 + i2 * sx /\ y2 = c.y0 + j2 * sy
          /\ e2 = (j2 + 1) * a - (i2 + 1) * b
          /\ b <= a => j2 <= i2 /\ -a <= 2 * (j2 * a - i2 * b) /\ 2 * (j2 * a - i2 * b) <= a
          /\ a < b => i2 <= j2 /\ -b <= 2 * (i2 * b - j2 * a) /\ 2 * (i2 * b - j2 * a) <= b
    BY DEF Walks
  <1> HIDE DEF a, b, sx, sy
  <1>8. e \in Int
    BY <1>2, <1>3, <1>4, SMT
  <1>9. i2 \in Nat /\ j2 \in Nat /\ x2 = c.x0 + i2 * sx /\ y2 = c.y0 + j2 * sy
    <2>1. /\ (c.x0 + i * sx) + sx = c.x0 + (i + 1) * sx /\ c.x0 + i * sx \in Int
          /\ (c.y0 + j * sy) + sy = c.y0 + (j + 1) * sy /\ c.y0 + j * sy \in Int
      BY <1>1, <1>2, <1>4, Walk
    <2>2. i2 \in Nat /\ x2 = c.x0 + i2 * sx
      <3>1. CASE 2 * e >= -b
        BY <3>1, <1>4, <1>6, <2>1
      <3>2. CASE ~(2 * e >= -b)
        <4>1. i2 = i /\ x2 = x
          BY <3>2, <1>4, <1>6, <2>1, SMT
        <4> QED
          BY <4>1, <1>4
      <3> QED
        BY <3>1, <3>2
    <2>3. j2 \in Nat /\ y2 = c.y0 + j2 * sy
      <3>1. CASE 2 * e <= a
        BY <3>1, <1>4, <1>6, <2>1
      <3>2. CASE ~(2 * e <= a)
        <4>1. j2 = j /\ y2 = y
          BY <3>2, <1>4, <1>6, <2>1, SMT
        <4> QED
          BY <4>1, <1>4
      <3> QED
        BY <3>1, <3>2
    <2> QED
      BY <2>2, <2>3
  <1>10. e2 = (j2 + 1) * a - (i2 + 1) * b
    <2>1. CASE 2 * e >= -b /\ 2 * e <= a
      BY <2>1, <1>2, <1>3, <1>4, <1>6, SMT
    <2>2. CASE 2 * e >= -b /\ ~(2 * e <= a)
      BY <2>2, <1>2, <1>3, <1>4, <1>6, SMT
    <2>3. CASE ~(2 * e >= -b) /\ 2 * e <= a
      BY <2>3, <1>2, <1>3, <1>4, <1>6, SMT
    <2>4. CASE ~(2 * e >= -b) /\ ~(2 * e <= a)
      BY <2>4, <1>2, <1>3, <1>4, <1>6, SMT
    <2> QED
      BY <2>1, <2>2, <2>3, <2>4
  <1>11. ASSUME b <= a
         PROVE  /\ i2 <= a /\ j2 <= b
                /\ j2 <= i2 /\ -a <= 2 * (j2 * a - i2 * b) /\ 2 * (j2 * a - i2 * b) <= a
    <2>1. /\ 2 * e >= -b /\ i + 1 <= a
          /\ 2 * e <= a => j + 1 <= b /\ -a <= 2 * e
          /\ ~(2 * e <= a) => /\ -a <= 2 * (j * a - (i + 1) * b)
                              /\ 2 * (j * a - (i + 1) * b) <= a
      BY <1>2, <1>3, <1>4, <1>5, <1>8, <1>11, MajorStep
    <2>2. i2 = i + 1
      BY <2>1, <1>6
    <2>3. CASE 2 * e <= a
      <3>1. j2 = j + 1 /\ j2 * a - i2 * b = e
        BY <2>2, <2>3, <1>4, <1>6
      <3> QED
        BY <3>1, <2>1, <2>2, <2>3, <1>4, <1>11, SMT
    <2>4. CASE ~(2 * e <= a)
      <3>1. j2 = j
        BY <2>4, <1>4, <1>6, SMT
      <3> QED
        BY <3>1, <2>1, <2>2, <2>4, <1>4, <1>11, SMT
    <2> QED
      BY <2>3, <2>4
  <1>12. ASSUME a < b
         PROVE  /\ i2 <= a /\ j2 <= b
                /\ i2 <= j2 /\ -b <= 2 * (i2 * b - j2 * a) /\ 2 * (i2 * b - j2 * a) <= b
    <2> DEFINE f == -e
    <2>1. f \in Int /\ f = (i + 1) * b - (j + 1) * a
      <3>1. (j + 1) * a \in Int /\ (i + 1) * b \in Int
        BY <1>2, <1>3, <1>4, SMT
      <3> QED
        BY <3>1, <1>4, <1>8, SMT
    <2>2. f = -e
      OBVIOUS
    <2> HIDE DEF f
    <2>3. a <= b
      BY <1>2, <1>3, <1>12, SMT
    <2>4. /\ 2 * f >= -a /\ j + 1 <= b
          /\ 2 * f <= b => i + 1 <= a /\ -b <= 2 * f
          /\ ~(2 * f <= b) => /\ -b <= 2 * (i * b - (j + 1) * a)
                              /\ 2 * (i * b - (j + 1) * a) <= b
      BY <1>2, <1>3, <1>4, <1>5, <1>12, <2>1, <2>3, MajorStep
    <2>5. (2 * f >= -a <=> 2 * e <= a) /\ (2 * f <= b <=> 2 * e >= -b)
      BY <2>2, <1>8, <1>2, <1>3, SMT
    <2>6. j2 = j + 1
      BY <2>4, <2>5, <1>6
    <2>7. CASE 2 * e >= -b
      <3>1. i2 = i + 1 /\ i2 * b - j2 * a = f
        BY <2>1, <2>6, <2>7, <1>6
      <3> QED
        BY <3>1, <2>3, <2>4, <2>5, <2>6, <2>7, <1>2, <1>3, <1>4, <1>12, SMT
    <2>8. CASE ~(2 * e >= -b)
      <3>1. i2 = i
        BY <2>8, <1>4, <1>6, SMT
      <3> QED
        BY <3>1, <2>4, <2>5, <2>6, <2>8, <1>4, <1>12, SMT
    <2> QED
      BY <2>7, <2>8
  <1>13. b <= a \/ a < b
    BY <1>2, <1>3, SMT
  <1> QED
    BY <1>7, <1>9, <1>10, <1>11, <1>12, <1>13, <1>2, <1>3, SMT

-----------------------------------------------------------------------------
(* Circles.                                                                *)

LEMMA ArcStep ==
  ASSUME NEW r \in Nat, NEW x \in Int, NEW y \in Int, NEW f \in Int,
         0 <= x, x < y,
         f = (x + 1) * (x + 1) + y * y - y - r * r,
         x * x + y * y - y <= r * r, x * x + y * y + y >= r * r
  PROVE  /\ f < 0 => LET u == x + 1
                     IN /\ f + 2 * x + 3 = (u + 1) * (u + 1) + y * y - y - r * r
                        /\ u * u + y * y - y <= r * r /\ u * u + y * y + y >= r * r
         /\ f >= 0 => LET u == x + 1
                          v == y - 1
                      IN /\ f + (2 - 2 * y) + 2 * x + 3 = (u + 1) * (u + 1) + v * v - v - r * r
                         /\ u * u + v * v - v <= r * r + (IF u < v THEN 0 ELSE 1)
                         /\ u * u + v * v + v >= r * r
  <1> DEFINE A == x * x
             B == y * y
             C == r * r
  <1>1. A \in Int /\ B \in Int /\ C \in Int
    BY SMT
  <1>2. /\ (x + 1) * (x + 1) = A + 2 * x + 1 /\ (x + 1 + 1) * (x + 1 + 1) = A + 4 * x + 4
        /\ (y - 1) * (y - 1) = B - 2 * y + 1
    BY SMT
  <1>3. f = A + 2 * x + 1 + B - y - C /\ A + B - y <= C /\ A + B + y >= C
    BY <1>2
  <1> HIDE DEF A, B, C
  <1>4. ASSUME f < 0
        PROVE  /\ f + 2 * x + 3 = (A + 4 * x + 4) + B - y - C
               /\ (A + 2 * x + 1) + B - y <= C /\ (A + 2 * x + 1) + B + y >= C
    BY <1>1, <1>3, <1>4, SMT
  <1>5. ASSUME f >= 0
        PROVE  /\ f + (2 - 2 * y) + 2 * x + 3 = (A + 4 * x + 4) + (B - 2 * y + 1) - (y - 1) - C
               /\ (A + 2 * x + 1) + (B - 2 * y + 1) - (y - 1) <= C + (IF x + 1 < y - 1 THEN 0 ELSE 1)
               /\ (A + 2 * x + 1) + (B - 2 * y + 1) + (y - 1) >= C
    BY <1>1, <1>3, <1>5, SMT
  <1> QED
    BY <1>2, <1>4, <1>5 DEF A, B, C

-----------------------------------------------------------------------------
(* Strokes keep their invariant, whoever begins them.                      *)

StrokeNext ==
  \/ \E c \in LineCalls : LineBegins(c)
  \/ \E c \in CircleCalls : CircleBegins(c)
  \/ StrokeSteps
  \/ StrokeReturns
  \/ UNCHANGED strokeVars

LEMMA OtherKinds ==
  /\ \A c \in LineCalls : c.op = "line" /\ c # NoStroke
  /\ \A c \in CircleCalls : c.op = "circle" /\ c # NoStroke
  /\ NoStroke.op = "none"
  <1>1. \A c \in LineCalls : c.op = "line"
    BY DEF LineCalls
  <1>2. \A c \in CircleCalls : c.op = "circle"
    BY DEF CircleCalls
  <1>3. NoStroke.op = "none"
    BY DEF NoStroke
  <1> QED
    BY <1>1, <1>2, <1>3

LEMMA LineBeginning ==
  ASSUME NEW c \in LineCalls, LineBegins(c), StrokeTypeOK
  PROVE  StrokeTypeOK' /\ StrokeInv'
  <1>1. /\ stroke' = c /\ penX' = c.x0 /\ penY' = c.y0 /\ error' = DeltaX(c) + DeltaY(c)
        /\ points' = {<<c.x0, c.y0>>} /\ ddx' = ddx /\ ddy' = ddy
    BY DEF LineBegins
  <1>2. c.x0 \in Int /\ c.x1 \in Int /\ c.y0 \in Int /\ c.y1 \in Int
    BY DEF LineCalls
  <1>3. DeltaX(c) \in Nat /\ -DeltaY(c) \in Nat /\ DeltaY(c) \in Int
    BY <1>2, SMT DEF DeltaX, DeltaY, Abs
  <1>4. penX' \in Int /\ penY' \in Int /\ error' \in Int
    BY <1>1, <1>2, <1>3, SMT
  <1>5. Walks(c, 0, 0, penX', penY', error')
    <2>1. Step(c.x0, c.x1) \in Int /\ Step(c.y0, c.y1) \in Int
      BY <1>2, EndOfWalk
    <2>2. penX' = c.x0 + 0 * Step(c.x0, c.x1) /\ penY' = c.y0 + 0 * Step(c.y0, c.y1)
      BY <1>1, <1>2, <2>1, SMT
    <2> DEFINE a == DeltaX(c)
               b == -DeltaY(c)
    <2>3. a \in Nat /\ b \in Nat /\ error' = a - b
      BY <1>1, <1>3, SMT
    <2>4. Walks(c, 0, 0, penX', penY', error') <=>
            /\ 0 \in Nat /\ 0 \in Nat /\ 0 <= a /\ 0 <= b
            /\ penX' = c.x0 + 0 * Step(c.x0, c.x1) /\ penY' = c.y0 + 0 * Step(c.y0, c.y1)
            /\ error' = (0 + 1) * a - (0 + 1) * b
            /\ b <= a => 0 <= 0 /\ -a <= 2 * (0 * a - 0 * b) /\ 2 * (0 * a - 0 * b) <= a
            /\ a < b => 0 <= 0 /\ -b <= 2 * (0 * b - 0 * a) /\ 2 * (0 * b - 0 * a) <= b
      BY DEF Walks
    <2> HIDE DEF a, b
    <2>5. /\ 0 \in Nat /\ 0 <= a /\ 0 <= b
          /\ error' = (0 + 1) * a - (0 + 1) * b
          /\ b <= a => 0 <= 0 /\ -a <= 2 * (0 * a - 0 * b) /\ 2 * (0 * a - 0 * b) <= a
          /\ a < b => 0 <= 0 /\ -b <= 2 * (0 * b - 0 * a) /\ 2 * (0 * b - 0 * a) <= b
      BY <2>3, SMT
    <2> QED
      BY <2>2, <2>4, <2>5
  <1>6. Walks(c, Abs(penX' - c.x0), Abs(penY' - c.y0), penX', penY', error')
    BY <1>5, WalkedSoFar
  <1>7. LineIsTrue'
    <2> DEFINE a == DeltaX(c)
               b == -DeltaY(c)
               i == Abs(penX' - c.x0)
               j == Abs(penY' - c.y0)
    <2>1. /\ penX' = c.x0 + i * Step(c.x0, c.x1) /\ i <= a
          /\ penY' = c.y0 + j * Step(c.y0, c.y1) /\ j <= b
          /\ error' = (j + 1) * a - (i + 1) * b
          /\ 2 * Abs(j * a - i * b) <= (IF a < b THEN b ELSE a)
          /\ IF a < b THEN i <= j ELSE j <= i
      BY <1>4, <1>6, LineIsAWalk
    <2>2. WalkedX' = i /\ WalkedY' = j /\ LongX' = a /\ LongY' = b
      BY <1>1 DEF WalkedX, WalkedY, LongX, LongY
    <2>3. stroke' = c
      BY <1>1
    <2> HIDE DEF a, b, i, j
    <2> QED
      BY <2>1, <2>2, <2>3 DEF LineIsTrue, LineWalk, OffLine, Longer
  <1>8. CircleIsRound'
    BY <1>1, OtherKinds DEF CircleIsRound
  <1>9. StrokeTypeOK'
    BY <1>1, <1>2, <1>4 DEF StrokeTypeOK, Pixels
  <1> QED
    BY <1>7, <1>8, <1>9 DEF StrokeInv

LEMMA LineStepping == LineStep /\ StrokeTypeOK /\ StrokeInv => StrokeTypeOK' /\ StrokeInv'
  <1> SUFFICES ASSUME LineStep, StrokeTypeOK, StrokeInv PROVE StrokeTypeOK' /\ StrokeInv'
    OBVIOUS
  <1> DEFINE c == stroke
  <1>1. c \in LineCalls /\ c.op = "line"
    BY OtherKinds DEF LineStep, StrokeTypeOK
  <1>2. c.x0 \in Int /\ c.x1 \in Int /\ c.y0 \in Int /\ c.y1 \in Int
    BY <1>1 DEF LineCalls
  <1>3. /\ stroke' = c /\ ddx' = ddx /\ ddy' = ddy
        /\ penX' = penX + (IF 2 * error >= DeltaY(c) THEN Step(c.x0, c.x1) ELSE 0)
        /\ penY' = penY + (IF 2 * error <= DeltaX(c) THEN Step(c.y0, c.y1) ELSE 0)
        /\ error' = error + (IF 2 * error >= DeltaY(c) THEN DeltaY(c) ELSE 0)
                          + (IF 2 * error <= DeltaX(c) THEN DeltaX(c) ELSE 0)
        /\ points' = points \cup {<<penX', penY'>>}
        /\ ~(penX = c.x1 /\ penY = c.y1)
    BY DEF LineStep, StepsX, StepsY, AtEnd
  <1>4. penX \in Int /\ penY \in Int /\ error \in Int /\ points \in SUBSET Pixels
    BY DEF StrokeTypeOK
  <1>5. DeltaX(c) \in Int /\ DeltaY(c) \in Int /\ Step(c.x0, c.x1) \in Int /\ Step(c.y0, c.y1) \in Int
    BY <1>2, SMT DEF DeltaX, DeltaY, Abs, Step
  <1>6. penX' \in Int /\ penY' \in Int /\ error' \in Int
    BY <1>3, <1>4, <1>5, SMT
  <1>7. StrokeTypeOK'
    BY <1>1, <1>3, <1>4, <1>6 DEF StrokeTypeOK, Pixels
  <1>8. Walks(c, Abs(penX - c.x0), Abs(penY - c.y0), penX, penY, error)
    BY <1>1, <1>4, LineIsAWalk
       DEF StrokeInv, LineIsTrue, LineWalk, WalkedX, WalkedY, LongX, LongY, OffLine, Longer
  <1> DEFINE i2 == Abs(penX - c.x0) + (IF 2 * error >= DeltaY(c) THEN 1 ELSE 0)
             j2 == Abs(penY - c.y0) + (IF 2 * error <= DeltaX(c) THEN 1 ELSE 0)
  <1>9. Walks(c, i2, j2, penX', penY', error')
    BY <1>1, <1>3, <1>8, WalkOn
  <1> HIDE DEF i2, j2
  <1>10. Walks(c, Abs(penX' - c.x0), Abs(penY' - c.y0), penX', penY', error')
    BY <1>1, <1>9, WalkedSoFar
  <1>11. LineIsTrue'
    BY <1>1, <1>3, <1>6, <1>10, LineIsAWalk
       DEF LineIsTrue, LineWalk, WalkedX, WalkedY, LongX, LongY, OffLine, Longer
  <1>12. CircleIsRound'
    BY <1>1, <1>3 DEF CircleIsRound
  <1> QED
    BY <1>7, <1>11, <1>12 DEF StrokeInv

LEMMA CircleBeginning ==
  ASSUME NEW c \in CircleCalls, CircleBegins(c), StrokeTypeOK
  PROVE  StrokeTypeOK' /\ StrokeInv'
  <1>1. /\ stroke' = c /\ penX' = 0 /\ penY' = c.r /\ error' = 1 - c.r
        /\ ddx' = 1 /\ ddy' = -2 * c.r
        /\ points' = {<<c.x0, c.y0 + c.r>>, <<c.x0, c.y0 - c.r>>,
                      <<c.x0 + c.r, c.y0>>, <<c.x0 - c.r, c.y0>>}
    BY DEF CircleBegins
  <1>2. c.x0 \in Int /\ c.y0 \in Int /\ c.r \in Nat /\ c.op = "circle"
    BY DEF CircleCalls
  <1>3. points' \in SUBSET Pixels
    <2>1. c.x0 + c.r \in Int /\ c.x0 - c.r \in Int /\ c.y0 + c.r \in Int /\ c.y0 - c.r \in Int
      BY <1>2, SMT
    <2> QED
      BY <1>1, <1>2, <2>1 DEF Pixels
  <1>4. penX' \in Int /\ penY' \in Int /\ error' \in Int /\ ddx' \in Int /\ ddy' \in Int
    BY <1>1, <1>2, SMT
  <1>5. StrokeTypeOK'
    BY <1>1, <1>3, <1>4 DEF StrokeTypeOK
  <1>6. LineIsTrue'
    BY <1>1, <1>2 DEF LineIsTrue
  <1>7. CircleIsRound'
    <2> DEFINE q == c.r * c.r
    <2>1. q \in Int
      BY <1>2, SMT
    <2>2. (0 + 1) * (0 + 1) + c.r * c.r - c.r - c.r * c.r = 1 - c.r
      BY <1>2, SMT
    <2>3. /\ 0 <= c.r + 1 /\ 2 * 0 + 1 = 1
          /\ 0 * 0 + c.r * c.r - c.r <= c.r * c.r + (IF 0 < c.r THEN 0 ELSE 1)
          /\ 0 * 0 + c.r * c.r + c.r >= c.r * c.r
      BY <1>2, <2>1, SMT
    <2> QED
      BY <1>1, <2>2, <2>3 DEF CircleIsRound
  <1> QED
    BY <1>5, <1>6, <1>7 DEF StrokeInv

LEMMA OctantsArePixels ==
  ASSUME NEW c \in CircleCalls, NEW a \in Int, NEW b \in Int
  PROVE  Octants(c, a, b) \in SUBSET Pixels
  <1>1. c.x0 \in Int /\ c.y0 \in Int
    BY DEF CircleCalls
  <1>2. ASSUME NEW i \in {1, -1}, NEW j \in {1, -1}, NEW p \in {<<a, b>>, <<b, a>>}
        PROVE  <<c.x0 + i * p[1], c.y0 + j * p[2]>> \in Pixels
    <2>1. p[1] \in Int /\ p[2] \in Int
      OBVIOUS
    <2>2. c.x0 + i * p[1] \in Int /\ c.y0 + j * p[2] \in Int
      BY <1>1, <2>1, SMT
    <2> QED
      BY <2>2 DEF Pixels
  <1> QED
    BY <1>2 DEF Octants

LEMMA CircleStepping == CircleStep /\ StrokeTypeOK /\ StrokeInv => StrokeTypeOK' /\ StrokeInv'
  <1> SUFFICES ASSUME CircleStep, StrokeTypeOK, StrokeInv PROVE StrokeTypeOK' /\ StrokeInv'
    OBVIOUS
  <1> DEFINE r == stroke.r
  <1>1. stroke \in CircleCalls /\ stroke.op = "circle" /\ r \in Nat
    <2>1. stroke.op = "circle"
      BY DEF CircleStep
    <2>2. stroke \in CircleCalls
      BY <2>1, OtherKinds DEF StrokeTypeOK
    <2> QED
      BY <2>1, <2>2 DEF CircleCalls
  <1>2. penX \in Int /\ penY \in Int /\ error \in Int /\ points \in SUBSET Pixels
    BY DEF StrokeTypeOK
  <1>3. /\ 0 <= penX /\ penX <= penY + 1 /\ ddx = 2 * penX + 1 /\ ddy = -2 * penY
        /\ error = (penX + 1) * (penX + 1) + penY * penY - penY - r * r
        /\ penX * penX + penY * penY - penY <= r * r + (IF penX < penY THEN 0 ELSE 1)
        /\ penX * penX + penY * penY + penY >= r * r
    BY <1>1 DEF StrokeInv, CircleIsRound
  <1>4. penX < penY /\ penX * penX + penY * penY - penY <= r * r
    <2>1. penX < penY
      BY DEF CircleStep
    <2>2. penX * penX + penY * penY - penY <= r * r + 0
      BY <1>3, <2>1
    <2>3. r * r + 0 = r * r
      BY <1>1, SMT
    <2> QED
      BY <2>1, <2>2, <2>3
  <1>5. /\ stroke' = stroke /\ penX' = penX + 1 /\ ddx' = ddx + 2
        /\ points' = points \cup Octants(stroke, penX', penY')
    BY DEF CircleStep
  <1> HIDE DEF r
  <1>6. ASSUME error < 0
        PROVE  /\ penY' \in Int /\ error' \in Int /\ ddx' \in Int /\ ddy' \in Int
               /\ 0 <= penX' /\ penX' <= penY' + 1 /\ ddx' = 2 * penX' + 1 /\ ddy' = -2 * penY'
               /\ error' = (penX' + 1) * (penX' + 1) + penY' * penY' - penY' - r * r
               /\ penX' * penX' + penY' * penY' - penY' <= r * r + (IF penX' < penY' THEN 0 ELSE 1)
               /\ penX' * penX' + penY' * penY' + penY' >= r * r
    <2>1. ~Outside
      BY <1>2, <1>6, SMT DEF Outside
    <2>2. penY' = penY /\ ddy' = ddy /\ error' = error + 0 + ddx'
      BY <2>1 DEF CircleStep
    <2>3. /\ error' = error + 2 * penX + 3 /\ ddx' = 2 * penX' + 1 /\ ddy' = -2 * penY'
          /\ 0 <= penX' /\ penX' <= penY' + 1 /\ error' \in Int /\ ddx' \in Int /\ ddy' \in Int
      BY <1>2, <1>3, <1>4, <1>5, <2>2, SMT
    <2>4. /\ error' = (penX' + 1) * (penX' + 1) + penY' * penY' - penY' - r * r
          /\ penX' * penX' + penY' * penY' - penY' <= r * r
          /\ penX' * penX' + penY' * penY' + penY' >= r * r
      BY <1>1, <1>2, <1>3, <1>4, <1>5, <1>6, <2>2, <2>3, ArcStep
    <2>5. /\ penX' * penX' + penY' * penY' - penY' \in Int /\ r * r \in Int
          /\ (IF penX' < penY' THEN 0 ELSE 1) \in {0, 1}
      BY <1>1, <1>2, <1>5, <2>2, SMT
    <2>6. penX' * penX' + penY' * penY' - penY' <= r * r + (IF penX' < penY' THEN 0 ELSE 1)
      BY <2>4, <2>5, SMT
    <2> QED
      BY <1>2, <2>2, <2>3, <2>4, <2>6
  <1>7. ASSUME error >= 0
        PROVE  /\ penY' \in Int /\ error' \in Int /\ ddx' \in Int /\ ddy' \in Int
               /\ 0 <= penX' /\ penX' <= penY' + 1 /\ ddx' = 2 * penX' + 1 /\ ddy' = -2 * penY'
               /\ error' = (penX' + 1) * (penX' + 1) + penY' * penY' - penY' - r * r
               /\ penX' * penX' + penY' * penY' - penY' <= r * r + (IF penX' < penY' THEN 0 ELSE 1)
               /\ penX' * penX' + penY' * penY' + penY' >= r * r
    <2>1. Outside
      BY <1>7 DEF Outside
    <2>2. penY' = penY - 1 /\ ddy' = ddy + 2 /\ error' = error + ddy' + ddx'
      BY <2>1 DEF CircleStep
    <2>3. /\ error' = error + (2 - 2 * penY) + 2 * penX + 3
          /\ ddx' = 2 * penX' + 1 /\ ddy' = -2 * penY'
          /\ 0 <= penX' /\ penX' <= penY' + 1 /\ penY' \in Int
          /\ error' \in Int /\ ddx' \in Int /\ ddy' \in Int
      BY <1>2, <1>3, <1>4, <1>5, <2>2, SMT
    <2>4. /\ error' = (penX' + 1) * (penX' + 1) + penY' * penY' - penY' - r * r
          /\ penX' * penX' + penY' * penY' - penY' <= r * r + (IF penX' < penY' THEN 0 ELSE 1)
          /\ penX' * penX' + penY' * penY' + penY' >= r * r
      BY <1>1, <1>2, <1>3, <1>4, <1>5, <1>7, <2>2, <2>3, ArcStep
    <2> QED
      BY <2>3, <2>4
  <1>8. error < 0 \/ error >= 0
    BY <1>2, SMT
  <1>9. CircleIsRound'
    <2>1. stroke'.r = r
      BY <1>5 DEF r
    <2> QED
      BY <1>6, <1>7, <1>8, <2>1 DEF CircleIsRound
  <1>10. LineIsTrue'
    BY <1>1, <1>5 DEF LineIsTrue
  <1>11. penX' \in Int
    BY <1>2, <1>5, SMT
  <1>12. points' \in SUBSET Pixels
    <2>1. penY' \in Int
      BY <1>6, <1>7, <1>8
    <2> QED
      BY <1>1, <1>2, <1>5, <1>11, <2>1, OctantsArePixels
  <1>13. StrokeTypeOK'
    BY <1>1, <1>5, <1>6, <1>7, <1>8, <1>11, <1>12 DEF StrokeTypeOK
  <1> QED
    BY <1>9, <1>10, <1>13 DEF StrokeInv

LEMMA StrokesStayTrue == StrokeNext /\ StrokeTypeOK /\ StrokeInv => StrokeTypeOK' /\ StrokeInv'
  <1> SUFFICES ASSUME StrokeNext, StrokeTypeOK, StrokeInv PROVE StrokeTypeOK' /\ StrokeInv'
    OBVIOUS
  <1>1. ASSUME NEW c \in LineCalls, LineBegins(c) PROVE StrokeTypeOK' /\ StrokeInv'
    BY <1>1, LineBeginning
  <1>2. ASSUME NEW c \in CircleCalls, CircleBegins(c) PROVE StrokeTypeOK' /\ StrokeInv'
    BY <1>2, CircleBeginning
  <1>3. CASE StrokeSteps
    BY <1>3, LineStepping, CircleStepping DEF StrokeSteps
  <1>4. CASE StrokeReturns
    <2>1. StrokeEnds
      BY <1>4 DEF StrokeReturns, LineReturns, CircleReturns
    <2>2. StrokeTypeOK'
      BY <2>1 DEF StrokeEnds, StrokeTypeOK
    <2>3. stroke' = NoStroke
      BY <2>1 DEF StrokeEnds
    <2> QED
      BY <2>2, <2>3, OtherKinds DEF StrokeInv, LineIsTrue, CircleIsRound
  <1>5. CASE UNCHANGED strokeVars
    BY <1>5 DEF strokeVars, loopState, StrokeTypeOK, StrokeInv, LineIsTrue, LineWalk,
                CircleIsRound, WalkedX, WalkedY, LongX, LongY, OffLine, Longer
  <1> QED
    BY <1>1, <1>2, <1>3, <1>4, <1>5 DEF StrokeNext

-----------------------------------------------------------------------------
(* Calls keep their types.                                                 *)

LEMMA CoordinatesAreInts ==
  Xs \subseteq Int /\ Ys \subseteq Int /\ Radii \subseteq Nat /\ Lines \subseteq LineCalls
    /\ \A size \in Areas : size[1] \in Int /\ size[2] \in Int
  <1>1. Xs \subseteq Int /\ Ys \subseteq Int /\ Radii \subseteq Nat /\ Lines \subseteq LineCalls
    BY DrawingAssumption, Sizes, SMT
  <1>2. \A size \in Areas : size[1] \in Int /\ size[2] \in Int
    <2> SUFFICES ASSUME NEW size \in Areas PROVE size[1] \in Int /\ size[2] \in Int
      OBVIOUS
    <2>1. size \in (0 .. ByteRange - 1) \X (0 .. ByteRange - 1)
      BY DrawingAssumption
    <2> QED
      BY <2>1, Sizes, SMT
  <1> QED
    BY <1>1, <1>2

LEMMA NoCallIsNone == NoCall.op = "none"
  BY DEF NoCall

\* An image or an FX bitmap begins.
LEMMA ArealBegins ==
  ASSUME CallOK, NEW a \in Int, NEW b \in Int, NEW white \in BOOLEAN, NEW op \in Areals,
         NEW size, NEW f, NEW g,
         Begins(Areal(op, a, b, size, white, f, g)), UNCHANGED <<todo, textVars>>
  PROVE  CallOK'
  <1> DEFINE c == Areal(op, a, b, size, white, f, g)
  <1>1. c.op = op /\ c.x = a /\ c.y = b /\ c.white = white
    BY DEF Areal
  <1>2. /\ call' = c /\ page' = 0 /\ px' = 0 /\ todo' = todo /\ cursor' = cursor
    BY DEF Begins, textVars
  <1>3. op # "glyph"
    BY DEF Areals, Paged, Fx
  <1> HIDE DEF c
  <1>4. call'.x \in Int /\ call'.y \in Int /\ call'.white \in BOOLEAN /\ call'.op # "glyph"
    BY <1>1, <1>2, <1>3
  <1> QED
    BY <1>2, <1>4 DEF CallOK

LEMMA ImageCalls == CallOK /\ BeginImage => CallOK'
  <1> SUFFICES ASSUME CallOK, BeginImage PROVE CallOK'
    OBVIOUS
  <1>1. PICK a \in Xs, b \in Ys, size \in Areas :
          \/ \E op \in {"bitmap", "xy"}, white \in BOOLEAN :
               DrawImage(Areal(op, a, b, size, white, 0, 0))
          \/ \E op \in {"overwrite", "self", "plus"}, f \in Frames :
               DrawImage(Areal(op, a, b, size, TRUE, f, 0))
          \/ \E f, g \in Frames : DrawImage(Areal("external", a, b, size, TRUE, f, g))
    BY DEF BeginImage
  <1>2. PICK op \in {"bitmap", "xy", "overwrite", "self", "plus", "external"},
             white \in BOOLEAN, f \in Frames \cup {0}, g \in Frames \cup {0} :
          DrawImage(Areal(op, a, b, size, white, f, g))
    BY <1>1
  <1>3. op \in Areals /\ a \in Int /\ b \in Int
    BY CoordinatesAreInts DEF Areals, Paged
  <1> QED
    BY <1>2, <1>3, ArealBegins DEF DrawImage

LEMMA FxCalls == CallOK /\ BeginFx => CallOK'
  <1> SUFFICES ASSUME CallOK, BeginFx PROVE CallOK'
    OBVIOUS
  <1>1. CASE FxRefused
    BY <1>1 DEF FxRefused, CallOK, loopVars
  <1>2. ASSUME NEW a \in Xs, NEW b \in Ys, NEW size \in Areas, NEW op \in Fx, NEW f \in Frames,
               FxDraw(Areal(op, a, b, size, TRUE, f, 0))
        PROVE  CallOK'
    <2>1. op \in Areals /\ a \in Int /\ b \in Int
      BY CoordinatesAreInts DEF Areals
    <2> QED
      BY <1>2, <2>1, ArealBegins DEF FxDraw
  <1> QED
    BY <1>1, <1>2 DEF BeginFx

LEMMA RectCalls == CallOK /\ BeginRect => CallOK'
  <1> SUFFICES ASSUME CallOK, BeginRect PROVE CallOK'
    OBVIOUS
  <1>1. PICK a \in Xs, b \in Ys, size \in Areas, white \in BOOLEAN :
          \E rects \in {<<[x |-> a, y |-> b, w |-> size[1], h |-> size[2]]>>,
                        Sides(a, b, size[1], size[2])} :
             FillRects(rects, [op |-> "rect", white |-> white, rects |-> rects])
    BY DEF BeginRect
  <1>2. PICK rects \in {<<[x |-> a, y |-> b, w |-> size[1], h |-> size[2]]>>,
                        Sides(a, b, size[1], size[2])} :
          FillRects(rects, [op |-> "rect", white |-> white, rects |-> rects])
    BY <1>1
  <1> DEFINE w == size[1]
             h == size[2]
  <1>3. a \in Int /\ b \in Int /\ w \in Int /\ h \in Int
    BY CoordinatesAreInts
  <1> HIDE DEF w, h
  <1>4. b + h - 1 \in Int /\ a + w - 1 \in Int
    BY <1>3, SMT
  <1>5. Int16(b + h - 1) \in Int /\ Int16(a + w - 1) \in Int
    BY <1>4, Int16IsInt
  <1>6. <<[x |-> a, y |-> b, w |-> w, h |-> h]>> \in Seq(Rects)
    <2>1. [x |-> a, y |-> b, w |-> w, h |-> h] \in Rects
      BY <1>3 DEF Rects
    <2> QED
      BY <2>1
  <1>7. Sides(a, b, w, h) \in Seq(Rects)
    <2>1. [x |-> a, y |-> b, w |-> w, h |-> 1] \in Rects
      BY <1>3 DEF Rects
    <2>2. [x |-> a, y |-> Int16(b + h - 1), w |-> w, h |-> 1] \in Rects
      BY <1>3, <1>5 DEF Rects
    <2>3. [x |-> a, y |-> b, w |-> 1, h |-> h] \in Rects
      BY <1>3 DEF Rects
    <2>4. [x |-> Int16(a + w - 1), y |-> b, w |-> 1, h |-> h] \in Rects
      BY <1>3, <1>5 DEF Rects
    <2>5. << [x |-> a, y |-> b, w |-> w, h |-> 1],
             [x |-> a, y |-> Int16(b + h - 1), w |-> w, h |-> 1],
             [x |-> a, y |-> b, w |-> 1, h |-> h],
             [x |-> Int16(a + w - 1), y |-> b, w |-> 1, h |-> h] >> \in Seq(Rects)
      BY <2>1, <2>2, <2>3, <2>4
    <2>6. <<>> \in Seq(Rects)
      OBVIOUS
    <2> QED
      BY <2>5, <2>6 DEF Sides
  <1>8. rects \in Seq(Rects)
    BY <1>2, <1>6, <1>7 DEF w, h
  <1>9. /\ call' = [op |-> "rect", white |-> white, rects |-> rects]
        /\ page' = 0 /\ px' = 0 /\ todo' = rects /\ cursor' = cursor
    BY <1>2 DEF FillRects, Begins, textVars
  <1>10. call'.op = "rect" /\ call'.white = white
    BY <1>9
  <1> QED
    BY <1>8, <1>9, <1>10 DEF CallOK, Areals, Paged, Fx

LEMMA NewLineIsInt ==
  ASSUME NEW at \in [x : Int, y : Int]
  PROVE  NewLine(at) \in [x : Int, y : Int]
  <1>1. at.y + PageBits \in Int
    BY Sizes, SMT
  <1> QED
    BY <1>1, Int16IsInt DEF NewLine

LEMMA TextCalls == CallOK /\ BeginText => CallOK'
  <1> SUFFICES ASSUME CallOK, BeginText PROVE CallOK'
    OBVIOUS
  <1>1. PICK char \in Frames : WriteGlyph(char)
    BY DEF BeginText
  <1>2. /\ call' = [op |-> "glyph", x |-> cursor'.x, y |-> cursor'.y, w |-> GlyphWidth + 1,
                    h |-> PageBits, frame |-> char]
        /\ page' = 0 /\ px' = 0 /\ todo' = todo
        /\ cursor' \in {cursor, NewLine(cursor)}
    BY <1>1 DEF WriteGlyph, Begins
  <1>3. call'.op = "glyph" /\ call'.frame = char
    BY <1>2
  <1>4. cursor' \in [x : Int, y : Int]
    BY <1>2, NewLineIsInt DEF CallOK
  <1> QED
    BY <1>2, <1>3, <1>4 DEF CallOK, Areals, Paged, Fx

LEMMA StrokeCalls == CallOK /\ BeginStroke => CallOK'
  <1> SUFFICES ASSUME CallOK, BeginStroke PROVE CallOK'
    OBVIOUS
  <1>1. PICK white \in BOOLEAN : call' = [op |-> "stroke", white |-> white]
    BY DEF BeginStroke
  <1>2. call'.op = "stroke" /\ call'.white = white
    BY <1>1
  <1>3. page' = page /\ px' = px /\ todo' = todo /\ cursor' = cursor
    BY DEF BeginStroke, loopVars, textVars
  <1> QED
    BY <1>2, <1>3 DEF CallOK, Areals, Paged, Fx

\* The loops: the counters go up, the call stays or is over.
LEMMA LoopCalls ==
  ASSUME CallOK, page' \in Nat, px' \in Nat, todo' \in Seq(Rects),
         call' = call \/ call' = NoCall, cursor' \in [x : Int, y : Int]
  PROVE  CallOK'
  <1>1. CASE call' = call
    BY <1>1 DEF CallOK
  <1>2. CASE call' = NoCall
    BY <1>2, NoCallIsNone DEF CallOK, Areals, Paged, Fx
  <1> QED
    BY <1>1, <1>2

LEMMA ReturnCalls ==
  ASSUME CallOK, Returns, cursor' \in [x : Int, y : Int]
  PROVE  CallOK'
  <1>1. call' = NoCall /\ page' = 0 /\ px' = 0 /\ todo' = <<>>
    BY DEF Returns
  <1>2. <<>> \in Seq(Rects)
    OBVIOUS
  <1> QED
    BY <1>1, <1>2, LoopCalls

LEMMA AdvanceCalls ==
  ASSUME CallOK, NEW w, Advance(w)
  PROVE  CallOK'
  <1>1. page' \in {page, page + 1} /\ px' \in {px + 1, 0}
    BY DEF Advance
  <1>2. call' = call /\ todo' = todo /\ cursor' = cursor
    BY DEF Advance, textVars
  <1> QED
    BY <1>1, <1>2 DEF CallOK

LEMMA PaintCalls == DrawTypeOK /\ Paints => CallOK'
  <1> SUFFICES ASSUME DrawTypeOK, Paints PROVE CallOK'
    OBVIOUS
  <1>1. CallOK /\ page \in Nat /\ px \in Nat /\ todo \in Seq(Rects)
    BY DEF DrawTypeOK, CallOK
  <1>2. CASE PaintByte
    BY <1>1, <1>2, AdvanceCalls DEF PaintByte
  <1>3. CASE PaintBit
    BY <1>1, <1>3, AdvanceCalls DEF PaintBit
  <1>4. CASE SkipRow \/ FxSkipPage \/ FxPage
    <2>1. page' = page + 1 /\ px' = px /\ call' = call /\ todo' = todo /\ cursor' = cursor
      BY <1>4 DEF SkipRow, FxSkipPage, FxPage, textVars
    <2> QED
      BY <1>1, <2>1 DEF CallOK
  <1>5. CASE FillChunk
    <2> DEFINE r == ClipRect(Head(todo))
    <2>1. Head(todo) \in Rects
      BY <1>1, <1>5 DEF FillChunk
    <2>2. page < r.h
      BY <1>5 DEF FillChunk
    <2>3. r.y \in Int /\ r.h \in Int
      BY <1>1, <2>1, <2>2, ClippedRect
    <2>4. page' = page + Chunk(r.y + page, r.h - page)
      BY <1>5 DEF FillChunk
    <2> HIDE DEF r
    <2>5. (r.y + page) % PageBits \in 0 .. PageBits - 1
      BY <1>1, <2>3, Sizes, SMT
    <2>6. page' \in Nat
      BY <1>1, <2>2, <2>3, <2>4, <2>5, Sizes, SMT DEF Chunk, Smaller
    <2>7. px' = px /\ call' = call /\ todo' = todo /\ cursor' = cursor
      BY <1>5 DEF FillChunk, textVars
    <2> QED
      BY <1>1, <2>6, <2>7 DEF CallOK
  <1>6. CASE NextRect
    <2>1. todo # <<>> /\ todo' = Tail(todo) /\ page' = 0 /\ px' = px /\ call' = call /\ cursor' = cursor
      BY <1>6 DEF NextRect, textVars
    <2>2. todo' \in Seq(Rects)
      BY <1>1, <2>1
    <2> QED
      BY <1>1, <2>1, <2>2 DEF CallOK
  <1>7. CASE PaintColumn
    <2>1. page' = page /\ px' = px + 1 /\ call' = call /\ todo' = todo /\ cursor' = cursor
      BY <1>7 DEF PaintColumn, textVars
    <2> QED
      BY <1>1, <2>1 DEF CallOK
  <1> QED
    BY <1>2, <1>3, <1>4, <1>5, <1>6, <1>7 DEF Paints

LEMMA EndCalls == CallOK /\ Ends => CallOK'
  <1> SUFFICES ASSUME CallOK, Ends PROVE CallOK'
    OBVIOUS
  <1>1. Returns
    BY DEF Ends, PagedReturns, XYReturns, RectReturns, FxReadFails, FxReturns, GlyphReturns
  <1>2. cursor' \in [x : Int, y : Int]
    <2>1. CASE GlyphReturns
      <3>1. cursor' = [cursor EXCEPT !.x = Int16(cursor.x + GlyphWidth + 1)]
        BY <2>1 DEF GlyphReturns
      <3>2. cursor \in [x : Int, y : Int]
        BY DEF CallOK
      <3>3. cursor.x + GlyphWidth + 1 \in Int
        BY <3>2, DrawingAssumption, SMT
      <3>4. Int16(cursor.x + GlyphWidth + 1) \in Int
        BY <3>3, Int16IsInt
      <3> QED
        BY <3>1, <3>2, <3>4
    <2>2. CASE ~GlyphReturns
      <3>1. cursor' = cursor
        BY <2>2 DEF Ends, PagedReturns, XYReturns, RectReturns, FxReadFails, FxReturns, textVars
      <3> QED
        BY <3>1 DEF CallOK
    <2> QED
      BY <2>1, <2>2
  <1> QED
    BY <1>1, <1>2, ReturnCalls

LEMMA NextCalls == DrawTypeOK /\ DrawNext => CallOK'
  <1> SUFFICES ASSUME DrawTypeOK, DrawNext PROVE CallOK'
    OBVIOUS
  <1>1. CallOK
    BY DEF DrawTypeOK
  <1>2. CASE Begin
    BY <1>1, <1>2, ImageCalls, RectCalls, FxCalls, TextCalls, StrokeCalls DEF Begin
  <1>3. CASE Draw
    <2>1. CASE Paints \/ Ends
      BY <1>1, <2>1, PaintCalls, EndCalls
    <2>2. CASE Stroke
      BY <1>1, <2>2 DEF Stroke, CallOK, loopVars, textVars
    <2>3. CASE EndStroke
      <3>1. Returns /\ cursor' = cursor
        BY <2>3 DEF EndStroke, textVars
      <3>2. cursor' \in [x : Int, y : Int]
        BY <1>1, <3>1 DEF CallOK
      <3> QED
        BY <1>1, <3>1, <3>2, ReturnCalls
    <2> QED
      BY <1>3, <2>1, <2>2, <2>3 DEF Draw
  <1>4. CASE (\E white \in BOOLEAN : Fill(white)) \/ Clear \/ FxBegin
    <2>1. /\ call' = call /\ page' = page /\ px' = px /\ todo' = todo
          /\ cursor' = cursor \/ cursor' = Origin
      BY <1>4 DEF Fill, Clear, FxBegin, loopVars, textVars
    <2>2. Origin \in [x : Int, y : Int]
      BY DEF Origin
    <2> QED
      BY <1>1, <2>1, <2>2 DEF CallOK
  <1>5. CASE Text
    <2>1. /\ call' = call /\ page' = page /\ px' = px /\ todo' = todo
      BY <1>5 DEF Text, WriteNewLine, SetCursor, loopVars
    <2>2. cursor' \in [x : Int, y : Int]
      <3>1. CASE WriteNewLine
        BY <1>1, <3>1, NewLineIsInt DEF WriteNewLine, CallOK
      <3>2. ASSUME NEW a \in Xs, NEW b \in Ys, SetCursor(a, b)
            PROVE  cursor' \in [x : Int, y : Int]
        BY <3>2, CoordinatesAreInts DEF SetCursor
      <3> QED
        BY <1>5, <3>1, <3>2 DEF Text
    <2> QED
      BY <1>1, <2>1, <2>2 DEF CallOK
  <1> QED
    BY <1>2, <1>3, <1>4, <1>5 DEF DrawNext

-----------------------------------------------------------------------------
(* Steps of the whole.                                                     *)

LEMMA NextStrokes ==
  DrawTypeOK /\ DrawNext => StrokeNext /\ (stroke' # NoStroke => call'.op = "stroke")
  <1> SUFFICES ASSUME DrawTypeOK, DrawNext
               PROVE  StrokeNext /\ (stroke' # NoStroke => call'.op = "stroke")
    OBVIOUS
  <1>1. stroke # NoStroke => call.op = "stroke"
    BY DEF DrawTypeOK, StrokeIsCalled
  <1>2. CASE UNCHANGED strokeVars /\ (call' = call \/ call = NoCall)
    BY <1>1, <1>2, NoCallIsNone DEF StrokeNext, strokeVars
  <1>3. CASE UNCHANGED strokeVars /\ call.op # "stroke"
    BY <1>1, <1>3 DEF StrokeNext, strokeVars
  <1>4. CASE BeginImage \/ BeginRect \/ BeginFx \/ BeginText
    BY <1>2, <1>4 DEF BeginImage, BeginRect, BeginFx, BeginText, Fresh
  <1>5. CASE BeginStroke
    <2>1. call'.op = "stroke"
      BY <1>5 DEF BeginStroke
    <2>2. ASSUME NEW c \in Lines, LineBegins(c) PROVE StrokeNext
      BY <2>2, CoordinatesAreInts DEF StrokeNext
    <2>3. ASSUME NEW a \in Xs, NEW b \in Ys, NEW r \in Radii,
                 CircleBegins([op |-> "circle", x0 |-> a, y0 |-> b, r |-> r])
          PROVE  StrokeNext
      <3>1. a \in Int /\ b \in Int /\ r \in Nat
        BY CoordinatesAreInts
      <3>2. [op |-> "circle", x0 |-> a, y0 |-> b, r |-> r] \in CircleCalls
        BY <3>1 DEF CircleCalls
      <3> QED
        BY <2>3, <3>2 DEF StrokeNext
    <2> QED
      BY <1>5, <2>1, <2>2, <2>3 DEF BeginStroke
  <1>6. CASE (Paints \/ Ends) /\ UNCHANGED strokeVars
    <2>1. call.op \in Paged \cup Fx \cup {"xy", "rect", "glyph"}
      <3>1. CASE Paints
        BY <3>1 DEF Paints, PaintByte, SkipRow, PaintBit, FillChunk, NextRect, FxSkipPage,
                    FxPage, PaintColumn
      <3>2. CASE Ends
        BY <3>2 DEF Ends, PagedReturns, XYReturns, RectReturns, FxReadFails, FxReturns,
                    GlyphReturns
      <3> QED
        BY <1>6, <3>1, <3>2
    <2>2. call.op # "stroke"
      BY <2>1 DEF Paged, Fx
    <2> QED
      BY <1>3, <1>6, <2>2
  <1>7. CASE Stroke
    <2>1. StrokeSteps /\ call' = call
      BY <1>7 DEF Stroke
    <2>2. stroke' = stroke
      BY <2>1 DEF StrokeSteps, LineStep, CircleStep
    <2> QED
      BY <1>1, <2>1, <2>2 DEF StrokeNext
  <1>8. CASE EndStroke
    <2>1. StrokeReturns
      BY <1>8 DEF EndStroke
    <2>2. stroke' = NoStroke
      BY <2>1 DEF StrokeReturns, LineReturns, CircleReturns, StrokeEnds
    <2> QED
      BY <2>1, <2>2 DEF StrokeNext
  <1>9. CASE (\E white \in BOOLEAN : Fill(white)) \/ Clear
    BY <1>2, <1>9 DEF Fill, Clear
  <1>10. CASE Text /\ UNCHANGED strokeVars
    BY <1>2, <1>10 DEF Text, WriteNewLine, SetCursor
  <1>11. CASE FxBegin /\ UNCHANGED strokeVars
    BY <1>2, <1>11 DEF FxBegin
  <1> QED
    BY <1>4, <1>5, <1>6, <1>7, <1>8, <1>9, <1>10, <1>11 DEF DrawNext, Begin, Draw

LEMMA NextWrites ==
  DrawTypeOK /\ DrawNext /\ StrokeTypeOK' => Written
  <1> SUFFICES ASSUME DrawTypeOK, DrawNext, StrokeTypeOK' PROVE Written
    OBVIOUS
  <1>1. IsMemory(canvas) /\ points' \in SUBSET Pixels
    BY DEF DrawTypeOK, StrokeTypeOK
  <1>2. CASE BeginImage \/ BeginRect \/ BeginFx \/ BeginText
    <2>1. \A c : Begins(c) => canvas' = canvas
      BY DEF Begins
    <2>2. (\A c : DrawImage(c) => Begins(c)) /\ (\A c : FxDraw(c) => Begins(c))
      BY DEF DrawImage, FxDraw
    <2>3. \A rects, c : FillRects(rects, c) => Begins(c)
      BY DEF FillRects
    <2>4. \A char : WriteGlyph(char) => \E c : Begins(c)
      BY DEF WriteGlyph
    <2>5. FxRefused => canvas' = canvas
      BY DEF FxRefused
    <2>6. CASE BeginImage
      BY <2>1, <2>2, <2>6 DEF BeginImage, Written
    <2>7. CASE BeginRect
      BY <2>1, <2>3, <2>7 DEF BeginRect, Written
    <2>8. CASE BeginFx
      BY <2>1, <2>2, <2>5, <2>8 DEF BeginFx, Written
    <2>9. CASE BeginText
      BY <2>1, <2>4, <2>9 DEF BeginText, Written
    <2> QED
      BY <1>2, <2>6, <2>7, <2>8, <2>9
  <1>3. CASE BeginStroke
    <2>1. PICK white \in BOOLEAN : canvas' = DrawPoints(points', white)
      BY <1>3 DEF BeginStroke
    <2> QED
      BY <1>1, <2>1, PointsWrite DEF Written
  <1>4. CASE Paints
    <2>1. CASE SkipRow \/ NextRect \/ FxSkipPage
      BY <2>1 DEF SkipRow, NextRect, FxSkipPage, Written
    <2> QED
      BY <1>4, <2>1, PaintByteWrites, PaintBitWrites, FillChunkWrites, FxPageWrites,
         PaintColumnWrites DEF Paints
  <1>5. CASE Ends
    BY <1>5 DEF Ends, PagedReturns, XYReturns, RectReturns, FxReadFails, FxReturns,
                GlyphReturns, Written
  <1>6. CASE Stroke
    <2>1. canvas' = DrawPoints(points' \ points, call.white)
      BY <1>6 DEF Stroke
    <2>2. call.white \in BOOLEAN
      <3>1. stroke # NoStroke
        BY <1>6, OtherKinds DEF Stroke, StrokeSteps, LineStep, CircleStep
      <3> QED
        BY <3>1 DEF DrawTypeOK, StrokeIsCalled, CallOK
    <2>3. points' \ points \in SUBSET Pixels
      BY <1>1
    <2> QED
      BY <1>1, <2>1, <2>2, <2>3, PointsWrite DEF Written
  <1>7. CASE EndStroke
    BY <1>7 DEF EndStroke, Written
  <1>8. CASE \E white \in BOOLEAN : Fill(white)
    BY <1>1, <1>8, FillingStaysInside DEF Fill, Written
  <1>9. CASE Clear
    BY <1>1, <1>9, FillingStaysInside DEF Clear, Written
  <1>10. CASE Text \/ FxBegin
    BY <1>10 DEF Text, WriteNewLine, SetCursor, FxBegin, Written
  <1> QED
    BY <1>2, <1>3, <1>4, <1>5, <1>6, <1>7, <1>8, <1>9, <1>10 DEF DrawNext, Begin, Draw

LEMMA InitDrawInv == DrawInit => DrawInv
  <1> SUFFICES ASSUME DrawInit PROVE DrawInv
    OBVIOUS
  <1>1. canvas = [i \in Memory |-> IF i \in Framebuffer THEN {} ELSE Neighbour]
    BY DEF DrawInit
  <1>2. Neighbour \in Bytes /\ {} \in Bytes
    BY Sizes, SMT DEF Neighbour, Bytes, Bits
  <1>3. IsMemory(canvas) /\ NeighboursUntouched
    BY <1>1, <1>2 DEF IsMemory, NeighboursUntouched
  <1>4. call = NoCall /\ page = 0 /\ px = 0 /\ todo = <<>> /\ cursor = Origin
    BY DEF DrawInit
  <1>5. <<>> \in Seq(Rects) /\ Origin \in [x : Int, y : Int]
    BY DEF Origin
  <1>6. CallOK
    BY <1>4, <1>5, NoCallIsNone DEF CallOK, Areals, Paged, Fx
  <1>7. stroke = NoStroke /\ StrokeTypeOK
    BY DEF DrawInit, StrokeInit, StrokeTypeOK
  <1>8. StrokeInv
    BY <1>7, OtherKinds DEF StrokeInv, LineIsTrue, CircleIsRound
  <1> QED
    BY <1>3, <1>6, <1>7, <1>8 DEF DrawInv, DrawTypeOK, StrokeIsCalled

LEMMA StepDrawInv == DrawInv /\ [DrawNext]_drawVars => DrawInv'
  <1> SUFFICES ASSUME DrawInv, [DrawNext]_drawVars PROVE DrawInv'
    OBVIOUS
  <1>1. DrawTypeOK /\ NeighboursUntouched /\ StrokeInv /\ StrokeTypeOK /\ IsMemory(canvas)
    BY DEF DrawInv, DrawTypeOK
  <1>2. CASE DrawNext
    <2>1. StrokeTypeOK' /\ StrokeInv' /\ StrokeIsCalled'
      BY <1>1, <1>2, NextStrokes, StrokesStayTrue DEF StrokeIsCalled
    <2>2. CallOK'
      BY <1>1, <1>2, NextCalls
    <2>3. IsMemory(canvas') /\ NeighboursUntouched'
      <3>1. Written
        BY <1>1, <1>2, <2>1, NextWrites
      <3>2. \A i \in Memory \ Framebuffer : canvas'[i] = canvas[i]
        BY <3>1 DEF Written, Changed
      <3> QED
        BY <1>1, <3>1, <3>2 DEF Written, Changed, NeighboursUntouched
    <2> QED
      BY <2>1, <2>2, <2>3 DEF DrawInv, DrawTypeOK
  <1>3. CASE UNCHANGED drawVars
    <2>1. /\ canvas' = canvas /\ call' = call /\ page' = page /\ px' = px /\ todo' = todo
          /\ cursor' = cursor /\ UNCHANGED strokeVars /\ stroke' = stroke
      BY <1>3 DEF drawVars, blitVars, loopVars, textVars, strokeVars
    <2>2. StrokeTypeOK' /\ StrokeInv'
      BY <1>1, <2>1, StrokesStayTrue DEF StrokeNext
    <2>3. CallOK' /\ StrokeIsCalled'
      BY <1>1, <2>1 DEF DrawTypeOK, CallOK, StrokeIsCalled
    <2> QED
      BY <1>1, <2>1, <2>2, <2>3 DEF DrawInv, DrawTypeOK, NeighboursUntouched
  <1> QED
    BY <1>2, <1>3

-----------------------------------------------------------------------------
\* The inductive invariant of the drawing calls: types, strokes, and the bytes
\* around the framebuffer.
THEOREM DrawInvariance == DrawSpec => []DrawInv
  BY InitDrawInv, StepDrawInv, PTL DEF DrawSpec

\* No drawing call of Arduboy2, Sprites, FX or the text writes outside of the
\* framebuffer, whatever coordinates, sizes and frames it is given and however the
\* int16_t and uint8_t of compat.hpp wrap.
THEOREM NeighboursStayUntouched == DrawSpec => []NeighboursUntouched
  BY DrawInvariance, PTL DEF DrawInv

\* draw_line() never leaves the line by more than half a pixel and ends at its end;
\* drawCircle() never leaves the circle by more than a pixel.
THEOREM StrokesAreTrue == DrawSpec => []StrokeInv
  BY DrawInvariance, PTL DEF DrawInv

-----------------------------------------------------------------------------
(* From here on: every pixel is the picture's.  First what an int16_t and  *)
(* a uint8_t can be, then what each writer does to one pixel, then what    *)
(* each turn of each loop has drawn.                                       *)

LEMMA Ranges ==
  /\ Width + ByteRange <= Half /\ Height + ByteRange <= Half
  /\ Width < ByteRange /\ Height < ByteRange /\ PageBits <= ByteRange
  /\ ByteRange % PageBits = 0 /\ PageBits <= Height
  <1>1. /\ Width + ByteRange <= Half /\ Height + ByteRange <= Half
        /\ Width < ByteRange /\ Height < ByteRange /\ ByteRange % PageBits = 0
    BY CanvasAssumption
  <1>2. 1 * PageBits <= Pages * PageBits
    BY Sizes, SMT
  <1>3. PageBits <= Height
    BY <1>2, Sizes, SMT DEF Height
  <1> QED
    BY <1>1, <1>3, Sizes, SMT

\* A number of an int16_t, moved by no more than a byte, is seen on the screen only
\* where it is.
LEMMA NoAlias ==
  ASSUME NEW v \in Int, -Half - ByteRange <= v, v < Half + ByteRange,
         NEW n \in Nat, n + ByteRange <= Half, NEW a \in 0 .. n - 1
  PROVE  Int16(v) = a <=> v = a
  <1>1. Half \in Nat /\ ByteRange \in Nat /\ ByteRange <= Half /\ Half >= 1
    BY Sizes, Ranges, SMT
  <1> DEFINE u == v + Half
             m == 2 * Half
  <1>2. Int16(v) = (u % m) - Half
    BY DEF Int16
  <1>3. u \in Int /\ m \in Nat /\ m >= 1 /\ -ByteRange <= u /\ u < m + ByteRange
    BY <1>1, SMT
  <1>4. CASE u < 0
    <2>1. u % m = u + m
      BY <1>1, <1>3, <1>4, SMT
    <2> HIDE DEF m
    <2> QED
      BY <1>1, <1>2, <1>4, <2>1, SMT DEF m
  <1>5. CASE 0 <= u /\ u < m
    <2>1. u % m = u
      BY <1>3, <1>5, SMT
    <2> QED
      BY <1>1, <1>2, <2>1, SMT
  <1>6. CASE u >= m
    <2>1. u % m = u - m
      BY <1>1, <1>3, <1>6, SMT
    <2> QED
      BY <1>1, <1>2, <1>6, <2>1, SMT
  <1> QED
    BY <1>3, <1>4, <1>5, <1>6, SMT

\* A row is in one page, at one place of it.
LEMMA RowIs ==
  ASSUME NEW y \in Int
  PROVE  /\ y \div PageBits \in Int /\ y % PageBits \in 0 .. PageBits - 1
         /\ y = (y \div PageBits) * PageBits + (y % PageBits)
  <1>1. PageBits \in Nat /\ PageBits > 0
    BY Sizes, SMT
  <1>2. y % PageBits \in 0 .. PageBits - 1
    BY <1>1, SMT
  <1>3. y \div PageBits \in Int
    BY <1>1, SMT
  <1>4. y = PageBits * (y \div PageBits) + (y % PageBits)
    BY <1>1, SMT
  <1> DEFINE q == y \div PageBits
             r == y % PageBits
  <1> HIDE DEF q, r
  <1>5. q \in Int /\ r \in Int /\ y = PageBits * q + r
    BY <1>1, <1>2, <1>3, <1>4, SMT DEF q, r
  <1>6. y = q * PageBits + r
    BY <1>1, <1>5, SMT
  <1>7. y = (y \div PageBits) * PageBits + (y % PageBits)
    <2>1. q = y \div PageBits /\ r = y % PageBits
      BY DEF q, r
    <2> QED
      BY <1>6, <2>1
  <1> QED
    BY <1>2, <1>3, <1>7

LEMMA NotFurther ==
  ASSUME NEW p \in Int, NEW q \in Int, NEW n \in Nat, n >= 1, NEW r \in 0 .. n - 1, NEW s \in 0 .. n - 1,
         p * n + r = q * n + s
  PROVE  p <= q
  <1> SUFFICES ASSUME q + 1 <= p PROVE FALSE
    BY SMT
  <1>1. (q + 1) * n <= p * n
    BY SMT
  <1>2. q * n + n <= p * n
    BY <1>1, SMT
  <1> DEFINE pn == p * n
             qn == q * n
  <1>3. pn \in Int /\ qn \in Int
    BY SMT
  <1> HIDE DEF pn, qn
  <1> QED
    BY <1>2, <1>3, SMT DEF pn, qn

LEMMA SamePlace ==
  ASSUME NEW p \in Int, NEW q \in Int, NEW n \in Nat, n >= 1, NEW r \in 0 .. n - 1, NEW s \in 0 .. n - 1,
         p * n + r = q * n + s
  PROVE  p = q /\ r = s
  <1>1. p <= q
    BY NotFurther
  <1>2. q <= p
    BY NotFurther
  <1>3. p = q
    BY <1>1, <1>2, SMT
  <1> QED
    BY <1>3, SMT

LEMMA PageIs ==
  ASSUME NEW q \in Int, NEW r \in 0 .. PageBits - 1
  PROVE  (q * PageBits + r) \div PageBits = q /\ (q * PageBits + r) % PageBits = r
  <1> DEFINE y == q * PageBits + r
  <1>1. y \in Int
    BY Sizes, SMT
  <1> HIDE DEF y
  <1>2. /\ y \div PageBits \in Int /\ y % PageBits \in 0 .. PageBits - 1
        /\ y = (y \div PageBits) * PageBits + (y % PageBits)
    BY <1>1, RowIs
  <1> QED
    BY <1>2, SamePlace, Sizes DEF y

\* No two pixels of the screen are the same bit.
LEMMA OneIndex ==
  ASSUME NEW q \in 0 .. Pages - 1, NEW x \in Int, 0 <= x, x < Width, NEW a \in 0 .. Width - 1, NEW b \in 0 .. Height - 1
  PROVE  q * Width + x = PageIndex(a, b) <=> (x = a /\ q = b \div PageBits)
  <1>0. b \in Int /\ 0 <= b /\ b < Height
    BY Sizes, SMT
  <1>1. b \div PageBits \in 0 .. Pages - 1
    BY <1>0, PageOfRow
  <1>2. q \in Int /\ b \div PageBits \in Int /\ x \in 0 .. Width - 1 /\ Width >= 1
    BY <1>1, Sizes, SMT
  <1>3. PageIndex(a, b) = (b \div PageBits) * Width + a
    BY DEF PageIndex
  <1> DEFINE bq == b \div PageBits
  <1> HIDE DEF bq
  <1>4. ASSUME q * Width + x = bq * Width + a PROVE x = a /\ q = bq
    BY <1>2, <1>4, SamePlace, Sizes DEF bq
  <1> QED
    BY <1>3, <1>4 DEF bq

LEMMA OneBit ==
  ASSUME NEW x \in Int, NEW y \in Int, InBounds(x, y), NEW a \in 0 .. Width - 1, NEW b \in 0 .. Height - 1
  PROVE  (PageIndex(x, y) = PageIndex(a, b) /\ y % PageBits = b % PageBits) <=> (x = a /\ y = b)
  <1>1. 0 <= x /\ x < Width /\ 0 <= y /\ y < Height
    BY DEF InBounds
  <1>2. y \div PageBits \in 0 .. Pages - 1
    BY <1>1, PageOfRow
  <1>3. PageIndex(x, y) = (y \div PageBits) * Width + x
    BY DEF PageIndex
  <1>4. (PageIndex(x, y) = PageIndex(a, b)) <=> (x = a /\ y \div PageBits = b \div PageBits)
    BY <1>1, <1>2, <1>3, OneIndex
  <1>5. b \in Int
    BY SMT
  <1>6. y = (y \div PageBits) * PageBits + (y % PageBits) /\ b = (b \div PageBits) * PageBits + (b % PageBits)
    BY <1>5, RowIs
  <1>7. ASSUME x = a, y = b PROVE PageIndex(x, y) = PageIndex(a, b) /\ y % PageBits = b % PageBits
    BY <1>7
  <1>8. ASSUME PageIndex(x, y) = PageIndex(a, b), y % PageBits = b % PageBits PROVE x = a /\ y = b
    <2>1. x = a /\ y \div PageBits = b \div PageBits
      BY <1>4, <1>8
    <2>2. y = (b \div PageBits) * PageBits + (b % PageBits)
      BY <2>1, <1>6, <1>8
    <2> QED
      BY <2>1, <2>2, <1>6
  <1> QED
    BY <1>7, <1>8

-----------------------------------------------------------------------------
(* What the writers of compat.hpp do to the pixel in column a and row b.   *)

LEMMA BitsOfPixel ==
  ASSUME NEW a \in 0 .. Width - 1, NEW b \in 0 .. Height - 1, NEW pts \in SUBSET Pixels
  PROVE  b % PageBits \in BitsAt(PageIndex(a, b), pts) <=> <<a, b>> \in pts
  <1> DEFINE here == {q \in pts : InBounds(q[1], q[2]) /\ PageIndex(q[1], q[2]) = PageIndex(a, b)}
  <1>1. a \in Int /\ b \in Int /\ InBounds(a, b)
    BY Sizes, SMT DEF InBounds
  <1>2. BitsAt(PageIndex(a, b), pts) = {p[2] % PageBits : p \in here}
    BY DEF BitsAt
  <1>3. ASSUME <<a, b>> \in pts PROVE b % PageBits \in BitsAt(PageIndex(a, b), pts)
    <2>1. <<a, b>> \in here
      BY <1>1, <1>3
    <2> HIDE DEF here
    <2>2. <<a, b>>[2] % PageBits \in {p[2] % PageBits : p \in here}
      BY <2>1
    <2> QED
      BY <1>2, <2>2
  <1>4. ASSUME b % PageBits \in BitsAt(PageIndex(a, b), pts) PROVE <<a, b>> \in pts
    <2>1. PICK p \in here : b % PageBits = p[2] % PageBits
      BY <1>2, <1>4
    <2>2. /\ p[1] \in Int /\ p[2] \in Int /\ p = <<p[1], p[2]>> /\ p \in pts
          /\ InBounds(p[1], p[2]) /\ PageIndex(p[1], p[2]) = PageIndex(a, b)
      BY DEF Pixels
    <2>3. p[1] = a /\ p[2] = b
      BY <2>1, <2>2, OneBit
    <2> QED
      BY <2>2, <2>3
  <1> QED
    BY <1>3, <1>4

LEMMA ByteOfScreen ==
  ASSUME NEW a \in 0 .. Width - 1, NEW b \in 0 .. Height - 1
  PROVE  PageIndex(a, b) \in Framebuffer /\ PageIndex(a, b) \in Memory
  <1>1. a \in Int /\ b \in Int /\ 0 <= a /\ a < Width /\ 0 <= b /\ b < Height
    BY Sizes, SMT
  <1> QED
    BY <1>1, ByteOfPixel, Sizes

LEMMA PixelOfPoints ==
  ASSUME NEW c, NEW white \in SUBSET Pixels, NEW black \in SUBSET Pixels,
         NEW a \in 0 .. Width - 1, NEW b \in 0 .. Height - 1
  PROVE  Pixel(DrawPixels(c, white, black), a, b)
           <=> (<<a, b>> \in white \/ (<<a, b>> \notin black /\ Pixel(c, a, b)))
  <1> DEFINE i == PageIndex(a, b)
             bit == b % PageBits
  <1>1. i \in Memory
    BY ByteOfScreen
  <1>2. DrawPixels(c, white, black)[i] = (c[i] \ BitsAt(i, black)) \cup BitsAt(i, white)
    BY <1>1 DEF DrawPixels
  <1>3. (bit \in BitsAt(i, white) <=> <<a, b>> \in white) /\ (bit \in BitsAt(i, black) <=> <<a, b>> \in black)
    BY BitsOfPixel
  <1>4. \A d : Pixel(d, a, b) <=> bit \in d[i]
    BY DEF Pixel
  <1> HIDE DEF i, bit
  <1>5. bit \in DrawPixels(c, white, black)[i]
          <=> (bit \in BitsAt(i, white) \/ (bit \notin BitsAt(i, black) /\ bit \in c[i]))
    BY <1>2
  <1> QED
    BY <1>3, <1>4, <1>5

LEMMA PixelOfOneByte ==
  ASSUME NEW c, IsMemory(c), NEW a \in 0 .. Width - 1, NEW b \in 0 .. Height - 1,
         NEW q \in 0 .. Pages - 1, NEW x \in Int, 0 <= x, x < Width, NEW byte
  PROVE  Pixel([c EXCEPT ![q * Width + x] = byte], a, b)
           <=> IF x = a /\ q = b \div PageBits THEN b % PageBits \in byte ELSE Pixel(c, a, b)
  <1> DEFINE i == PageIndex(a, b)
             j == q * Width + x
             bit == b % PageBits
  <1>1. i \in Memory /\ c \in [Memory -> Bytes]
    BY ByteOfScreen DEF IsMemory
  <1>2. j = i <=> (x = a /\ q = b \div PageBits)
    BY OneIndex
  <1>3. \A d : Pixel(d, a, b) <=> bit \in d[i]
    BY DEF Pixel
  <1> HIDE DEF i, j, bit
  <1>4. [c EXCEPT ![j] = byte][i] = IF j = i THEN byte ELSE c[i]
    BY <1>1
  <1>5. Pixel([c EXCEPT ![j] = byte], a, b) <=> bit \in [c EXCEPT ![j] = byte][i]
    BY <1>3
  <1>6. Pixel(c, a, b) <=> bit \in c[i]
    BY <1>3
  <1>7. CASE j = i
    BY <1>2, <1>4, <1>5, <1>6, <1>7 DEF bit, j
  <1>8. CASE j # i
    BY <1>2, <1>4, <1>5, <1>6, <1>8 DEF bit, j
  <1> QED
    BY <1>7, <1>8

LEMMA BitShifts ==
  ASSUME NEW m \in SUBSET Bits, NEW n \in Int, NEW k \in Int
  PROVE  /\ k \in ShiftUp(m, n) <=> (k \in Bits /\ k - n \in m)
         /\ k \in ShiftDown(m, n) <=> (k \in Bits /\ k + n \in m)
  <1>0. \A j \in m : j \in Int
    BY Sizes, SMT DEF Bits
  <1>1. ASSUME k \in ShiftUp(m, n) PROVE k \in Bits /\ k - n \in m
    <2>1. PICK j \in m : k = j + n
      BY <1>1 DEF ShiftUp
    <2>2. k - n = j
      BY <1>0, <2>1, SMT
    <2> QED
      BY <1>1, <2>2 DEF ShiftUp
  <1>2. ASSUME k \in Bits, k - n \in m PROVE k \in ShiftUp(m, n)
    <2>1. (k - n) + n = k
      BY SMT
    <2> QED
      BY <1>2, <2>1 DEF ShiftUp
  <1>3. ASSUME k \in ShiftDown(m, n) PROVE k \in Bits /\ k + n \in m
    <2>1. PICK j \in m : k = j - n
      BY <1>3 DEF ShiftDown
    <2>2. k + n = j
      BY <1>0, <2>1, SMT
    <2> QED
      BY <1>3, <2>2 DEF ShiftDown
  <1>4. ASSUME k \in Bits, k + n \in m PROVE k \in ShiftDown(m, n)
    <2>1. (k + n) - n = k
      BY SMT
    <2> QED
      BY <1>4, <2>1 DEF ShiftDown
  <1> QED
    BY <1>1, <1>2, <1>3, <1>4

LEMMA ShiftsAreBits ==
  ASSUME NEW m, NEW n
  PROVE  ShiftUp(m, n) \in SUBSET Bits /\ ShiftDown(m, n) \in SUBSET Bits
  BY DEF ShiftUp, ShiftDown

LEMMA CutIs ==
  ASSUME NEW y \in Int, -ByteRange < y
  PROVE  /\ Cut(y) \in Nat /\ Top(y) \in Nat /\ Top(y) = y + Cut(y)
         /\ Cut(y) # 0 => Top(y) = 0
  <1>1. CASE y < 0
    <2>1. -y \in 0 .. ByteRange - 1
      BY <1>1, Sizes, SMT
    <2>2. (-y) % ByteRange = -y
      BY <2>1, Sizes, SMT
    <2>3. Cut(y) = -y /\ Top(y) = 0
      BY <1>1, <2>2 DEF Cut, Top, Uint8
    <2> QED
      BY <1>1, <2>3, SMT
  <1>2. CASE ~(y < 0)
    <2>1. Cut(y) = 0 /\ Top(y) = y
      BY <1>2 DEF Cut, Top
    <2> QED
      BY <1>2, <2>1, SMT
  <1> QED
    BY <1>1, <1>2

\* Distances of rows, from their pages and their places in them.
LEMMA RowsApart ==
  ASSUME NEW p \in Int, NEW q \in Int, NEW n \in Nat, n >= 1, NEW r \in 0 .. n - 1, NEW s \in 0 .. n - 1
  PROVE  /\ p = q => (p * n + r) - (q * n + s) = r - s
         /\ p = q + 1 => (p * n + r) - (q * n + s) = r + n - s
         /\ p < q => (p * n + r) - (q * n + s) < 0
         /\ p > q + 1 => (p * n + r) - (q * n + s) > n
  <1> DEFINE pn == p * n
             qn == q * n
  <1>1. pn \in Int /\ qn \in Int
    BY SMT
  <1>2. p = q + 1 => pn = qn + n
    BY SMT
  <1>3. p < q => pn + n <= qn
    <2> SUFFICES ASSUME p + 1 <= q PROVE pn + n <= qn
      BY SMT
    <2>1. (p + 1) * n <= q * n
      BY SMT
    <2> QED
      BY <2>1, SMT
  <1>4. p > q + 1 => pn >= qn + n + n
    <2> SUFFICES ASSUME q + 2 <= p PROVE pn >= qn + n + n
      BY SMT
    <2>1. (q + 2) * n <= p * n
      BY SMT
    <2> QED
      BY <2>1, SMT
  <1>5. p = q => pn = qn
    OBVIOUS
  <1> HIDE DEF pn, qn
  <1>6. /\ p = q => (pn + r) - (qn + s) = r - s
        /\ p = q + 1 => (pn + r) - (qn + s) = r + n - s
        /\ p < q => (pn + r) - (qn + s) < 0
        /\ p > q + 1 => (pn + r) - (qn + s) > n
    BY <1>1, <1>2, <1>3, <1>4, <1>5, SMT
  <1> QED
    BY <1>6 DEF pn, qn

\* Where a row of a byte at y comes to: in the page of its top, or in the next one.
LEMMA Landing ==
  ASSUME NEW y \in Int, -ByteRange < y, NEW b \in 0 .. Height - 1, NEW m \in SUBSET Bits
  PROVE  LET q   == Top(y) \div PageBits
             off == Top(y) % PageBits
             m1  == ShiftDown(m, Cut(y))
             B   == b \div PageBits
             k   == b % PageBits
         IN  /\ B = q => (k \in ShiftUp(m1, off) <=> b - y \in m)
             /\ B = q + 1 /\ off # 0 => (k \in ShiftDown(m1, PageBits - off) <=> b - y \in m)
             /\ b - y \in m => B = q \/ (B = q + 1 /\ off # 0)
  <1> DEFINE t   == Top(y)
             cut == Cut(y)
             q   == t \div PageBits
             off == t % PageBits
             m1  == ShiftDown(m, cut)
             B   == b \div PageBits
             k   == b % PageBits
             P   == PageBits
  <1>1. b \in Int /\ 0 <= b /\ P \in Nat /\ P >= 1
    BY Sizes, SMT
  <1>2. cut \in Nat /\ t \in Nat /\ t = y + cut /\ (cut # 0 => t = 0)
    BY CutIs
  <1>3. /\ B \in Int /\ k \in 0 .. P - 1 /\ b = B * P + k
        /\ q \in Int /\ off \in 0 .. P - 1 /\ t = q * P + off
    <2>1. t \in Int
      BY <1>2, SMT
    <2>2. B \in Int /\ k \in 0 .. P - 1 /\ b = B * P + k
      BY <1>1, RowIs
    <2>3. q \in Int /\ off \in 0 .. P - 1 /\ t = q * P + off
      BY <2>1, RowIs
    <2> QED
      BY <2>2, <2>3
  <1>4. m1 \in SUBSET Bits /\ Bits = 0 .. P - 1
    BY ShiftsAreBits DEF Bits
  <1> HIDE DEF t, cut, q, off, m1, B, k
  <1>5. /\ B = q => b - t = k - off
        /\ B = q + 1 => b - t = k + P - off
        /\ B < q => b - t < 0
        /\ B > q + 1 => b - t > P
    BY <1>1, <1>3, RowsApart
  <1>6. ASSUME NEW i \in Int
        PROVE  i \in m1 <=> (i \in Bits /\ i + cut \in m)
    <2>1. cut \in Int
      BY <1>2, SMT
    <2> QED
      BY <2>1, BitShifts DEF m1
  <1>7. \A i \in m : i \in Int /\ 0 <= i /\ i < P
    BY <1>1, <1>4, SMT
  <1>8. b - y = (b - t) + cut /\ b - y \in Int
    BY <1>1, <1>2, SMT
  <1>9. ASSUME b - y \in m PROVE b - t \in 0 .. P - 1
    <2>1. 0 <= b - y /\ b - y < P
      BY <1>7, <1>9
    <2> QED
      BY <1>1, <1>2, <1>8, <2>1, SMT
  <1>10. ASSUME B = q PROVE k \in ShiftUp(m1, off) <=> b - y \in m
    <2>1. k \in ShiftUp(m1, off) <=> (k \in Bits /\ k - off \in m1)
      BY <1>3, <1>4, BitShifts
    <2>2. k \in Bits /\ k - off \in Int /\ k - off = b - t
      BY <1>3, <1>4, <1>5, <1>10, SMT
    <2>3. k - off \in m1 <=> (b - t \in Bits /\ b - y \in m)
      BY <1>6, <1>8, <2>2
    <2> QED
      BY <2>1, <2>2, <2>3, <1>4, <1>9
  <1>11. ASSUME B = q + 1, off # 0 PROVE k \in ShiftDown(m1, P - off) <=> b - y \in m
    <2>1. k \in ShiftDown(m1, P - off) <=> (k \in Bits /\ k + (P - off) \in m1)
      <3>1. P - off \in Int /\ k \in Int
        BY <1>1, <1>3, SMT
      <3> QED
        BY <3>1, <1>4, BitShifts
    <2>2. k \in Bits /\ k + (P - off) \in Int /\ k + (P - off) = b - t
      BY <1>1, <1>3, <1>4, <1>5, <1>11, SMT
    <2>3. k + (P - off) \in m1 <=> (b - t \in Bits /\ b - y \in m)
      BY <1>6, <1>8, <2>2
    <2> QED
      BY <2>1, <2>2, <2>3, <1>4, <1>9
  <1>12. ASSUME b - y \in m PROVE B = q \/ (B = q + 1 /\ off # 0)
    BY <1>1, <1>2, <1>3, <1>5, <1>9, <1>12, SMT
  <1> QED
    BY <1>10, <1>11, <1>12 DEF t, cut, q, off, m1, B, k

\* A row of a byte that comes to a pixel of the screen makes the byte land.
LEMMA LandsWhereSeen ==
  ASSUME NEW y \in Int, -ByteRange < y, NEW a \in 0 .. Width - 1, NEW b \in 0 .. Height - 1,
         NEW m \in SUBSET Bits, b - y \in m
  PROVE  Lands(a, y, m)
  <1>1. a \in Int /\ 0 <= a /\ a < Width /\ b \in Int /\ 0 <= b /\ b < Height
    BY Sizes, SMT
  <1>2. Cut(y) \in Nat /\ Top(y) \in Nat /\ Top(y) = y + Cut(y) /\ (Cut(y) # 0 => Top(y) = 0)
    BY CutIs
  <1>3. b - y \in Int /\ 0 <= b - y /\ b - y < PageBits
    BY Sizes, SMT DEF Bits
  <1>4. Cut(y) < PageBits /\ Top(y) < Height
    BY <1>1, <1>2, <1>3, Sizes, SMT
  <1>5. ShiftDown(m, Cut(y)) # {}
    <2> DEFINE k == (b - y) - Cut(y)
    <2>1. k \in Bits /\ k + Cut(y) = b - y /\ k \in Int
      BY <1>1, <1>2, <1>3, Sizes, SMT DEF Bits
    <2>2. Cut(y) \in Int
      BY <1>2, SMT
    <2> HIDE DEF k
    <2>3. k \in ShiftDown(m, Cut(y))
      BY <2>1, <2>2, BitShifts
    <2> QED
      BY <2>3
  <1> QED
    BY <1>1, <1>4, <1>5 DEF Lands

LEMMA PixelOfMerge ==
  ASSUME NEW k, NEW byte, NEW d, NEW m
  PROVE  k \in Merge(byte, d, m) <=> IF k \in m THEN k \in d ELSE k \in byte
  BY DEF Merge

LEMMA MergesAreBytes ==
  ASSUME NEW c, IsMemory(c), NEW i \in Framebuffer, NEW byte \in Bytes
  PROVE  IsMemory([c EXCEPT ![i] = byte])
  BY OneByte DEF Changed

\* apply_masked_byte() brings the rows of data that mask selects to where they belong.
LEMMA PixelOfMasked ==
  ASSUME NEW c, IsMemory(c), NEW x \in Int, NEW y \in Int, -ByteRange < y,
         NEW data \in SUBSET Bits, NEW mask \in SUBSET Bits,
         NEW a \in 0 .. Width - 1, NEW b \in 0 .. Height - 1
  PROVE  Pixel(ApplyMasked(c, x, y, data, mask), a, b)
           <=> IF x = a /\ b - y \in mask THEN b - y \in data ELSE Pixel(c, a, b)
  <1> DEFINE d == ShiftDown(data, Cut(y))
             m == ShiftDown(mask, Cut(y))
             q == Top(y) \div PageBits
             offset == Top(y) % PageBits
             index  == q * Width + x
             rest   == PageBits - offset
             byte1  == Merge(c[index], ShiftUp(d, offset), ShiftUp(m, offset))
             low    == [c EXCEPT ![index] = byte1]
             byte2  == Merge(low[index + Width], ShiftDown(d, rest), ShiftDown(m, rest))
             high   == [low EXCEPT ![index + Width] = byte2]
             k == b % PageBits
             B == b \div PageBits
             there == b - y \in mask
             lit   == b - y \in data
             old   == Pixel(c, a, b)
  <1>1. ApplyMasked(c, x, y, data, mask) =
          IF ~Lands(x, y, mask) THEN c ELSE IF ~NextPage(Top(y)) THEN low ELSE high
    BY DEF ApplyMasked, PageIndex
  <1>2. /\ B = q => (k \in ShiftUp(m, offset) <=> there) /\ (k \in ShiftUp(d, offset) <=> lit)
        /\ B = q + 1 /\ offset # 0 => (k \in ShiftDown(m, rest) <=> there) /\ (k \in ShiftDown(d, rest) <=> lit)
        /\ there => B = q \/ (B = q + 1 /\ offset # 0)
    BY Landing
  <1>3. NextPage(Top(y)) <=> (offset # 0 /\ q + 1 < Pages)
    BY DEF NextPage
  <1>4. B \in 0 .. Pages - 1
    <2>1. b \in Int /\ 0 <= b /\ b < Height
      BY Sizes, SMT
    <2> QED
      BY <2>1, PageOfRow
  <1>5. PageIndex(a, b) = B * Width + a /\ \A e : Pixel(e, a, b) <=> k \in e[B * Width + a]
    BY DEF PageIndex, Pixel
  <1>6. CASE ~Lands(x, y, mask)
    <2>1. x = a => ~there
      BY <1>6, LandsWhereSeen
    <2> HIDE DEF low, high
    <2> QED
      BY <1>1, <1>6, <2>1
  <1>7. CASE Lands(x, y, mask)
    <2>1. 0 <= x /\ x < Width /\ Top(y) < Height /\ Top(y) \in Int /\ 0 <= Top(y)
      BY <1>7, CutIs, SMT DEF Lands
    <2>2. q \in 0 .. Pages - 1
      BY <2>1, PageOfRow
    <2>3. index \in Framebuffer /\ c[index] \in Bytes
      <3>1. index \in Framebuffer
        BY <2>1, <2>2, ByteOfPage
      <3> QED
        BY <3>1, Sizes DEF IsMemory
    <2> HIDE DEF d, m, offset, rest, q, k, B, there, lit
    <2>4. byte1 \in Bytes
      BY <2>3, BytesFromBits
    <2> HIDE DEF byte1
    <2>5. IsMemory(low)
      BY <2>3, <2>4, MergesAreBytes
    <2>6. Pixel(low, a, b) <=> IF x = a /\ q = B THEN k \in byte1 ELSE old
      BY <2>1, <2>2, PixelOfOneByte DEF k, B
    <2>7. x = a /\ q = B => (k \in byte1 <=> IF there THEN lit ELSE old)
      BY <1>2, <1>5, PixelOfMerge DEF byte1
    <2>8. CASE ~(offset # 0 /\ q + 1 < Pages)
      <3>1. there => B = q
        BY <1>2, <1>4, <2>2, <2>8, Sizes, SMT
      <3>2. ApplyMasked(c, x, y, data, mask) = low
        BY <1>1, <1>3, <1>7, <2>8
      <3> HIDE DEF low, old
      <3> QED
        BY <2>6, <2>7, <3>1, <3>2 DEF there, lit, old
    <2>9. CASE offset # 0 /\ q + 1 < Pages
      <3>1. q + 1 \in 0 .. Pages - 1 /\ index + Width = (q + 1) * Width + x /\ q # q + 1
        BY <2>1, <2>2, <2>9, Sizes, SMT
      <3> HIDE DEF byte2, low, index, old
      <3>2. Pixel(high, a, b) <=> IF x = a /\ q + 1 = B THEN k \in byte2 ELSE Pixel(low, a, b)
        BY <2>1, <2>5, <3>1, PixelOfOneByte DEF k, B
      <3>3. x = a /\ q + 1 = B => (Pixel(low, a, b) <=> k \in low[index + Width])
        BY <1>5, <3>1
      <3>4. x = a /\ q + 1 = B => (k \in byte2 <=> IF there THEN lit ELSE old)
        BY <1>2, <2>6, <2>9, <3>1, <3>3, PixelOfMerge DEF byte2
      <3>5. ApplyMasked(c, x, y, data, mask) = high
        BY <1>1, <1>3, <1>7, <2>9
      <3> HIDE DEF high
      <3> QED
        BY <1>2, <2>6, <2>7, <3>1, <3>2, <3>4, <3>5 DEF there, lit, old
    <2> QED
      BY <2>8, <2>9
  <1> QED
    BY <1>6, <1>7

\* apply_or_byte() is apply_masked_byte() with the data as its own mask.
LEMMA OrIsMasked ==
  ASSUME NEW c, NEW x, NEW y, NEW data
  PROVE  ApplyOr(c, x, y, data) = ApplyMasked(c, x, y, data, data)
  <1>1. \A byte, d : byte \cup d = Merge(byte, d, d)
    BY DEF Merge
  <1> QED
    BY <1>1 DEF ApplyOr, ApplyMasked

LEMMA PixelOfOr ==
  ASSUME NEW c, IsMemory(c), NEW x \in Int, NEW y \in Int, -ByteRange < y,
         NEW data \in SUBSET Bits, NEW a \in 0 .. Width - 1, NEW b \in 0 .. Height - 1
  PROVE  Pixel(ApplyOr(c, x, y, data), a, b)
           <=> IF x = a /\ b - y \in data THEN TRUE ELSE Pixel(c, a, b)
  <1>1. ApplyOr(c, x, y, data) = ApplyMasked(c, x, y, data, data)
    BY OrIsMasked
  <1>2. Pixel(ApplyMasked(c, x, y, data, data), a, b)
          <=> IF x = a /\ b - y \in data THEN b - y \in data ELSE Pixel(c, a, b)
    BY PixelOfMasked
  <1> QED
    BY <1>1, <1>2

\* A turn of fill_rect_to() fills these rows of these columns.
LEMMA PixelOfRows ==
  ASSUME NEW c, NEW x \in Int, NEW y \in Int, NEW w \in Int, NEW rows \in Nat,
         NEW white \in BOOLEAN, 0 <= x, x + w <= Width, 0 <= y, y < Height,
         rows <= PageBits - (y % PageBits),
         NEW a \in 0 .. Width - 1, NEW b \in 0 .. Height - 1
  PROVE  Pixel(FillRows(c, x, y, w, rows, white), a, b)
           <=> IF x <= a /\ a < x + w /\ y <= b /\ b < y + rows THEN white ELSE Pixel(c, a, b)
  <1> DEFINE q == y \div PageBits
             off == y % PageBits
             B == b \div PageBits
             k == b % PageBits
             i == PageIndex(a, b)
             mask == ShiftUp(MaskForHeight(rows), off)
             at   == PageIndex(x, y) .. PageIndex(x, y) + w - 1
             d    == FillRows(c, x, y, w, rows, white)
             here == y <= b /\ b < y + rows
             wide == x <= a /\ a < x + w
  <1>1. a \in Int /\ 0 <= a /\ a < Width /\ b \in Int /\ 0 <= b /\ b < Height /\ PageBits \in Nat /\ PageBits >= 1
    BY Sizes, SMT
  <1>2. /\ B \in Int /\ k \in 0 .. PageBits - 1 /\ b = B * PageBits + k
        /\ q \in Int /\ off \in 0 .. PageBits - 1 /\ y = q * PageBits + off
    BY <1>1, RowIs
  <1>3. q \in 0 .. Pages - 1 /\ i \in Memory
    BY PageOfRow, ByteOfScreen
  <1>4. d[i] = IF i \notin at THEN c[i] ELSE IF white THEN c[i] \cup mask ELSE c[i] \ mask
    BY <1>3 DEF FillRows
  <1>5. \A e : Pixel(e, a, b) <=> k \in e[i]
    BY DEF Pixel
  <1>6. PageIndex(x, y) = q * Width + x
    BY DEF PageIndex
  <1>7. k \in mask <=> off <= k /\ k < off + rows
    <2>1. MaskForHeight(rows) = 0 .. rows - 1 /\ rows <= PageBits
      <3>1. CASE rows >= PageBits
        <4>1. rows = PageBits
          BY <1>1, <1>2, <3>1, SMT DEF off
        <4> QED
          BY <3>1, <4>1, <1>1, SMT DEF MaskForHeight, Bits
      <3>2. CASE ~(rows >= PageBits)
        BY <3>2, <1>1, SMT DEF MaskForHeight
      <3> QED
        BY <3>1, <3>2
    <2>2. MaskForHeight(rows) \in SUBSET Bits
      BY <2>1, <1>1, SMT DEF Bits
    <2> HIDE DEF off, k
    <2>3. off \in Int /\ k \in Int /\ k \in Bits
      BY <1>1, <1>2, SMT DEF Bits
    <2>4. k \in mask <=> (k \in Bits /\ k - off \in MaskForHeight(rows))
      BY <2>2, <2>3, BitShifts
    <2> HIDE DEF mask
    <2> QED
      BY <2>1, <2>3, <2>4, SMT
  <1> HIDE DEF mask, d, q, off, B, k
  <1>8. i \in at <=> (B = q /\ wide)
    <2>1. ASSUME i \in at PROVE B = q /\ wide
      <3> DEFINE col == i - q * Width
      <3>1. q * Width \in Int
        BY <1>2, Sizes, SMT
      <3>2. col \in Int /\ x <= col /\ col < x + w /\ q * Width + col = i
        BY <1>6, <2>1, <3>1, SMT
      <3>3. 0 <= col /\ col < Width
        BY <3>2, Sizes, SMT
      <3> HIDE DEF col
      <3>4. col = a /\ q = B
        BY <1>3, <3>2, <3>3, OneIndex DEF B
      <3> QED
        BY <3>2, <3>4
    <2>2. ASSUME B = q, wide PROVE i \in at
      <3>1. i = q * Width + a
        BY <2>2 DEF PageIndex, B
      <3>2. q * Width \in Int
        BY <1>2, Sizes, SMT
      <3> QED
        BY <1>1, <1>6, <2>2, <3>1, <3>2, SMT
    <2> QED
      BY <2>1, <2>2
  <1>9. here <=> (B = q /\ off <= k /\ k < off + rows)
    <2>1. /\ B = q => b - y = k - off
          /\ B = q + 1 => b - y = k + PageBits - off
          /\ B < q => b - y < 0
          /\ B > q + 1 => b - y > PageBits
      BY <1>1, <1>2, RowsApart
    <2>2. rows <= PageBits - off
      BY DEF off
    <2> QED
      BY <1>1, <1>2, <2>1, <2>2, SMT
  <1> HIDE DEF at, here, wide, i
  <1>10. CASE here /\ wide
    <2>1. d[i] = IF white THEN c[i] \cup mask ELSE c[i] \ mask
      BY <1>4, <1>8, <1>9, <1>10
    <2>2. k \in mask
      BY <1>7, <1>9, <1>10
    <2>3. k \in d[i] <=> white
      BY <2>1, <2>2
    <2>4. Pixel(d, a, b) <=> k \in d[i]
      BY <1>5
    <2> QED
      BY <1>10, <2>3, <2>4 DEF here, wide, d
  <1>11. CASE ~(here /\ wide)
    <2>1. k \in d[i] <=> k \in c[i]
      <3>1. CASE i \notin at
        BY <1>4, <3>1
      <3>2. CASE i \in at
        <4>1. k \notin mask
          BY <1>7, <1>8, <1>9, <1>11, <3>2
        <4> QED
          BY <1>4, <3>2, <4>1
      <3> QED
        BY <3>1, <3>2
    <2>2. (Pixel(d, a, b) <=> k \in d[i]) /\ (Pixel(c, a, b) <=> k \in c[i])
      BY <1>5
    <2> QED
      BY <1>11, <2>1, <2>2 DEF here, wide, d
  <1> QED
    BY <1>10, <1>11

-----------------------------------------------------------------------------
(* Numbers of int16_t and uint8_t.                                         *)

LEMMA Int16Fits ==
  ASSUME NEW v \in Int
  PROVE  Int16(v) \in Coordinates
  <1> DEFINE m == 2 * Half
  <1>1. m \in Nat /\ m > 0 /\ v + Half \in Int
    BY Sizes, SMT
  <1> HIDE DEF m
  <1>2. (v + Half) % m \in 0 .. m - 1
    BY <1>1, SMT
  <1> DEFINE r == (v + Half) % m
  <1>3. Int16(v) = r - Half
    BY DEF Int16, m
  <1> HIDE DEF r
  <1>4. r \in 0 .. m - 1
    BY <1>2 DEF r
  <1> QED
    BY <1>3, <1>4, Sizes, SMT DEF m, Coordinates

LEMMA Int16Near ==
  ASSUME NEW v \in Int, -Half <= v, v < Half + ByteRange
  PROVE  Int16(v) = IF v < Half THEN v ELSE v - 2 * Half
  <1> DEFINE u == v + Half
             m == 2 * Half
  <1>1. Half \in Nat /\ ByteRange \in Nat /\ ByteRange <= Half /\ Half >= 1
    BY Sizes, Ranges, SMT
  <1>2. Int16(v) = (u % m) - Half
    BY DEF Int16
  <1>3. u \in Int /\ m \in Nat /\ m >= 1 /\ 0 <= u /\ u < m + ByteRange
    BY <1>1, SMT
  <1>4. CASE u < m
    <2>1. u % m = u
      BY <1>3, <1>4, SMT
    <2> QED
      BY <1>1, <1>2, <1>4, <2>1, SMT
  <1>5. CASE u >= m
    <2>1. u % m = u - m
      BY <1>1, <1>3, <1>5, SMT
    <2> QED
      BY <1>1, <1>2, <1>5, <2>1, SMT
  <1> QED
    BY <1>3, <1>4, <1>5, SMT

LEMMA OnScreen ==
  ASSUME NEW v \in Int, -Half - ByteRange <= v, v < Half + ByteRange
  PROVE  /\ \A a \in 0 .. Width - 1 : Int16(v) = a <=> v = a
         /\ \A b \in 0 .. Height - 1 : Int16(v) = b <=> v = b
  <1>1. Width \in Nat /\ Height \in Nat /\ Width + ByteRange <= Half /\ Height + ByteRange <= Half
    BY Sizes, Ranges
  <1> QED
    BY <1>1, NoAlias

LEMMA Coordinate ==
  ASSUME NEW v \in Coordinates
  PROVE  v \in Int /\ -Half <= v /\ v < Half
  BY Sizes, SMT DEF Coordinates

LEMMA SmallIs ==
  ASSUME NEW n \in Small
  PROVE  n \in Nat /\ n < ByteRange
  BY Sizes, SMT DEF Small

\* The rows of a bitmap in one of its pages.
LEMMA ValidRows ==
  ASSUME NEW h \in Small, NEW p \in Nat, p < PageCount(h), NEW k \in Int
  PROVE  k \in ValidMask(h, p) <=> k \in Bits /\ p * PageBits + k < h
  <1> DEFINE n == h - p * PageBits
             pp == p * PageBits
  <1>1. h \in Nat /\ h < ByteRange /\ PageBits \in Nat /\ PageBits >= 1
    BY SmallIs, Sizes
  <1>2. pp \in Nat /\ pp < h
    <2> DEFINE e == h + PageBits - 1
               z == e \div PageBits
    <2>1. e \in Int /\ p < z
      BY <1>1, SMT DEF PageCount
    <2>2. z \in Int /\ z * PageBits <= e
      BY <1>1, <2>1, SMT
    <2> HIDE DEF z, e
    <2>3. p + 1 <= z
      BY <2>1, <2>2, SMT
    <2>4. (p + 1) * PageBits <= z * PageBits
      BY <1>1, <2>2, <2>3, SMT
    <2>5. (p + 1) * PageBits = pp + PageBits
      BY <1>1, SMT
    <2>6. pp \in Nat
      BY <1>1, SMT
    <2> DEFINE zz == z * PageBits
    <2>7. pp + PageBits <= zz /\ zz <= h + PageBits - 1 /\ zz \in Int
      BY <1>1, <2>2, <2>4, <2>5, SMT DEF e
    <2> HIDE DEF pp, zz
    <2> QED
      BY <1>1, <2>6, <2>7, SMT
  <1> HIDE DEF pp
  <1>3. n = h - pp /\ n \in 0 .. ByteRange - 1
    BY <1>1, <1>2, Sizes, SMT DEF pp
  <1>4. Uint8(n) = n
    BY <1>1, <1>3, Sizes, SMT DEF Uint8
  <1>5. ValidMask(h, p) = MaskForHeight(n)
    BY <1>4 DEF ValidMask
  <1> HIDE DEF n
  <1>6. k \in MaskForHeight(n) <=> k \in Bits /\ k < n
    BY <1>1, <1>3, SMT DEF MaskForHeight, Bits
  <1> QED
    BY <1>1, <1>2, <1>3, <1>5, <1>6, SMT DEF pp

LEMMA ValidIsBits ==
  ASSUME NEW h \in Small, NEW p \in Nat, p < PageCount(h)
  PROVE  ValidMask(h, p) \in SUBSET Bits
  <1>1. \A k \in Int : k \in ValidMask(h, p) => k \in Bits
    BY ValidRows
  <1>2. ValidMask(h, p) \in SUBSET Int
    BY Sizes, SMT DEF ValidMask, MaskForHeight, Bits
  <1> QED
    BY <1>1, <1>2

-----------------------------------------------------------------------------
(* The calls that paint areas.                                             *)

AreaOps == Paged \cup Fx \cup {"xy", "glyph"}

Painted(a, b) == Inside(call, a, b) /\ PaintsPixel(call, a - call.x, b - call.y)
Shade(a, b)   == White(call, a - call.x, b - call.y)
Done(a, b)    == Passed(call, a - call.x, b - call.y)
Shown(a, b)   == Pixel(canvas, a, b) <=> PixelNow(a, b)

LEMMA AreaNow ==
  ASSUME call.op \in AreaOps, NEW a, NEW b
  PROVE  PixelNow(a, b) <=> IF Painted(a, b) /\ Done(a, b) THEN Shade(a, b) ELSE Pixel(before, a, b)
  <1>1. call.op # "none" /\ call.op # "stroke" /\ call.op # "rect"
    BY DEF AreaOps, Paged, Fx
  <1>2. PixelNow(a, b) = IF Inside(call, a, b) /\ Passed(call, a - call.x, b - call.y)
                              /\ PaintsPixel(call, a - call.x, b - call.y)
                           THEN White(call, a - call.x, b - call.y) ELSE Pixel(before, a, b)
    BY <1>1 DEF PixelNow
  <1> QED
    BY <1>2 DEF Painted, Done, Shade

LEMMA AreaNowNext ==
  ASSUME call'.op \in AreaOps, NEW CONSTANT a, NEW CONSTANT b
  PROVE  PixelNow(a, b)' <=> IF Painted(a, b)' /\ Done(a, b)' THEN Shade(a, b)' ELSE Pixel(before', a, b)
  <1>1. call'.op # "none" /\ call'.op # "stroke" /\ call'.op # "rect"
    BY DEF AreaOps, Paged, Fx
  <1>2. PixelNow(a, b)' = IF Inside(call', a, b) /\ Passed(call, a - call.x, b - call.y)'
                              /\ PaintsPixel(call', a - call'.x, b - call'.y)
                           THEN White(call', a - call'.x, b - call'.y) ELSE Pixel(before', a, b)
    BY <1>1 DEF PixelNow
  <1> QED
    BY <1>2 DEF Painted, Done, Shade

\* A turn of a loop over an area paints the pixels that are here, and has then passed them.
LEMMA AreaTurn ==
  ASSUME call.op \in AreaOps, call' = call, before' = before,
         NEW CONSTANT a, NEW CONSTANT b, NEW here,
         Shown(a, b),
         Pixel(canvas', a, b) <=> IF Painted(a, b) /\ here THEN Shade(a, b) ELSE Pixel(canvas, a, b),
         Painted(a, b) => (Done(a, b)' <=> (Done(a, b) \/ here))
  PROVE  Shown(a, b)'
  <1>1. PixelNow(a, b) <=> IF Painted(a, b) /\ Done(a, b) THEN Shade(a, b) ELSE Pixel(before, a, b)
    BY AreaNow
  <1>2. call'.op \in AreaOps
    OBVIOUS
  <1>3. PixelNow(a, b)' <=> IF Painted(a, b)' /\ Done(a, b)' THEN Shade(a, b)' ELSE Pixel(before', a, b)
    BY <1>2, AreaNowNext
  <1>4. Painted(a, b)' = Painted(a, b) /\ Shade(a, b)' = Shade(a, b)
    BY DEF Painted, Shade
  <1>5. Pixel(before', a, b) = Pixel(before, a, b)
    OBVIOUS
  <1>6. Shown(a, b)' <=> (Pixel(canvas', a, b) <=> PixelNow(a, b)')
    BY DEF Shown
  <1>7. Pixel(canvas, a, b) <=> PixelNow(a, b)
    BY DEF Shown
  <1> QED
    BY <1>1, <1>3, <1>4, <1>5, <1>6, <1>7

\* A call begins: nothing is passed, and nothing has changed.
LEMMA AreaBegins ==
  ASSUME call'.op \in AreaOps, canvas' = canvas, before' = canvas, page' = 0, px' = 0,
         NEW CONSTANT a \in 0 .. Width - 1, NEW CONSTANT b \in 0 .. Height - 1,
         call'.x \in Int, call'.y \in Int
  PROVE  Shown(a, b)'
  <1>1. PixelNow(a, b)' <=> IF Painted(a, b)' /\ Done(a, b)' THEN Shade(a, b)' ELSE Pixel(before', a, b)
    BY AreaNowNext
  <1>2. ~(Painted(a, b)' /\ Done(a, b)')
    <2> SUFFICES ASSUME Painted(a, b)' PROVE ~Done(a, b)'
      OBVIOUS
    <2>1. a - call'.x \in Nat /\ b - call'.y \in Nat
      <3>1. a \in Int /\ b \in Int /\ Inside(call', a, b)
        BY Sizes, SMT DEF Painted
      <3>2. a >= call'.x /\ b >= call'.y
        BY <3>1 DEF Inside
      <3> QED
        BY <3>1, <3>2, SMT
    <2> DEFINE sx == a - call'.x
               sy == b - call'.y
    <2>2. Done(a, b)' <=> CASE call'.op = "glyph" -> sx < px'
                            [] call'.op = "xy"    -> sy < page' \/ (sy = page' /\ sx < px')
                            [] call'.op \in Fx    -> sy < page' * PageBits
                            [] OTHER -> sy < page' * PageBits \/ (sy \div PageBits = page' /\ sx < px')
      BY DEF Done, Passed
    <2>3. page' * PageBits = 0
      BY Sizes, SMT
    <2> HIDE DEF sx, sy
    <2>4. ~(sx < px') /\ ~(sy < page') /\ ~(sy < page' * PageBits)
      BY <2>1, <2>3, SMT DEF sx, sy
    <2> QED
      BY <2>2, <2>4
  <1>3. Shown(a, b)' <=> (Pixel(canvas', a, b) <=> PixelNow(a, b)')
    BY DEF Shown
  <1> QED
    BY <1>1, <1>2, <1>3

\* What the loop has passed, before and after a step that leaves the call.
LEMMA DoneIs ==
  ASSUME call' = call, NEW CONSTANT a, NEW CONSTANT b
  PROVE  LET sx == a - call.x
             sy == b - call.y
         IN  /\ Done(a, b) <=> CASE call.op = "glyph" -> sx < px
                                 [] call.op = "xy"    -> sy < page \/ (sy = page /\ sx < px)
                                 [] call.op \in Fx    -> sy < page * PageBits
                                 [] OTHER -> sy < page * PageBits \/ (sy \div PageBits = page /\ sx < px)
             /\ Done(a, b)' <=> CASE call.op = "glyph" -> sx < px'
                                  [] call.op = "xy"    -> sy < page' \/ (sy = page' /\ sx < px')
                                  [] call.op \in Fx    -> sy < page' * PageBits
                                  [] OTHER -> sy < page' * PageBits \/ (sy \div PageBits = page' /\ sx < px')
  BY DEF Done, Passed

\* What the loop over the bytes of a bitmap knows of the call.
LEMMA PagedCall ==
  ASSUME CallOK, InPlace, PaintByte
  PROVE  /\ call.x \in Int /\ -Half <= call.x /\ call.x < Half
         /\ call.y \in Int
         /\ call.w \in Nat /\ call.w < ByteRange /\ call.h \in Small
         /\ px \in Nat /\ px < call.w /\ page \in Nat /\ page < PageCount(call.h)
         /\ call.op \in Paged /\ (call.op = "bitmap" => call.frame = 0)
         /\ call.frame \in Nat /\ call.other \in Nat
         /\ call.y + page * PageBits \in Int
         /\ -Half <= call.y + page * PageBits /\ call.y + page * PageBits < Half + ByteRange
         /\ PageCount(call.h) \in Nat
  <1>1. call.op \in Paged /\ call.w > 0 /\ page < PageCount(call.h)
    BY DEF PaintByte
  <1>2. /\ call.x \in Coordinates /\ call.y \in Coordinates
        /\ call.w \in Small /\ call.h \in Small /\ call.frame \in Nat /\ call.other \in Nat
        /\ (call.op = "bitmap" => call.frame = 0)
        /\ px = 0 \/ px < call.w
    BY <1>1 DEF InPlace, ArealInPlace
  <1>3. page \in Nat /\ px \in Nat
    BY DEF CallOK
  <1>4. /\ call.x \in Int /\ -Half <= call.x /\ call.x < Half
        /\ call.y \in Int /\ -Half <= call.y /\ call.y < Half
        /\ call.w \in Nat /\ call.w < ByteRange /\ call.h \in Nat /\ call.h < ByteRange
    BY <1>2, Coordinate, SmallIs
  <1>5. px < call.w
    BY <1>1, <1>2, <1>3, <1>4, SMT
  <1> DEFINE n  == PageCount(call.h)
             hh == call.h + PageBits - 1
             pp == page * PageBits
             yy == call.y + page * PageBits
  <1>6. hh \in Int /\ hh \div PageBits \in Int /\ hh % PageBits \in 0 .. PageBits - 1
        /\ hh = (hh \div PageBits) * PageBits + (hh % PageBits)
    <2>1. hh \in Int
      BY <1>4, Sizes, SMT
    <2> QED
      BY <2>1, RowIs
  <1>7. n = hh \div PageBits
    BY DEF PageCount
  <1> HIDE DEF n, hh
  <1>8. page + 1 <= n /\ n \in Nat
    BY <1>1, <1>3, <1>6, <1>7, SMT DEF n
  <1>9. (page + 1) * PageBits <= n * PageBits
    BY <1>3, <1>8, Sizes, SMT
  <1> DEFINE np == n * PageBits
  <1>10. pp \in Nat /\ np \in Int /\ pp + PageBits <= np
    BY <1>3, <1>8, <1>9, Sizes, SMT
  <1>11. np <= hh /\ hh = call.h + PageBits - 1
    <2>1. hh = np + (hh % PageBits)
      BY <1>6, <1>7
    <2>2. hh % PageBits \in Int /\ hh % PageBits >= 0 /\ hh = call.h + PageBits - 1
      BY <1>6, Sizes, SMT DEF hh
    <2> HIDE DEF np
    <2> QED
      BY <1>6, <1>10, <2>1, <2>2, SMT
  <1> HIDE DEF np
  <1>12. yy = call.y + pp
    OBVIOUS
  <1> HIDE DEF pp, yy
  <1>13. yy \in Int /\ -Half <= yy /\ yy < Half + ByteRange
    BY <1>4, <1>10, <1>11, <1>12, Sizes, SMT
  <1> QED
    BY <1>1, <1>2, <1>3, <1>4, <1>5, <1>8, <1>13 DEF n, yy

\* The byte of page p and column col of a frame, its address in the frame.
LEMMA InFrame ==
  ASSUME NEW w \in Nat, NEW n \in Nat, NEW p \in Nat, p < n, NEW col \in Nat, col < w
  PROVE  p * w + col \in 0 .. w * n - 1 /\ p * w + col = col + p * w
  <1>1. (p + 1) * w <= n * w
    BY SMT
  <1> DEFINE pw == p * w
             nw == n * w
  <1>2. pw + w <= nw /\ pw \in Nat /\ nw \in Nat /\ w * n = nw
    BY <1>1, SMT
  <1> HIDE DEF pw, nw
  <1>3. pw + col \in 0 .. nw - 1 /\ pw + col = col + pw
    BY <1>2, SMT
  <1> QED
    BY <1>2, <1>3 DEF pw

\* The bit of the bitmap that a turn of the loop reads for a row is the pixel's.
LEMMA ByteIsPixels ==
  ASSUME CallOK, InPlace, PaintByte, NEW sx, NEW sy \in Int, sx = px, sy \div PageBits = page
  PROVE  LET j == sy % PageBits
             valid == j \in Valid(call)
         IN  /\ call.op = "self" => (j \in Image(call) <=> valid /\ PaintsPixel(call, sx, sy))
             /\ call.op = "self" => (White(call, sx, sy) <=> TRUE)
             /\ call.op # "self" => (j \in Mask(call) <=> valid /\ PaintsPixel(call, sx, sy))
             /\ call.op # "self" /\ j \in Mask(call) =>
                  (j \in (IF call.op = "bitmap" /\ ~call.white THEN {} ELSE Image(call))
                     <=> White(call, sx, sy))
  <1> DEFINE j == sy % PageBits
             w == call.w
             n == PageCount(call.h)
             FB == FrameBytes(call)
             valid == j \in Valid(call)
             f == call.frame
             e == Index(call)
  <1>1. /\ w \in Nat /\ w < ByteRange /\ px \in Nat /\ px < w /\ page \in Nat /\ page < n /\ n \in Nat
        /\ call.op \in Paged /\ f \in Nat /\ (call.op = "bitmap" => f = 0) /\ call.other \in Nat
    BY PagedCall
  <1>2. FB = w * n /\ FB \in Nat
    BY <1>1, SMT DEF FrameBytes
  <1>3. e = px + page * w /\ e \in 0 .. FB - 1
    BY <1>1, <1>2, InFrame DEF Index
  <1>4. call.op \in {"bitmap", "overwrite", "self", "plus", "external"}
    BY <1>1 DEF Paged
  <1> DEFINE pw == page * w
             base == f * FB
  <1>5. pw \in Nat /\ base \in Nat /\ (f = 0 => base = 0)
    BY <1>1, <1>2, SMT
  <1>6. \A rom : BitmapBit(rom, base, w, sx, sy) <=> j \in rom[base + e]
    <2>1. base + sx + pw = base + e
      <3>1. px \in Int /\ sx = px /\ e = px + pw
        BY <1>1, <1>3
      <3> HIDE DEF pw, base, e
      <3> QED
        BY <1>5, <3>1, SMT
    <2> QED
      BY <2>1 DEF BitmapBit
  <1>7. FrameData(call) = (CASE call.op = "bitmap" -> 0 [] call.op = "plus" -> 2 * call.frame * FB [] OTHER -> base)
    BY <1>4 DEF FrameData
  <1>8. CASE call.op = "bitmap"
    <2>1. FrameData(call) = 0 /\ base = 0
      BY <1>1, <1>5, <1>7, <1>8
    <2>2. Image(call) = Valid(call) \cap Art[0 + e] /\ Mask(call) = Image(call)
      BY <1>8, <2>1 DEF Image, Mask
    <2>3. PaintsPixel(call, sx, sy) <=> j \in Art[0 + e]
      BY <1>6, <1>8, <2>1 DEF PaintsPixel
    <2>4. White(call, sx, sy) <=> call.white
      BY <1>8 DEF White
    <2> HIDE DEF j
    <2> QED
      BY <1>8, <2>2, <2>3, <2>4 DEF j
  <1>9. CASE call.op = "overwrite"
    <2>1. Image(call) = Valid(call) \cap Art[base + e] /\ Mask(call) = Valid(call)
      BY <1>7, <1>9 DEF Image, Mask
    <2>2. PaintsPixel(call, sx, sy) <=> TRUE
      BY <1>9 DEF PaintsPixel, Fx
    <2>3. White(call, sx, sy) <=> j \in Art[base + e]
      BY <1>6, <1>9 DEF White
    <2> QED
      BY <1>9, <2>1, <2>2, <2>3
  <1>10. CASE call.op = "self"
    <2>1. Image(call) = Valid(call) \cap Art[base + e]
      BY <1>7, <1>10 DEF Image
    <2>2. PaintsPixel(call, sx, sy) <=> j \in Art[base + e]
      BY <1>6, <1>10 DEF PaintsPixel
    <2>3. White(call, sx, sy) <=> TRUE
      BY <1>10 DEF White
    <2> QED
      BY <1>10, <2>1, <2>2, <2>3
  <1>11. CASE call.op = "external"
    <2>1. /\ Image(call) = Valid(call) \cap Art[base + e]
          /\ Mask(call) = Valid(call) \cap Masks[call.other * FB + e]
      BY <1>7, <1>11 DEF Image, Mask
    <2>2. White(call, sx, sy) <=> j \in Art[base + e]
      BY <1>6, <1>11 DEF White
    <2>3. PaintsPixel(call, sx, sy) <=> BitmapBit(Masks, call.other * FB, w, sx, sy)
      BY <1>11 DEF PaintsPixel
    <2>4. call.other * FB + sx + pw = call.other * FB + e
      <3> DEFINE g == call.other * FB
      <3>1. px \in Int /\ sx = px /\ e = px + pw /\ g \in Int
        BY <1>1, <1>2, <1>3, SMT
      <3> HIDE DEF g, e, pw
      <3>2. g + sx + pw = g + e
        BY <1>5, <3>1, SMT
      <3> QED
        BY <3>2 DEF g
    <2>5. PaintsPixel(call, sx, sy) <=> j \in Masks[call.other * FB + e]
      BY <2>3, <2>4 DEF BitmapBit
    <2> QED
      BY <1>11, <2>1, <2>2, <2>5
  <1>12. CASE call.op = "plus"
    <2>1. /\ Image(call) = Valid(call) \cap Art[2 * call.frame * FB + 2 * e]
          /\ Mask(call) = Valid(call) \cap Art[2 * call.frame * FB + 2 * e + 1]
      BY <1>7, <1>12 DEF Image, Mask
    <2>2. /\ White(call, sx, sy) <=> BitmapBit(Plane(call, 0), 0, w, sx, sy)
          /\ PaintsPixel(call, sx, sy) <=> BitmapBit(Plane(call, 1), 0, w, sx, sy)
      BY <1>12 DEF White, PaintsPixel
    <2>3. 0 + sx + pw = e
      <3>1. px \in Int /\ sx = px /\ e = px + pw
        BY <1>1, <1>3
      <3> HIDE DEF pw, e
      <3> QED
        BY <1>5, <3>1, SMT
    <2>4. \A rom : BitmapBit(rom, 0, w, sx, sy) <=> j \in rom[e]
      BY <2>3 DEF BitmapBit
    <2>5. /\ Plane(call, 0)[e] = Art[2 * call.frame * FB + 2 * e + 0]
          /\ Plane(call, 1)[e] = Art[2 * call.frame * FB + 2 * e + 1]
      BY <1>3 DEF Plane
    <2>6. 2 * call.frame * FB + 2 * e + 0 = 2 * call.frame * FB + 2 * e
      <3> DEFINE g == 2 * call.frame * FB
      <3>1. g \in Int
        BY <1>1, <1>2, SMT
      <3> HIDE DEF g
      <3> QED
        BY <1>3, <3>1, SMT DEF g
    <2> HIDE DEF e, j
    <2> QED
      BY <1>12, <2>1, <2>2, <2>4, <2>5, <2>6 DEF e, j
  <1> QED
    BY <1>4, <1>8, <1>9, <1>10, <1>11, <1>12

\* The loop over the bytes of a bitmap passes the pixels of the byte it is at.
LEMMA BytePasses ==
  ASSUME CallOK, InPlace, PaintByte,
         NEW CONSTANT a \in 0 .. Width - 1, NEW CONSTANT b \in 0 .. Height - 1
  PROVE  Painted(a, b) =>
           (Done(a, b)' <=> (Done(a, b) \/ (a - call.x = px /\ (b - call.y) \div PageBits = page)))
  <1> DEFINE sx == a - call.x
             sy == b - call.y
             here == sx = px /\ sy \div PageBits = page
             j == sy % PageBits
  <1>1. /\ call.x \in Int /\ call.y \in Int /\ call.w \in Nat /\ call.h \in Small
         /\ px \in Nat /\ px < call.w /\ page \in Nat /\ call.op \in Paged
    BY PagedCall
  <1>2. a \in Int /\ b \in Int /\ sx \in Int /\ sy \in Int
    BY <1>1, Sizes, SMT
  <1>3. call' = call
    BY DEF PaintByte, Advance
  <1> SUFFICES ASSUME Painted(a, b) PROVE Done(a, b)' <=> (Done(a, b) \/ here)
    OBVIOUS
  <1>4. 0 <= sx /\ sx < call.w
    BY <1>1, <1>2, SMT DEF Painted, Inside
  <1>5. call.op \notin {"glyph", "xy"} \cup Fx
    BY <1>1 DEF Paged, Fx
  <1>6. /\ Done(a, b) <=> CASE call.op = "glyph" -> sx < px
                            [] call.op = "xy"    -> sy < page \/ (sy = page /\ sx < px)
                            [] call.op \in Fx    -> sy < page * PageBits
                            [] OTHER -> sy < page * PageBits \/ (sy \div PageBits = page /\ sx < px)
        /\ Done(a, b)' <=> CASE call.op = "glyph" -> sx < px'
                             [] call.op = "xy"    -> sy < page' \/ (sy = page' /\ sx < px')
                             [] call.op \in Fx    -> sy < page' * PageBits
                             [] OTHER -> sy < page' * PageBits \/ (sy \div PageBits = page' /\ sx < px')
    BY <1>3, DoneIs
  <1>7. /\ Done(a, b) <=> (sy < page * PageBits \/ (sy \div PageBits = page /\ sx < px))
        /\ Done(a, b)' <=> (sy < page' * PageBits \/ (sy \div PageBits = page' /\ sx < px'))
    <2> HIDE DEF sx, sy
    <2>1. Done(a, b) <=> (sy < page * PageBits \/ (sy \div PageBits = page /\ sx < px))
      BY <1>5, <1>6
    <2>2. Done(a, b)' <=> (sy < page' * PageBits \/ (sy \div PageBits = page' /\ sx < px'))
      BY <1>5, <1>6
    <2> QED
      BY <2>1, <2>2
  <1>8. IF px + 1 < call.w THEN px' = px + 1 /\ page' = page ELSE px' = 0 /\ page' = page + 1
    BY DEF PaintByte, Advance
  <1> DEFINE q == sy \div PageBits
  <1>9. \A p \in Nat : sy < p * PageBits <=> q < p
    <2> SUFFICES ASSUME NEW p \in Nat PROVE sy < p * PageBits <=> q < p
      OBVIOUS
    <2>1. q \in Int /\ j \in 0 .. PageBits - 1 /\ sy = q * PageBits + j
      BY <1>2, RowIs
    <2> HIDE DEF q, j, sy
    <2>2. 0 \in 0 .. PageBits - 1 /\ PageBits \in Nat /\ PageBits >= 1
      BY Sizes, SMT
    <2>3. /\ q = p => (q * PageBits + j) - (p * PageBits + 0) = j - 0
          /\ q = p + 1 => (q * PageBits + j) - (p * PageBits + 0) = j + PageBits - 0
          /\ q < p => (q * PageBits + j) - (p * PageBits + 0) < 0
          /\ q > p + 1 => (q * PageBits + j) - (p * PageBits + 0) > PageBits
      BY <2>1, <2>2, RowsApart
    <2> DEFINE pp == p * PageBits
               qp == q * PageBits
    <2>4. pp \in Int /\ qp \in Int
      BY <2>1, <2>2, SMT
    <2> HIDE DEF pp, qp
    <2>5. sy = qp + j
      BY <2>1 DEF qp
    <2>6. /\ q = p => (qp + j) - (pp + 0) = j - 0
          /\ q = p + 1 => (qp + j) - (pp + 0) = j + PageBits - 0
          /\ q < p => (qp + j) - (pp + 0) < 0
          /\ q > p + 1 => (qp + j) - (pp + 0) > PageBits
      BY <2>3 DEF pp, qp
    <2>7. sy < pp <=> q < p
      BY <2>1, <2>2, <2>4, <2>5, <2>6, SMT
    <2> QED
      BY <2>7 DEF pp, q
  <1>10. q \in Int
    BY <1>2, RowIs
  <1>11. (sy < page * PageBits <=> q < page) /\ (sy < page' * PageBits <=> q < page')
    BY <1>1, <1>8, <1>9
  <1> HIDE DEF q, sx, sy
  <1>12. (q < page' \/ (q = page' /\ sx < px')) <=> ((q < page \/ (q = page /\ sx < px)) \/ (sx = px /\ q = page))
    BY <1>1, <1>2, <1>4, <1>8, <1>10, SMT
  <1> QED
    BY <1>7, <1>11, <1>12 DEF q

\* A byte that is out of reach changes stray pixels alone.
LEMMA StrayByte ==
  ASSUME NEW c, IsMemory(c), NEW x \in Int, NEW y \in Int, y < 0,
         NEW data \in SUBSET Bits, NEW mask \in SUBSET Bits,
         NEW a \in 0 .. Width - 1, NEW b \in 0 .. Height - 1,
         ~(x = a /\ b + Cut(y) < PageBits)
  PROVE  /\ Pixel(ApplyMasked(c, x, y, data, mask), a, b) <=> Pixel(c, a, b)
         /\ Pixel(ApplyOr(c, x, y, mask), a, b) <=> Pixel(c, a, b)
  <1> DEFINE cut == Cut(y)
             z   == 0 - cut
  <1>1. cut = (-y) % ByteRange /\ Top(y) = 0
    BY DEF Cut, Top, Uint8
  <1>2. cut \in 0 .. ByteRange - 1 /\ ByteRange \in Nat
    BY <1>1, Sizes, SMT
  <1> HIDE DEF cut
  <1>3. z \in Int /\ -ByteRange < z
    BY <1>2, SMT
  <1>4. Cut(z) = cut /\ Top(z) = 0
    <2>1. CASE cut = 0
      <3>1. z = 0
        BY <1>2, <2>1, SMT
      <3> HIDE DEF z
      <3> QED
        BY <2>1, <3>1, SMT DEF Cut, Top
    <2>2. CASE cut # 0
      <3>1. z < 0 /\ -z = cut
        BY <1>2, <2>2, SMT
      <3>2. cut % ByteRange = cut
        BY <1>2, SMT
      <3> HIDE DEF z
      <3> QED
        BY <3>1, <3>2 DEF Cut, Top, Uint8
    <2> QED
      BY <2>1, <2>2
  <1>5. ~(x = a /\ b - z \in mask)
    <2> SUFFICES ASSUME x = a, b - z \in mask PROVE FALSE
      OBVIOUS
    <2>1. b - z = b + cut /\ b - z < PageBits
      BY <1>2, Sizes, SMT DEF Bits
    <2> QED
      BY <2>1 DEF cut
  <1> HIDE DEF z
  <1>6. ApplyMasked(c, x, y, data, mask) = ApplyMasked(c, x, z, data, mask)
    BY <1>1, <1>4 DEF ApplyMasked, Lands, cut
  <1>7. ApplyOr(c, x, y, mask) = ApplyOr(c, x, z, mask)
    BY <1>1, <1>4 DEF ApplyOr, Lands, cut
  <1>8. Pixel(ApplyMasked(c, x, z, data, mask), a, b) <=> Pixel(c, a, b)
    BY <1>3, <1>5, PixelOfMasked
  <1>9. Pixel(ApplyOr(c, x, z, mask), a, b) <=> Pixel(c, a, b)
    BY <1>3, <1>5, PixelOfOr
  <1> QED
    BY <1>6, <1>7, <1>8, <1>9

\* A turn at a page that is out of reach: no pixel of the page is on the screen.
LEMMA FarByteShows ==
  ASSUME DrawTypeOK, InPlace, PaintByte, OutOfReach(call.y + page * PageBits),
         NEW CONSTANT a \in 0 .. Width - 1, NEW CONSTANT b \in 0 .. Height - 1, Shown(a, b),
         ~Stray(call, a, b)
  PROVE  Shown(a, b)'
  <1> DEFINE x  == Int16(call.x + px)
             yy == call.y + page * PageBits
             y  == Int16(yy)
             sy == b - call.y
             here == a - call.x = px /\ sy \div PageBits = page
             data == IF call.op = "bitmap" /\ ~call.white THEN {} ELSE Image(call)
  <1>1. CallOK /\ IsMemory(canvas)
    BY DEF DrawTypeOK
  <1>2. /\ call.x \in Int /\ call.y \in Int /\ call.w \in Nat /\ call.h \in Small
        /\ px \in Nat /\ px < call.w /\ page \in Nat /\ page < PageCount(call.h)
        /\ call.op \in Paged /\ PageCount(call.h) \in Nat
        /\ yy \in Int /\ -Half <= yy /\ yy < Half + ByteRange
    BY <1>1, PagedCall
  <1>3. yy <= -ByteRange \/ yy >= Half
    BY DEF OutOfReach
  <1>4. x \in Int
    <2>1. call.x + px \in Int
      BY <1>2, SMT
    <2> QED
      BY <2>1, Int16IsInt
  <1>5. y \in Int /\ y < 0
    <2> HIDE DEF yy
    <2>1. y = IF yy < Half THEN yy ELSE yy - 2 * Half
      BY <1>2, Int16Near
    <2>2. ByteRange + Height <= Half /\ Height >= 1 /\ ByteRange \in Nat /\ ByteRange >= 1 /\ Half \in Nat
      BY Sizes, Ranges, SMT
    <2> HIDE DEF y
    <2>3. CASE yy < Half
      <3>1. y = yy /\ yy <= -ByteRange
        BY <1>2, <1>3, <2>1, <2>2, <2>3, SMT
      <3> QED
        BY <1>2, <2>2, <3>1, SMT
    <2>4. CASE ~(yy < Half)
      <3>1. y = yy - 2 * Half
        BY <2>1, <2>4
      <3>2. yy \in Int /\ yy < Half + ByteRange
        BY <1>2
      <3>3. ByteRange + 1 <= Half
        BY <2>2, Sizes, SMT
      <3> QED
        BY <2>2, <3>1, <3>2, <3>3, SMT
    <2> QED
      BY <2>3, <2>4
  <1>6. ~here
    <2> SUFFICES ASSUME here PROVE FALSE
      OBVIOUS
    <2>1. b \in Int /\ 0 <= b /\ b < Height /\ sy \in Int
      BY <1>2, Sizes, SMT
    <2>2. sy = page * PageBits + (sy % PageBits) /\ sy % PageBits \in 0 .. PageBits - 1
      BY <2>1, RowIs
    <2> DEFINE pp == page * PageBits
               r  == sy % PageBits
    <2>3. pp \in Int /\ r \in Int /\ 0 <= r /\ r < PageBits /\ b - call.y = pp + r /\ yy = call.y + pp
      BY <1>2, <2>2, Sizes, SMT
    <2> HIDE DEF pp, r, yy
    <2> QED
      BY <1>2, <1>3, <2>1, <2>3, Ranges, Sizes, SMT
  <1>7. ~(x = a /\ b + Cut(y) < PageBits)
    <2>1. page \in 0 .. PageCount(call.h) - 1 /\ px \in 0 .. call.w - 1
      BY <1>2, SMT
    <2> QED
      BY <1>2, <2>1 DEF Stray
  <1>8. Image(call) \in SUBSET Bits /\ (call.op # "self" => Mask(call) \in SUBSET Bits)
    <2>1. call.op # "self" => call.op \in {"bitmap", "overwrite", "plus", "external"}
      BY <1>2 DEF Paged
    <2>2. Valid(call) \in SUBSET Bits
      BY <1>2, ValidIsBits DEF Valid
    <2>3. Image(call) \in SUBSET Valid(call)
      BY DEF Image
    <2> QED
      BY <2>1, <2>2, <2>3 DEF Mask
  <1>9. canvas' = IF call.op = "self" THEN ApplyOr(canvas, x, y, Image(call))
                  ELSE ApplyMasked(canvas, x, y, data, Mask(call))
    BY DEF PaintByte
  <1>10. Pixel(canvas', a, b) <=> Pixel(canvas, a, b)
    <2>1. data \in SUBSET Bits
      BY <1>8
    <2> HIDE DEF x, y, data
    <2>2. CASE call.op = "self"
      BY <1>1, <1>4, <1>5, <1>7, <1>8, <1>9, <2>2, StrayByte
    <2>3. CASE call.op # "self"
      BY <1>1, <1>4, <1>5, <1>7, <1>8, <1>9, <2>1, <2>3, StrayByte
    <2> QED
      BY <2>2, <2>3
  <1>11. call' = call /\ before' = before /\ call.op \in AreaOps
    BY <1>2 DEF PaintByte, Advance, AreaOps
  <1>12. Painted(a, b) => (Done(a, b)' <=> (Done(a, b) \/ here))
    BY <1>1, BytePasses
  <1> HIDE DEF here
  <1>13. Pixel(canvas', a, b) <=> IF Painted(a, b) /\ here THEN Shade(a, b) ELSE Pixel(canvas, a, b)
    BY <1>6, <1>10
  <1> QED
    BY <1>11, <1>12, <1>13, AreaTurn

\* A turn at a page that is in reach draws the pixels of its byte.
LEMMA NearByteShows ==
  ASSUME DrawTypeOK, InPlace, PaintByte, ~OutOfReach(call.y + page * PageBits),
         NEW CONSTANT a \in 0 .. Width - 1, NEW CONSTANT b \in 0 .. Height - 1, Shown(a, b)
  PROVE  Shown(a, b)'
  <1> DEFINE x == Int16(call.x + px)
             y == Int16(call.y + page * PageBits)
             yy == call.y + page * PageBits
             sx == a - call.x
             sy == b - call.y
             here == sx = px /\ sy \div PageBits = page
             data == IF call.op = "bitmap" /\ ~call.white THEN {} ELSE Image(call)
             j == sy % PageBits
  <1>1. CallOK /\ IsMemory(canvas)
    BY DEF DrawTypeOK
  <1>2. /\ call.x \in Int /\ -Half <= call.x /\ call.x < Half
        /\ call.y \in Int
        /\ call.w \in Nat /\ call.w < ByteRange /\ call.h \in Small
        /\ px \in Nat /\ px < call.w /\ page \in Nat /\ page < PageCount(call.h)
        /\ call.op \in Paged
        /\ yy \in Int /\ -ByteRange < yy /\ yy < Half
    <2>1. yy \in Int /\ -Half <= yy /\ yy < Half + ByteRange
      BY <1>1, PagedCall
    <2>2. -ByteRange < yy /\ yy < Half
      BY <2>1, Sizes, SMT DEF OutOfReach
    <2> QED
      BY <1>1, <2>1, <2>2, PagedCall
  <1>3. a \in Int /\ b \in Int /\ sx \in Int /\ sy \in Int /\ call.h \in Nat
    BY <1>2, SmallIs, Sizes, SMT
  <1>4. x \in Int /\ (x = a <=> sx = px)
    <2>1. call.x + px \in Int /\ -Half - ByteRange <= call.x + px /\ call.x + px < Half + ByteRange
      BY <1>2, Sizes, SMT
    <2>2. Int16(call.x + px) = a <=> call.x + px = a
      BY <2>1, OnScreen
    <2>3. call.x + px = a <=> sx = px
      BY <1>2, <1>3, SMT
    <2> QED
      BY <2>1, <2>2, <2>3, Int16IsInt
  <1>5. y = yy
    <2>1. -Half <= yy /\ yy < Half + ByteRange
      BY <1>2, Ranges, Sizes, SMT
    <2> HIDE DEF yy
    <2>2. Int16(yy) = yy
      BY <1>2, <2>1, Int16Near
    <2> QED
      BY <2>2 DEF yy
  <1>6. Valid(call) \in SUBSET Bits
    BY <1>2, ValidIsBits DEF Valid
  <1>7. b - y \in Int /\ (sy \div PageBits = page <=> b - y \in Bits)
        /\ (sy \div PageBits = page => b - y = j /\ page * PageBits + j = sy)
    <2> DEFINE q == sy \div PageBits
               pp == page * PageBits
    <2>1. q \in Int /\ j \in 0 .. PageBits - 1 /\ sy = q * PageBits + j
      BY <1>3, RowIs
    <2>2. pp \in Int /\ b - y = sy - pp /\ Bits = 0 .. PageBits - 1 /\ PageBits \in Nat
      BY <1>2, <1>3, <1>5, Sizes, SMT DEF Bits
    <2> HIDE DEF q, j, sy
    <2>3. ASSUME q = page PROVE b - y = j /\ pp + j = sy
      <3>1. q * PageBits = pp
        BY <2>3
      <3> HIDE DEF pp
      <3> QED
        BY <2>1, <2>2, <3>1, <1>3, SMT
    <2>4. ASSUME b - y \in Bits PROVE q = page
      <3> DEFINE r == b - y
      <3>1. r \in 0 .. PageBits - 1 /\ page * PageBits + r = sy
        BY <2>2, <2>4, <1>3, SMT
      <3> HIDE DEF r
      <3>2. (page * PageBits + r) \div PageBits = page
        BY <1>2, <3>1, PageIs
      <3> QED
        BY <3>1, <3>2 DEF q
    <2>5. b - y \in Int
      BY <1>3, <2>2, SMT
    <2> HIDE DEF pp
    <2> QED
      BY <2>1, <2>2, <2>3, <2>4, <2>5 DEF q, j, sy, pp
  <1>8. sx = px => (b - y \in Valid(call) <=> Inside(call, a, b) /\ here)
    <2>1. b - y \in Valid(call) <=> (b - y \in Bits /\ page * PageBits + (b - y) < call.h)
      BY <1>2, <1>7, ValidRows DEF Valid
    <2>2. Inside(call, a, b) <=> (a >= call.x /\ a < call.x + call.w /\ b >= call.y /\ b < call.y + call.h)
      BY DEF Inside
    <2>3. sy \div PageBits = page => sy >= 0
      <3>1. page * PageBits \in Nat /\ j \in 0 .. PageBits - 1
        BY <1>2, <1>3, RowIs, Sizes, SMT
      <3> HIDE DEF j, sy
      <3> DEFINE pp == page * PageBits
      <3>2. pp \in Nat /\ (sy \div PageBits = page => pp + j = sy)
        BY <1>7, <3>1
      <3> HIDE DEF pp
      <3> QED
        BY <3>1, <3>2, Sizes, SMT
    <2>4. here => (page * PageBits + (b - y) < call.h <=> Inside(call, a, b))
      <3>1. here => page * PageBits + (b - y) = sy
        BY <1>7
      <3>2. here => (sy < call.h <=> Inside(call, a, b))
        BY <1>2, <1>3, <2>2, <2>3, SMT
      <3> QED
        BY <3>1, <3>2
    <2> QED
      BY <1>7, <2>1, <2>4
  <1>9. here => /\ call.op = "self" => (j \in Image(call) <=> j \in Valid(call) /\ PaintsPixel(call, sx, sy))
                /\ call.op = "self" => (Shade(a, b) <=> TRUE)
                /\ call.op # "self" => (j \in Mask(call) <=> j \in Valid(call) /\ PaintsPixel(call, sx, sy))
                /\ call.op # "self" /\ j \in Mask(call) => (j \in data <=> Shade(a, b))
    BY <1>1, <1>3, ByteIsPixels DEF Shade
  <1>10. Painted(a, b) <=> Inside(call, a, b) /\ PaintsPixel(call, sx, sy)
    BY DEF Painted
  <1>11. Image(call) \in SUBSET Bits /\ (call.op # "self" => Mask(call) \in SUBSET Valid(call))
    <2>1. call.op # "self" => call.op \in {"bitmap", "overwrite", "plus", "external"}
      BY <1>2 DEF Paged
    <2>2. Image(call) \in SUBSET Valid(call)
      BY DEF Image
    <2> QED
      BY <1>6, <2>1, <2>2 DEF Mask
  <1>12. canvas' = IF call.op = "self" THEN ApplyOr(canvas, x, y, Image(call))
                   ELSE ApplyMasked(canvas, x, y, data, Mask(call))
    BY DEF PaintByte
  <1>13. -ByteRange < y /\ y \in Int
    BY <1>2, <1>5
  <1>14. Pixel(canvas', a, b) <=> IF Painted(a, b) /\ here THEN Shade(a, b) ELSE Pixel(canvas, a, b)
    <2>1. here <=> (x = a /\ b - y \in Bits)
      BY <1>4, <1>7
    <2>2. here => b - y = j
      BY <1>7
    <2> HIDE DEF x, y, j, here, data
    <2>3. CASE call.op = "self"
      <3>1. Pixel(canvas', a, b) <=> IF x = a /\ b - y \in Image(call) THEN TRUE ELSE Pixel(canvas, a, b)
        BY <1>1, <1>4, <1>11, <1>12, <1>13, <2>3, PixelOfOr
      <3>2. x = a /\ b - y \in Image(call) <=> Painted(a, b) /\ here
        BY <1>4, <1>8, <1>9, <1>10, <1>11, <2>1, <2>2, <2>3
      <3> QED
        BY <1>9, <2>3, <3>1, <3>2
    <2>4. CASE call.op # "self"
      <3>0. data \in SUBSET Bits /\ Mask(call) \in SUBSET Bits
        BY <1>6, <1>11, <2>4 DEF data
      <3>1. Pixel(canvas', a, b) <=> IF x = a /\ b - y \in Mask(call) THEN b - y \in data ELSE Pixel(canvas, a, b)
        BY <1>1, <1>4, <1>12, <1>13, <2>4, <3>0, PixelOfMasked
      <3>2. x = a /\ b - y \in Mask(call) <=> Painted(a, b) /\ here
        BY <1>4, <1>8, <1>9, <1>10, <1>11, <2>1, <2>2, <2>4, <3>0
      <3> QED
        BY <1>9, <2>2, <2>4, <3>1, <3>2
    <2> QED
      BY <2>3, <2>4
  <1>15. call' = call /\ before' = before /\ call.op \in AreaOps
    BY <1>2 DEF PaintByte, Advance, AreaOps
  <1>16. Painted(a, b) => (Done(a, b)' <=> (Done(a, b) \/ here))
    BY <1>1, BytePasses
  <1> HIDE DEF here
  <1> QED
    BY <1>14, <1>15, <1>16, AreaTurn

LEMMA PaintByteShows ==
  ASSUME DrawTypeOK, InPlace, PaintByte,
         NEW CONSTANT a \in 0 .. Width - 1, NEW CONSTANT b \in 0 .. Height - 1, Shown(a, b),
         ~Stray(call, a, b)
  PROVE  Shown(a, b)'
  BY NearByteShows, FarByteShows

\* drawSlowXYBitmap() looks at one pixel in a turn, and passes over rows off the screen.
LEMMA XYCall ==
  ASSUME CallOK, InPlace, call.op = "xy"
  PROVE  /\ call.x \in Int /\ -Half <= call.x /\ call.x < Half
         /\ call.y \in Int /\ -Half <= call.y /\ call.y < Half
         /\ call.w \in Nat /\ call.w < ByteRange /\ call.h \in Nat /\ call.h < ByteRange
         /\ px \in Nat /\ page \in Nat /\ (px = 0 \/ px < call.w)
         /\ px # 0 => Int16(call.y + page) \in 0 .. Height - 1
         /\ call.white \in BOOLEAN /\ call.op \in AreaOps
  <1>1. /\ call.x \in Coordinates /\ call.y \in Coordinates /\ call.w \in Small /\ call.h \in Small
        /\ (px = 0 \/ px < call.w) /\ (px # 0 => Int16(call.y + page) \in 0 .. Height - 1)
    BY DEF InPlace, ArealInPlace
  <1>2. px \in Nat /\ page \in Nat /\ call.white \in BOOLEAN
    BY DEF CallOK
  <1>3. call.op \in AreaOps
    BY DEF AreaOps
  <1> QED
    BY <1>1, <1>2, <1>3, Coordinate, SmallIs

\* Done, for a bitmap drawn row by row.
LEMMA XYDone ==
  ASSUME call.op = "xy", call' = call, NEW CONSTANT a, NEW CONSTANT b
  PROVE  /\ Done(a, b) <=> (b - call.y < page \/ (b - call.y = page /\ a - call.x < px))
         /\ Done(a, b)' <=> (b - call.y < page' \/ (b - call.y = page' /\ a - call.x < px'))
  <1> DEFINE sx == a - call.x
             sy == b - call.y
  <1>1. /\ Done(a, b) <=> CASE call.op = "glyph" -> sx < px
                            [] call.op = "xy"    -> sy < page \/ (sy = page /\ sx < px)
                            [] call.op \in Fx    -> sy < page * PageBits
                            [] OTHER -> sy < page * PageBits \/ (sy \div PageBits = page /\ sx < px)
        /\ Done(a, b)' <=> CASE call.op = "glyph" -> sx < px'
                             [] call.op = "xy"    -> sy < page' \/ (sy = page' /\ sx < px')
                             [] call.op \in Fx    -> sy < page' * PageBits
                             [] OTHER -> sy < page' * PageBits \/ (sy \div PageBits = page' /\ sx < px')
    BY DoneIs
  <1>2. call.op \notin Fx
    BY DEF Fx
  <1> HIDE DEF sx, sy
  <1>3. Done(a, b) <=> (sy < page \/ (sy = page /\ sx < px))
    BY <1>1, <1>2
  <1>4. Done(a, b)' <=> (sy < page' \/ (sy = page' /\ sx < px'))
    BY <1>1, <1>2
  <1> QED
    BY <1>3, <1>4 DEF sx, sy

LEMMA PaintBitShows ==
  ASSUME DrawTypeOK, InPlace, PaintBit,
         NEW CONSTANT a \in 0 .. Width - 1, NEW CONSTANT b \in 0 .. Height - 1, Shown(a, b)
  PROVE  Shown(a, b)'
  <1> DEFINE x == Int16(call.x + px)
             y == Int16(call.y + page)
             sx == a - call.x
             sy == b - call.y
             here == sx = px /\ sy = page
             p == {<<x, y>>}
  <1>1. CallOK /\ IsMemory(canvas) /\ call.op = "xy" /\ call.w > 0 /\ page < call.h
    BY DEF DrawTypeOK, PaintBit
  <1>2. /\ call.x \in Int /\ -Half <= call.x /\ call.x < Half
        /\ call.y \in Int /\ -Half <= call.y /\ call.y < Half
        /\ call.w \in Nat /\ call.w < ByteRange /\ call.h \in Nat /\ call.h < ByteRange
        /\ px \in Nat /\ page \in Nat /\ (px = 0 \/ px < call.w)
        /\ call.white \in BOOLEAN /\ call.op \in AreaOps
    BY <1>1, XYCall
  <1>3. a \in Int /\ b \in Int /\ sx \in Int /\ sy \in Int /\ px < call.w
    BY <1>1, <1>2, Sizes, SMT
  <1>4. x \in Int /\ (x = a <=> sx = px)
    <2>1. call.x + px \in Int /\ -Half - ByteRange <= call.x + px /\ call.x + px < Half + ByteRange
      BY <1>2, <1>3, Sizes, SMT
    <2>2. Int16(call.x + px) = a <=> call.x + px = a
      BY <2>1, OnScreen
    <2>3. call.x + px = a <=> sx = px
      BY <1>2, <1>3, SMT
    <2> QED
      BY <2>1, <2>2, <2>3, Int16IsInt
  <1>5. y \in Int /\ (y = b <=> sy = page)
    <2>1. call.y + page \in Int /\ -Half - ByteRange <= call.y + page /\ call.y + page < Half + ByteRange
      BY <1>1, <1>2, Sizes, SMT
    <2>2. Int16(call.y + page) = b <=> call.y + page = b
      BY <2>1, OnScreen
    <2>3. call.y + page = b <=> sy = page
      BY <1>2, <1>3, SMT
    <2> QED
      BY <2>1, <2>2, <2>3, Int16IsInt
  <1>6. canvas' = IF x \in 0 .. Width - 1 /\ XYBit(call, px, page) THEN DrawOne(x, y, call.white) ELSE canvas
    BY DEF PaintBit
  <1>7. here => Painted(a, b) <=> XYBit(call, px, page)
    <2>1. here => Inside(call, a, b)
      BY <1>1, <1>2, <1>3, SMT DEF Inside
    <2>2. PaintsPixel(call, sx, sy) <=> XYBit(call, sx, sy)
      BY <1>1 DEF PaintsPixel
    <2> QED
      BY <2>1, <2>2 DEF Painted
  <1>8. Shade(a, b) <=> call.white
    BY <1>1 DEF Shade, White
  <1> HIDE DEF x, y
  <1>9. p \in SUBSET Pixels /\ {} \in SUBSET Pixels /\ (<<a, b>> \in p <=> x = a /\ y = b)
    BY <1>4, <1>5 DEF Pixels
  <1>10. x = a => x \in 0 .. Width - 1
    OBVIOUS
  <1>11. Pixel(canvas', a, b) <=> IF Painted(a, b) /\ here THEN Shade(a, b) ELSE Pixel(canvas, a, b)
    <2>1. CASE x \in 0 .. Width - 1 /\ XYBit(call, px, page)
      <3>1. DrawOne(x, y, call.white) = IF call.white THEN DrawPixels(canvas, p, {}) ELSE DrawPixels(canvas, {}, p)
        BY <1>2 DEF DrawOne
      <3> HIDE DEF p
      <3>2. /\ Pixel(DrawPixels(canvas, p, {}), a, b) <=> (<<a, b>> \in p \/ (<<a, b>> \notin {} /\ Pixel(canvas, a, b)))
            /\ Pixel(DrawPixels(canvas, {}, p), a, b) <=> (<<a, b>> \in {} \/ (<<a, b>> \notin p /\ Pixel(canvas, a, b)))
        BY <1>9, PixelOfPoints
      <3>3. canvas' = IF call.white THEN DrawPixels(canvas, p, {}) ELSE DrawPixels(canvas, {}, p)
        BY <1>6, <2>1, <3>1
      <3>4. Pixel(canvas', a, b) <=> IF <<a, b>> \in p THEN call.white ELSE Pixel(canvas, a, b)
        <4>1. CASE call.white
          BY <3>2, <3>3, <4>1
        <4>2. CASE ~call.white
          BY <3>2, <3>3, <4>2
        <4> QED
          BY <4>1, <4>2
      <3>5. <<a, b>> \in p <=> here
        BY <1>4, <1>5, <1>9
      <3> HIDE DEF here
      <3> QED
        BY <1>7, <1>8, <2>1, <3>4, <3>5
    <2>2. CASE ~(x \in 0 .. Width - 1 /\ XYBit(call, px, page))
      <3>1. canvas' = canvas
        BY <1>6, <2>2
      <3>2. ~(Painted(a, b) /\ here)
        BY <1>4, <1>7, <1>10, <2>2
      <3> QED
        BY <3>1, <3>2
    <2> QED
      BY <2>1, <2>2
  <1>12. call' = call /\ before' = before
    BY DEF PaintBit, Advance
  <1>13. Painted(a, b) => (Done(a, b)' <=> (Done(a, b) \/ here))
    <2>1. Painted(a, b) => 0 <= sx /\ sx < call.w
      BY <1>2, <1>3, SMT DEF Painted, Inside
    <2>2. IF px + 1 < call.w THEN px' = px + 1 /\ page' = page ELSE px' = 0 /\ page' = page + 1
      BY DEF PaintBit, Advance
    <2>3. /\ Done(a, b) <=> (sy < page \/ (sy = page /\ sx < px))
          /\ Done(a, b)' <=> (sy < page' \/ (sy = page' /\ sx < px'))
      BY <1>1, <1>12, XYDone
    <2> HIDE DEF sx, sy
    <2>4. 0 <= sx /\ sx < call.w =>
            ((sy < page' \/ (sy = page' /\ sx < px')) <=> ((sy < page \/ (sy = page /\ sx < px)) \/ here))
      BY <1>2, <1>3, <2>2, SMT
    <2> QED
      BY <2>1, <2>3, <2>4
  <1> HIDE DEF here
  <1> QED
    BY <1>2, <1>11, <1>12, <1>13, AreaTurn

LEMMA SkipRowShows ==
  ASSUME DrawTypeOK, InPlace, SkipRow,
         NEW CONSTANT a \in 0 .. Width - 1, NEW CONSTANT b \in 0 .. Height - 1, Shown(a, b)
  PROVE  Shown(a, b)'
  <1> DEFINE sx == a - call.x
             sy == b - call.y
             here == sy = page
  <1>1. /\ CallOK /\ call.op = "xy" /\ page < call.h /\ page' = page + 1 /\ px' = px
        /\ call' = call /\ before' = before /\ canvas' = canvas
        /\ call.w = 0 \/ Int16(call.y + page) \notin 0 .. Height - 1
    BY DEF DrawTypeOK, SkipRow
  <1>2. /\ call.x \in Int /\ -Half <= call.x /\ call.x < Half
        /\ call.y \in Int /\ -Half <= call.y /\ call.y < Half
        /\ call.w \in Nat /\ call.w < ByteRange /\ call.h \in Nat /\ call.h < ByteRange
        /\ px \in Nat /\ page \in Nat /\ (px = 0 \/ px < call.w)
        /\ px # 0 => Int16(call.y + page) \in 0 .. Height - 1
        /\ call.op \in AreaOps
    BY <1>1, XYCall
  <1>3. a \in Int /\ b \in Int /\ sx \in Int /\ sy \in Int
    BY <1>2, Sizes, SMT
  <1>4. px = 0
    BY <1>1, <1>2, SMT
  <1>5. Painted(a, b) => 0 <= sx /\ call.w > 0
    BY <1>2, <1>3, SMT DEF Painted, Inside
  <1>6. here => Int16(call.y + page) = b
    <2>1. call.y + page \in Int /\ -Half - ByteRange <= call.y + page /\ call.y + page < Half + ByteRange
      BY <1>1, <1>2, Sizes, SMT
    <2>2. Int16(call.y + page) = b <=> call.y + page = b
      BY <2>1, OnScreen
    <2>3. call.y + page = b <=> sy = page
      BY <1>2, <1>3, SMT
    <2> QED
      BY <2>2, <2>3
  <1>7. ~(Painted(a, b) /\ here)
    <2> HIDE DEF here
    <2>1. ASSUME Painted(a, b), here PROVE FALSE
      <3>1. call.w # 0
        BY <1>2, <1>5, <2>1, SMT
      <3> QED
        BY <1>1, <1>6, <2>1, <3>1
    <2> QED
      BY <2>1
  <1>8. Pixel(canvas', a, b) <=> IF Painted(a, b) /\ here THEN Shade(a, b) ELSE Pixel(canvas, a, b)
    BY <1>1, <1>7
  <1>9. Painted(a, b) => (Done(a, b)' <=> (Done(a, b) \/ here))
    <2>1. /\ Done(a, b) <=> (sy < page \/ (sy = page /\ sx < px))
          /\ Done(a, b)' <=> (sy < page' \/ (sy = page' /\ sx < px'))
      BY <1>1, XYDone
    <2> HIDE DEF sx, sy
    <2>2. 0 <= sx =>
            ((sy < page' \/ (sy = page' /\ sx < px')) <=> ((sy < page \/ (sy = page /\ sx < px)) \/ here))
      BY <1>1, <1>2, <1>3, <1>4, SMT
    <2> QED
      BY <1>5, <2>1, <2>2
  <1> HIDE DEF here
  <1> QED
    BY <1>1, <1>2, <1>8, <1>9, AreaTurn

LEMMA FxIsAnArea == call.op \in Fx => call.op \in AreaOps /\ call.op \in {"fx", "fxmask"}
  BY DEF AreaOps, Fx

LEMMA FxCall ==
  ASSUME CallOK, InPlace, call.op \in Fx, page < PageCount(call.h)
  PROVE  /\ call.x \in Int /\ -Half <= call.x /\ call.x < Half /\ call.y \in Int
         /\ call.w \in Nat /\ call.w < ByteRange /\ call.h \in Nat
         /\ page \in Nat /\ FxTop \in Int /\ call.frame \in Nat
         /\ PageCount(call.h) \in Nat
  <1>1. /\ call.x \in Coordinates /\ call.y \in Coordinates /\ call.w \in Small /\ call.h \in Small
        /\ call.frame \in Nat
    BY DEF InPlace, ArealInPlace
  <1>2. page \in Nat
    BY DEF CallOK
  <1>3. /\ call.x \in Int /\ -Half <= call.x /\ call.x < Half /\ call.y \in Int
        /\ call.w \in Nat /\ call.w < ByteRange /\ call.h \in Nat
    BY <1>1, Coordinate, SmallIs
  <1>4. FxTop \in Int
    BY <1>2, <1>3, Sizes, SMT DEF FxTop
  <1> DEFINE n == PageCount(call.h)
  <1>5. n \in Int
    BY <1>3, Sizes, SMT DEF PageCount
  <1> HIDE DEF n
  <1>6. n \in Nat
    BY <1>2, <1>5, SMT DEF n
  <1> QED
    BY <1>1, <1>2, <1>3, <1>4, <1>6 DEF n

\* Done, for a bitmap drawn page by page.
LEMMA FxDone ==
  ASSUME call.op \in Fx, call' = call, NEW CONSTANT a, NEW CONSTANT b
  PROVE  /\ Done(a, b) <=> b - call.y < page * PageBits
         /\ Done(a, b)' <=> b - call.y < page' * PageBits
  <1> DEFINE sx == a - call.x
             sy == b - call.y
  <1>1. /\ Done(a, b) <=> CASE call.op = "glyph" -> sx < px
                            [] call.op = "xy"    -> sy < page \/ (sy = page /\ sx < px)
                            [] call.op \in Fx    -> sy < page * PageBits
                            [] OTHER -> sy < page * PageBits \/ (sy \div PageBits = page /\ sx < px)
        /\ Done(a, b)' <=> CASE call.op = "glyph" -> sx < px'
                             [] call.op = "xy"    -> sy < page' \/ (sy = page' /\ sx < px')
                             [] call.op \in Fx    -> sy < page' * PageBits
                             [] OTHER -> sy < page' * PageBits \/ (sy \div PageBits = page' /\ sx < px')
    BY DoneIs
  <1>2. call.op # "glyph" /\ call.op # "xy"
    BY DEF Fx
  <1> HIDE DEF sx, sy
  <1>3. Done(a, b) <=> sy < page * PageBits
    BY <1>1, <1>2
  <1>4. Done(a, b)' <=> sy < page' * PageBits
    BY <1>1, <1>2
  <1> QED
    BY <1>3, <1>4 DEF sx, sy

\* A row of a bitmap is in page p of it or not.
LEMMA RowOfPage ==
  ASSUME NEW r \in Int, NEW p \in Int
  PROVE  LET pp == p * PageBits
         IN  /\ r \div PageBits = p <=> r - pp \in Bits
             /\ r \div PageBits = p => r - pp = r % PageBits
             /\ pp \in Int /\ (p + 1) * PageBits = pp + PageBits
  <1> DEFINE pp == p * PageBits
             q == r \div PageBits
             j == r % PageBits
             qp == q * PageBits
  <1>1. pp \in Int /\ (p + 1) * PageBits = pp + PageBits /\ Bits = 0 .. PageBits - 1 /\ PageBits \in Nat
    BY Sizes, SMT DEF Bits
  <1>2. q \in Int /\ j \in 0 .. PageBits - 1 /\ r = qp + j
    BY RowIs
  <1>3. q = p => qp = pp
    OBVIOUS
  <1>4. qp \in Int
    BY <1>1, <1>2, SMT
  <1> HIDE DEF q, j, qp
  <1>5. ASSUME q = p PROVE r - pp = j /\ r - pp \in Bits
    <2> HIDE DEF pp
    <2>1. r - pp = j
      BY <1>1, <1>2, <1>3, <1>4, <1>5, SMT
    <2> QED
      BY <1>1, <1>2, <2>1
  <1>6. ASSUME r - pp \in Bits PROVE q = p
    <2> DEFINE i == r - pp
    <2>1. i \in 0 .. PageBits - 1 /\ p * PageBits + i = r
      BY <1>1, <1>6, SMT
    <2> HIDE DEF i
    <2>2. (p * PageBits + i) \div PageBits = p
      BY <2>1, PageIs
    <2> QED
      BY <2>1, <2>2 DEF q
  <1> QED
    BY <1>1, <1>5, <1>6 DEF q, j

\* The bits of an FX bitmap and of its mask that a page has for a pixel.
LEMMA FxByteIsPixels ==
  ASSUME CallOK, InPlace, call.op \in Fx, page < PageCount(call.h),
         NEW sx \in Nat, sx < call.w, NEW sy, sy \div PageBits = page
  PROVE  LET j == sy % PageBits
         IN  /\ (Stride(call) = 1 \/ j \in FxByte(call, sx, 1)) <=> PaintsPixel(call, sx, sy)
             /\ j \in FxByte(call, sx, 0) <=> White(call, sx, sy)
  <1> DEFINE j == sy % PageBits
             w == call.w
             n == PageCount(call.h)
             FB == FrameBytes(call)
             e == page * w + sx
             base == call.frame * FB
             pw == page * w
  <1>1. w \in Nat /\ page \in Nat /\ page < n /\ n \in Nat /\ call.frame \in Nat
    BY FxCall
  <1>2. FB = w * n /\ FB \in Nat
    BY <1>1, SMT DEF FrameBytes
  <1>3. e = sx + pw /\ e \in 0 .. FB - 1
    BY <1>1, <1>2, InFrame
  <1>4. pw \in Nat /\ base \in Nat
    BY <1>1, <1>2, SMT
  <1>5. CASE call.op = "fx"
    <2>1. Stride(call) = 1 /\ FrameData(call) = base
      BY <1>5 DEF Stride, FrameData
    <2>2. PaintsPixel(call, sx, sy) <=> TRUE
      BY <1>5 DEF PaintsPixel
    <2>3. White(call, sx, sy) <=> j \in Art[base + sx + pw]
      BY <1>5 DEF White, BitmapBit
    <2>4. FxByte(call, sx, 0) = Art[base + e * 1 + 0]
      BY <2>1 DEF FxByte
    <2>5. base + e * 1 + 0 = base + sx + pw
      <3> HIDE DEF e, pw, base
      <3> QED
        BY <1>3, <1>4, SMT
    <2> HIDE DEF e, pw, base, j
    <2> QED
      BY <2>1, <2>2, <2>3, <2>4, <2>5 DEF j
  <1>6. CASE call.op = "fxmask"
    <2> DEFINE two == 2 * call.frame * FB
    <2>1. Stride(call) = 2 /\ FrameData(call) = two
      BY <1>6 DEF Stride, FrameData, Fx
    <2>2. /\ White(call, sx, sy) <=> BitmapBit(Plane(call, 0), 0, w, sx, sy)
          /\ PaintsPixel(call, sx, sy) <=> BitmapBit(Plane(call, 1), 0, w, sx, sy)
      BY <1>6 DEF White, PaintsPixel
    <2>3. 0 + sx + pw = e
      <3> HIDE DEF pw, e
      <3> QED
        BY <1>3, <1>4, SMT
    <2>4. \A rom : BitmapBit(rom, 0, w, sx, sy) <=> j \in rom[e]
      BY <2>3 DEF BitmapBit
    <2>5. /\ Plane(call, 0)[e] = Art[two + 2 * e + 0]
          /\ Plane(call, 1)[e] = Art[two + 2 * e + 1]
      BY <1>3 DEF Plane
    <2>6. FxByte(call, sx, 0) = Art[two + e * 2 + 0] /\ FxByte(call, sx, 1) = Art[two + e * 2 + 1]
      BY <2>1 DEF FxByte
    <2>7. e * 2 = 2 * e
      BY <1>3, SMT
    <2> HIDE DEF e, j, two
    <2> QED
      BY <2>1, <2>2, <2>4, <2>5, <2>6, <2>7 DEF j, e
  <1> QED
    BY <1>5, <1>6, FxIsAnArea

LEMMA FxColumns ==
  ASSUME NEW x \in Int, NEW w \in Nat, NEW c, c.x = x, c.w = w, NEW k \in Int
  PROVE  k \in Columns(c) <=> 0 <= k /\ k < w /\ 0 <= x + k /\ x + k < Width
  <1>1. Columns(c) = (IF x < 0 THEN -x ELSE 0) .. Smaller(w, Width - x) - 1
    BY DEF Columns
  <1> QED
    BY <1>1, Sizes, SMT DEF Smaller

LEMMA FxPageShows ==
  ASSUME DrawTypeOK, InPlace, FxPage,
         NEW CONSTANT a \in 0 .. Width - 1, NEW CONSTANT b \in 0 .. Height - 1, Shown(a, b)
  PROVE  Shown(a, b)'
  <1> DEFINE pixels == {p \in Columns(call) \X Bits :
                          /\ page * PageBits + p[2] < call.h
                          /\ Stride(call) = 1 \/ p[2] \in FxByte(call, p[1], 1)}
             lit == {p \in pixels : p[2] \in FxByte(call, p[1], 0)}
             at(P) == {<<Int16(call.x + p[1]), Int16(FxTop + p[2])>> : p \in P}
             sx == a - call.x
             sy == b - call.y
             j  == b - FxTop
             here == sy \div PageBits = page
             pp == page * PageBits
  <1>1. /\ canvas' = DrawPixels(canvas, at(lit), at(pixels \ lit))
        /\ page' = page + 1 /\ call' = call /\ before' = before
        /\ call.op \in Fx /\ page < PageCount(call.h) /\ FxTop < Height /\ FxTop + PageBits > 0
    BY DEF FxPage
  <1>2. CallOK /\ IsMemory(canvas)
    BY DEF DrawTypeOK
  <1>3. /\ call.x \in Int /\ -Half <= call.x /\ call.x < Half /\ call.y \in Int
        /\ call.w \in Nat /\ call.w < ByteRange /\ call.h \in Nat
        /\ page \in Nat /\ FxTop \in Int
    BY <1>1, <1>2, FxCall
  <1>4. /\ a \in Int /\ b \in Int /\ sx \in Int /\ sy \in Int /\ j \in Int /\ 0 <= a /\ a < Width
        /\ 0 <= b /\ b < Height
    BY <1>3, Sizes, SMT
  <1>5. /\ here <=> sy - pp \in Bits
        /\ here => sy - pp = sy % PageBits
        /\ pp \in Int /\ (page + 1) * PageBits = pp + PageBits
    <2>1. page \in Int
      BY <1>3, SMT
    <2> HIDE DEF sy
    <2> QED
      BY <1>4, <2>1, RowOfPage
  <1>6. FxTop = call.y + pp /\ sy - pp = j
    <2>1. FxTop = call.y + pp
      BY DEF FxTop
    <2> HIDE DEF pp
    <2> QED
      BY <1>3, <1>4, <1>5, <2>1, SMT
  <1>7. \A p \in Columns(call) \X Bits :
          /\ p[1] \in Int /\ p[2] \in Int /\ p = <<p[1], p[2]>> /\ p[1] \in Columns(call) /\ p[2] \in Bits
          /\ <<Int16(call.x + p[1]), Int16(FxTop + p[2])>> \in Pixels
          /\ <<a, b>> = <<Int16(call.x + p[1]), Int16(FxTop + p[2])>> <=> p = <<sx, j>>
    <2> SUFFICES ASSUME NEW p \in Columns(call) \X Bits
                 PROVE  /\ p[1] \in Int /\ p[2] \in Int /\ p = <<p[1], p[2]>> /\ p[1] \in Columns(call) /\ p[2] \in Bits
                        /\ <<Int16(call.x + p[1]), Int16(FxTop + p[2])>> \in Pixels
                        /\ <<a, b>> = <<Int16(call.x + p[1]), Int16(FxTop + p[2])>> <=> p = <<sx, j>>
      OBVIOUS
    <2> DEFINE u == p[1]
               v == p[2]
               U == Int16(call.x + u)
               V == Int16(FxTop + v)
    <2>1. u \in Columns(call) /\ v \in Bits /\ p = <<u, v>>
      OBVIOUS
    <2> HIDE DEF u, v
    <2>2. u \in Int /\ v \in Int /\ 0 <= v /\ v < PageBits
      BY <2>1, Sizes, SMT DEF Columns, Bits
    <2>3. 0 <= call.x + u /\ call.x + u < Width
      BY <1>3, <2>1, <2>2, FxColumns
    <2>4. call.x + u \in Int /\ -Half - ByteRange <= call.x + u /\ call.x + u < Half + ByteRange
      BY <1>3, <2>2, <2>3, Ranges, Sizes, SMT
    <2>5. FxTop + v \in Int /\ -Half - ByteRange <= FxTop + v /\ FxTop + v < Half + ByteRange
      BY <1>1, <1>3, <2>2, Ranges, Sizes, SMT
    <2>6. (U = a <=> call.x + u = a) /\ (V = b <=> FxTop + v = b)
      BY <2>4, <2>5, OnScreen
    <2>7. (call.x + u = a <=> u = sx) /\ (FxTop + v = b <=> v = j)
      BY <1>3, <1>4, <2>2, SMT
    <2>8. U \in Int /\ V \in Int
      BY <2>4, <2>5, Int16IsInt
    <2> HIDE DEF U, V, sx, j
    <2>9. <<U, V>> \in Pixels
      BY <2>8 DEF Pixels
    <2>10. <<a, b>> = <<U, V>> <=> <<u, v>> = <<sx, j>>
      BY <2>6, <2>7
    <2> QED
      BY <2>1, <2>2, <2>9, <2>10 DEF u, v, U, V, sx, j
  <1>8. ASSUME NEW P \in SUBSET (Columns(call) \X Bits)
        PROVE  at(P) \in SUBSET Pixels /\ (<<a, b>> \in at(P) <=> <<sx, j>> \in P)
    <2>1. at(P) \in SUBSET Pixels
      BY <1>7
    <2>2. <<a, b>> \in at(P) <=> \E p \in P : <<a, b>> = <<Int16(call.x + p[1]), Int16(FxTop + p[2])>>
      OBVIOUS
    <2>3. \A p \in P : <<a, b>> = <<Int16(call.x + p[1]), Int16(FxTop + p[2])>> <=> p = <<sx, j>>
      BY <1>7
    <2> HIDE DEF at, sx, j
    <2> QED
      BY <2>1, <2>2, <2>3
  <1>9. <<sx, j>> \in pixels <=> /\ sx \in Columns(call) /\ j \in Bits /\ pp + j < call.h
                                 /\ Stride(call) = 1 \/ j \in FxByte(call, sx, 1)
    <2> HIDE DEF sx, j
    <2>1. <<sx, j>> \in Columns(call) \X Bits <=> sx \in Columns(call) /\ j \in Bits
      OBVIOUS
    <2>2. <<sx, j>>[1] = sx /\ <<sx, j>>[2] = j
      OBVIOUS
    <2> QED
      BY <2>1, <2>2
  <1>10. <<sx, j>> \in lit <=> <<sx, j>> \in pixels /\ j \in FxByte(call, sx, 0)
    <2> HIDE DEF sx, j, pixels
    <2>1. <<sx, j>>[1] = sx /\ <<sx, j>>[2] = j
      OBVIOUS
    <2> QED
      BY <2>1
  <1>11. Inside(call, a, b) <=> sx \in Columns(call) /\ 0 <= sy /\ sy < call.h
    <2>1. sx \in Columns(call) <=> 0 <= sx /\ sx < call.w /\ 0 <= call.x + sx /\ call.x + sx < Width
      BY <1>3, <1>4, FxColumns
    <2>2. Inside(call, a, b) <=> (a >= call.x /\ a < call.x + call.w /\ b >= call.y /\ b < call.y + call.h)
      BY DEF Inside
    <2> QED
      BY <1>3, <1>4, <2>1, <2>2, SMT
  <1>12. here => pp + j = sy /\ j = sy % PageBits /\ 0 <= sy
    <2>1. pp \in Nat
      BY <1>3, Sizes, SMT
    <2> HIDE DEF pp, sy, j
    <2>2. here => j \in Bits /\ j = sy % PageBits
      BY <1>5, <1>6
    <2>3. j \in Bits => j >= 0
      BY Sizes, SMT DEF Bits
    <2>4. pp + j = sy
      BY <1>4, <1>6, <2>1, SMT
    <2> HIDE DEF here
    <2> QED
      BY <1>4, <2>1, <2>2, <2>3, <2>4, SMT
  <1>13. here /\ Inside(call, a, b) =>
           /\ (Stride(call) = 1 \/ j \in FxByte(call, sx, 1)) <=> PaintsPixel(call, sx, sy)
           /\ j \in FxByte(call, sx, 0) <=> White(call, sx, sy)
    <2> SUFFICES ASSUME here, Inside(call, a, b)
                 PROVE  /\ (Stride(call) = 1 \/ j \in FxByte(call, sx, 1)) <=> PaintsPixel(call, sx, sy)
                        /\ j \in FxByte(call, sx, 0) <=> White(call, sx, sy)
      OBVIOUS
    <2>1. sx \in Nat /\ sx < call.w
      BY <1>3, <1>4, SMT DEF Inside
    <2>2. j = sy % PageBits
      BY <1>12
    <2> HIDE DEF sx
    <2>3. /\ (Stride(call) = 1 \/ (sy % PageBits) \in FxByte(call, sx, 1)) <=> PaintsPixel(call, sx, sy)
          /\ (sy % PageBits) \in FxByte(call, sx, 0) <=> White(call, sx, sy)
      BY <1>1, <1>2, <2>1, FxByteIsPixels
    <2> QED
      BY <2>2, <2>3
  <1>14. <<sx, j>> \in pixels <=> Painted(a, b) /\ here
    <2>1. Painted(a, b) <=> Inside(call, a, b) /\ PaintsPixel(call, sx, sy)
      BY DEF Painted
    <2>2. here <=> j \in Bits
      BY <1>5, <1>6
    <2> HIDE DEF pixels, sx, sy, j, here
    <2> QED
      BY <1>9, <1>11, <1>12, <1>13, <2>1, <2>2
  <1>15. Painted(a, b) /\ here => (j \in FxByte(call, sx, 0) <=> Shade(a, b))
    BY <1>13 DEF Painted, Shade
  <1>16. Pixel(canvas', a, b) <=> IF Painted(a, b) /\ here THEN Shade(a, b) ELSE Pixel(canvas, a, b)
    <2>1. pixels \in SUBSET (Columns(call) \X Bits)
      OBVIOUS
    <2> HIDE DEF pixels
    <2>2. lit \in SUBSET (Columns(call) \X Bits) /\ pixels \ lit \in SUBSET (Columns(call) \X Bits)
      BY <2>1
    <2> HIDE DEF lit, at, sx, sy, j, here
    <2>3. /\ at(lit) \in SUBSET Pixels /\ (<<a, b>> \in at(lit) <=> <<sx, j>> \in lit)
          /\ at(pixels \ lit) \in SUBSET Pixels /\ (<<a, b>> \in at(pixels \ lit) <=> <<sx, j>> \in pixels \ lit)
      BY <1>8, <2>2
    <2>4. Pixel(canvas', a, b) <=> (<<a, b>> \in at(lit) \/ (<<a, b>> \notin at(pixels \ lit) /\ Pixel(canvas, a, b)))
      <3> DEFINE W == at(lit)
                 K == at(pixels \ lit)
      <3>1. canvas' = DrawPixels(canvas, W, K) /\ W \in SUBSET Pixels /\ K \in SUBSET Pixels
        BY <1>1, <2>3
      <3> HIDE DEF W, K
      <3>2. Pixel(DrawPixels(canvas, W, K), a, b) <=> (<<a, b>> \in W \/ (<<a, b>> \notin K /\ Pixel(canvas, a, b)))
        BY <3>1, PixelOfPoints
      <3> QED
        BY <3>1, <3>2 DEF W, K
    <2>5. <<sx, j>> \in pixels \ lit <=> <<sx, j>> \in pixels /\ <<sx, j>> \notin lit
      OBVIOUS
    <2> QED
      BY <1>10, <1>14, <1>15, <2>3, <2>4, <2>5
  <1>17. Painted(a, b) => (Done(a, b)' <=> (Done(a, b) \/ here))
    <2>1. (Done(a, b) <=> sy < pp) /\ (Done(a, b)' <=> sy < page' * PageBits)
      BY <1>1, FxDone
    <2>2. page' * PageBits = pp + PageBits
      BY <1>1, <1>5
    <2> HIDE DEF pp, sy
    <2>3. here <=> (0 <= sy - pp /\ sy - pp < PageBits)
      BY <1>4, <1>5, Sizes, SMT DEF Bits
    <2> HIDE DEF here
    <2>4. sy < pp + PageBits <=> (sy < pp \/ here)
      BY <1>4, <1>5, <2>3, Sizes, SMT
    <2> QED
      BY <2>1, <2>2, <2>4
  <1> HIDE DEF here
  <1> QED
    BY <1>1, <1>16, <1>17, FxIsAnArea, AreaTurn

LEMMA FxSkipPageShows ==
  ASSUME DrawTypeOK, InPlace, FxSkipPage,
         NEW CONSTANT a \in 0 .. Width - 1, NEW CONSTANT b \in 0 .. Height - 1, Shown(a, b)
  PROVE  Shown(a, b)'
  <1> DEFINE sy == b - call.y
             pp == page * PageBits
  <1>1. /\ canvas' = canvas /\ page' = page + 1 /\ call' = call /\ before' = before
        /\ call.op \in Fx /\ page < PageCount(call.h) /\ (FxTop >= Height \/ FxTop + PageBits <= 0)
        /\ CallOK
    BY DEF FxSkipPage, DrawTypeOK
  <1>2. call.y \in Int /\ page \in Nat /\ FxTop \in Int
    BY <1>1, FxCall
  <1>3. /\ b \in Int /\ sy \in Int /\ 0 <= b /\ b < Height
    BY <1>2, Sizes, SMT
  <1>4. pp \in Int /\ (page + 1) * PageBits = pp + PageBits
    BY <1>2, Sizes, SMT
  <1>5. FxTop = call.y + pp
    BY DEF FxTop
  <1>6. (Done(a, b) <=> sy < pp) /\ (Done(a, b)' <=> sy < page' * PageBits)
    BY <1>1, FxDone
  <1>7. page' * PageBits = pp + PageBits
    BY <1>1, <1>4
  <1> HIDE DEF pp
  <1>8. sy < pp <=> sy < pp + PageBits
    BY <1>1, <1>2, <1>3, <1>4, <1>5, Sizes, SMT
  <1>9. Done(a, b)' <=> (Done(a, b) \/ FALSE)
    BY <1>6, <1>7, <1>8
  <1>10. Pixel(canvas', a, b) <=> IF Painted(a, b) /\ FALSE THEN Shade(a, b) ELSE Pixel(canvas, a, b)
    BY <1>1
  <1> QED
    BY <1>1, <1>9, <1>10, FxIsAnArea, AreaTurn

\* Done, for a glyph.
LEMMA GlyphDone ==
  ASSUME call.op = "glyph", call' = call, NEW CONSTANT a, NEW CONSTANT b
  PROVE  /\ Done(a, b) <=> a - call.x < px
         /\ Done(a, b)' <=> a - call.x < px'
  <1> DEFINE sx == a - call.x
             sy == b - call.y
  <1>1. /\ Done(a, b) <=> CASE call.op = "glyph" -> sx < px
                            [] call.op = "xy"    -> sy < page \/ (sy = page /\ sx < px)
                            [] call.op \in Fx    -> sy < page * PageBits
                            [] OTHER -> sy < page * PageBits \/ (sy \div PageBits = page /\ sx < px)
        /\ Done(a, b)' <=> CASE call.op = "glyph" -> sx < px'
                             [] call.op = "xy"    -> sy < page' \/ (sy = page' /\ sx < px')
                             [] call.op \in Fx    -> sy < page' * PageBits
                             [] OTHER -> sy < page' * PageBits \/ (sy \div PageBits = page' /\ sx < px')
    BY DoneIs
  <1>2. call.op \notin Fx /\ call.op # "xy"
    BY DEF Fx
  <1> HIDE DEF sx, sy
  <1>3. Done(a, b) <=> sx < px
    BY <1>1, <1>2
  <1>4. Done(a, b)' <=> sx < px'
    BY <1>1, <1>2
  <1> QED
    BY <1>3, <1>4 DEF sx

\* A column of a glyph, with its background.
LEMMA PaintColumnShows ==
  ASSUME DrawTypeOK, InPlace, PaintColumn,
         NEW CONSTANT a \in 0 .. Width - 1, NEW CONSTANT b \in 0 .. Height - 1, Shown(a, b)
  PROVE  Shown(a, b)'
  <1> DEFINE at(B) == {<<Int16(cursor.x + px), Int16(cursor.y + i)>> : i \in B}
             sx == a - call.x
             sy == b - call.y
             here == sx = px
             G == Glyph(call, px)
             U == Int16(cursor.x + px)
  <1>1. /\ canvas' = DrawPixels(canvas, at(G), at(Bits \ G))
        /\ px' = px + 1 /\ page' = page /\ call' = call /\ before' = before
        /\ call.op = "glyph" /\ px < call.w
    BY DEF PaintColumn
  <1>2. /\ IsMemory(canvas) /\ px \in Nat /\ call.frame \in Frames
        /\ call.x = cursor.x /\ call.y = cursor.y /\ call.x <= Width - GlyphWidth
        /\ call.w = GlyphWidth + 1 /\ call.h = PageBits
        /\ cursor.x \in Coordinates /\ cursor.y \in Coordinates
    BY <1>1 DEF DrawTypeOK, CallOK, InPlace, GlyphInPlace
  <1>3. /\ call.x \in Int /\ -Half <= call.x /\ call.y \in Int /\ -Half <= call.y /\ call.y < Half
        /\ GlyphWidth \in Nat
    BY <1>2, Coordinate, DrawingAssumption
  <1>4. a \in Int /\ b \in Int /\ sx \in Int /\ sy \in Int
    BY <1>3, Sizes, SMT
  <1>5. G \in SUBSET Bits
    <2>1. CASE px < GlyphWidth
      <3>1. px \in 0 .. GlyphWidth - 1
        BY <1>2, <1>3, <2>1, SMT
      <3>2. Font[call.frame * GlyphWidth + px] \in Bytes
        BY <1>2, <3>1, DrawingAssumption
      <3> QED
        BY <2>1, <3>2 DEF Glyph, Bytes
    <2>2. CASE ~(px < GlyphWidth)
      BY <2>2 DEF Glyph
    <2> QED
      BY <2>1, <2>2
  <1>6. U \in Int /\ (U = a <=> here)
    <2>1. cursor.x + px \in Int /\ -Half - ByteRange <= cursor.x + px /\ cursor.x + px < Half + ByteRange
      BY <1>1, <1>2, <1>3, Ranges, Sizes, SMT
    <2>2. U = a <=> cursor.x + px = a
      BY <2>1, OnScreen
    <2>3. cursor.x + px = a <=> here
      BY <1>2, <1>3, <1>4, SMT
    <2> QED
      BY <2>1, <2>2, <2>3, Int16IsInt
  <1>7. \A i \in Bits : Int16(cursor.y + i) \in Int /\ (Int16(cursor.y + i) = b <=> i = sy)
    <2> SUFFICES ASSUME NEW i \in Bits
                 PROVE  Int16(cursor.y + i) \in Int /\ (Int16(cursor.y + i) = b <=> i = sy)
      OBVIOUS
    <2>1. i \in Int /\ cursor.y + i \in Int /\ -Half - ByteRange <= cursor.y + i /\ cursor.y + i < Half + ByteRange
      BY <1>2, <1>3, Ranges, Sizes, SMT DEF Bits
    <2>2. Int16(cursor.y + i) = b <=> cursor.y + i = b
      BY <2>1, OnScreen
    <2>3. cursor.y + i = b <=> i = sy
      BY <1>2, <1>3, <1>4, <2>1, SMT
    <2> QED
      BY <2>1, <2>2, <2>3, Int16IsInt
  <1> HIDE DEF U, here, G
  <1>8. ASSUME NEW B \in SUBSET Bits
        PROVE  at(B) \in SUBSET Pixels /\ (<<a, b>> \in at(B) <=> here /\ sy \in B)
    <2>1. at(B) = {<<U, Int16(cursor.y + i)>> : i \in B}
      BY DEF U
    <2>2. at(B) \in SUBSET Pixels
      BY <1>6, <1>7, <2>1 DEF Pixels
    <2> HIDE DEF at, sy
    <2>3. <<a, b>> \in at(B) <=> \E i \in B : U = a /\ Int16(cursor.y + i) = b
      BY <2>1
    <2>4. \A i \in B : Int16(cursor.y + i) = b <=> i = sy
      BY <1>7
    <2> QED
      BY <1>6, <2>2, <2>3, <2>4
  <1>9. Inside(call, a, b) /\ here <=> here /\ sy \in Bits
    <2>1. Inside(call, a, b) <=> (a >= call.x /\ a < call.x + call.w /\ b >= call.y /\ b < call.y + call.h)
      BY DEF Inside
    <2> QED
      BY <1>1, <1>2, <1>3, <1>4, <2>1, Sizes, SMT DEF here, Bits
  <1>10. Painted(a, b) <=> Inside(call, a, b)
    <2>1. PaintsPixel(call, sx, sy) <=> TRUE
      BY <1>1 DEF PaintsPixel, Fx
    <2> QED
      BY <2>1 DEF Painted
  <1>11. here => (Shade(a, b) <=> sy \in G)
    <2>1. Shade(a, b) <=> sx < GlyphWidth /\ sy \in Font[call.frame * GlyphWidth + sx]
      BY <1>1 DEF Shade, White
    <2>2. sy \in Glyph(call, px) <=> px < GlyphWidth /\ sy \in Font[call.frame * GlyphWidth + px]
      BY DEF Glyph
    <2> QED
      BY <2>1, <2>2 DEF here, G
  <1>12. Pixel(canvas', a, b) <=> IF Painted(a, b) /\ here THEN Shade(a, b) ELSE Pixel(canvas, a, b)
    <2> DEFINE W == at(G)
               K == at(Bits \ G)
    <2>1. /\ canvas' = DrawPixels(canvas, W, K) /\ W \in SUBSET Pixels /\ K \in SUBSET Pixels
          /\ (<<a, b>> \in W <=> here /\ sy \in G) /\ (<<a, b>> \in K <=> here /\ sy \in Bits \ G)
      BY <1>1, <1>5, <1>8
    <2> HIDE DEF W, K
    <2>2. Pixel(DrawPixels(canvas, W, K), a, b) <=> (<<a, b>> \in W \/ (<<a, b>> \notin K /\ Pixel(canvas, a, b)))
      BY <2>1, PixelOfPoints
    <2>3. sy \in G => sy \in Bits
      BY <1>5
    <2> HIDE DEF sy
    <2> QED
      BY <1>9, <1>10, <1>11, <2>1, <2>2, <2>3
  <1>13. Done(a, b)' <=> (Done(a, b) \/ here)
    <2>1. (Done(a, b) <=> sx < px) /\ (Done(a, b)' <=> sx < px')
      BY <1>1, GlyphDone
    <2> HIDE DEF sx
    <2>2. sx < px + 1 <=> (sx < px \/ sx = px)
      BY <1>2, <1>4, SMT
    <2> QED
      BY <1>1, <2>1, <2>2 DEF here
  <1>14. call.op \in AreaOps
    BY <1>1 DEF AreaOps
  <1> QED
    BY <1>1, <1>12, <1>13, <1>14, AreaTurn

-----------------------------------------------------------------------------
(* Rectangles, turn by turn.                                               *)

SmallRects == [x : Coordinates, y : Coordinates, w : Small, h : Small]

LEMMA SmallRectIs ==
  ASSUME NEW r \in SmallRects
  PROVE  /\ r.x \in Int /\ -Half <= r.x /\ r.x < Half /\ r.y \in Int /\ -Half <= r.y /\ r.y < Half
         /\ r.w \in Nat /\ r.w < ByteRange /\ r.h \in Nat /\ r.h < ByteRange
         /\ r \in Rects
  <1>1. r.x \in Coordinates /\ r.y \in Coordinates /\ r.w \in Small /\ r.h \in Small
    BY DEF SmallRects
  <1>2. /\ r.x \in Int /\ -Half <= r.x /\ r.x < Half /\ r.y \in Int /\ -Half <= r.y /\ r.y < Half
        /\ r.w \in Nat /\ r.w < ByteRange /\ r.h \in Nat /\ r.h < ByteRange
    BY <1>1, Coordinate, SmallIs
  <1>3. r = [x |-> r.x, y |-> r.y, w |-> r.w, h |-> r.h]
    BY DEF SmallRects
  <1>4. r.w \in Int /\ r.h \in Int
    BY <1>2, SMT
  <1> QED
    BY <1>2, <1>3, <1>4 DEF Rects

\* One side of a rectangle: where it ends, if the int16_t does not turn negative.
LEMMA SideEnds ==
  ASSUME NEW s \in Int, -Half <= s, s < Half, NEW n \in Nat, n < ByteRange,
         NEW limit \in Nat, limit + ByteRange <= Half, NEW a \in 0 .. limit - 1
  PROVE  LET e == Int16(s + n)
             clipped == n = 0 \/ e <= 0 \/ s >= limit
         IN  /\ e \in Int
             /\ s <= a /\ a < s + n <=> ~clipped /\ Larger(s, 0) <= a /\ a < Smaller(e, limit)
  <1> DEFINE e == Int16(s + n)
  <1>1. s + n \in Int /\ -Half <= s + n /\ s + n < Half + ByteRange
    BY Sizes, SMT
  <1>2. e = IF s + n < Half THEN s + n ELSE s + n - 2 * Half
    <2> DEFINE v == s + n
    <2>1. v \in Int /\ -Half <= v /\ v < Half + ByteRange
      BY <1>1
    <2>2. e = Int16(v)
      OBVIOUS
    <2> HIDE DEF v, e
    <2>3. e = IF v < Half THEN v ELSE v - 2 * Half
      BY <2>1, <2>2, Int16Near
    <2> QED
      BY <2>3, Sizes, SMT DEF v
  <1> HIDE DEF e
  <1>3. s <= a /\ a < s + n
          <=> ~(n = 0 \/ e <= 0 \/ s >= limit) /\ Larger(s, 0) <= a /\ a < Smaller(e, limit)
    BY <1>2, Sizes, SMT DEF Larger, Smaller
  <1>4. e \in Int
    BY <1>1, <1>2, Sizes, SMT
  <1> QED
    BY <1>3, <1>4 DEF e

\* clip_rect() leaves of a rectangle what is on the screen.
LEMMA ClipSees ==
  ASSUME NEW r \in SmallRects, NEW a \in 0 .. Width - 1, NEW b \in 0 .. Height - 1
  PROVE  LET c == ClipRect(r)
         IN  /\ c.x \in Int /\ c.y \in Int /\ c.w \in Int /\ c.h \in Int
             /\ c.h > 0 => c.y = Larger(r.y, 0)
             /\ Inside(r, a, b) <=> (c.x <= a /\ a < c.x + c.w /\ c.y <= b /\ b < c.y + c.h)
  <1> DEFINE x1 == Int16(r.x + r.w)
             y1 == Int16(r.y + r.h)
             x  == Larger(r.x, 0)
             y  == Larger(r.y, 0)
             full == [x |-> x, y |-> y, w |-> Smaller(x1, Width) - x, h |-> Smaller(y1, Height) - y]
             gone == r.w = 0 \/ r.h = 0 \/ x1 <= 0 \/ y1 <= 0 \/ r.x >= Width \/ r.y >= Height
             c == ClipRect(r)
  <1>1. /\ r.x \in Int /\ -Half <= r.x /\ r.x < Half /\ r.y \in Int /\ -Half <= r.y /\ r.y < Half
        /\ r.w \in Nat /\ r.w < ByteRange /\ r.h \in Nat /\ r.h < ByteRange
    BY SmallRectIs
  <1>2. Width \in Nat /\ Height \in Nat /\ Width + ByteRange <= Half /\ Height + ByteRange <= Half
    BY Sizes, Ranges
  <1>3. /\ x1 \in Int
        /\ r.x <= a /\ a < r.x + r.w
             <=> ~(r.w = 0 \/ x1 <= 0 \/ r.x >= Width) /\ x <= a /\ a < Smaller(x1, Width)
    BY <1>1, <1>2, SideEnds
  <1>4. /\ y1 \in Int
        /\ r.y <= b /\ b < r.y + r.h
             <=> ~(r.h = 0 \/ y1 <= 0 \/ r.y >= Height) /\ y <= b /\ b < Smaller(y1, Height)
    BY <1>1, <1>2, SideEnds
  <1>5. c = IF gone THEN Nothing ELSE full
    BY DEF ClipRect
  <1>6. Inside(r, a, b) <=> (r.x <= a /\ a < r.x + r.w) /\ (r.y <= b /\ b < r.y + r.h)
    BY <1>1, Sizes, SMT DEF Inside
  <1> HIDE DEF x1, y1, c
  <1>7. CASE gone
    <2>1. c.x = 0 /\ c.y = 0 /\ c.w = 0 /\ c.h = 0
      BY <1>5, <1>7 DEF Nothing
    <2>2. ~Inside(r, a, b)
      BY <1>3, <1>4, <1>6, <1>7
    <2>3. ~(0 <= a /\ a < 0 + 0)
      BY Sizes, SMT
    <2>4. ~(0 > 0) /\ 0 \in Int
      BY SMT
    <2> QED
      BY <2>1, <2>2, <2>3, <2>4 DEF c
  <1>8. CASE ~gone
    <2> DEFINE X == Smaller(x1, Width)
               Y == Smaller(y1, Height)
    <2>1. c.x = x /\ c.y = y /\ c.w = X - x /\ c.h = Y - y
      BY <1>5, <1>8
    <2>2. x \in Int /\ y \in Int /\ X \in Int /\ Y \in Int
      BY <1>1, <1>2, <1>3, <1>4, SMT DEF Larger, Smaller
    <2> HIDE DEF x, y, X, Y, gone
    <2>3. Inside(r, a, b) <=> (x <= a /\ a < X) /\ (y <= b /\ b < Y)
      BY <1>3, <1>4, <1>6, <1>8 DEF X, Y, gone
    <2>4. (X - x) \in Int /\ (Y - y) \in Int /\ (a < x + (X - x) <=> a < X) /\ (b < y + (Y - y) <=> b < Y)
      BY <2>2, Sizes, SMT
    <2> QED
      BY <2>1, <2>2, <2>3, <2>4 DEF c, y
  <1> QED
    BY <1>7, <1>8

LEMMA RectNow ==
  ASSUME call.op = "rect", call' = call, NEW CONSTANT a, NEW CONSTANT b
  PROVE  /\ Shown(a, b) <=>
              (Pixel(canvas, a, b) <=> IF RectPixel(call, a, b) THEN call.white ELSE Pixel(before, a, b))
         /\ Shown(a, b)' <=>
              (Pixel(canvas', a, b) <=> IF RectPixel(call, a, b)' THEN call.white ELSE Pixel(before', a, b))
  <1>1. PixelNow(a, b) = IF RectPixel(call, a, b) THEN call.white ELSE Pixel(before, a, b)
    BY DEF PixelNow
  <1>2. PixelNow(a, b)' = IF RectPixel(call, a, b)' THEN call'.white ELSE Pixel(before', a, b)
    BY DEF PixelNow
  <1>3. Shown(a, b)' <=> (Pixel(canvas', a, b) <=> PixelNow(a, b)')
    BY DEF Shown
  <1>4. Shown(a, b) <=> (Pixel(canvas, a, b) <=> PixelNow(a, b))
    BY DEF Shown
  <1> QED
    BY <1>1, <1>2, <1>3, <1>4

\* The rectangles before the first that is left, and the rows of that one.
Filled(a, b)  == \E i \in 1 .. Len(call.rects) - Len(todo) : Inside(call.rects[i], a, b)
Filling(a, b) == todo # <<>> /\ Inside(Head(todo), a, b) /\ b < Larger(Head(todo).y, 0) + page

LEMMA RectPixelIs ==
  ASSUME call' = call, NEW CONSTANT a, NEW CONSTANT b
  PROVE  /\ RectPixel(call, a, b) <=> (Filled(a, b) \/ Filling(a, b))
         /\ RectPixel(call, a, b)' <=> (Filled(a, b)' \/ Filling(a, b)')
  BY DEF RectPixel, Filled, Filling

LEMMA RectsLeft ==
  ASSUME CallOK, InPlace, call.op = "rect"
  PROVE  /\ call.rects \in Seq(SmallRects) /\ Len(call.rects) \in Nat /\ Len(todo) \in Nat
         /\ Len(todo) <= Len(call.rects) /\ todo \in Seq(Rects) /\ call.white \in BOOLEAN
         /\ \A i \in 1 .. Len(todo) : todo[i] = call.rects[Len(call.rects) - Len(todo) + i]
         /\ todo # <<>> => /\ Len(todo) >= 1 /\ Head(todo) = todo[1] /\ Head(todo) \in SmallRects
                           /\ Head(todo) = call.rects[Len(call.rects) - Len(todo) + 1]
  <1>1. /\ call.rects \in Seq(SmallRects) /\ Len(todo) <= Len(call.rects)
        /\ \A i \in 1 .. Len(todo) : todo[i] = call.rects[Len(call.rects) - Len(todo) + i]
    BY DEF InPlace, RectInPlace, SmallRects
  <1>2. todo \in Seq(Rects) /\ call.white \in BOOLEAN
    BY DEF CallOK
  <1>3. Len(call.rects) \in Nat /\ Len(todo) \in Nat
    BY <1>1, <1>2
  <1>4. ASSUME todo # <<>>
        PROVE  /\ Len(todo) >= 1 /\ Head(todo) = todo[1] /\ Head(todo) \in SmallRects
               /\ Head(todo) = call.rects[Len(call.rects) - Len(todo) + 1]
    <2>1. Len(todo) >= 1 /\ Head(todo) = todo[1]
      BY <1>2, <1>4
    <2> DEFINE n == Len(call.rects) - Len(todo) + 1
    <2>2. 1 \in 1 .. Len(todo) /\ n \in 1 .. Len(call.rects)
      BY <1>1, <1>3, <2>1, SMT
    <2>3. todo[1] = call.rects[n]
      BY <1>1, <2>2
    <2>4. call.rects[n] \in SmallRects
      BY <1>1, <2>2
    <2> QED
      BY <2>1, <2>3, <2>4
  <1> QED
    BY <1>1, <1>2, <1>3, <1>4

LEMMA FillChunkShows ==
  ASSUME DrawTypeOK, InPlace, FillChunk,
         NEW CONSTANT a \in 0 .. Width - 1, NEW CONSTANT b \in 0 .. Height - 1, Shown(a, b)
  PROVE  Shown(a, b)'
  <1> DEFINE h == Head(todo)
             r == ClipRect(h)
             y == r.y + page
             rows == Chunk(y, r.h - page)
             new == r.x <= a /\ a < r.x + r.w /\ y <= b /\ b < y + rows
  <1>1. /\ call.op = "rect" /\ todo # <<>> /\ page < r.h
        /\ canvas' = FillRows(canvas, r.x, y, r.w, rows, call.white) /\ page' = page + rows
        /\ call' = call /\ before' = before /\ todo' = todo /\ CallOK
    BY DEF FillChunk, DrawTypeOK
  <1>2. page \in Nat /\ call.white \in BOOLEAN /\ h \in SmallRects /\ h \in Rects
    BY <1>1, RectsLeft, SmallRectIs DEF CallOK
  <1>3. /\ r.x \in Int /\ r.y \in Int /\ r.w \in Int /\ r.h \in Int
        /\ 0 <= r.x /\ r.x + r.w <= Width /\ 0 <= r.y + page /\ r.y + page < Height
    BY <1>1, <1>2, ClippedRect
  <1>4. /\ r.h > 0 => r.y = Larger(h.y, 0)
        /\ Inside(h, a, b) <=> (r.x <= a /\ a < r.x + r.w /\ r.y <= b /\ b < r.y + r.h)
    BY <1>2, ClipSees
  <1>5. a \in Int /\ b \in Int /\ 0 <= b
    BY Sizes, SMT
  <1> HIDE DEF r, h
  <1>6. y \in Int /\ y % PageBits \in 0 .. PageBits - 1
    BY <1>2, <1>3, Sizes, SMT
  <1>7. rows \in Nat /\ rows <= PageBits - (y % PageBits) /\ rows <= r.h - page
    <2> DEFINE m == y % PageBits
    <2>1. m \in 0 .. PageBits - 1
      BY <1>6
    <2> DEFINE left == r.h - page
    <2>2. rows = Smaller(left, PageBits - m)
      BY DEF Chunk
    <2>3. left \in Int /\ left >= 1
      BY <1>1, <1>2, <1>3, SMT
    <2> HIDE DEF m, rows, left
    <2>4. rows \in Nat /\ rows <= PageBits - m /\ rows <= left
      BY <2>1, <2>2, <2>3, Sizes, SMT DEF Smaller
    <2> QED
      BY <2>4 DEF m, left
  <1>8. Pixel(canvas', a, b) <=> IF new THEN call.white ELSE Pixel(canvas, a, b)
    <2> HIDE DEF rows, y
    <2>1. 0 <= y /\ y < Height
      BY <1>3 DEF y
    <2> QED
      BY <1>1, <1>2, <1>3, <1>6, <1>7, <2>1, PixelOfRows
  <1>9. RectPixel(call, a, b)' <=> (RectPixel(call, a, b) \/ new)
    <2>1. Filled(a, b)' <=> Filled(a, b)
      BY <1>1 DEF Filled
    <2>2. /\ Filling(a, b) <=> Inside(h, a, b) /\ b < Larger(h.y, 0) + page
          /\ Filling(a, b)' <=> Inside(h, a, b) /\ b < Larger(h.y, 0) + page'
      BY <1>1 DEF Filling, h
    <2>3. r.y = Larger(h.y, 0)
      BY <1>1, <1>2, <1>3, <1>4, SMT
    <2> HIDE DEF rows
    <2>4. Filling(a, b) <=> Inside(h, a, b) /\ b < r.y + page
      BY <2>2, <2>3
    <2>5. Filling(a, b)' <=> Inside(h, a, b) /\ b < r.y + (page + rows)
      BY <1>1, <2>2, <2>3
    <2>6. Inside(h, a, b) /\ b < r.y + (page + rows) <=> (Inside(h, a, b) /\ b < r.y + page) \/ new
      BY <1>2, <1>3, <1>4, <1>5, <1>7, SMT
    <2>7. /\ RectPixel(call, a, b) <=> (Filled(a, b) \/ Filling(a, b))
          /\ RectPixel(call, a, b)' <=> (Filled(a, b)' \/ Filling(a, b)')
      BY <1>1, RectPixelIs
    <2> HIDE DEF new
    <2> QED
      BY <2>1, <2>4, <2>5, <2>6, <2>7
  <1>10. /\ Shown(a, b) <=>
              (Pixel(canvas, a, b) <=> IF RectPixel(call, a, b) THEN call.white ELSE Pixel(before, a, b))
         /\ Shown(a, b)' <=>
              (Pixel(canvas', a, b) <=> IF RectPixel(call, a, b)' THEN call.white ELSE Pixel(before', a, b))
    BY <1>1, RectNow
  <1>11. Pixel(before', a, b) <=> Pixel(before, a, b)
    BY <1>1
  <1> HIDE DEF new
  <1> QED
    BY <1>8, <1>9, <1>10, <1>11

LEMMA NextRectShows ==
  ASSUME DrawTypeOK, InPlace, NextRect,
         NEW CONSTANT a \in 0 .. Width - 1, NEW CONSTANT b \in 0 .. Height - 1, Shown(a, b)
  PROVE  Shown(a, b)'
  <1> DEFINE h == Head(todo)
             r == ClipRect(h)
             n == Len(call.rects) - Len(todo)
  <1>1. /\ call.op = "rect" /\ todo # <<>> /\ page >= r.h
        /\ canvas' = canvas /\ page' = 0 /\ todo' = Tail(todo)
        /\ call' = call /\ before' = before /\ CallOK
    BY DEF NextRect, DrawTypeOK
  <1>2. /\ page \in Nat /\ h \in SmallRects /\ Len(todo) \in Nat /\ Len(todo) >= 1
        /\ Len(call.rects) \in Nat /\ Len(todo) <= Len(call.rects) /\ todo \in Seq(Rects)
        /\ h = call.rects[n + 1]
        /\ \A i \in 1 .. Len(todo) : todo[i] = call.rects[Len(call.rects) - Len(todo) + i]
        /\ call.rects \in Seq(SmallRects)
    BY <1>1, RectsLeft DEF CallOK
  <1>3. /\ r.x \in Int /\ r.y \in Int /\ r.w \in Int /\ r.h \in Int
        /\ r.h > 0 => r.y = Larger(h.y, 0)
        /\ Inside(h, a, b) <=> (r.x <= a /\ a < r.x + r.w /\ r.y <= b /\ b < r.y + r.h)
    BY <1>2, ClipSees
  <1>4. a \in Int /\ b \in Int /\ 0 <= b
    BY Sizes, SMT
  <1>5. Filling(a, b) <=> Inside(h, a, b)
    <2>1. Filling(a, b) <=> Inside(h, a, b) /\ b < Larger(h.y, 0) + page
      BY <1>1 DEF Filling
    <2> HIDE DEF r, h
    <2>2. Inside(h, a, b) => b < Larger(h.y, 0) + page
      BY <1>1, <1>2, <1>3, <1>4, SMT
    <2> QED
      BY <2>1, <2>2
  <1>6. Len(todo') = Len(todo) - 1 /\ \A i \in 1 .. Len(todo') : todo'[i] = todo[i + 1]
    BY <1>1, <1>2
  <1>7. Filled(a, b)' <=> (Filled(a, b) \/ Inside(h, a, b))
    <2>1. Len(call'.rects) - Len(todo') = n + 1 /\ n \in Nat
      BY <1>1, <1>2, <1>6, SMT
    <2>2. Filled(a, b)' <=> \E i \in 1 .. n + 1 : Inside(call.rects[i], a, b)
      BY <1>1, <2>1 DEF Filled
    <2>3. Filled(a, b) <=> \E i \in 1 .. n : Inside(call.rects[i], a, b)
      BY DEF Filled
    <2> HIDE DEF n, h
    <2>4. \A i : i \in 1 .. n + 1 <=> (i \in 1 .. n \/ i = n + 1)
      BY <2>1, SMT
    <2> QED
      BY <1>2, <2>2, <2>3, <2>4
  <1>8. ~Filling(a, b)'
    <2> SUFFICES ASSUME Filling(a, b)' PROVE FALSE
      OBVIOUS
    <2> DEFINE g == Head(todo')
    <2>1. todo' # <<>> /\ Inside(g, a, b) /\ b < Larger(g.y, 0) + page'
      BY DEF Filling
    <2>2. g.y \in Int
      <3>1. todo' \in Seq(Rects)
        BY <1>1, <1>2
      <3>2. g \in Rects
        BY <2>1, <3>1
      <3> QED
        BY <3>2 DEF Rects
    <2>3. b >= g.y
      BY <2>1 DEF Inside
    <2> HIDE DEF g
    <2> QED
      BY <1>1, <1>4, <2>1, <2>2, <2>3, SMT DEF Larger
  <1>9. RectPixel(call, a, b)' <=> RectPixel(call, a, b)
    <2>1. /\ RectPixel(call, a, b) <=> (Filled(a, b) \/ Filling(a, b))
          /\ RectPixel(call, a, b)' <=> (Filled(a, b)' \/ Filling(a, b)')
      BY <1>1, RectPixelIs
    <2> QED
      BY <1>5, <1>7, <1>8, <2>1
  <1>10. /\ Shown(a, b) <=>
              (Pixel(canvas, a, b) <=> IF RectPixel(call, a, b) THEN call.white ELSE Pixel(before, a, b))
         /\ Shown(a, b)' <=>
              (Pixel(canvas', a, b) <=> IF RectPixel(call, a, b)' THEN call.white ELSE Pixel(before', a, b))
    BY <1>1, RectNow
  <1> QED
    BY <1>1, <1>9, <1>10

-----------------------------------------------------------------------------
(* Strokes: their points are near enough to the screen for int16_t.        *)

Close(v) == v \in Int /\ -Half - ByteRange <= v /\ v < Half + ByteRange

CloseTo(pts) == pts \in SUBSET Pixels /\ \A p \in pts : Close(p[1]) /\ Close(p[2])

LEMMA PointsShow ==
  ASSUME NEW new, CloseTo(new), NEW white \in BOOLEAN,
         NEW a \in 0 .. Width - 1, NEW b \in 0 .. Height - 1
  PROVE  Pixel(DrawPoints(new, white), a, b) <=> IF <<a, b>> \in new THEN white ELSE Pixel(canvas, a, b)
  <1> DEFINE at == {<<Int16(p[1]), Int16(p[2])>> : p \in new}
  <1>1. \A p \in new : p[1] \in Int /\ p[2] \in Int /\ p = <<p[1], p[2]>>
    BY DEF CloseTo, Pixels
  <1>2. at \in SUBSET Pixels
    BY <1>1, Int16IsInt DEF Pixels
  <1>3. ASSUME NEW p \in new
        PROVE  <<Int16(p[1]), Int16(p[2])>> = <<a, b>> <=> p = <<a, b>>
    <2>1. Close(p[1]) /\ Close(p[2])
      BY DEF CloseTo
    <2>2. (Int16(p[1]) = a <=> p[1] = a) /\ (Int16(p[2]) = b <=> p[2] = b)
      BY <2>1, OnScreen DEF Close
    <2> QED
      BY <1>1, <2>2
  <1>4. <<a, b>> \in at <=> <<a, b>> \in new
    <2>1. ASSUME <<a, b>> \in at PROVE <<a, b>> \in new
      <3>1. PICK p \in new : <<a, b>> = <<Int16(p[1]), Int16(p[2])>>
        BY <2>1
      <3>2. p = <<a, b>>
        BY <1>3, <3>1
      <3> QED
        BY <3>2
    <2>2. ASSUME <<a, b>> \in new PROVE <<a, b>> \in at
      <3> DEFINE p == <<a, b>>
      <3>1. p \in new
        BY <2>2
      <3>2. <<Int16(p[1]), Int16(p[2])>> = p
        BY <1>3, <3>1
      <3> HIDE DEF p
      <3>3. <<Int16(p[1]), Int16(p[2])>> \in at
        BY <3>1
      <3> QED
        BY <3>2, <3>3 DEF p
    <2> QED
      BY <2>1, <2>2
  <1>5. DrawPoints(new, white) = DrawPixels(canvas, IF white THEN at ELSE {}, IF white THEN {} ELSE at)
    BY DEF DrawPoints
  <1> HIDE DEF at
  <1>6. {} \in SUBSET Pixels
    OBVIOUS
  <1>7. CASE white
    <2>1. DrawPoints(new, white) = DrawPixels(canvas, at, {})
      BY <1>5, <1>7
    <2>2. Pixel(DrawPixels(canvas, at, {}), a, b)
            <=> (<<a, b>> \in at \/ (<<a, b>> \notin {} /\ Pixel(canvas, a, b)))
      BY <1>2, <1>6, PixelOfPoints
    <2> QED
      BY <1>4, <1>7, <2>1, <2>2
  <1>8. CASE ~white
    <2>1. DrawPoints(new, white) = DrawPixels(canvas, {}, at)
      BY <1>5, <1>8
    <2> QED
      BY <1>2, <1>4, <1>6, <1>8, <2>1, PixelOfPoints
  <1> QED
    BY <1>7, <1>8

LEMMA Between ==
  ASSUME NEW x \in Coordinates, NEW y \in Coordinates, NEW n \in Nat, n <= Abs(y - x)
  PROVE  x + n * Step(x, y) \in Coordinates
  <1>1. x \in Int /\ -Half <= x /\ x < Half /\ y \in Int /\ -Half <= y /\ y < Half
    BY Coordinate
  <1>2. CASE x < y
    <2>1. Step(x, y) = 1 /\ n * 1 = n /\ n <= y - x
      BY <1>1, <1>2, SMT DEF Step, Abs
    <2>2. x + n * Step(x, y) = x + n
      BY <2>1
    <2> QED
      BY <1>1, <2>1, <2>2, Sizes, SMT DEF Coordinates
  <1>3. CASE ~(x < y)
    <2>1. Step(x, y) = -1 /\ n * (-1) = -n /\ n <= x - y
      BY <1>1, <1>3, SMT DEF Step, Abs
    <2>2. x + n * Step(x, y) = x + (-n)
      BY <2>1
    <2> QED
      BY <1>1, <2>1, <2>2, Sizes, SMT DEF Coordinates
  <1> QED
    BY <1>2, <1>3

LEMMA CoordinateIsClose ==
  ASSUME NEW v \in Coordinates
  PROVE  Close(v)
  BY Coordinate, Sizes, SMT DEF Close

LEMMA AroundIsClose ==
  ASSUME NEW v \in Coordinates, NEW d \in Int, -ByteRange <= d, d <= ByteRange
  PROVE  Close(v + d)
  BY Coordinate, Sizes, SMT DEF Close

\* The pen of a line is between its ends.
LEMMA LineIsClose ==
  ASSUME LineIsTrue', StrokeInPlace', StrokeTypeOK', stroke'.op = "line"
  PROVE  penX' \in Coordinates /\ penY' \in Coordinates
  <1> DEFINE c == stroke'
             i == Abs(penX' - c.x0)
             j == Abs(penY' - c.y0)
  <1>1. c.x0 \in Coordinates /\ c.x1 \in Coordinates /\ c.y0 \in Coordinates /\ c.y1 \in Coordinates
    BY DEF StrokeInPlace
  <1>2. /\ penX' = c.x0 + i * Step(c.x0, c.x1) /\ i <= DeltaX(c)
        /\ penY' = c.y0 + j * Step(c.y0, c.y1) /\ j <= -DeltaY(c)
    BY DEF LineIsTrue, LineWalk, WalkedX, WalkedY, LongX, LongY
  <1>3. c.x0 \in Int /\ c.x1 \in Int /\ c.y0 \in Int /\ c.y1 \in Int
    BY <1>1, Coordinate
  <1>4. i \in Nat /\ j \in Nat
    BY <1>3, SMT DEF Abs, StrokeTypeOK
  <1>5. DeltaX(c) = Abs(c.x1 - c.x0) /\ -DeltaY(c) = Abs(c.y1 - c.y0)
    BY <1>3, SMT DEF DeltaX, DeltaY, Abs
  <1> HIDE DEF c, i, j
  <1> QED
    BY <1>1, <1>2, <1>4, <1>5, Between

LEMMA LineDrawsNear ==
  ASSUME LineStep, StrokeTypeOK, StrokeInv, StrokeInPlace
  PROVE  StrokeInPlace' /\ CloseTo(points' \ points) /\ points \subseteq points'
  <1>1. stroke.op = "line" /\ stroke' = stroke /\ points' = points \cup {<<penX', penY'>>}
    BY DEF LineStep
  <1>2. StrokeTypeOK' /\ LineIsTrue'
    BY LineStepping DEF StrokeInv
  <1>3. StrokeInPlace'
    BY <1>1 DEF StrokeInPlace
  <1>4. penX' \in Coordinates /\ penY' \in Coordinates
    <2>1. stroke'.op = "line"
      BY <1>1
    <2> QED
      BY <1>2, <1>3, <2>1, LineIsClose
  <1>5. Close(penX') /\ Close(penY')
    BY <1>4, CoordinateIsClose
  <1>6. CloseTo({<<penX', penY'>>})
    BY <1>5 DEF CloseTo, Pixels, Close
  <1> QED
    BY <1>1, <1>3, <1>6 DEF CloseTo

LEMMA OctantsAreClose ==
  ASSUME NEW c, c.x0 \in Coordinates, c.y0 \in Coordinates, NEW u \in Nat, NEW v \in Nat,
         u <= ByteRange, v <= ByteRange
  PROVE  CloseTo(Octants(c, u, v))
  <1>1. ASSUME NEW i \in {1, -1}, NEW j \in {1, -1}, NEW p \in {<<u, v>>, <<v, u>>}
        PROVE  Close(c.x0 + i * p[1]) /\ Close(c.y0 + j * p[2])
    <2>1. p[1] \in Nat /\ p[1] <= ByteRange /\ p[2] \in Nat /\ p[2] <= ByteRange
      OBVIOUS
    <2>2. ASSUME NEW k \in {1, -1}, NEW n \in Nat, n <= ByteRange
          PROVE  k * n \in Int /\ -ByteRange <= k * n /\ k * n <= ByteRange
      <3>1. CASE k = 1
        BY <2>2, <3>1, Sizes, SMT
      <3>2. CASE k = -1
        BY <2>2, <3>2, Sizes, SMT
      <3> QED
        BY <3>1, <3>2
    <2>3. /\ i * p[1] \in Int /\ -ByteRange <= i * p[1] /\ i * p[1] <= ByteRange
          /\ j * p[2] \in Int /\ -ByteRange <= j * p[2] /\ j * p[2] <= ByteRange
      BY <2>1, <2>2
    <2> QED
      BY <2>3, AroundIsClose
  <1>2. ASSUME NEW q \in Octants(c, u, v)
        PROVE  q \in Pixels /\ Close(q[1]) /\ Close(q[2])
    <2>1. PICK i \in {1, -1}, j \in {1, -1}, p \in {<<u, v>>, <<v, u>>} :
            q = <<c.x0 + i * p[1], c.y0 + j * p[2]>>
      BY DEF Octants
    <2>2. q[1] = c.x0 + i * p[1] /\ q[2] = c.y0 + j * p[2]
      BY <2>1
    <2>3. Close(q[1]) /\ Close(q[2])
      BY <1>1, <2>2
    <2> QED
      BY <2>1, <2>2, <2>3 DEF Pixels, Close
  <1> QED
    BY <1>2 DEF CloseTo

LEMMA CircleDrawsNear ==
  ASSUME CircleStep, StrokeTypeOK, StrokeInv, StrokeInPlace
  PROVE  StrokeInPlace' /\ CloseTo(points' \ points) /\ points \subseteq points'
  <1>1. /\ stroke.op = "circle" /\ stroke' = stroke /\ penX < penY /\ penX' = penX + 1
        /\ penY' = penY \/ penY' = penY - 1
        /\ points' = points \cup Octants(stroke, penX', penY')
    BY DEF CircleStep
  <1>2. penX \in Int /\ penY \in Int /\ 0 <= penX
    BY <1>1 DEF StrokeInv, CircleIsRound, StrokeTypeOK
  <1>3. stroke.x0 \in Coordinates /\ stroke.y0 \in Coordinates /\ stroke.r \in Small /\ penY <= stroke.r
    BY <1>1 DEF StrokeInPlace
  <1>4. stroke.r \in Nat /\ stroke.r < ByteRange
    BY <1>3, SmallIs
  <1>5. /\ penX' \in Nat /\ penX' <= ByteRange /\ penY' \in Nat /\ penY' <= ByteRange
        /\ penY' <= stroke.r
    BY <1>1, <1>2, <1>3, <1>4, Sizes, SMT
  <1>6. StrokeInPlace'
    BY <1>1, <1>3, <1>5 DEF StrokeInPlace
  <1>7. CloseTo(Octants(stroke, penX', penY'))
    BY <1>3, <1>5, OctantsAreClose
  <1> QED
    BY <1>1, <1>6, <1>7 DEF CloseTo

LEMMA StrokeShows ==
  ASSUME DrawTypeOK, StrokeInv, InPlace, Stroke,
         NEW CONSTANT a \in 0 .. Width - 1, NEW CONSTANT b \in 0 .. Height - 1, Shown(a, b)
  PROVE  Shown(a, b)'
  <1>1. /\ StrokeSteps /\ canvas' = DrawPoints(points' \ points, call.white)
        /\ before' = before /\ call' = call
    BY DEF Stroke
  <1>2. StrokeTypeOK /\ StrokeInPlace /\ call.op = "stroke" /\ call.white \in BOOLEAN
    <2>1. stroke # NoStroke
      BY <1>1, OtherKinds DEF StrokeSteps, LineStep, CircleStep
    <2> QED
      BY <2>1 DEF DrawTypeOK, StrokeIsCalled, CallOK, InPlace
  <1>3. CloseTo(points' \ points) /\ points \subseteq points'
    BY <1>1, <1>2, LineDrawsNear, CircleDrawsNear DEF StrokeSteps
  <1>4. Pixel(canvas', a, b)
          <=> IF <<a, b>> \in points' \ points THEN call.white ELSE Pixel(canvas, a, b)
    BY <1>1, <1>2, <1>3, PointsShow
  <1>5. PixelNow(a, b) = IF <<a, b>> \in points THEN call.white ELSE Pixel(before, a, b)
    BY <1>2 DEF PixelNow
  <1>6. PixelNow(a, b)' = IF <<a, b>> \in points' THEN call'.white ELSE Pixel(before', a, b)
    BY <1>1, <1>2 DEF PixelNow
  <1>7. Shown(a, b)' <=> (Pixel(canvas', a, b) <=> PixelNow(a, b)')
    BY DEF Shown
  <1>8. Pixel(canvas, a, b) <=> PixelNow(a, b)
    BY DEF Shown
  <1> QED
    BY <1>1, <1>3, <1>4, <1>5, <1>6, <1>7, <1>8

\* A line or a circle begins.
LEMMA BeginStrokeShows ==
  ASSUME DrawTypeOK, BeginStroke
  PROVE  /\ StrokeInPlace'
         /\ \A a \in 0 .. Width - 1, b \in 0 .. Height - 1 : Shown(a, b)'
  <1>1. PICK white \in BOOLEAN :
          /\ \/ \E c \in Lines : LineBegins(c)
             \/ \E a \in Xs, b \in Ys, r \in Radii :
                  CircleBegins([op |-> "circle", x0 |-> a, y0 |-> b, r |-> r])
          /\ call' = [op |-> "stroke", white |-> white]
          /\ canvas' = DrawPoints(points', white) /\ before' = canvas
    BY DEF BeginStroke
  <1>2. StrokeInPlace' /\ CloseTo(points')
    <2>1. ASSUME NEW c \in Lines, LineBegins(c) PROVE StrokeInPlace' /\ CloseTo(points')
      <3>1. {c.x0, c.y0, c.x1, c.y1} \subseteq Coordinates /\ c \in LineCalls /\ c.op = "line"
        BY DrawingAssumption, OtherKinds DEF Coordinates
      <3>2. stroke' = c /\ points' = {<<c.x0, c.y0>>}
        BY <2>1 DEF LineBegins
      <3>3. StrokeInPlace'
        BY <3>1, <3>2 DEF StrokeInPlace
      <3>4. Close(c.x0) /\ Close(c.y0)
        BY <3>1, CoordinateIsClose
      <3> QED
        BY <3>2, <3>3, <3>4 DEF CloseTo, Pixels, Close
    <2>2. ASSUME NEW x \in Xs, NEW y \in Ys, NEW r \in Radii,
                 CircleBegins([op |-> "circle", x0 |-> x, y0 |-> y, r |-> r])
          PROVE  StrokeInPlace' /\ CloseTo(points')
      <3>1. x \in Coordinates /\ y \in Coordinates /\ r \in Small
        BY DrawingAssumption DEF Coordinates, Small
      <3>2. /\ stroke' = [op |-> "circle", x0 |-> x, y0 |-> y, r |-> r] /\ penY' = r
            /\ points' = {<<x, y + r>>, <<x, y - r>>, <<x + r, y>>, <<x - r, y>>}
        BY <2>2 DEF CircleBegins
      <3>3. r \in Nat /\ r < ByteRange /\ r <= r
        BY <3>1, SmallIs, SMT
      <3>4. stroke'.op = "circle" /\ stroke'.x0 = x /\ stroke'.y0 = y /\ stroke'.r = r
        BY <3>2
      <3>5. StrokeInPlace'
        BY <3>1, <3>2, <3>3, <3>4 DEF StrokeInPlace
      <3>6. x \in Int /\ y \in Int
        BY <3>1, Coordinate
      <3>7. Close(x) /\ Close(y) /\ Close(x + r) /\ Close(x - r) /\ Close(y + r) /\ Close(y - r)
        BY <3>1, <3>3, Coordinate, Sizes, SMT DEF Close
      <3> QED
        BY <3>2, <3>5, <3>7 DEF CloseTo, Pixels, Close
    <2> QED
      BY <1>1, <2>1, <2>2
  <1>3. ASSUME NEW CONSTANT a \in 0 .. Width - 1, NEW CONSTANT b \in 0 .. Height - 1
        PROVE  Shown(a, b)'
    <2>1. Pixel(canvas', a, b) <=> IF <<a, b>> \in points' THEN white ELSE Pixel(canvas, a, b)
      BY <1>1, <1>2, PointsShow
    <2>2. call'.op = "stroke" /\ call'.white = white
      BY <1>1
    <2>3. PixelNow(a, b)' = IF <<a, b>> \in points' THEN call'.white ELSE Pixel(before', a, b)
      BY <2>2 DEF PixelNow
    <2>4. Shown(a, b)' <=> (Pixel(canvas', a, b) <=> PixelNow(a, b)')
      BY DEF Shown
    <2> QED
      BY <1>1, <2>1, <2>2, <2>3, <2>4
  <1> QED
    BY <1>2, <1>3

LEMMA StrokesInPlace ==
  ASSUME DrawTypeOK, StrokeInv, InPlace, DrawNext
  PROVE  StrokeInPlace'
  <1>1. StrokeTypeOK /\ StrokeInPlace
    BY DEF DrawTypeOK, InPlace
  <1>2. CASE UNCHANGED strokeVars
    BY <1>1, <1>2 DEF StrokeInPlace, strokeVars, loopState
  <1>3. CASE BeginStroke
    BY <1>3, BeginStrokeShows
  <1>4. CASE Stroke
    BY <1>1, <1>4, LineDrawsNear, CircleDrawsNear DEF Stroke, StrokeSteps
  <1>5. CASE EndStroke
    <2>1. stroke' = NoStroke
      BY <1>5 DEF EndStroke, StrokeReturns, LineReturns, CircleReturns, StrokeEnds
    <2> QED
      BY <2>1, OtherKinds DEF StrokeInPlace
  <1> QED
    BY <1>2, <1>3, <1>4, <1>5
       DEF DrawNext, Begin, Draw, BeginImage, BeginRect, BeginFx, BeginText, Fill, Clear

-----------------------------------------------------------------------------
(* The other calls begin, and every call ends.                             *)

\* Between two calls the screen is what the last one left.
LEMMA AtRest ==
  ASSUME DrawTypeOK, InPlace, DrawNext, call'.op = "none"
  PROVE  before' = canvas'
  <1>1. call.op = "none" => before = canvas
    BY DEF InPlace
  <1>2. CASE Begin
    <2>1. \A c : Begins(c) => call' = c
      BY DEF Begins
    <2>2. ASSUME NEW op, NEW a, NEW b, NEW size, NEW white, NEW f, NEW g,
                 op \in Paged \cup Fx \cup {"xy"}, call' = Areal(op, a, b, size, white, f, g)
          PROVE  FALSE
      <3>1. call'.op = op
        BY <2>2 DEF Areal
      <3> QED
        BY <2>2, <3>1 DEF Paged, Fx
    <2>3. ~BeginImage
      <3> SUFFICES ASSUME BeginImage PROVE FALSE
        OBVIOUS
      <3>1. PICK op \in {"bitmap", "xy", "overwrite", "self", "plus", "external"}, a \in Xs, b \in Ys,
                 size \in Areas, white \in BOOLEAN, f \in Frames \cup {0}, g \in Frames \cup {0} :
              DrawImage(Areal(op, a, b, size, white, f, g))
        BY DEF BeginImage
      <3>2. op \in Paged \cup Fx \cup {"xy"}
        BY DEF Paged
      <3>3. call' = Areal(op, a, b, size, white, f, g)
        BY <3>1 DEF DrawImage, Begins
      <3> QED
        BY <2>2, <3>2, <3>3
    <2>4. ~BeginRect
      <3> SUFFICES ASSUME BeginRect PROVE FALSE
        OBVIOUS
      <3>1. PICK white, rects : call' = [op |-> "rect", white |-> white, rects |-> rects]
        BY DEF BeginRect, FillRects, Begins
      <3>2. call'.op = "rect"
        BY <3>1
      <3> QED
        BY <3>2
    <2>5. CASE BeginFx
      <3>1. CASE FxRefused
        BY <1>1, <3>1, NoCallIsNone DEF FxRefused
      <3>2. ASSUME NEW a \in Xs, NEW b \in Ys, NEW size \in Areas, NEW op \in Fx, NEW f \in Frames,
                   FxDraw(Areal(op, a, b, size, TRUE, f, 0))
            PROVE  FALSE
        <4>1. call' = Areal(op, a, b, size, TRUE, f, 0)
          BY <3>2 DEF FxDraw, Begins
        <4>2. op \in Paged \cup Fx \cup {"xy"}
          OBVIOUS
        <4> QED
          BY <2>2, <4>1, <4>2
      <3> QED
        BY <2>5, <3>1, <3>2 DEF BeginFx
    <2>6. ~BeginText
      <3> SUFFICES ASSUME BeginText PROVE FALSE
        OBVIOUS
      <3>1. PICK char \in Frames : WriteGlyph(char)
        BY DEF BeginText
      <3>2. call'.op = "glyph"
        BY <3>1 DEF WriteGlyph, Begins
      <3> QED
        BY <3>2
    <2>7. ~BeginStroke
      <3> SUFFICES ASSUME BeginStroke PROVE FALSE
        OBVIOUS
      <3>1. call'.op = "stroke"
        BY DEF BeginStroke
      <3> QED
        BY <3>1
    <2> QED
      BY <1>2, <2>3, <2>4, <2>5, <2>6, <2>7 DEF Begin
  <1>3. ~Paints
    <2> SUFFICES ASSUME Paints PROVE FALSE
      OBVIOUS
    <2>1. call' = call
      BY DEF Paints, PaintByte, SkipRow, PaintBit, FillChunk, NextRect, FxSkipPage, FxPage,
             PaintColumn, Advance
    <2>2. call.op \in Paged \cup Fx \cup {"xy", "rect", "glyph"}
      BY DEF Paints, PaintByte, SkipRow, PaintBit, FillChunk, NextRect, FxSkipPage, FxPage,
             PaintColumn
    <2> QED
      BY <2>1, <2>2 DEF Paged, Fx
  <1>4. CASE Ends \/ EndStroke
    <2>1. Returns /\ canvas' = canvas
      BY <1>4 DEF Ends, PagedReturns, XYReturns, RectReturns, FxReadFails, FxReturns,
                  GlyphReturns, EndStroke
    <2> QED
      BY <2>1 DEF Returns
  <1>5. ~Stroke
    <2> SUFFICES ASSUME Stroke PROVE FALSE
      OBVIOUS
    <2>1. stroke # NoStroke /\ call' = call
      BY OtherKinds DEF Stroke, StrokeSteps, LineStep, CircleStep
    <2> QED
      BY <2>1 DEF DrawTypeOK, StrokeIsCalled
  <1>6. CASE (\E white \in BOOLEAN : Fill(white)) \/ Clear
    BY <1>6 DEF Fill, Clear
  <1>7. CASE Text \/ FxBegin
    <2>1. call' = call /\ canvas' = canvas /\ before' = before
      BY <1>7 DEF Text, WriteNewLine, SetCursor, FxBegin
    <2> QED
      BY <1>1, <2>1
  <1> QED
    BY <1>2, <1>3, <1>4, <1>5, <1>6, <1>7 DEF DrawNext, Draw

\* The rest of what is in place: the cursor, and the record of the call.
LEMMA ZeroAndOne == 0 \in Coordinates /\ 0 \in Small /\ 1 \in Small
  <1>1. 1 < ByteRange
    BY Ranges, Sizes, SMT
  <1> QED
    BY <1>1, Sizes, SMT DEF Coordinates, Small

Cursors == [x : Coordinates, y : Coordinates]

LEMMA NewLineIsACursor ==
  ASSUME CallOK
  PROVE  NewLine(cursor) \in Cursors /\ NewLine(cursor).x = 0
  <1>1. cursor.y \in Int
    BY DEF CallOK
  <1>2. cursor.y + PageBits \in Int
    BY <1>1, Sizes, SMT
  <1> QED
    BY <1>2, ZeroAndOne, Int16Fits DEF NewLine, Cursors

LEMMA CursorInPlace ==
  ASSUME DrawTypeOK, InPlace, DrawNext
  PROVE  cursor' \in Cursors
  <1>1. CallOK /\ cursor \in Cursors
    BY DEF DrawTypeOK, InPlace, Cursors
  <1>2. CASE cursor' = cursor
    BY <1>1, <1>2
  <1>3. CASE Clear
    BY <1>3, ZeroAndOne DEF Clear, Origin, Cursors
  <1>4. CASE Text
    <2>1. CASE WriteNewLine
      BY <1>1, <2>1, NewLineIsACursor DEF WriteNewLine
    <2>2. ASSUME NEW x \in Xs, NEW y \in Ys, SetCursor(x, y) PROVE cursor' \in Cursors
      <3>1. x \in Coordinates /\ y \in Coordinates
        BY DrawingAssumption DEF Coordinates
      <3> QED
        BY <2>2, <3>1 DEF SetCursor, Cursors
    <2> QED
      BY <1>4, <2>1, <2>2 DEF Text
  <1>5. CASE BeginText
    BY <1>1, <1>5, NewLineIsACursor DEF BeginText, WriteGlyph
  <1>6. CASE GlyphReturns
    <2> DEFINE v == cursor.x + GlyphWidth + 1
    <2>1. cursor.x \in Int
      BY <1>1 DEF CallOK
    <2>2. v \in Int
      BY <2>1, DrawingAssumption, SMT
    <2>3. cursor' = [cursor EXCEPT !.x = Int16(v)]
      BY <1>6 DEF GlyphReturns
    <2> HIDE DEF v
    <2>4. Int16(v) \in Coordinates
      BY <2>2, Int16Fits
    <2> QED
      BY <1>1, <2>3, <2>4 DEF Cursors
  <1>7. CASE BeginImage \/ BeginRect \/ BeginFx \/ BeginStroke
    <2>1. CASE BeginImage
      BY <1>2, <2>1 DEF BeginImage, DrawImage, textVars
    <2>2. CASE BeginRect
      BY <1>2, <2>2 DEF BeginRect, FillRects, textVars
    <2>3. CASE BeginFx
      <3>1. \A c : FxDraw(c) => cursor' = cursor
        BY DEF FxDraw, textVars
      <3>2. FxRefused => cursor' = cursor
        BY DEF FxRefused
      <3> QED
        BY <1>2, <2>3, <3>1, <3>2 DEF BeginFx
    <2>4. CASE BeginStroke
      BY <1>2, <2>4 DEF BeginStroke, textVars
    <2> QED
      BY <1>7, <2>1, <2>2, <2>3, <2>4
  <1>8. CASE Paints
    BY <1>2, <1>8 DEF Paints, PaintByte, SkipRow, PaintBit, FillChunk, NextRect, FxSkipPage,
                      FxPage, PaintColumn, Advance, textVars
  <1>9. CASE Ends /\ ~GlyphReturns
    BY <1>2, <1>9 DEF Ends, PagedReturns, XYReturns, RectReturns, FxReadFails, FxReturns, textVars
  <1>10. CASE Stroke \/ EndStroke \/ (\E white \in BOOLEAN : Fill(white)) \/ FxBegin
    BY <1>2, <1>10 DEF Stroke, EndStroke, Fill, FxBegin, textVars
  <1> QED
    BY <1>3, <1>4, <1>5, <1>6, <1>7, <1>8, <1>9, <1>10 DEF DrawNext, Begin, Draw

\* An image or an FX bitmap begins.
LEMMA ArealBeginning ==
  ASSUME NEW op \in Paged \cup Fx \cup {"xy"}, NEW x \in Xs, NEW y \in Ys, NEW size \in Areas,
         NEW white, NEW f \in Nat, NEW g \in Nat, op = "bitmap" => f = 0,
         Begins(Areal(op, x, y, size, white, f, g))
  PROVE  /\ ArealInPlace' /\ GlyphInPlace' /\ RectInPlace'
         /\ \A a \in 0 .. Width - 1, b \in 0 .. Height - 1 : Shown(a, b)'
  <1> DEFINE c == Areal(op, x, y, size, white, f, g)
  <1>1. /\ c.op = op /\ c.x = x /\ c.y = y /\ c.w = size[1] /\ c.h = size[2]
        /\ c.frame = f /\ c.other = g
    BY DEF Areal
  <1>2. call' = c /\ page' = 0 /\ px' = 0 /\ canvas' = canvas /\ before' = canvas
    BY DEF Begins
  <1> HIDE DEF c
  <1>3. x \in Coordinates /\ y \in Coordinates
    BY DrawingAssumption DEF Coordinates
  <1>4. size[1] \in Small /\ size[2] \in Small
    <2>1. size \in Small \X Small
      BY DrawingAssumption DEF Small
    <2> QED
      BY <2>1
  <1>5. op # "glyph" /\ op # "rect" /\ op \in AreaOps
    BY DEF Paged, Fx, AreaOps
  <1>6. ArealInPlace'
    BY <1>1, <1>2, <1>3, <1>4 DEF ArealInPlace
  <1>7. GlyphInPlace' /\ RectInPlace'
    BY <1>1, <1>2, <1>5 DEF GlyphInPlace, RectInPlace
  <1>8. call'.op \in AreaOps /\ call'.x \in Int /\ call'.y \in Int
    BY <1>1, <1>2, <1>3, <1>5, Coordinate
  <1>9. ASSUME NEW CONSTANT a \in 0 .. Width - 1, NEW CONSTANT b \in 0 .. Height - 1
        PROVE  Shown(a, b)'
    BY <1>2, <1>8, AreaBegins
  <1> QED
    BY <1>6, <1>7, <1>9

LEMMA ImageBegins ==
  ASSUME BeginImage
  PROVE  /\ ArealInPlace' /\ GlyphInPlace' /\ RectInPlace'
         /\ \A a \in 0 .. Width - 1, b \in 0 .. Height - 1 : Shown(a, b)'
  <1>1. PICK op \in {"bitmap", "xy", "overwrite", "self", "plus", "external"}, x \in Xs, y \in Ys,
             size \in Areas, white \in BOOLEAN, f \in Frames \cup {0}, g \in Frames \cup {0} :
          DrawImage(Areal(op, x, y, size, white, f, g)) /\ (op = "bitmap" => f = 0)
    <2>1. PICK x \in Xs, y \in Ys, size \in Areas :
          \/ \E op \in {"bitmap", "xy"}, white \in BOOLEAN :
               DrawImage(Areal(op, x, y, size, white, 0, 0))
          \/ \E op \in {"overwrite", "self", "plus"}, f \in Frames :
               DrawImage(Areal(op, x, y, size, TRUE, f, 0))
          \/ \E f, g \in Frames : DrawImage(Areal("external", x, y, size, TRUE, f, g))
      BY DEF BeginImage
    <2> QED
      BY <2>1
  <1>2. op \in Paged \cup Fx \cup {"xy"} /\ f \in Nat /\ g \in Nat
    BY DrawingAssumption DEF Paged
  <1>3. Begins(Areal(op, x, y, size, white, f, g))
    BY <1>1 DEF DrawImage
  <1> QED
    BY <1>1, <1>2, <1>3, ArealBeginning

LEMMA FxBitmapBegins ==
  ASSUME BeginFx, ~FxRefused
  PROVE  /\ ArealInPlace' /\ GlyphInPlace' /\ RectInPlace'
         /\ \A a \in 0 .. Width - 1, b \in 0 .. Height - 1 : Shown(a, b)'
  <1>1. PICK x \in Xs, y \in Ys, size \in Areas, op \in Fx, f \in Frames :
          FxDraw(Areal(op, x, y, size, TRUE, f, 0))
    BY DEF BeginFx
  <1>2. op \in Paged \cup Fx \cup {"xy"} /\ f \in Nat /\ 0 \in Nat /\ op # "bitmap"
    BY DrawingAssumption DEF Fx
  <1>3. Begins(Areal(op, x, y, size, TRUE, f, 0))
    BY <1>1 DEF FxDraw
  <1> QED
    BY <1>1, <1>2, <1>3, ArealBeginning

LEMMA GlyphBegins ==
  ASSUME DrawTypeOK, InPlace, BeginText
  PROVE  /\ ArealInPlace' /\ GlyphInPlace' /\ RectInPlace'
         /\ \A a \in 0 .. Width - 1, b \in 0 .. Height - 1 : Shown(a, b)'
  <1>1. PICK char \in Frames : WriteGlyph(char)
    BY DEF BeginText
  <1>2. /\ call' = [op |-> "glyph", x |-> cursor'.x, y |-> cursor'.y, w |-> GlyphWidth + 1,
                    h |-> PageBits, frame |-> char]
        /\ page' = 0 /\ px' = 0 /\ canvas' = canvas /\ before' = canvas
        /\ cursor' = IF WrapsFirst THEN NewLine(cursor) ELSE cursor
    BY <1>1 DEF WriteGlyph, Begins
  <1>3. /\ call'.op = "glyph" /\ call'.x = cursor'.x /\ call'.y = cursor'.y
        /\ call'.w = GlyphWidth + 1 /\ call'.h = PageBits
    BY <1>2
  <1>4. cursor \in Cursors /\ NewLine(cursor) \in Cursors /\ NewLine(cursor).x = 0
    BY NewLineIsACursor DEF DrawTypeOK, InPlace, Cursors
  <1>5. cursor.x \in Int /\ cursor'.x \in Coordinates /\ cursor'.y \in Coordinates
    <2>1. cursor.x \in Coordinates
      BY <1>4 DEF Cursors
    <2> QED
      BY <1>2, <1>4, <2>1, Coordinate DEF Cursors
  <1>6. cursor'.x <= Width - GlyphWidth
    <2>1. CASE WrapsFirst
      <3>1. cursor'.x = 0
        BY <1>2, <1>4, <2>1
      <3> QED
        BY <3>1, DrawingAssumption, Sizes, SMT
    <2>2. CASE ~WrapsFirst
      <3>1. cursor'.x = cursor.x /\ ~(cursor.x > Width - GlyphWidth)
        BY <1>2, <2>2 DEF WrapsFirst
      <3> QED
        BY <3>1, <1>5, DrawingAssumption, Sizes, SMT
    <2> QED
      BY <2>1, <2>2
  <1>7. GlyphInPlace'
    BY <1>3, <1>6 DEF GlyphInPlace
  <1>8. ArealInPlace' /\ RectInPlace'
    BY <1>3 DEF ArealInPlace, RectInPlace, Paged, Fx
  <1>9. call'.op \in AreaOps /\ call'.x \in Int /\ call'.y \in Int
    BY <1>3, <1>5, Coordinate DEF AreaOps
  <1>10. ASSUME NEW CONSTANT a \in 0 .. Width - 1, NEW CONSTANT b \in 0 .. Height - 1
         PROVE  Shown(a, b)'
    BY <1>2, <1>9, AreaBegins
  <1> QED
    BY <1>7, <1>8, <1>10

LEMMA RectBegins ==
  ASSUME BeginRect
  PROVE  /\ ArealInPlace' /\ GlyphInPlace' /\ RectInPlace'
         /\ \A a \in 0 .. Width - 1, b \in 0 .. Height - 1 : Shown(a, b)'
  <1>1. PICK x \in Xs, y \in Ys, size \in Areas, white \in BOOLEAN :
          \E rects \in {<<[x |-> x, y |-> y, w |-> size[1], h |-> size[2]]>>,
                        Sides(x, y, size[1], size[2])} :
             FillRects(rects, [op |-> "rect", white |-> white, rects |-> rects])
    BY DEF BeginRect
  <1>2. PICK rects \in {<<[x |-> x, y |-> y, w |-> size[1], h |-> size[2]]>>,
                        Sides(x, y, size[1], size[2])} :
          FillRects(rects, [op |-> "rect", white |-> white, rects |-> rects])
    BY <1>1
  <1> DEFINE w == size[1]
             h == size[2]
  <1>3. x \in Coordinates /\ y \in Coordinates /\ w \in Small /\ h \in Small
    <2>1. size \in Small \X Small
      BY DrawingAssumption DEF Small
    <2>2. x \in Coordinates /\ y \in Coordinates
      BY DrawingAssumption DEF Coordinates
    <2> QED
      BY <2>1, <2>2
  <1> HIDE DEF w, h
  <1>4. Int16(y + h - 1) \in Coordinates /\ Int16(x + w - 1) \in Coordinates
    <2>1. y + h - 1 \in Int /\ x + w - 1 \in Int
      BY <1>3, Coordinate, SmallIs, SMT
    <2> QED
      BY <2>1, Int16Fits
  <1>5. <<[x |-> x, y |-> y, w |-> w, h |-> h]>> \in Seq(SmallRects)
    <2>1. [x |-> x, y |-> y, w |-> w, h |-> h] \in SmallRects
      BY <1>3 DEF SmallRects
    <2> QED
      BY <2>1
  <1>6. Sides(x, y, w, h) \in Seq(SmallRects)
    <2>1. [x |-> x, y |-> y, w |-> w, h |-> 1] \in SmallRects
      BY <1>3, ZeroAndOne DEF SmallRects
    <2>2. [x |-> x, y |-> Int16(y + h - 1), w |-> w, h |-> 1] \in SmallRects
      BY <1>3, <1>4, ZeroAndOne DEF SmallRects
    <2>3. [x |-> x, y |-> y, w |-> 1, h |-> h] \in SmallRects
      BY <1>3, ZeroAndOne DEF SmallRects
    <2>4. [x |-> Int16(x + w - 1), y |-> y, w |-> 1, h |-> h] \in SmallRects
      BY <1>3, <1>4, ZeroAndOne DEF SmallRects
    <2>5. << [x |-> x, y |-> y, w |-> w, h |-> 1],
             [x |-> x, y |-> Int16(y + h - 1), w |-> w, h |-> 1],
             [x |-> x, y |-> y, w |-> 1, h |-> h],
             [x |-> Int16(x + w - 1), y |-> y, w |-> 1, h |-> h] >> \in Seq(SmallRects)
      BY <2>1, <2>2, <2>3, <2>4
    <2>6. <<>> \in Seq(SmallRects)
      OBVIOUS
    <2> QED
      BY <2>5, <2>6 DEF Sides
  <1>7. rects \in Seq(SmallRects) /\ Len(rects) \in Nat
    <2>1. rects \in Seq(SmallRects)
      BY <1>2, <1>5, <1>6 DEF w, h
    <2> QED
      BY <2>1
  <1>8. /\ call' = [op |-> "rect", white |-> white, rects |-> rects]
        /\ page' = 0 /\ px' = 0 /\ todo' = rects /\ canvas' = canvas /\ before' = canvas
    BY <1>2 DEF FillRects, Begins
  <1>9. call'.op = "rect" /\ call'.rects = rects
    BY <1>8
  <1>10. RectInPlace'
    <2>1. Len(rects) <= Len(rects) /\ \A i \in 1 .. Len(rects) : Len(rects) - Len(rects) + i = i
      BY <1>7, SMT
    <2> QED
      BY <1>7, <1>8, <1>9, <2>1 DEF RectInPlace, SmallRects
  <1>11. ArealInPlace' /\ GlyphInPlace'
    BY <1>9 DEF ArealInPlace, GlyphInPlace, Paged, Fx
  <1>12. ASSUME NEW CONSTANT a \in 0 .. Width - 1, NEW CONSTANT b \in 0 .. Height - 1
         PROVE  Shown(a, b)'
    <2>1. ~RectPixel(call, a, b)'
      <3>1. Len(call'.rects) - Len(todo') = 0
        BY <1>7, <1>8, <1>9, SMT
      <3>2. 1 .. 0 = {}
        BY SMT
      <3>3. ~(todo' # <<>> /\ Inside(Head(todo'), a, b) /\ b < Larger(Head(todo').y, 0) + page')
        <4> SUFFICES ASSUME todo' # <<>>, Inside(Head(todo'), a, b), b < Larger(Head(todo').y, 0) + page'
                     PROVE  FALSE
          OBVIOUS
        <4> DEFINE r == Head(todo')
        <4>1. r \in SmallRects
          BY <1>7, <1>8
        <4> HIDE DEF r
        <4>2. r.y \in Int
          BY <4>1, SmallRectIs
        <4>3. b >= r.y /\ b < Larger(r.y, 0) + page'
          BY DEF Inside, r
        <4>4. b \in Int /\ 0 <= b
          BY Sizes, SMT
        <4> QED
          BY <1>8, <4>2, <4>3, <4>4, SMT DEF Larger
      <3> QED
        BY <3>1, <3>2, <3>3 DEF RectPixel
    <2>2. PixelNow(a, b)' = IF RectPixel(call, a, b)' THEN call'.white ELSE Pixel(before', a, b)
      BY <1>9 DEF PixelNow
    <2>3. Shown(a, b)' <=> (Pixel(canvas', a, b) <=> PixelNow(a, b)')
      BY DEF Shown
    <2> QED
      BY <1>8, <2>1, <2>2, <2>3
  <1> QED
    BY <1>10, <1>11, <1>12

-----------------------------------------------------------------------------
(* The loops stay in place.                                                *)

LEMMA PaintsInPlace ==
  ASSUME DrawTypeOK, InPlace, Paints
  PROVE  call' = call /\ before' = before /\ ArealInPlace' /\ GlyphInPlace' /\ RectInPlace'
  <1>1. call' = call /\ before' = before /\ cursor' = cursor
    <2>1. CASE PaintByte \/ PaintBit
      BY <2>1 DEF PaintByte, PaintBit, Advance, textVars
    <2>2. CASE SkipRow \/ FxSkipPage \/ FxPage \/ PaintColumn
      BY <2>2 DEF SkipRow, FxSkipPage, FxPage, PaintColumn, textVars
    <2>3. CASE FillChunk \/ NextRect
      BY <2>3 DEF FillChunk, NextRect, textVars
    <2> QED
      BY <2>1, <2>2, <2>3 DEF Paints
  <1>2. GlyphInPlace'
    BY <1>1 DEF InPlace, GlyphInPlace
  <1>3. /\ ArealInPlace /\ RectInPlace /\ page \in Nat /\ px \in Nat /\ CallOK
    BY DEF InPlace, DrawTypeOK, CallOK
  <1>4. ArealInPlace'
    <2>1. CASE PaintByte
      <3>1. call.op \in Paged /\ call.op # "xy" /\ (px' = 0 \/ px' < call.w)
        <4>1. IF px + 1 < call.w THEN px' = px + 1 /\ UNCHANGED page ELSE px' = 0 /\ page' = page + 1
          BY <2>1 DEF PaintByte, Advance
        <4> QED
          BY <2>1, <4>1 DEF PaintByte, Paged
      <3> QED
        BY <1>1, <1>3, <3>1 DEF ArealInPlace
    <2>2. CASE PaintBit
      <3>1. /\ call.op = "xy" /\ Int16(call.y + page) \in 0 .. Height - 1
            /\ IF px + 1 < call.w THEN px' = px + 1 /\ UNCHANGED page ELSE px' = 0 /\ page' = page + 1
        BY <2>2 DEF PaintBit, Advance
      <3>2. px' = 0 \/ (px' < call.w /\ page' = page)
        BY <3>1
      <3> QED
        BY <1>1, <1>3, <3>1, <3>2 DEF ArealInPlace
    <2>3. CASE SkipRow
      <3>1. /\ call.op = "xy" /\ px' = px
            /\ call.w = 0 \/ Int16(call.y + page) \notin 0 .. Height - 1
        BY <2>3 DEF SkipRow
      <3>2. px = 0
        <4>1. /\ px = 0 \/ px < call.w
              /\ px # 0 => Int16(call.y + page) \in 0 .. Height - 1
          BY <1>3, <3>1 DEF ArealInPlace
        <4>2. CASE call.w = 0
          BY <1>3, <4>1, <4>2, SMT
        <4>3. CASE call.w # 0
          BY <3>1, <4>1, <4>3
        <4> QED
          BY <4>2, <4>3
      <3> QED
        BY <1>1, <1>3, <3>1, <3>2 DEF ArealInPlace
    <2>4. CASE FxSkipPage \/ FxPage
      <3>1. call.op \in Fx /\ call.op # "xy" /\ px' = px
        BY <2>4 DEF FxSkipPage, FxPage, Fx
      <3> QED
        BY <1>1, <1>3, <3>1 DEF ArealInPlace
    <2>5. CASE FillChunk \/ NextRect \/ PaintColumn
      <3>1. call.op \in {"rect", "glyph"}
        BY <2>5 DEF FillChunk, NextRect, PaintColumn
      <3> QED
        BY <1>1, <3>1 DEF ArealInPlace, Paged, Fx
    <2> QED
      BY <2>1, <2>2, <2>3, <2>4, <2>5 DEF Paints
  <1>5. RectInPlace'
    <2>1. CASE call.op # "rect"
      BY <1>1, <2>1 DEF RectInPlace
    <2>2. CASE FillChunk
      <3>1. todo' = todo
        BY <2>2 DEF FillChunk
      <3> QED
        BY <1>1, <1>3, <3>1 DEF RectInPlace
    <2>3. CASE NextRect
      <3>1. call.op = "rect" /\ todo # <<>> /\ todo' = Tail(todo)
        BY <2>3 DEF NextRect
      <3>2. /\ call.rects \in Seq(SmallRects) /\ Len(call.rects) \in Nat /\ Len(todo) \in Nat
            /\ Len(todo) <= Len(call.rects) /\ todo \in Seq(Rects) /\ Len(todo) >= 1
            /\ \A i \in 1 .. Len(todo) : todo[i] = call.rects[Len(call.rects) - Len(todo) + i]
        BY <1>3, <3>1, RectsLeft
      <3>3. Len(todo') = Len(todo) - 1 /\ \A i \in 1 .. Len(todo') : todo'[i] = todo[i + 1]
        BY <3>1, <3>2
      <3>4. ASSUME NEW i \in 1 .. Len(todo')
            PROVE  todo'[i] = call.rects[Len(call.rects) - Len(todo') + i]
        <4>1. i + 1 \in 1 .. Len(todo)
          BY <3>2, <3>3, SMT
        <4>2. todo'[i] = call.rects[Len(call.rects) - Len(todo) + (i + 1)]
          BY <3>2, <3>3, <4>1
        <4>3. Len(call.rects) - Len(todo) + (i + 1) = Len(call.rects) - Len(todo') + i
          <5> DEFINE n == Len(call.rects)
                     m == Len(todo)
                     k == Len(todo')
          <5>1. n \in Int /\ m \in Int /\ k = m - 1 /\ i \in Int
            BY <3>2, <3>3, SMT
          <5> HIDE DEF n, m, k
          <5>2. n - m + (i + 1) = n - k + i
            BY <5>1, SMT
          <5> QED
            BY <5>2 DEF n, m, k
        <4> QED
          BY <4>2, <4>3
      <3>5. Len(todo') <= Len(call.rects)
        BY <3>2, <3>3, SMT
      <3> QED
        BY <1>1, <3>2, <3>4, <3>5 DEF RectInPlace, SmallRects
    <2>4. CASE ~FillChunk /\ ~NextRect
      <3>1. call.op \in Paged \cup Fx \cup {"xy", "glyph"}
        BY <2>4 DEF Paints, PaintByte, SkipRow, PaintBit, FxSkipPage, FxPage, PaintColumn
      <3> QED
        BY <2>1, <3>1 DEF Paged, Fx
    <2> QED
      BY <2>2, <2>3, <2>4
  <1> QED
    BY <1>1, <1>2, <1>4, <1>5

\* A step of the loops draws what it should.
LEMMA PaintsShow ==
  ASSUME DrawTypeOK, InPlace, Paints,
         NEW CONSTANT a \in 0 .. Width - 1, NEW CONSTANT b \in 0 .. Height - 1, Shown(a, b),
         ~Stray(call, a, b)
  PROVE  Shown(a, b)'
  <1>1. CASE PaintByte
    BY <1>1, PaintByteShows
  <1>2. CASE SkipRow
    BY <1>2, SkipRowShows
  <1>3. CASE PaintBit
    BY <1>3, PaintBitShows
  <1>4. CASE FillChunk
    BY <1>4, FillChunkShows
  <1>5. CASE NextRect
    BY <1>5, NextRectShows
  <1>6. CASE FxSkipPage
    BY <1>6, FxSkipPageShows
  <1>7. CASE FxPage
    BY <1>7, FxPageShows
  <1>8. CASE PaintColumn
    BY <1>8, PaintColumnShows
  <1> QED
    BY <1>1, <1>2, <1>3, <1>4, <1>5, <1>6, <1>7, <1>8 DEF Paints

-----------------------------------------------------------------------------
\* Pictures, strokes and text as far as they have come.
DrawnInv == DrawInv /\ InPlace /\ DrawnSoFar

LEMMA NotBegun ==
  ASSUME call'.op = "none" \/ call'.op = "stroke"
  PROVE  ArealInPlace' /\ GlyphInPlace' /\ RectInPlace'
  BY DEF ArealInPlace, GlyphInPlace, RectInPlace, Paged, Fx

LEMMA ShownAtRest ==
  ASSUME call'.op = "none", before' = canvas', NEW CONSTANT a, NEW CONSTANT b
  PROVE  Shown(a, b)'
  <1>1. PixelNow(a, b)' = Pixel(before', a, b)
    BY DEF PixelNow
  <1>2. Shown(a, b)' <=> (Pixel(canvas', a, b) <=> PixelNow(a, b)')
    BY DEF Shown
  <1> QED
    BY <1>1, <1>2

\* Whatever the step: the call that is in progress after it is in place, and shown.
LEMMA StepDrawn ==
  ASSUME DrawTypeOK, StrokeInv, InPlace, DrawnSoFar, DrawNext
  PROVE  /\ ArealInPlace' /\ GlyphInPlace' /\ RectInPlace'
         /\ \A a \in 0 .. Width - 1, b \in 0 .. Height - 1 : Stray(call', a, b) \/ Shown(a, b)'
  <1>1. CASE call'.op = "none"
    <2>1. before' = canvas'
      BY <1>1, AtRest
    <2>2. ASSUME NEW CONSTANT a \in 0 .. Width - 1, NEW CONSTANT b \in 0 .. Height - 1
          PROVE  Shown(a, b)'
      BY <1>1, <2>1, ShownAtRest
    <2> QED
      BY <1>1, <2>2, NotBegun
  <1>2. CASE BeginImage
    BY <1>2, ImageBegins
  <1>3. CASE BeginRect
    BY <1>3, RectBegins
  <1>4. CASE BeginFx /\ ~FxRefused
    BY <1>4, FxBitmapBegins
  <1>5. CASE BeginText
    BY <1>5, GlyphBegins
  <1>6. CASE BeginStroke
    <2>1. call'.op = "stroke"
      BY <1>6 DEF BeginStroke
    <2> QED
      BY <1>6, <2>1, NotBegun, BeginStrokeShows
  <1>7. CASE Paints
    <2>1. call' = call /\ ArealInPlace' /\ GlyphInPlace' /\ RectInPlace'
      BY <1>7, PaintsInPlace
    <2>2. ASSUME NEW CONSTANT a \in 0 .. Width - 1, NEW CONSTANT b \in 0 .. Height - 1,
                 ~Stray(call, a, b)
          PROVE  Shown(a, b)'
      <3>1. Shown(a, b)
        BY <2>2 DEF DrawnSoFar, Shown
      <3> QED
        BY <1>7, <2>2, <3>1, PaintsShow
    <2> QED
      BY <2>1, <2>2
  <1>8. CASE Stroke
    <2>1. call' = call /\ call.op = "stroke"
      <3>1. stroke # NoStroke /\ call' = call
        BY <1>8, OtherKinds DEF Stroke, StrokeSteps, LineStep, CircleStep
      <3> QED
        BY <3>1 DEF DrawTypeOK, StrokeIsCalled
    <2>2. ASSUME NEW CONSTANT a \in 0 .. Width - 1, NEW CONSTANT b \in 0 .. Height - 1,
                 ~Stray(call, a, b)
          PROVE  Shown(a, b)'
      <3>1. Shown(a, b)
        BY <2>2 DEF DrawnSoFar, Shown
      <3> QED
        BY <1>8, <3>1, StrokeShows
    <2> QED
      BY <2>1, <2>2, NotBegun
  <1>9. CASE FxRefused \/ Ends \/ EndStroke \/ (\E white \in BOOLEAN : Fill(white)) \/ Clear \/ Text
               \/ FxBegin
    <2>1. call' = NoCall
      <3>1. CASE Ends \/ EndStroke
        BY <3>1 DEF Ends, PagedReturns, XYReturns, RectReturns, FxReadFails, FxReturns,
                    GlyphReturns, EndStroke, Returns
      <3>2. CASE FxRefused \/ (\E white \in BOOLEAN : Fill(white)) \/ Clear \/ FxBegin
        BY <3>2 DEF FxRefused, Fill, Clear, FxBegin
      <3>3. CASE Text
        BY <3>3 DEF Text, WriteNewLine, SetCursor
      <3> QED
        BY <1>9, <3>1, <3>2, <3>3
    <2> QED
      BY <1>1, <2>1, NoCallIsNone
  <1> QED
    BY <1>2, <1>3, <1>4, <1>5, <1>6, <1>7, <1>8, <1>9 DEF DrawNext, Begin, Draw, BeginFx

LEMMA InitDrawnInv == DrawInit => DrawnInv
  <1> SUFFICES ASSUME DrawInit PROVE DrawnInv
    OBVIOUS
  <1>1. call = NoCall /\ before = canvas /\ cursor = Origin /\ stroke = NoStroke
    BY DEF DrawInit, StrokeInit
  <1>2. ArealInPlace /\ GlyphInPlace /\ RectInPlace /\ StrokeInPlace
    BY <1>1, NoCallIsNone, OtherKinds
       DEF ArealInPlace, GlyphInPlace, RectInPlace, StrokeInPlace, Paged, Fx
  <1>3. InPlace
    BY <1>1, <1>2, ZeroAndOne DEF InPlace, Origin
  <1>4. DrawnSoFar
    BY <1>1, NoCallIsNone DEF DrawnSoFar, PixelNow
  <1> QED
    BY <1>3, <1>4, InitDrawInv DEF DrawnInv

LEMMA StepDrawnInv == DrawnInv /\ [DrawNext]_drawVars => DrawnInv'
  <1> SUFFICES ASSUME DrawnInv, [DrawNext]_drawVars PROVE DrawnInv'
    OBVIOUS
  <1>1. DrawTypeOK /\ StrokeInv /\ InPlace /\ DrawnSoFar /\ DrawInv
    BY DEF DrawnInv, DrawInv
  <1>2. DrawInv'
    BY <1>1, StepDrawInv
  <1>3. CASE DrawNext
    <2>1. /\ ArealInPlace' /\ GlyphInPlace' /\ RectInPlace'
          /\ \A a \in 0 .. Width - 1, b \in 0 .. Height - 1 : Stray(call', a, b) \/ Shown(a, b)'
      BY <1>1, <1>3, StepDrawn
    <2>2. StrokeInPlace' /\ cursor' \in Cursors
      BY <1>1, <1>3, StrokesInPlace, CursorInPlace
    <2>3. call'.op = "none" => before' = canvas'
      BY <1>1, <1>3, AtRest
    <2>4. InPlace'
      BY <2>1, <2>2, <2>3 DEF InPlace, Cursors
    <2>5. DrawnSoFar'
      BY <2>1 DEF DrawnSoFar, Shown
    <2> QED
      BY <1>2, <2>4, <2>5 DEF DrawnInv
  <1>4. CASE UNCHANGED drawVars
    <2>1. /\ canvas' = canvas /\ before' = before /\ call' = call /\ page' = page /\ px' = px
          /\ todo' = todo /\ cursor' = cursor
          /\ stroke' = stroke /\ penY' = penY /\ points' = points
      BY <1>4 DEF drawVars, blitVars, loopVars, textVars, strokeVars, loopState
    <2>2. InPlace'
      BY <1>1, <2>1 DEF InPlace, ArealInPlace, GlyphInPlace, RectInPlace, StrokeInPlace
    <2>3. DrawnSoFar'
      <3>1. ASSUME NEW CONSTANT a, NEW CONSTANT b PROVE PixelNow(a, b)' = PixelNow(a, b)
        <4>1. \A x, y : Passed(call, x, y)' = Passed(call, x, y)
          BY <2>1 DEF Passed
        <4>2. RectPixel(call, a, b)' = RectPixel(call, a, b)
          BY <2>1 DEF RectPixel
        <4> QED
          BY <2>1, <4>1, <4>2 DEF PixelNow
      <3> QED
        BY <1>1, <2>1, <3>1 DEF DrawnSoFar
    <2> QED
      BY <1>2, <2>2, <2>3 DEF DrawnInv
  <1> QED
    BY <1>3, <1>4

\* Every pixel of the screen is, at every turn of every drawing call, the pixel of the
\* bitmap, sprite, glyph, rectangle, line or circle if the loop has come past it, and
\* the one that was there before the call if not: across any edge of the screen, at any
\* coordinates an int16_t has.  Excepted are the Stray pixels of a bitmap that is out of
\* reach, where compat.hpp cuts its rows by a uint8_t: those of the top rows its own
\* columns and that cut allow, and no other.
THEOREM PicturesAreDrawn == DrawSpec => []DrawnSoFar
  <1>1. DrawSpec => []DrawnInv
    BY InitDrawnInv, StepDrawnInv, PTL DEF DrawSpec
  <1> QED
    BY <1>1, PTL DEF DrawnInv
=============================================================================

------------------------------- MODULE Canvas -------------------------------
(***************************************************************************)
(* The framebuffer and the ways compat.hpp changes it: one bit per pixel,  *)
(* a byte is a column of PageBits pixels with the least bit on top, the    *)
(* bytes of a page run from left to right and the pages from top to        *)
(* bottom.  A byte is the set of its one bits, so a shift moves the        *)
(* members of a set and a mask is an intersection.                         *)
(*                                                                         *)
(* The memory has bytes before and behind the framebuffer that belong to   *)
(* somebody else; indices are computed without a check, as in the code.    *)
(***************************************************************************)
EXTENDS Integers

CONSTANTS PageBits,    \* bits of a byte: 8
          ByteRange,   \* values of a uint8_t: 256
          Half,        \* an int16_t lies in -Half .. Half - 1: 32768
          Width,       \* WIDTH: 128
          Pages,       \* HEIGHT / 8U: 8
          Memory       \* byte addresses; the framebuffer begins at 0

Height == Pages * PageBits
Size   == Pages * Width
Framebuffer == 0 .. Size - 1
Bits   == 0 .. PageBits - 1
Bytes  == SUBSET Bits

\* HEIGHT is a multiple of 8, and the ranges of the integers of whole pages: a screen and
\* a shape of any size beside it have coordinates.
ASSUME CanvasAssumption ==
  /\ PageBits \in Nat \ {0} /\ Width \in Nat \ {0} /\ Pages \in Nat \ {0}
  /\ ByteRange \in Nat /\ ByteRange % PageBits = 0 /\ Half \in Nat
  /\ Width < ByteRange /\ Height < ByteRange
  /\ Width + ByteRange <= Half /\ Height + ByteRange <= Half
  /\ Framebuffer \subseteq Memory /\ Memory \subseteq Int

Uint8(v) == v % ByteRange
Int16(v) == ((v + Half) % (2 * Half)) - Half

ShiftUp(byte, n)   == {b + n : b \in byte} \cap Bits      \* <<, cast to uint8_t
ShiftDown(byte, n) == {b - n : b \in byte} \cap Bits      \* >>

InBounds(x, y)  == x >= 0 /\ y >= 0 /\ x < Width /\ y < Height
PageIndex(x, y) == (y \div PageBits) * Width + x

\* The bits of byte i that belong to points on the screen.
BitsAt(i, points) ==
  {p[2] % PageBits : p \in {q \in points : InBounds(q[1], q[2]) /\ PageIndex(q[1], q[2]) = i}}

\* draw_pixel_to() of every point of two sets, in white and in black.
DrawPixels(canvas, white, black) ==
  [i \in Memory |-> (canvas[i] \ BitsAt(i, black)) \cup BitsAt(i, white)]

\* fill_screen()
FillScreen(canvas, white) ==
  [i \in Memory |-> IF i \notin Framebuffer THEN canvas[i] ELSE IF white THEN Bits ELSE {}]

-----------------------------------------------------------------------------
(* A byte of a bitmap, whose top pixel lands at (x, y): above the screen   *)
(* its lower pixels only are left, and at a y inside a page it goes to two *)
(* bytes of the framebuffer.                                               *)

\* How many of its pixels are above the screen, for the code: a uint8_t.
Cut(y) == IF y < 0 THEN Uint8(-y) ELSE 0
Top(y) == IF y < 0 THEN 0 ELSE y

Lands(x, y, mask) ==
  /\ mask # {} /\ x >= 0 /\ x < Width
  /\ Cut(y) < PageBits /\ Top(y) < Height
  /\ ShiftDown(mask, Cut(y)) # {}

\* mutant: the second byte is written below the last page too
ReachesNextPage(y) == y % PageBits # 0

\* The pixels that do not fit in the first byte go to the next page, if there is one.
NextPage(y) == y % PageBits # 0 /\ y \div PageBits + 1 < Pages

Merge(byte, data, mask) == (byte \ mask) \cup (data \cap mask)

\* apply_masked_byte()
ApplyMasked(canvas, x, y, data, mask) ==
  LET d == ShiftDown(data, Cut(y))
      m == ShiftDown(mask, Cut(y))
      offset == Top(y) % PageBits
      index  == PageIndex(x, Top(y))
      low    == [canvas EXCEPT ![index] = Merge(@, ShiftUp(d, offset), ShiftUp(m, offset))]
      rest   == PageBits - offset
  IN IF ~Lands(x, y, mask) THEN canvas
     ELSE IF ~NextPage(Top(y)) THEN low
     ELSE [low EXCEPT ![index + Width] = Merge(@, ShiftDown(d, rest), ShiftDown(m, rest))]

\* apply_or_byte()
ApplyOr(canvas, x, y, data) ==
  LET d == ShiftDown(data, Cut(y))
      offset == Top(y) % PageBits
      index  == PageIndex(x, Top(y))
      low    == [canvas EXCEPT ![index] = @ \cup ShiftUp(d, offset)]
  IN IF ~Lands(x, y, data) THEN canvas
     ELSE IF ~NextPage(Top(y)) THEN low
     ELSE [low EXCEPT ![index + Width] = @ \cup ShiftDown(d, PageBits - offset)]

\* mask_for_height()
MaskForHeight(n) == IF n >= PageBits THEN Bits ELSE 0 .. n - 1

\* valid_sprite_mask(): the rows a bitmap of h rows has in that page of it.
ValidMask(h, page) == MaskForHeight(Uint8(h - page * PageBits))

\* (h + 7U) / 8U
PageCount(h) == (h + PageBits - 1) \div PageBits

-----------------------------------------------------------------------------
\* clip_rect(): what is left of the rectangle, as one of [x, y, w, h], or nothing.
Nothing == [x |-> 0, y |-> 0, w |-> 0, h |-> 0]

Larger(a, b)  == IF a > b THEN a ELSE b
Smaller(a, b) == IF a < b THEN a ELSE b

ClipRect(r) ==
  LET x1 == Int16(r.x + r.w)
      y1 == Int16(r.y + r.h)
      x  == Larger(r.x, 0)
      y  == Larger(r.y, 0)
  IN IF r.w = 0 \/ r.h = 0 \/ x1 <= 0 \/ y1 <= 0 \/ r.x >= Width \/ r.y >= Height
       THEN Nothing
       ELSE [x |-> x, y |-> y, w |-> Smaller(x1, Width) - x, h |-> Smaller(y1, Height) - y]

\* The rows of fill_rect_to()'s next turn: up to the end of the page.
Chunk(y, remaining) == Smaller(remaining, PageBits - (y % PageBits))

\* One turn of fill_rect_to(): these rows of w bytes from x on.
FillRows(canvas, x, y, w, rows, white) ==
  LET mask == ShiftUp(MaskForHeight(rows), y % PageBits)
      at   == PageIndex(x, y) .. PageIndex(x, y) + w - 1
  IN [i \in Memory |-> IF i \notin at THEN canvas[i]
                       ELSE IF white THEN canvas[i] \cup mask ELSE canvas[i] \ mask]

-----------------------------------------------------------------------------
\* The pixel in column x and row y of the screen.
Pixel(canvas, x, y) == y % PageBits \in canvas[PageIndex(x, y)]

\* bitmap_bit(), for a bitmap of width w whose bytes begin at address a of rom.
BitmapBit(rom, a, w, x, y) == y % PageBits \in rom[a + x + (y \div PageBits) * w]
=============================================================================

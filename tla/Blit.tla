-------------------------------- MODULE Blit --------------------------------
(***************************************************************************)
(* The drawing calls that paint areas: rectangles, bitmaps, sprites, FX    *)
(* bitmaps and text, each as the loop of the code.  A call of the sketch   *)
(* is a record; page and px are its loop counters.  A step is one turn of  *)
(* the inner loop (of the outer one for rectangles and FX pages).          *)
(***************************************************************************)
EXTENDS Canvas, Sequences

CONSTANTS Art,         \* bytes of the sketch's bitmaps, behind their headers
          Masks,       \* bytes of the mask array of drawExternalMask()
          Font,        \* bytes of the font
          GlyphWidth,  \* columns of a glyph: 5
          ArtLength    \* length of the FX data behind the header of the bitmap

VARIABLES canvas,      \* the memory, the framebuffer in it
          before,      \* history: the memory when the call began
          call,        \* the call in progress
          page, px,    \* its loop counters
          todo,        \* rectangles it still has to fill
          cursor,      \* cursor_x, cursor_y
          fxError      \* FX::error_ is set

loopVars == <<page, px, todo>>
textVars == <<cursor, fxError>>
blitVars == <<canvas, before, call, loopVars, textVars>>

NoCall == [op |-> "none"]

\* The loops over pages of a bitmap of 8-row columns.
Paged == {"bitmap", "overwrite", "self", "plus", "external"}
Fx    == {"fx", "fxmask"}

Begins(c) ==
  /\ call = NoCall
  /\ call' = c /\ before' = canvas
  /\ page' = 0 /\ px' = 0
  /\ UNCHANGED canvas

\* draw_pixel()
DrawOne(x, y, white) ==
  DrawPixels(canvas, IF white THEN {<<x, y>>} ELSE {}, IF white THEN {} ELSE {<<x, y>>})

Returns == call' = NoCall /\ before' = canvas /\ page' = 0 /\ px' = 0 /\ todo' = <<>>

\* The next turn of the inner loop, or the first one of the next page.
Advance(w) ==
  /\ IF px + 1 < w THEN px' = px + 1 /\ UNCHANGED page ELSE px' = 0 /\ page' = page + 1
  /\ UNCHANGED <<before, call, todo, textVars>>

-----------------------------------------------------------------------------
\* drawBitmap(), Sprites, drawSlowXYBitmap(): c has op, x, y, w, h, white, frame, other.
DrawImage(c) ==
  /\ Begins(c)
  /\ UNCHANGED <<todo, textVars>>

\* bytes_per_frame
FrameBytes(c) == c.w * PageCount(c.h)

\* mutant: the frames of a sprite with its mask are as far apart as those without
SingleStride(c) == IF c.op = "bitmap" THEN 0 ELSE c.frame * FrameBytes(c)

\* Where the frame begins, in the bytes of the array.
FrameData(c) == CASE c.op = "bitmap" -> 0
                  [] c.op \in {"plus", "fxmask"} -> 2 * c.frame * FrameBytes(c)
                  [] OTHER -> c.frame * FrameBytes(c)

\* The byte the next turn of the loop reads, without the rows that are not there.
Valid(c)  == ValidMask(c.h, page)
Index(c)  == page * c.w + px
Image(c)  == Valid(c) \cap Art[FrameData(c) + IF c.op = "plus" THEN 2 * Index(c) ELSE Index(c)]
Mask(c)   == CASE c.op = "bitmap"    -> Image(c)
               [] c.op = "overwrite" -> Valid(c)
               [] c.op = "plus"      -> Valid(c) \cap Art[FrameData(c) + 2 * Index(c) + 1]
               [] c.op = "external"  -> Valid(c) \cap Masks[c.other * FrameBytes(c) + Index(c)]

PaintByte ==
  /\ call.op \in Paged /\ call.w > 0 /\ page < PageCount(call.h)
  /\ LET x == Int16(call.x + px)
         y == Int16(call.y + page * PageBits)
         data == IF call.op = "bitmap" /\ ~call.white THEN {} ELSE Image(call)
     IN canvas' = IF call.op = "self" THEN ApplyOr(canvas, x, y, Image(call))
                  ELSE ApplyMasked(canvas, x, y, data, Mask(call))
  /\ Advance(call.w)

PagedReturns ==
  /\ call.op \in Paged
  /\ call.w = 0 \/ page >= PageCount(call.h)
  /\ Returns
  /\ UNCHANGED <<canvas, textVars>>

-----------------------------------------------------------------------------
(* draw_xy_bitmap_to(): rows of bytes, the highest bit is the leftmost     *)
(* pixel.  page counts rows.                                               *)

ByteWidth(c) == Uint8((c.w + PageBits - 1) \div PageBits)
XYBit(c, x, y) == PageBits - 1 - (x % PageBits) \in Art[y * ByteWidth(c) + x \div PageBits]

\* A row outside of the screen is passed over.
SkipRow ==
  /\ call.op = "xy" /\ page < call.h
  /\ call.w = 0 \/ Int16(call.y + page) \notin 0 .. Height - 1
  /\ page' = page + 1
  /\ UNCHANGED <<canvas, before, call, px, todo, textVars>>

PaintBit ==
  /\ call.op = "xy" /\ call.w > 0 /\ page < call.h
  /\ Int16(call.y + page) \in 0 .. Height - 1
  /\ LET x == Int16(call.x + px)
     IN canvas' = IF x \in 0 .. Width - 1 /\ XYBit(call, px, page)
                  THEN DrawOne(x, Int16(call.y + page), call.white) ELSE canvas
  /\ Advance(call.w)

XYReturns ==
  /\ call.op = "xy" /\ page >= call.h
  /\ Returns
  /\ UNCHANGED <<canvas, textVars>>

-----------------------------------------------------------------------------
\* fillRect(), drawFastHLine(), drawFastVLine(), drawRect(): one rectangle or its
\* four sides, one after the other.
FillRects(rects, c) ==
  /\ Begins(c)
  /\ todo' = rects
  /\ UNCHANGED textVars

Sides(x, y, w, h) ==
  IF w = 0 \/ h = 0 THEN <<>>
  ELSE << [x |-> x, y |-> y, w |-> w, h |-> 1],
          [x |-> x, y |-> Int16(y + h - 1), w |-> w, h |-> 1],
          [x |-> x, y |-> y, w |-> 1, h |-> h],
          [x |-> Int16(x + w - 1), y |-> y, w |-> 1, h |-> h] >>

\* A turn of fill_rect_to()'s outer loop: the rows up to the end of the page.
FillChunk ==
  /\ call.op = "rect" /\ todo # <<>>
  /\ LET r == ClipRect(Head(todo))
         y == r.y + page
         rows == Chunk(y, r.h - page)
     IN /\ page < r.h
        /\ canvas' = FillRows(canvas, r.x, y, r.w, rows, call.white)
        /\ page' = page + rows
  /\ UNCHANGED <<before, call, px, todo, textVars>>

NextRect ==
  /\ call.op = "rect" /\ todo # <<>>
  /\ page >= ClipRect(Head(todo)).h
  /\ todo' = Tail(todo) /\ page' = 0
  /\ UNCHANGED <<canvas, before, call, px, textVars>>

RectReturns ==
  /\ call.op = "rect" /\ todo = <<>>
  /\ Returns
  /\ UNCHANGED <<canvas, textVars>>

-----------------------------------------------------------------------------
(* FX: an error of any call is kept, and every later call returns at once. *)

FxBegin ==
  /\ call = NoCall
  /\ fxError' \in BOOLEAN
  /\ UNCHANGED <<canvas, before, call, loopVars, cursor>>

Stride(c) == IF c.op = "fxmask" THEN 2 ELSE 1

\* The header cannot be read, has no size the code can draw, or the data are too short for the frame.
FxRefused ==
  /\ call = NoCall /\ ~fxError
  /\ fxError' = TRUE
  /\ UNCHANGED <<canvas, before, call, loopVars, cursor>>

FxDraw(c) ==
  /\ ~fxError
  /\ c.w \in 1 .. Width /\ c.h \in 1 .. 2 * Height
  /\ (c.frame + 1) * FrameBytes(c) * Stride(c) <= ArtLength
  /\ c.x < Width /\ c.y < Height /\ c.x + c.w > 0 /\ c.y + c.h > 0
  /\ Begins(c)
  /\ UNCHANGED <<todo, textVars>>

\* The part of a row of bytes that is on the screen.
Columns(c) == (IF c.x < 0 THEN -c.x ELSE 0) .. Smaller(c.w, Width - c.x) - 1

FxByte(c, col, plane) == Art[FrameData(c) + (page * c.w + col) * Stride(c) + plane]

FxTop == call.y + page * PageBits

FxSkipPage ==
  /\ call.op \in Fx /\ page < PageCount(call.h)
  /\ FxTop >= Height \/ FxTop + PageBits <= 0
  /\ page' = page + 1
  /\ UNCHANGED <<canvas, before, call, px, todo, textVars>>

\* One page: its bytes are read, then drawn pixel by pixel.
FxPage ==
  /\ call.op \in Fx /\ page < PageCount(call.h)
  /\ FxTop < Height /\ FxTop + PageBits > 0
  /\ LET pixels == {p \in Columns(call) \X Bits :
                      /\ page * PageBits + p[2] < call.h
                      /\ Stride(call) = 1 \/ p[2] \in FxByte(call, p[1], 1)}
         lit == {p \in pixels : p[2] \in FxByte(call, p[1], 0)}
         at(P) == {<<Int16(call.x + p[1]), Int16(FxTop + p[2])>> : p \in P}
     IN canvas' = DrawPixels(canvas, at(lit), at(pixels \ lit))
  /\ page' = page + 1
  /\ UNCHANGED <<before, call, px, todo, textVars>>

\* A page cannot be read: the drawing stays unfinished and the sketch is asked to exit.
FxReadFails ==
  /\ call.op \in Fx /\ page < PageCount(call.h)
  /\ FxTop < Height /\ FxTop + PageBits > 0
  /\ fxError' = TRUE
  /\ Returns
  /\ UNCHANGED <<canvas, cursor>>

FxReturns ==
  /\ call.op \in Fx /\ page >= PageCount(call.h)
  /\ Returns
  /\ UNCHANGED <<canvas, textVars>>

-----------------------------------------------------------------------------
(* Arduboy2::write(): a carriage return does nothing, a newline or a       *)
(* cursor too far right begins a line, a glyph is drawn with its           *)
(* background and a column of space.                                       *)

NewLine(at) == [x |-> 0, y |-> Int16(at.y + PageBits)]

WrapsFirst == cursor.x > Width - GlyphWidth

SetCursor(x, y) ==
  /\ call = NoCall
  /\ cursor' = [x |-> x, y |-> y]
  /\ UNCHANGED <<canvas, before, call, loopVars, fxError>>

WriteNewLine ==
  /\ call = NoCall
  /\ cursor' = NewLine(cursor)
  /\ UNCHANGED <<canvas, before, call, loopVars, fxError>>

WriteGlyph(char) ==
  /\ cursor' = IF WrapsFirst THEN NewLine(cursor) ELSE cursor
  /\ Begins([op |-> "glyph", x |-> cursor'.x, y |-> cursor'.y, w |-> GlyphWidth + 1,
             h |-> PageBits, frame |-> char])
  /\ UNCHANGED <<todo, fxError>>

\* Column px of the glyph.
Glyph(c, col) == IF col < GlyphWidth THEN Font[c.frame * GlyphWidth + col] ELSE {}

PaintColumn ==
  /\ call.op = "glyph" /\ px < call.w
  /\ LET at(B) == {<<Int16(cursor.x + px), Int16(cursor.y + b)>> : b \in B}
     IN canvas' = DrawPixels(canvas, at(Glyph(call, px)), at(Bits \ Glyph(call, px)))
  /\ px' = px + 1
  /\ UNCHANGED <<before, call, page, todo, textVars>>

GlyphReturns ==
  /\ call.op = "glyph" /\ px >= call.w
  /\ cursor' = [cursor EXCEPT !.x = Int16(@ + GlyphWidth + 1)]
  /\ Returns
  /\ UNCHANGED <<canvas, fxError>>

Paints == PaintByte \/ SkipRow \/ PaintBit \/ FillChunk \/ NextRect \/ FxSkipPage \/ FxPage
            \/ PaintColumn
Ends   == PagedReturns \/ XYReturns \/ RectReturns \/ FxReadFails \/ FxReturns \/ GlyphReturns
=============================================================================

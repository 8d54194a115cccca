------------------------------ MODULE Drawing -------------------------------
(***************************************************************************)
(* The drawing calls of Arduboy2, Arduboy, Sprites and FX on the screen of *)
(* the sketch, one call at a time: the sketch has one thread, and the      *)
(* framebuffer is its own until it calls display().  A call outside of a   *)
(* session has no framebuffer and changes nothing.                         *)
(***************************************************************************)
EXTENDS Blit, Strokes

CONSTANTS Xs, Ys,      \* the coordinates a sketch gives
          Areas,       \* ... the <<width, height>>
          Lines,       \* ... the ends of lines, members of LineCalls
          Radii,       \* ... of circles
          Frames,      \* frame numbers and characters
          Bounded      \* the model is bounded, for TLC: see Fresh

\* Coordinates are int16_t, sizes uint8_t, and a character has its glyph, which fits.
ASSUME DrawingAssumption ==
  /\ Xs \subseteq -Half .. Half - 1 /\ Ys \subseteq -Half .. Half - 1
  /\ Areas \subseteq (0 .. ByteRange - 1) \X (0 .. ByteRange - 1)
  /\ Lines \subseteq LineCalls /\ Radii \subseteq 0 .. ByteRange - 1
  /\ \A c \in Lines : {c.x0, c.y0, c.x1, c.y1} \subseteq -Half .. Half - 1
  /\ Bounded \in BOOLEAN
  /\ Frames \subseteq Nat /\ GlyphWidth \in Nat /\ GlyphWidth < Width
  /\ \A f \in Frames, col \in 0 .. GlyphWidth - 1 : Font[f * GlyphWidth + col] \in Bytes

drawVars == <<blitVars, strokeVars>>

Origin == [x |-> 0, y |-> 0]

\* What the bytes around the framebuffer hold: the highest bit alone.
Neighbour == {PageBits - 1}

DrawInit ==
  /\ canvas = [i \in Memory |-> IF i \in Framebuffer THEN {} ELSE Neighbour]
  /\ before = canvas
  /\ call = NoCall /\ page = 0 /\ px = 0 /\ todo = <<>>
  /\ cursor = Origin /\ fxError = TRUE
  /\ StrokeInit

\* fillScreen()
Fill(white) ==
  /\ call = NoCall
  /\ canvas' = FillScreen(canvas, white) /\ before' = canvas'
  /\ UNCHANGED <<call, loopVars, textVars, strokeVars>>

\* Arduboy2::clear()
Clear ==
  /\ call = NoCall
  /\ canvas' = FillScreen(canvas, FALSE) /\ before' = canvas'
  /\ cursor' = Origin
  /\ UNCHANGED <<call, loopVars, fxError, strokeVars>>

\* Bound, if Bounded: a call begins on a screen of one colour, and a sketch that draws
\* shapes or bitmaps uses neither text nor FX.
Fresh  == call = NoCall /\ (Bounded => \E white \in BOOLEAN : canvas = FillScreen(canvas, white))
NoText == Bounded => cursor = Origin
NoFx   == Bounded => fxError

Areal(op, a, b, size, white, f, g) ==
  [op |-> op, x |-> a, y |-> b, w |-> size[1], h |-> size[2], white |-> white,
   frame |-> f, other |-> g]

BeginImage ==
  /\ Fresh /\ NoText /\ NoFx
  /\ \E a \in Xs, b \in Ys, size \in Areas :
       \/ \E op \in {"bitmap", "xy"}, white \in BOOLEAN :
            DrawImage(Areal(op, a, b, size, white, 0, 0))
       \/ \E op \in {"overwrite", "self", "plus"}, f \in Frames :
            DrawImage(Areal(op, a, b, size, TRUE, f, 0))
       \/ \E f, g \in Frames : DrawImage(Areal("external", a, b, size, TRUE, f, g))
  /\ UNCHANGED strokeVars

BeginRect ==
  /\ Fresh /\ NoText /\ NoFx
  /\ \E a \in Xs, b \in Ys, size \in Areas, white \in BOOLEAN :
       \E rects \in {<<[x |-> a, y |-> b, w |-> size[1], h |-> size[2]]>>,
                     Sides(a, b, size[1], size[2])} :
          FillRects(rects, [op |-> "rect", white |-> white, rects |-> rects])
  /\ UNCHANGED strokeVars

BeginFx ==
  /\ Fresh /\ NoText
  /\ \/ \E a \in Xs, b \in Ys, size \in Areas, op \in Fx, f \in Frames :
          FxDraw(Areal(op, a, b, size, TRUE, f, 0))
     \/ FxRefused
  /\ UNCHANGED strokeVars

BeginText ==
  /\ Fresh /\ NoFx
  /\ \E char \in Frames : WriteGlyph(char)
  /\ UNCHANGED strokeVars

-----------------------------------------------------------------------------
\* draw_pixel() of every point; the coordinates become int16_t on the way.
DrawPoints(new, white) ==
  LET at == {<<Int16(p[1]), Int16(p[2])>> : p \in new}
  IN DrawPixels(canvas, IF white THEN at ELSE {}, IF white THEN {} ELSE at)

\* drawPixel() is a line from a point to itself.
BeginStroke ==
  /\ Fresh /\ NoText /\ NoFx
  /\ \E white \in BOOLEAN :
       /\ \/ \E c \in Lines : LineBegins(c)
          \/ \E a \in Xs, b \in Ys, r \in Radii :
               CircleBegins([op |-> "circle", x0 |-> a, y0 |-> b, r |-> r])
       /\ call' = [op |-> "stroke", white |-> white]
       /\ canvas' = DrawPoints(points', white)
  /\ before' = canvas
  /\ UNCHANGED <<loopVars, textVars>>

Stroke ==
  /\ StrokeSteps
  /\ canvas' = DrawPoints(points' \ points, call.white)
  /\ UNCHANGED <<before, call, loopVars, textVars>>

EndStroke ==
  /\ StrokeReturns
  /\ Returns
  /\ UNCHANGED <<canvas, textVars>>

Begin == BeginImage \/ BeginRect \/ BeginFx \/ BeginText \/ BeginStroke
Text  == WriteNewLine \/ \E a \in Xs, b \in Ys : SetCursor(a, b)
Draw  == ((Paints \/ Ends) /\ UNCHANGED strokeVars) \/ Stroke \/ EndStroke

DrawNext ==
  \/ Begin
  \/ Draw
  \/ (\E white \in BOOLEAN : Fill(white)) \/ Clear
  \/ Text /\ NoFx /\ UNCHANGED strokeVars
  \/ FxBegin /\ NoText /\ UNCHANGED strokeVars

DrawSpec == DrawInit /\ [][DrawNext]_drawVars

-----------------------------------------------------------------------------
(* What a call should have drawn when it has come this far, pixel by       *)
(* pixel: (sx, sy) is a pixel of the bitmap, the glyph or the screen.      *)

\* Every second byte of a frame, from the first or the second on.
Plane(c, k) == [i \in 0 .. FrameBytes(c) - 1 |-> Art[2 * c.frame * FrameBytes(c) + 2 * i + k]]

PaintsPixel(c, sx, sy) ==
  CASE c.op \in {"bitmap", "self"} -> BitmapBit(Art, c.frame * FrameBytes(c), c.w, sx, sy)
    [] c.op = "xy"       -> XYBit(c, sx, sy)
    [] c.op = "external" -> BitmapBit(Masks, c.other * FrameBytes(c), c.w, sx, sy)
    [] c.op \in {"plus", "fxmask"} -> BitmapBit(Plane(c, 1), 0, c.w, sx, sy)
    [] OTHER -> TRUE

White(c, sx, sy) ==
  CASE c.op \in {"bitmap", "xy"} -> c.white
    [] c.op = "self" -> TRUE
    [] c.op \in {"plus", "fxmask"} -> BitmapBit(Plane(c, 0), 0, c.w, sx, sy)
    [] c.op = "glyph" -> sx < GlyphWidth /\ sy \in Font[c.frame * GlyphWidth + sx]
    [] OTHER -> BitmapBit(Art, c.frame * FrameBytes(c), c.w, sx, sy)

\* The loop has passed this pixel.
Passed(c, sx, sy) ==
  CASE c.op = "glyph" -> sx < px
    [] c.op = "xy"    -> sy < page \/ (sy = page /\ sx < px)
    [] c.op \in Fx    -> sy < page * PageBits
    [] OTHER -> sy < page * PageBits \/ (sy \div PageBits = page /\ sx < px)

Inside(r, a, b) == a >= r.x /\ a < r.x + r.w /\ b >= r.y /\ b < r.y + r.h

\* The rectangles before the first of todo are filled, and page rows of what is left of that.
RectPixel(c, a, b) ==
  \/ \E i \in 1 .. Len(c.rects) - Len(todo) : Inside(c.rects[i], a, b)
  \/ todo # <<>> /\ Inside(Head(todo), a, b) /\ b < Larger(Head(todo).y, 0) + page

PixelNow(a, b) ==
  LET c == call
  IN CASE c.op = "none"   -> Pixel(before, a, b)
       [] c.op = "stroke" -> IF <<a, b>> \in points THEN c.white ELSE Pixel(before, a, b)
       [] c.op = "rect"   -> IF RectPixel(c, a, b) THEN c.white ELSE Pixel(before, a, b)
       [] OTHER ->
            IF Inside(c, a, b) /\ Passed(c, a - c.x, b - c.y) /\ PaintsPixel(c, a - c.x, b - c.y)
              THEN White(c, a - c.x, b - c.y) ELSE Pixel(before, a, b)

\* A byte of a bitmap is cut above the screen by a uint8_t, which an int16_t does not fit
\* in: of a page whose top is out of the reach of that type, or of int16_t, the code still
\* draws the lower rows at the top of the screen when they are Cut to fewer than PageBits.
OutOfReach(top) == top <= -ByteRange \/ top >= Half

Stray(c, a, b) ==
  /\ c.op \in Paged
  /\ \E p \in 0 .. PageCount(c.h) - 1, col \in 0 .. c.w - 1 :
       /\ OutOfReach(c.y + p * PageBits)
       /\ a = Int16(c.x + col) /\ b + Cut(Int16(c.y + p * PageBits)) < PageBits

\* Wherever a call begins, on the screen or across any edge of it, every pixel is the
\* one of the picture or the one that was there.  The code misses this by the stray bytes
\* of a bitmap that is out of reach, and by no other pixel.
DrawnSoFar ==
  \A a \in 0 .. Width - 1, b \in 0 .. Height - 1 :
    Stray(call, a, b) \/ (Pixel(canvas, a, b) <=> PixelNow(a, b))

\* What a call in progress was given, and where its loops are in it.
Coordinates == -Half .. Half - 1
Small == 0 .. ByteRange - 1

ArealInPlace ==
  call.op \in Paged \cup Fx \cup {"xy"} =>
    /\ call.x \in Coordinates /\ call.y \in Coordinates
    /\ call.w \in Small /\ call.h \in Small /\ call.frame \in Nat /\ call.other \in Nat
    /\ call.op = "bitmap" => call.frame = 0
    /\ px = 0 \/ px < call.w
    /\ call.op = "xy" /\ px # 0 => Int16(call.y + page) \in 0 .. Height - 1

GlyphInPlace ==
  call.op = "glyph" =>
    /\ call.x = cursor.x /\ call.y = cursor.y /\ call.x <= Width - GlyphWidth
    /\ call.w = GlyphWidth + 1 /\ call.h = PageBits

RectInPlace ==
  call.op = "rect" =>
    /\ call.rects \in Seq([x : Coordinates, y : Coordinates, w : Small, h : Small])
    /\ Len(todo) <= Len(call.rects)
    /\ \A i \in 1 .. Len(todo) : todo[i] = call.rects[Len(call.rects) - Len(todo) + i]

StrokeInPlace ==
  /\ stroke.op = "line" => {stroke.x0, stroke.y0, stroke.x1, stroke.y1} \subseteq Coordinates
  /\ stroke.op = "circle" => /\ {stroke.x0, stroke.y0} \subseteq Coordinates
                             /\ stroke.r \in Small /\ penY <= stroke.r

InPlace ==
  /\ ArealInPlace /\ GlyphInPlace /\ RectInPlace /\ StrokeInPlace
  /\ cursor \in [x : Coordinates, y : Coordinates]
  /\ call.op = "none" => before = canvas

\* No call, whatever it is given, changes a byte outside of the framebuffer.
NeighboursUntouched == \A i \in Memory \ Framebuffer : canvas[i] = Neighbour
=============================================================================

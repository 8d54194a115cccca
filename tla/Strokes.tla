------------------------------ MODULE Strokes -------------------------------
(***************************************************************************)
(* draw_line() of compat.hpp and drawCircle() of Arduboy2.h: the points    *)
(* they visit, in the integers of the code.  points is what the stroke has *)
(* drawn so far, on the screen or not.                                     *)
(***************************************************************************)
EXTENDS Integers

VARIABLES stroke,      \* what is drawn: a line, a circle or nothing
          penX, penY,  \* x and y of the loop; those of a circle are relative to its centre
          error,       \* error, f
          ddx, ddy,    \* ddF_x, ddF_y
          points

loopState  == <<penX, penY, error, ddx, ddy>>
strokeVars == <<stroke, loopState, points>>

NoStroke    == [op |-> "none"]
LineCalls   == [op : {"line"}, x0 : Int, y0 : Int, x1 : Int, y1 : Int]
CircleCalls == [op : {"circle"}, x0 : Int, y0 : Int, r : Nat]

Abs(v)  == IF v < 0 THEN -v ELSE v
Step(a, b) == IF a < b THEN 1 ELSE -1      \* sx, sy

StrokeInit ==
  /\ stroke = NoStroke /\ points = {}
  /\ penX = 0 /\ penY = 0 /\ error = 0 /\ ddx = 0 /\ ddy = 0

-----------------------------------------------------------------------------
DeltaX(c) == Abs(c.x1 - c.x0)      \* dx
DeltaY(c) == -Abs(c.y1 - c.y0)     \* dy

LineBegins(c) ==
  /\ stroke = NoStroke
  /\ stroke' = c
  /\ penX' = c.x0 /\ penY' = c.y0
  /\ error' = DeltaX(c) + DeltaY(c)
  /\ points' = {<<c.x0, c.y0>>}
  /\ UNCHANGED <<ddx, ddy>>

AtEnd == penX = stroke.x1 /\ penY = stroke.y1

StepsX == 2 * error >= DeltaY(stroke)

\* mutant: the second test sees the error the first one left
StepsYLate == 2 * (error + IF StepsX THEN DeltaY(stroke) ELSE 0) <= DeltaX(stroke)

\* Both tests use the error before either changes it.
StepsY == 2 * error <= DeltaX(stroke)

LineStep ==
  /\ stroke.op = "line" /\ ~AtEnd
  /\ penX' = penX + IF StepsX THEN Step(stroke.x0, stroke.x1) ELSE 0
  /\ penY' = penY + IF StepsY THEN Step(stroke.y0, stroke.y1) ELSE 0
  /\ error' = error + (IF StepsX THEN DeltaY(stroke) ELSE 0)
                    + (IF StepsY THEN DeltaX(stroke) ELSE 0)
  /\ points' = points \cup {<<penX', penY'>>}
  /\ UNCHANGED <<stroke, ddx, ddy>>

StrokeEnds ==
  /\ stroke' = NoStroke /\ points' = {}
  /\ penX' = 0 /\ penY' = 0 /\ error' = 0 /\ ddx' = 0 /\ ddy' = 0

LineReturns == stroke.op = "line" /\ AtEnd /\ StrokeEnds

-----------------------------------------------------------------------------
\* error is f.
CircleBegins(c) ==
  /\ stroke = NoStroke
  /\ stroke' = c
  /\ penX' = 0 /\ penY' = c.r
  /\ error' = 1 - c.r
  /\ ddx' = 1 /\ ddy' = -2 * c.r
  /\ points' = {<<c.x0, c.y0 + c.r>>, <<c.x0, c.y0 - c.r>>,
                <<c.x0 + c.r, c.y0>>, <<c.x0 - c.r, c.y0>>}

\* The eight images of a point of the arc.
Octants(c, a, b) ==
  {<<c.x0 + i * p[1], c.y0 + j * p[2]>> : i \in {1, -1}, j \in {1, -1}, p \in {<<a, b>>, <<b, a>>}}

\* The midpoint between the next two candidates is not inside of the circle.
Outside == error >= 0

CircleStep ==
  /\ stroke.op = "circle" /\ penX < penY
  /\ penX' = penX + 1 /\ ddx' = ddx + 2
  /\ IF Outside THEN penY' = penY - 1 /\ ddy' = ddy + 2 ELSE UNCHANGED <<penY, ddy>>
  /\ error' = error + (IF Outside THEN ddy' ELSE 0) + ddx'
  /\ points' = points \cup Octants(stroke, penX', penY')
  /\ UNCHANGED stroke

CircleReturns == stroke.op = "circle" /\ penX >= penY /\ StrokeEnds

StrokeSteps == LineStep \/ CircleStep
StrokeReturns == LineReturns \/ CircleReturns

-----------------------------------------------------------------------------
\* How far the loop has come on either axis, and how far it has to go.
WalkedX == Abs(penX - stroke.x0)
WalkedY == Abs(penY - stroke.y0)
LongX   == DeltaX(stroke)
LongY   == -DeltaY(stroke)

\* Where the loop of a line is: between the ends, with the error its distance.
LineWalk ==
  /\ penX = stroke.x0 + WalkedX * Step(stroke.x0, stroke.x1) /\ WalkedX <= LongX
  /\ penY = stroke.y0 + WalkedY * Step(stroke.y0, stroke.y1) /\ WalkedY <= LongY
  /\ error = (WalkedY + 1) * LongX - (WalkedX + 1) * LongY

\* Half a pixel, times twice the longer side.
OffLine == 2 * Abs(WalkedY * LongX - WalkedX * LongY)
Longer  == IF LongX < LongY THEN LongY ELSE LongX

\* A line moves on along its longer axis with every step, stays within half a pixel
\* of the line through its ends, and so meets its end: the loop has no other way out.
LineIsTrue ==
  stroke.op = "line" => LineWalk /\ OffLine <= Longer
                          /\ (IF LongX < LongY THEN WalkedX <= WalkedY ELSE WalkedY <= WalkedX)

\* f is twice the midpoint's distance, and the arc stays within a pixel of the circle.
CircleIsRound ==
  stroke.op = "circle" =>
    /\ 0 <= penX /\ penX <= penY + 1 /\ ddx = 2 * penX + 1 /\ ddy = -2 * penY
    /\ error = (penX + 1) * (penX + 1) + penY * penY - penY - stroke.r * stroke.r
    /\ penX * penX + penY * penY - penY <= stroke.r * stroke.r + (IF penX < penY THEN 0 ELSE 1)
    /\ penX * penX + penY * penY + penY >= stroke.r * stroke.r

StrokeInv == LineIsTrue /\ CircleIsRound
=============================================================================

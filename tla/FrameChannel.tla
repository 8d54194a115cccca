---------------------------- MODULE FrameChannel ----------------------------
(***************************************************************************)
(* What display() promises a sketch: the screen shows whole images, each   *)
(* of them the drawing buffer as it was when some display() was called,    *)
(* never an older one after a newer one, and in the end the last of them.  *)
(***************************************************************************)
CONSTANTS Chunks, Images, Blank

VARIABLES drawing,   \* the image the sketch is working on
          sent,      \* the image of the last display()
          shown      \* the image handed to the display driver

vars == <<drawing, sent, shown>>

Cleared == [c \in Chunks |-> Blank]

Init == drawing = Cleared /\ sent = Cleared /\ shown = Cleared

Draw(c, i) ==
  /\ drawing' = [drawing EXCEPT ![c] = i]
  /\ UNCHANGED <<sent, shown>>

Display(clear) ==
  /\ sent' = drawing
  /\ drawing' = IF clear THEN Cleared ELSE drawing
  /\ UNCHANGED shown

Show ==
  /\ shown' = sent
  /\ UNCHANGED <<drawing, sent>>

Next ==
  \/ \E c \in Chunks, i \in Images : Draw(c, i)
  \/ \E clear \in BOOLEAN : Display(clear)
  \/ Show

Spec == Init /\ [][Next]_vars

FairSpec == Spec /\ WF_vars(Show)
=============================================================================

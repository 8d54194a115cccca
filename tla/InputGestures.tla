--------------------------- MODULE InputGestures ---------------------------
(***************************************************************************)
(* The input latch fed by fingers: the raw PRESS and RELEASE of a button,  *)
(* then the CLICK the input layer derives from them, or a CLICK alone on a *)
(* target that reports nothing else.  finger, lifted and owed record what  *)
(* the events were and what the frames showed; the latch never reads them. *)
(***************************************************************************)
EXTENDS InputLatch

VARIABLES finger,    \* what the events said of each button since the last reset
          lifted,    \* buttons released since the last frame
          owed       \* taps that began and that no frame has shown as a press yet

vars == <<held, previous, rawSeen, pending, finger, lifted, owed>>

\* "tapped": pressed and released, its CLICK is still to come and no frame was
\* consumed since the release; "late": the same, but a frame was consumed.
Gesture == {"up", "down", "tapped", "late"}

GestureOK == finger \in [Actions -> Gesture] /\ lifted \subseteq Actions

Become(S, g) == [a \in Actions |-> IF a \in S THEN g ELSE finger[a]]

\* One tap more of every button of S, but never more than a counter can hold: the
\* latch refuses a tap of a button that has Limit of them to show.
OwedWith(S) ==
  [a \in Actions |-> IF a \in S /\ owed[a] < Limit THEN owed[a] + 1 ELSE owed[a]]

GestureInit ==
  Init /\ finger = [a \in Actions |-> "up"] /\ lifted = {} /\ owed = NoTaps

\* A tap begins when the finger goes down.
FingerDown(S) ==
  /\ \A a \in S : finger[a] # "down"
  /\ Press(S)
  /\ finger' = Become(S, "down")
  /\ owed' = OwedWith(S)
  /\ UNCHANGED lifted

\* A button that went down before the last reset is released too: "up" stays.
FingerUp(S) ==
  /\ \A a \in S : finger[a] \in {"down", "up"}
  /\ Release(S)
  /\ finger' = Become({a \in S : finger[a] = "down"}, "tapped")
  /\ lifted' = lifted \cup {a \in S : finger[a] = "down"}
  /\ UNCHANGED owed

\* A CLICK belongs to the tap released since the last frame; any other, one that
\* comes late included, is a tap of its own.
Clicked(S) ==
  /\ \A a \in S : finger[a] # "down"
  /\ Click(S)
  /\ finger' = Become(S, "up")
  /\ owed' = OwedWith({a \in S : finger[a] # "tapped"})
  /\ UNCHANGED lifted

NextFrame ==
  /\ Consume
  /\ finger' = Become({a \in Actions : finger[a] = "tapped"}, "late")
  /\ lifted' = {}
  /\ owed' = [a \in Actions |-> IF a \in previous' \ previous THEN owed[a] - 1 ELSE owed[a]]

\* enter(), leave() and the exit gesture clear the latch.
Cleared ==
  /\ Reset
  /\ finger' = [a \in Actions |-> "up"]
  /\ lifted' = {}
  /\ owed' = NoTaps

Gestures ==
  \/ \E S \in SUBSET Actions : FingerDown(S) \/ FingerUp(S) \/ Clicked(S)
  \/ NextFrame
  \/ Cleared

GestureSpec == GestureInit /\ [][Gestures]_vars

-----------------------------------------------------------------------------
\* A button is pressed in the latch exactly while the finger is on it, and the taps
\* whose CLICK may still come in time, and no others, are remembered as raw.
FingerKnown ==
  \A a \in Actions : /\ a \in held <=> finger[a] = "down"
                     /\ finger[a] \in {"down", "tapped"} <=> a \in rawSeen
                     /\ a \in lifted /\ a \in previous /\ a \in held => pending[a] > 0

GestureInv == IInv /\ GestureOK /\ FingerKnown

\* Every tap the fingers began is shown as one press or still counted, once: no
\* counter wraps at its limit, no order of PRESS, RELEASE, CLICK and frames drops a
\* tap or counts it twice, and no frame shows a press that nobody made.
TapsAreOwed == pending = owed

\* docs/runtime.md: "a raw tap and its CLICK before consumption coalesce".  The
\* press of a tap was counted, so its CLICK adds nothing if no frame was consumed
\* since the release, whatever was consumed while the button was down.
TapAndClickCoalesce ==
  [][\A S \in SUBSET Actions : Clicked(S) =>
       \A a \in S : finger[a] = "tapped" => pending'[a] = pending[a]]_vars

\* docs/runtime.md: one consumable down frame "followed by release".  A button
\* that was down in a frame and let go before the next is up in that next frame,
\* even if it was pressed again in between: two presses never look like one.
ReleaseIsSeen ==
  [][NextFrame => \A a \in lifted \cap previous : a \notin previous']_vars
=============================================================================

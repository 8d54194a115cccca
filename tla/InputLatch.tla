----------------------------- MODULE InputLatch -----------------------------
(***************************************************************************)
(* class InputLatch of include/meshbus_arduboy/input.hpp: the buttons as   *)
(* the game reads them once per frame, fed by the press, release and click *)
(* events of the user interface between frames.  A 32-bit mask is the set  *)
(* of its actions.  The class has no lock of its own ("The caller          *)
(* serializes event production and frame consumption"), so every method is *)
(* one step here; RuntimeBridge shows that its caller does serialize them. *)
(***************************************************************************)
EXTENDS Integers

CONSTANTS Actions,   \* the input actions, one per bit of a mask
          Limit      \* the largest count pending_ holds (UINT8_MAX in the code)

ASSUME LimitAssumption == Limit \in Nat \ {0}

VARIABLES held,      \* held_: actions down according to the events
          previous,  \* previous_: actions down in the frame consumed last
          rawSeen,   \* raw_seen_: actions pressed whose CLICK is still to come
          pending    \* pending_: taps accepted and not yet shown, per action

latchVars == <<held, previous, rawSeen, pending>>

NoTaps == [a \in Actions |-> 0]

TypeOK ==
  /\ held \subseteq Actions
  /\ previous \subseteq Actions
  /\ rawSeen \subseteq Actions
  /\ pending \in [Actions -> 0 .. Limit]

Init ==
  /\ held = {}
  /\ previous = {}
  /\ rawSeen = {}
  /\ pending = NoTaps

-----------------------------------------------------------------------------
\* mutant: a counter that wraps at its limit
WrapsAtLimit(taps, S) ==
  [a \in Actions |-> IF a \in S THEN (taps[a] + 1) % (Limit + 1) ELSE taps[a]]

\* enqueue(): one more tap of every action of S whose counter is not full.
Enqueue(taps, S) ==
  [a \in Actions |-> IF a \in S /\ taps[a] # Limit THEN taps[a] + 1 ELSE taps[a]]

\* mutant: a press that is not counted when its counter is not empty
UncountedPress(S) ==
  /\ pending' = Enqueue(pending, {a \in S \ held : pending[a] = 0 /\ a \notin previous})
  /\ held' = held \cup S
  /\ rawSeen' = rawSeen \cup S
  /\ UNCHANGED previous

Press(S) ==
  /\ pending' = Enqueue(pending, S \ held)
  /\ held' = held \cup S
  /\ rawSeen' = rawSeen \cup S
  /\ UNCHANGED previous

Release(S) ==
  /\ held' = held \ S
  /\ UNCHANGED <<previous, rawSeen, pending>>

\* A raw tap followed by its CLICK before a frame is consumed is one tap.
Click(S) ==
  /\ pending' = Enqueue(pending, S \ rawSeen)
  /\ rawSeen' = rawSeen \ S
  /\ UNCHANGED <<held, previous>>

\* mutant: an action with taps to show just stays down
StaysDown == {a \in Actions : IF pending[a] = 0 THEN a \in held ELSE TRUE}

\* What the next frame shows: an action with taps to show alternates between
\* down and up, so that every tap has a down frame and an up frame.
Frame == {a \in Actions : IF pending[a] = 0 THEN a \in held ELSE a \notin previous}

\* The taps left after that frame: showing one spends it.
Spent ==
  [a \in Actions |-> IF pending[a] # 0 /\ a \notin previous THEN pending[a] - 1
                                                            ELSE pending[a]]

\* A press stays coalescible across frames only while its button is held.
StillRaw == rawSeen \cap held

Consume ==
  /\ previous' = Frame
  /\ pending' = Spent
  /\ rawSeen' = StillRaw
  /\ UNCHANGED held

Reset ==
  /\ held' = {}
  /\ previous' = {}
  /\ rawSeen' = {}
  /\ pending' = NoTaps

Event == \E S \in SUBSET Actions : Press(S) \/ Release(S) \/ Click(S)

Next == Event \/ Consume \/ Reset

Spec == Init /\ [][Next]_latchVars

-----------------------------------------------------------------------------
\* A button that is held is down in the frame the game saw last, unless its
\* press still waits to be shown: consume() must not lose a held button, and a
\* button that is held can never cause a second press by itself.
HeldIsShown == \A a \in held : pending[a] > 0 \/ a \in previous

IInv == TypeOK /\ HeldIsShown

\* The presses the game sees are the taps the latch accepted, one for one: a
\* button goes from up to down in a frame exactly when that frame spends one of
\* its taps.  A held button never causes a press of its own, and no tap is
\* spent without a frame that shows it.
EdgesSpendTaps ==
  [][Consume => \A a \in Actions :
       (a \in previous' \ previous) <=> (pending'[a] < pending[a])]_latchVars
=============================================================================

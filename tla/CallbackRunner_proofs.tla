------------------------ MODULE CallbackRunner_proofs ------------------------
(***************************************************************************)
(* For every set of actions, every counter limit, every item and every     *)
(* number of ticks at once: the latch of InputLatch shows exactly the taps *)
(* it was fed, under the callback runner too, and the runner saves what    *)
(* the sketch stored last.                                                 *)
(***************************************************************************)
EXTENDS CallbackRunner, TLAPS

\* Counting taps keeps every counter in range and never lowers one; the actions
\* that are counted have a tap to show.
LEMMA EnqueueCounts ==
  ASSUME NEW S \in SUBSET Actions, pending \in [Actions -> 0 .. Limit]
  PROVE  /\ Enqueue(pending, S) \in [Actions -> 0 .. Limit]
         /\ \A a \in Actions : Enqueue(pending, S)[a] >= pending[a]
         /\ \A a \in S : Enqueue(pending, S)[a] > 0
         /\ \A a \in Actions \ S : Enqueue(pending, S)[a] = pending[a]
  <1>1. ASSUME NEW a \in Actions
        PROVE  /\ Enqueue(pending, S)[a] = IF a \in S /\ pending[a] # Limit
                                          THEN pending[a] + 1 ELSE pending[a]
               /\ pending[a] \in 0 .. Limit
    BY DEF Enqueue
  <1>2. ASSUME NEW a \in Actions
        PROVE  /\ Enqueue(pending, S)[a] \in 0 .. Limit
               /\ Enqueue(pending, S)[a] >= pending[a]
               /\ a \in S => Enqueue(pending, S)[a] > 0
               /\ a \notin S => Enqueue(pending, S)[a] = pending[a]
    BY <1>1, LimitAssumption, SMT
  <1>3. Enqueue(pending, S) = [a \in Actions |-> Enqueue(pending, S)[a]]
    BY DEF Enqueue
  <1> QED
    BY <1>2, <1>3

\* Showing a frame keeps the counters in range, and spends a tap of exactly the
\* actions that have one and were up.
LEMMA SpentCounts ==
  ASSUME pending \in [Actions -> 0 .. Limit]
  PROVE  /\ Spent \in [Actions -> 0 .. Limit]
         /\ \A a \in Actions : /\ pending[a] # 0 /\ a \notin previous => Spent[a] < pending[a]
                               /\ pending[a] = 0 \/ a \in previous => Spent[a] = pending[a]
  BY LimitAssumption, SMT DEF Spent

LEMMA InitGestureInv == GestureInit => GestureInv
  <1> SUFFICES ASSUME GestureInit PROVE GestureInv
    OBVIOUS
  <1>1. TypeOK
    BY LimitAssumption, SMT DEF GestureInit, Init, TypeOK, NoTaps
  <1>2. HeldIsShown
    BY DEF GestureInit, Init, HeldIsShown
  <1>3. GestureOK /\ FingerKnown
    BY DEF GestureInit, Init, GestureOK, Gesture, FingerKnown
  <1> QED
    BY <1>1, <1>2, <1>3 DEF GestureInv, IInv

LEMMA StepGestureInv == GestureInv /\ [Gestures]_vars => GestureInv'
  <1> SUFFICES ASSUME GestureInv, [Gestures]_vars PROVE GestureInv'
    OBVIOUS
  <1> USE DEF GestureInv, IInv
  <1>p. pending \in [Actions -> 0 .. Limit]
    BY DEF TypeOK
  <1>1. ASSUME NEW S \in SUBSET Actions, FingerDown(S) PROVE GestureInv'
    <2>1. TypeOK' /\ GestureOK'
      BY <1>1, <1>p, EnqueueCounts
      DEF FingerDown, Press, TypeOK, GestureOK, Become, Gesture
    <2>2. HeldIsShown'
      BY <1>1, <1>p, EnqueueCounts, SMT DEF FingerDown, Press, TypeOK, HeldIsShown
    <2>3. FingerKnown'
      BY <1>1, <1>p, EnqueueCounts, SMT
      DEF FingerDown, Press, TypeOK, GestureOK, Become, FingerKnown
    <2> QED
      BY <2>1, <2>2, <2>3
  <1>2. ASSUME NEW S \in SUBSET Actions, FingerUp(S) PROVE GestureInv'
    <2>1. TypeOK' /\ GestureOK' /\ HeldIsShown'
      BY <1>2 DEF FingerUp, Release, TypeOK, GestureOK, Become, Gesture, HeldIsShown
    <2>2. FingerKnown'
      BY <1>2 DEF FingerUp, Release, TypeOK, GestureOK, Become, FingerKnown
    <2> QED
      BY <2>1, <2>2
  <1>3. ASSUME NEW S \in SUBSET Actions, Clicked(S) PROVE GestureInv'
    <2>1. TypeOK' /\ GestureOK'
      BY <1>3, <1>p, EnqueueCounts
      DEF Clicked, Click, TypeOK, GestureOK, Become, Gesture
    <2>2. HeldIsShown'
      BY <1>3, <1>p, EnqueueCounts, SMT DEF Clicked, Click, TypeOK, HeldIsShown
    <2>3. FingerKnown'
      BY <1>3, <1>p, EnqueueCounts, SMT
      DEF Clicked, Click, TypeOK, GestureOK, Become, FingerKnown
    <2> QED
      BY <2>1, <2>2, <2>3
  <1>4. ASSUME NextFrame PROVE GestureInv'
    <2>1. TypeOK' /\ GestureOK'
      BY <1>4, <1>p, SpentCounts
      DEF NextFrame, Consume, Frame, StillRaw, TypeOK, GestureOK, Become, Gesture
    <2>2. HeldIsShown'
      BY <1>4, <1>p, SpentCounts, SMT
      DEF NextFrame, Consume, Frame, TypeOK, HeldIsShown
    <2>3. FingerKnown'
      BY <1>4 DEF NextFrame, Consume, StillRaw, TypeOK, GestureOK, Become, FingerKnown
    <2> QED
      BY <2>1, <2>2, <2>3
  <1>5. ASSUME Cleared PROVE GestureInv'
    <2>1. TypeOK'
      BY <1>5, LimitAssumption, SMT DEF Cleared, Reset, NoTaps, TypeOK
    <2>2. GestureOK' /\ HeldIsShown' /\ FingerKnown'
      BY <1>5 DEF Cleared, Reset, GestureOK, Gesture, HeldIsShown, FingerKnown
    <2> QED
      BY <2>1, <2>2
  <1>6. ASSUME UNCHANGED vars PROVE GestureInv'
    BY <1>6 DEF vars, TypeOK, GestureOK, HeldIsShown, FingerKnown
  <1> QED
    BY <1>1, <1>2, <1>3, <1>4, <1>5, <1>6 DEF Gestures

\* Whatever the fingers do and whenever frames are consumed, a held button is
\* shown and the latch knows which fingers are down.
THEOREM GestureInvariance == GestureSpec => []GestureInv
  <1>1. GestureInit => GestureInv
    BY InitGestureInv
  <1>2. GestureInv /\ [Gestures]_vars => GestureInv'
    BY StepGestureInv
  <1> QED
    BY <1>1, <1>2, PTL DEF GestureSpec

\* A frame shows a press of a button exactly when it spends one of its taps.
LEMMA ShownOrSpent ==
  ASSUME GestureInv, Consume, NEW a \in Actions
  PROVE  (a \in previous' \ previous) <=> (pending'[a] < pending[a])
  <1>1. pending \in [Actions -> 0 .. Limit]
    BY DEF GestureInv, IInv, TypeOK
  <1>2. a \in held => pending[a] > 0 \/ a \in previous
    BY DEF GestureInv, IInv, HeldIsShown
  <1>3. CASE pending[a] # 0 /\ a \notin previous
    BY <1>1, <1>3, SpentCounts DEF Consume, Frame
  <1>4. CASE pending[a] # 0 /\ a \in previous
    <2>1. pending'[a] = pending[a]
      BY <1>1, <1>4, SpentCounts DEF Consume
    <2> QED
      BY <2>1, <1>1, <1>4, SMT
  <1>5. CASE pending[a] = 0
    <2>1. pending'[a] = pending[a]
      BY <1>1, <1>5, SpentCounts DEF Consume
    <2>2. a \in previous' <=> a \in held
      BY <1>5 DEF Consume, Frame
    <2> QED
      BY <2>1, <2>2, <1>1, <1>2, <1>5, SMT
  <1> QED
    BY <1>3, <1>4, <1>5

\* Presses seen by the game and taps accepted are the same, one for one.
THEOREM TapsAreEdges == GestureSpec => EdgesSpendTaps
  <1>1. GestureInv /\ [Gestures]_vars
          => [Consume => \A a \in Actions :
                (a \in previous' \ previous) <=> (pending'[a] < pending[a])]_latchVars
    BY ShownOrSpent
  <1> QED
    BY <1>1, GestureInvariance, PTL DEF GestureSpec, EdgesSpendTaps

\* A tap and the CLICK the input layer derives from it are one tap.
THEOREM TapAndClickAreOne == GestureSpec => TapAndClickCoalesce
  <1>1. ASSUME GestureInv, NEW S \in SUBSET Actions, Clicked(S),
               NEW a \in S, finger[a] = "tapped"
        PROVE  pending'[a] = pending[a]
    <2>1. a \in rawSeen
      BY <1>1 DEF GestureInv, FingerKnown
    <2>2. a \in Actions \ (S \ rawSeen) /\ S \ rawSeen \in SUBSET Actions
      BY <2>1
    <2>3. pending \in [Actions -> 0 .. Limit]
      BY <1>1 DEF GestureInv, IInv, TypeOK
    <2> QED
      BY <1>1, <2>2, <2>3, EnqueueCounts DEF Clicked, Click
  <1>2. GestureInv /\ [Gestures]_vars
          => [\A S \in SUBSET Actions : Clicked(S) =>
                \A a \in S : finger[a] = "tapped" => pending'[a] = pending[a]]_vars
    BY <1>1
  <1> QED
    BY <1>2, GestureInvariance, PTL DEF GestureSpec, TapAndClickCoalesce

\* A button let go between two frames is up in the second, pressed again or not.
THEOREM ReleaseIsAlwaysSeen == GestureSpec => ReleaseIsSeen
  <1>1. ASSUME GestureInv, NextFrame, NEW a \in lifted \cap previous
        PROVE  a \notin previous'
    <2>1. a \in Actions
      BY <1>1 DEF GestureInv, GestureOK
    <2>2. a \in held => pending[a] # 0
      <3>1. a \in held => pending[a] > 0
        BY <1>1, <2>1 DEF GestureInv, FingerKnown
      <3>2. pending[a] \in 0 .. Limit
        BY <1>1, <2>1 DEF GestureInv, IInv, TypeOK
      <3> QED
        BY <3>1, <3>2, SMT
    <2> QED
      BY <1>1, <2>1, <2>2 DEF NextFrame, Consume, Frame
  <1>2. GestureInv /\ [Gestures]_vars
          => [NextFrame => \A a \in lifted \cap previous : a \notin previous']_vars
    BY <1>1
  <1> QED
    BY <1>2, GestureInvariance, PTL DEF GestureSpec, ReleaseIsSeen

\* The counters of the latch and the taps that are owed move together.
LEMMA OwedStep ==
  ASSUME GestureInv, TapsAreOwed, [Gestures]_vars
  PROVE  TapsAreOwed'
  <1>p. pending \in [Actions -> 0 .. Limit]
    BY DEF GestureInv, IInv, TypeOK
  <1>e. ASSUME NEW S \in SUBSET Actions
        PROVE  Enqueue(pending, S) = OwedWith(S)
    <2>1. \A a \in Actions : pending[a] # Limit <=> pending[a] < Limit
      BY <1>p, LimitAssumption, SMT
    <2> QED
      BY <2>1 DEF Enqueue, OwedWith, TapsAreOwed
  <1>1. ASSUME NEW S \in SUBSET Actions, FingerDown(S) PROVE TapsAreOwed'
    <2>1. S \ held = S
      BY <1>1 DEF FingerDown, GestureInv, FingerKnown
    <2> QED
      BY <1>1, <1>e, <2>1 DEF FingerDown, Press, TapsAreOwed
  <1>2. ASSUME NEW S \in SUBSET Actions, FingerUp(S) PROVE TapsAreOwed'
    BY <1>2 DEF FingerUp, Release, TapsAreOwed
  <1>3. ASSUME NEW S \in SUBSET Actions, Clicked(S) PROVE TapsAreOwed'
    <2>1. S \ rawSeen = {a \in S : finger[a] # "tapped"}
      BY <1>3 DEF Clicked, GestureInv, FingerKnown
    <2> QED
      BY <1>3, <1>e, <2>1 DEF Clicked, Click, TapsAreOwed
  <1>4. ASSUME NextFrame PROVE TapsAreOwed'
    <2>1. ASSUME NEW a \in Actions
          PROVE  pending'[a] = IF a \in previous' \ previous THEN owed[a] - 1 ELSE owed[a]
      <3>1. pending'[a] = IF pending[a] # 0 /\ a \notin previous THEN pending[a] - 1
                                                               ELSE pending[a]
        BY <1>4 DEF NextFrame, Consume, Spent
      <3>2. pending'[a] < pending[a] <=> pending[a] # 0 /\ a \notin previous
        BY <3>1, <1>p, LimitAssumption, SMT
      <3>3. a \in previous' \ previous <=> pending'[a] < pending[a]
        BY <1>4, ShownOrSpent DEF NextFrame
      <3> QED
        BY <3>1, <3>2, <3>3 DEF TapsAreOwed
    <2>2. pending' = [a \in Actions |-> pending'[a]]
      BY <1>4 DEF NextFrame, Consume, Spent
    <2> QED
      BY <1>4, <2>1, <2>2 DEF NextFrame, TapsAreOwed
  <1>5. ASSUME Cleared PROVE TapsAreOwed'
    BY <1>5 DEF Cleared, Reset, TapsAreOwed
  <1>6. ASSUME UNCHANGED vars PROVE TapsAreOwed'
    BY <1>6 DEF vars, TapsAreOwed
  <1> QED
    BY <1>1, <1>2, <1>3, <1>4, <1>5, <1>6 DEF Gestures

\* The latch owes exactly the taps that began and were not shown: nothing wraps, is
\* dropped or is counted twice, for every limit of the counters.
THEOREM EveryTapIsOwed == GestureSpec => []TapsAreOwed
  <1>1. GestureInit => TapsAreOwed
    BY DEF GestureInit, Init, TapsAreOwed
  <1>2. GestureInv /\ TapsAreOwed /\ [Gestures]_vars => TapsAreOwed'
    BY OwedStep
  <1> QED
    BY <1>1, <1>2, GestureInvariance, PTL DEF GestureSpec

-----------------------------------------------------------------------------
\* Every step of the callback runner is a step of the gestures or leaves the latch alone.
LEMMA RunnerStepsAreGestures == [RunnerNext]_runnerVars => [Gestures]_vars
  <1> SUFFICES ASSUME [RunnerNext]_runnerVars PROVE [Gestures]_vars
    OBVIOUS
  <1>1. CASE LatchInput
    BY <1>1 DEF LatchInput, Gestures
  <1>2. CASE Start \/ ExitGesture \/ ScreenSwitch \/ PowerLoss
    BY <1>2 DEF Start, ExitGesture, ScreenSwitch, PowerLoss, Gestures
  <1>3. CASE BeginTick
    BY <1>3 DEF BeginTick, Gestures
  <1>4. CASE EndTick \/ \E n \in 1 .. Burst : TickEvent(n)
    BY <1>4 DEF EndTick, TickEvent, inputVars
  <1>5. CASE Store
    BY <1>5 DEF Store, StoreBegins, StoreByte, PutItem, inputVars
  <1>6. CASE SetupReturns \/ Attach \/ WaitTimesOut \/ ExitTaken \/ Detach \/ TeardownReturns
    BY <1>6 DEF SetupReturns, Attach, WaitTimesOut, ExitTaken, Detach, TeardownReturns, inputVars
  <1>7. CASE Flush
    BY <1>7 DEF Flush, FlushSkipped, FlushClean, FlushStarts, FlushFails, Commit, Acknowledge,
                FlushReturns, inputVars
  <1>8. CASE UNCHANGED runnerVars
    BY <1>8 DEF runnerVars, inputVars
  <1> QED
    BY <1>1, <1>2, <1>3, <1>4, <1>5, <1>6, <1>7, <1>8 DEF RunnerNext, RunsApp, Screen, Tick

\* The callback runner feeds the latch as InputGestures says.
THEOREM RunnerImplementsGestures == RunnerSpec => GestureSpec
  <1>1. RunnerInit => GestureInit
    BY DEF RunnerInit
  <1> QED
    BY <1>1, RunnerStepsAreGestures, PTL DEF RunnerSpec, GestureSpec

-----------------------------------------------------------------------------
(* What the runner keeps, in four parts.                                   *)

\* A mirror that is not the save is dirty; a flush holds a snapshot from its start
\* to its acknowledgement, and a mirror that moved on since is known to have moved.
MirrorKept ==
  /\ enabled /\ mirror # saved => dirty
  /\ shot # NoImage <=> app \in {"commit", "ack"}
  /\ shot # NoImage => dirty /\ enabled
  /\ shot # NoImage /\ mirror # shot => moved /\ attached
  /\ app = "ack" => saved = shot

\* A store runs in the sketch, and its bytes so far are in the mirror.
StoreKept ==
  /\ at # 0 => enabled /\ InSketch /\ \A i \in 1 .. at - 1 : mirror[i] = item[i]
  /\ enabled /\ at = 0 => mirror = last

\* The screen runs callbacks while it is attached, and what the two threads may do then.
ThreadsKept ==
  /\ app = "off" => ~enabled /\ ~attached
  /\ ui # "idle" => attached /\ ticks # 0
  /\ attached => app \in {"wait", "flush", "commit", "ack", "out"}
  /\ app = "flush" => enabled

\* Without an EEPROM nothing is stored, and a session that is over is saved or cut.
LastKept == enabled \/ saved = last \/ (app = "off" /\ cut)

RunnerIInv ==
  /\ RunnerTypeOK /\ GestureInv /\ down = previous
  /\ MirrorKept /\ StoreKept /\ ThreadsKept /\ LastKept

-----------------------------------------------------------------------------
(* The types, in the order in which the variables are declared.            *)

MirrorOK == mirror \in Image /\ dirty \in BOOLEAN /\ moved \in BOOLEAN

FlushOK ==
  /\ shot \in Image \cup {NoImage} /\ saved \in Image
  /\ retry_delay \in 0 .. MaxDelay /\ retry_skip \in 0 .. retry_delay

FlagsOK == enabled \in BOOLEAN /\ attached \in BOOLEAN /\ cut \in BOOLEAN

ThreadsOK == app \in AppAt /\ exit_sem \in {0, 1} /\ ui \in UiAt /\ ticks \in 0 .. Burst

SketchOK ==
  /\ down \subseteq Actions /\ pressed \subseteq Actions
  /\ item \in Items /\ at \in 0 .. Size /\ last \in Image

LEMMA RunnerTypes == RunnerTypeOK <=> MirrorOK /\ FlushOK /\ FlagsOK /\ ThreadsOK /\ SketchOK
  BY DEF RunnerTypeOK, MirrorOK, FlushOK, FlagsOK, ThreadsOK, SketchOK

LEMMA RunnerTypesNext ==
  ASSUME MirrorOK', FlushOK', FlagsOK', ThreadsOK', SketchOK'
  PROVE  RunnerTypeOK'
  BY DEF RunnerTypeOK, MirrorOK, FlushOK, FlagsOK, ThreadsOK, SketchOK

\* The ways a step of the runner is looked at below: by the variables it leaves alone.
QuietApp == SetupReturns \/ Attach \/ WaitTimesOut \/ ExitTaken \/ Detach \/ TeardownReturns
Returning == FlushClean \/ FlushFails \/ Acknowledge

LEMMA RunnerCases ==
  ASSUME RunnerNext
  PROVE  \/ Start \/ PowerLoss \/ LatchInput \/ ExitGesture \/ ScreenSwitch
         \/ (\E n \in 1 .. Burst : TickEvent(n)) \/ BeginTick \/ EndTick
         \/ (\E v \in Items : StoreBegins(v)) \/ (\E v \in Items : PutItem(v))
         \/ (\E update \in BOOLEAN : StoreByte(update))
         \/ QuietApp \/ FlushSkipped \/ FlushStarts \/ Commit \/ Returning
  BY DEF RunnerNext, RunsApp, Screen, Tick, Store, Flush, QuietApp, Returning

\* Storing a byte changes that byte of the mirror.
LEMMA ByteStored ==
  ASSUME RunnerTypeOK, at # 0, NEW update \in BOOLEAN, StoreByte(update)
  PROVE  /\ mirror' \in Image /\ item \in Image /\ at \in 1 .. Size
         /\ \A i \in 1 .. Size : mirror'[i] = IF i = at THEN item[i] ELSE mirror[i]
  <1>1. mirror \in Image /\ item \in Image /\ at \in 1 .. Size
    BY RunnerAssumption, SMT DEF RunnerTypeOK
  <1>2. mirror' = [mirror EXCEPT ![at] = item[at]]
    BY DEF StoreByte
  <1> QED
    BY <1>1, <1>2 DEF Image

LEMMA MirrorTypes == RunnerTypeOK /\ [RunnerNext]_runnerVars => MirrorOK'
  <1> SUFFICES ASSUME RunnerTypeOK, [RunnerNext]_runnerVars PROVE MirrorOK'
    OBVIOUS
  <1>t. MirrorOK /\ saved \in Image /\ Blank \in Image /\ Items \subseteq Image
    BY RunnerAssumption DEF RunnerTypeOK, MirrorOK
  <1>1. CASE Start
    BY <1>1, <1>t, Zenon DEF Start, MirrorOK
  <1>2. CASE PowerLoss
    BY <1>2, <1>t DEF PowerLoss, MirrorOK
  <1>3. CASE UNCHANGED mirrorVars
    BY <1>3, <1>t, Zenon DEF mirrorVars, MirrorOK
  <1>4. ASSUME NEW v \in Items, PutItem(v) PROVE MirrorOK'
    BY <1>4, <1>t, Zenon DEF PutItem, MirrorOK
  <1>5. ASSUME NEW update \in BOOLEAN, StoreByte(update) PROVE MirrorOK'
    <2>1. mirror' \in Image
      BY <1>5, ByteStored DEF StoreByte
    <2>2. dirty' \in BOOLEAN /\ moved' \in BOOLEAN
      BY <1>5, <1>t, Zenon DEF StoreByte, Marks, MirrorOK
    <2> QED
      BY <2>1, <2>2 DEF MirrorOK
  <1>6. CASE FlushStarts
    BY <1>6, <1>t, Zenon DEF FlushStarts, MirrorOK
  <1>7. CASE Returning
    <2>1. ASSUME NEW works \in BOOLEAN, NEW stillDirty \in BOOLEAN, FlushReturns(works, stillDirty)
          PROVE  MirrorOK'
      BY <2>1, <1>t, Zenon DEF FlushReturns, MirrorOK
    <2> QED
      BY <1>7, <2>1, <1>t, Zenon DEF Returning, FlushClean, FlushFails, Acknowledge, MirrorOK
  <1>8. CASE LatchInput \/ ExitGesture \/ ScreenSwitch
    BY <1>8, <1>3 DEF LatchInput, ExitGesture, ScreenSwitch, restOfInput
  <1>9. CASE (\E n \in 1 .. Burst : TickEvent(n)) \/ BeginTick \/ EndTick
             \/ (\E v \in Items : StoreBegins(v)) \/ QuietApp \/ FlushSkipped \/ Commit
    BY <1>9, <1>3 DEF TickEvent, BeginTick, EndTick, StoreBegins, QuietApp, SetupReturns, Attach,
         WaitTimesOut, ExitTaken, Detach, TeardownReturns, FlushSkipped, Commit
  <1>10. CASE UNCHANGED runnerVars
    BY <1>10, <1>3 DEF runnerVars
  <1> QED
    BY RunnerCases, <1>1, <1>2, <1>4, <1>5, <1>6, <1>7, <1>8, <1>9, <1>10

LEMMA FlushTypes == RunnerTypeOK /\ MirrorKept /\ [RunnerNext]_runnerVars => FlushOK'
  <1> SUFFICES ASSUME RunnerTypeOK, MirrorKept, [RunnerNext]_runnerVars PROVE FlushOK'
    OBVIOUS
  <1>t. FlushOK /\ mirror \in Image /\ MaxDelay \in Nat \ {0}
    BY RunnerAssumption DEF RunnerTypeOK, FlushOK
  <1>1. CASE UNCHANGED flushVars
    BY <1>1, <1>t DEF flushVars, retryVars, FlushOK
  <1>2. CASE PowerLoss
    BY <1>2, <1>t, SMT DEF PowerLoss, FlushOK
  <1>3. CASE FlushSkipped
    BY <1>3, <1>t, SMT DEF FlushSkipped, FlushOK
  <1>4. CASE FlushStarts
    BY <1>4, <1>t DEF FlushStarts, retryVars, FlushOK
  <1>5. CASE Commit
    <2>1. saved' = shot /\ shot' = shot /\ UNCHANGED retryVars /\ shot # NoImage
      BY <1>5 DEF Commit, MirrorKept
    <2> QED
      BY <2>1, <1>t DEF retryVars, FlushOK
  <1>6. CASE Returning
    <2>1. Backoff \in 0 .. MaxDelay
      BY <1>t, SMT DEF Backoff, FlushOK
    <2>2. ASSUME NEW works, NEW stillDirty, FlushReturns(works, stillDirty)
          PROVE  /\ shot' = NoImage /\ retry_skip' = retry_delay'
                 /\ retry_delay' = 0 \/ retry_delay' = Backoff
      BY <2>2, Zenon DEF FlushReturns
    <2>3. /\ shot' = NoImage /\ retry_skip' = retry_delay' /\ saved' = saved
          /\ retry_delay' = 0 \/ retry_delay' = Backoff
      BY <1>6, <2>2, Zenon DEF Returning, FlushClean, FlushFails, Acknowledge
    <2> QED
      BY <2>1, <2>3, <1>t, SMT DEF FlushOK
  <1>7. CASE Start \/ LatchInput \/ ExitGesture \/ ScreenSwitch
    BY <1>7, <1>1 DEF Start, LatchInput, ExitGesture, ScreenSwitch, restOfInput
  <1>8. CASE (\E n \in 1 .. Burst : TickEvent(n)) \/ BeginTick \/ EndTick
             \/ (\E v \in Items : StoreBegins(v)) \/ (\E v \in Items : PutItem(v))
             \/ (\E update \in BOOLEAN : StoreByte(update)) \/ QuietApp
    BY <1>8, <1>1 DEF TickEvent, BeginTick, EndTick, StoreBegins, PutItem, StoreByte, QuietApp,
         SetupReturns, Attach, WaitTimesOut, ExitTaken, Detach, TeardownReturns
  <1>9. CASE UNCHANGED runnerVars
    BY <1>9, <1>1 DEF runnerVars
  <1> QED
    BY RunnerCases, <1>2, <1>3, <1>4, <1>5, <1>6, <1>7, <1>8, <1>9

LEMMA FlagTypes == RunnerTypeOK /\ [RunnerNext]_runnerVars => FlagsOK'
  <1> SUFFICES ASSUME RunnerTypeOK, [RunnerNext]_runnerVars PROVE FlagsOK'
    OBVIOUS
  <1>t. FlagsOK
    BY DEF RunnerTypeOK, FlagsOK
  <1>1. CASE UNCHANGED <<enabled, attached, cut>>
    BY <1>1, <1>t, Zenon DEF FlagsOK
  <1>2. CASE Start \/ PowerLoss
    BY <1>2, <1>t, Zenon DEF Start, PowerLoss, FlagsOK
  <1>3. CASE QuietApp
    BY <1>3, <1>t, Zenon DEF QuietApp, SetupReturns, Attach, WaitTimesOut, ExitTaken, Detach,
         TeardownReturns, FlagsOK
  <1>4. CASE Returning
    <2>1. ASSUME NEW works \in BOOLEAN, NEW stillDirty, FlushReturns(works, stillDirty)
          PROVE  FlagsOK'
      BY <2>1, <1>t, Zenon DEF FlushReturns, FlagsOK
    <2> QED
      BY <1>4, <2>1, Zenon DEF Returning, FlushClean, FlushFails, Acknowledge
  <1>5. CASE LatchInput \/ ExitGesture \/ ScreenSwitch \/ FlushSkipped \/ FlushStarts \/ Commit
    BY <1>5, <1>1 DEF LatchInput, ExitGesture, ScreenSwitch, restOfInput, FlushSkipped, FlushStarts,
         Commit
  <1>6. CASE (\E n \in 1 .. Burst : TickEvent(n)) \/ BeginTick \/ EndTick
             \/ (\E v \in Items : StoreBegins(v)) \/ (\E v \in Items : PutItem(v))
             \/ (\E update \in BOOLEAN : StoreByte(update))
    BY <1>6, <1>1 DEF TickEvent, BeginTick, EndTick, StoreBegins, PutItem, StoreByte, threadVars
  <1>7. CASE UNCHANGED runnerVars
    BY <1>7, <1>1 DEF runnerVars, threadVars
  <1> QED
    BY RunnerCases, <1>2, <1>3, <1>4, <1>5, <1>6, <1>7

LEMMA ThreadTypes == RunnerTypeOK /\ ThreadsKept /\ [RunnerNext]_runnerVars => ThreadsOK'
  <1> SUFFICES ASSUME RunnerTypeOK, ThreadsKept, [RunnerNext]_runnerVars PROVE ThreadsOK'
    OBVIOUS
  <1>t. ThreadsOK /\ Burst \in Nat \ {0}
    BY RunnerAssumption DEF RunnerTypeOK, ThreadsOK
  <1>1. CASE UNCHANGED threadVars
    BY <1>1, <1>t DEF threadVars, ThreadsOK
  <1>2. CASE Start \/ PowerLoss
    BY <1>2, <1>t, SMT DEF Start, PowerLoss, ThreadsOK, AppAt, UiAt
  <1>3. CASE QuietApp \/ FlushSkipped \/ FlushStarts \/ Commit
    BY <1>3, <1>t DEF QuietApp, SetupReturns, Attach, WaitTimesOut, ExitTaken, Detach,
         TeardownReturns, FlushSkipped, FlushStarts, Commit, ThreadsOK, AppAt
  <1>4. CASE Returning
    BY <1>4, <1>t DEF Returning, FlushClean, FlushFails, Acknowledge, FlushReturns, ThreadsOK, AppAt
  <1>5. CASE LatchInput \/ ExitGesture \/ ScreenSwitch
    BY <1>5, <1>t DEF LatchInput, ExitGesture, ScreenSwitch, restOfInput, ThreadsOK
  <1>6. CASE (\E n \in 1 .. Burst : TickEvent(n)) \/ BeginTick
    BY <1>6, <1>t, SMT DEF TickEvent, BeginTick, ThreadsOK, UiAt
  <1>7. CASE EndTick
    BY <1>7, <1>t, SMT DEF EndTick, ThreadsKept, ThreadsOK, UiAt
  <1>8. CASE (\E v \in Items : StoreBegins(v)) \/ (\E v \in Items : PutItem(v))
             \/ (\E update \in BOOLEAN : StoreByte(update))
    BY <1>8, <1>1 DEF StoreBegins, PutItem, StoreByte
  <1>9. CASE UNCHANGED runnerVars
    BY <1>9, <1>1 DEF runnerVars
  <1> QED
    BY RunnerCases, <1>2, <1>3, <1>4, <1>5, <1>6, <1>7, <1>8, <1>9

LEMMA SketchTypes == RunnerTypeOK /\ GestureInv' /\ [RunnerNext]_runnerVars => SketchOK'
  <1> SUFFICES ASSUME RunnerTypeOK, GestureInv', [RunnerNext]_runnerVars PROVE SketchOK'
    OBVIOUS
  <1>t. SketchOK /\ saved \in Image /\ previous' \subseteq Actions /\ Blank \in Items
        /\ Items \subseteq Image /\ Size \in Nat \ {0}
    BY RunnerAssumption DEF RunnerTypeOK, SketchOK, GestureInv, IInv, TypeOK
  <1>1. CASE UNCHANGED <<down, pressed, storeVars>>
    BY <1>1, <1>t DEF storeVars, SketchOK
  <1>2. CASE Start \/ PowerLoss \/ ExitGesture \/ ScreenSwitch
    BY <1>2, <1>t, SMT DEF Start, PowerLoss, ExitGesture, ScreenSwitch, restOfInput, storeVars, SketchOK
  <1>3. CASE BeginTick \/ EndTick
    BY <1>3, <1>t DEF BeginTick, EndTick, storeVars, SketchOK
  <1>4. ASSUME NEW v \in Items, StoreBegins(v) \/ PutItem(v) PROVE SketchOK'
    <2>1. down' = down /\ pressed' = pressed
      BY <1>4 DEF StoreBegins, PutItem, inputVars
    <2>2. item' \in Items /\ at' \in 0 .. Size /\ last' \in Image
      BY <1>4, <1>t, SMT DEF StoreBegins, PutItem, SketchOK
    <2> QED
      BY <2>1, <2>2, <1>t DEF SketchOK
  <1>5. ASSUME NEW update \in BOOLEAN, StoreByte(update) PROVE SketchOK'
    <2>1. down' = down /\ pressed' = pressed
      BY <1>5 DEF StoreByte, inputVars
    <2>2. item' \in Items /\ at' \in 0 .. Size /\ last' \in Image
      BY <1>5, <1>t, SMT DEF StoreByte, SketchOK
    <2> QED
      BY <2>1, <2>2, <1>t DEF SketchOK
  <1>6. CASE LatchInput \/ (\E n \in 1 .. Burst : TickEvent(n))
    BY <1>6, <1>1 DEF LatchInput, restOfInput, TickEvent, inputVars
  <1>7. CASE QuietApp \/ FlushSkipped \/ FlushStarts \/ Commit
    BY <1>7, <1>1 DEF QuietApp, SetupReturns, Attach, WaitTimesOut, ExitTaken, Detach,
         TeardownReturns, FlushSkipped, FlushStarts, Commit, inputVars
  <1>8. CASE Returning
    BY <1>8, <1>1 DEF Returning, FlushClean, FlushFails, Acknowledge, FlushReturns, inputVars
  <1>9. CASE UNCHANGED runnerVars
    BY <1>9, <1>1 DEF runnerVars, inputVars
  <1> QED
    BY RunnerCases, <1>2, <1>3, <1>4, <1>5, <1>6, <1>7, <1>8, <1>9

-----------------------------------------------------------------------------
(* The four parts, one lemma each.                                         *)

\* runtime.actions.down is what the latch showed last, through every reset.
LEMMA DownIsShown == down = previous /\ [RunnerNext]_runnerVars => down' = previous'
  <1> SUFFICES ASSUME down = previous, [RunnerNext]_runnerVars PROVE down' = previous'
    OBVIOUS
  <1>1. CASE LatchInput
    BY <1>1 DEF LatchInput, FingerDown, FingerUp, Clicked, Press, Release, Click
  <1>2. CASE Start \/ PowerLoss \/ ExitGesture \/ ScreenSwitch \/ BeginTick
    BY <1>2 DEF Start, PowerLoss, ExitGesture, ScreenSwitch, BeginTick, Cleared, Reset
  <1>3. CASE UNCHANGED <<vars, down>>
    BY <1>3 DEF vars
  <1>4. CASE EndTick \/ (\E n \in 1 .. Burst : TickEvent(n)) \/ (\E v \in Items : StoreBegins(v))
             \/ (\E v \in Items : PutItem(v)) \/ (\E update \in BOOLEAN : StoreByte(update))
    BY <1>4, <1>3 DEF EndTick, TickEvent, StoreBegins, PutItem, StoreByte, inputVars
  <1>5. CASE QuietApp \/ FlushSkipped \/ FlushStarts \/ Commit
    BY <1>5, <1>3 DEF QuietApp, SetupReturns, Attach, WaitTimesOut, ExitTaken, Detach,
         TeardownReturns, FlushSkipped, FlushStarts, Commit, inputVars
  <1>6. CASE Returning
    BY <1>6, <1>3 DEF Returning, FlushClean, FlushFails, Acknowledge, FlushReturns, inputVars
  <1>7. CASE UNCHANGED runnerVars
    BY <1>7, <1>3 DEF runnerVars, inputVars
  <1> QED
    BY RunnerCases, <1>1, <1>2, <1>4, <1>5, <1>6, <1>7

LEMMA ThreadsStep ==
  RunnerTypeOK /\ MirrorKept /\ ThreadsKept /\ [RunnerNext]_runnerVars => ThreadsKept'
  <1> SUFFICES ASSUME RunnerTypeOK, MirrorKept, ThreadsKept, [RunnerNext]_runnerVars
               PROVE  ThreadsKept'
    OBVIOUS
  <1>t. ticks \in 0 .. Burst /\ attached \in BOOLEAN /\ enabled \in BOOLEAN
    BY DEF RunnerTypeOK
  <1>1. CASE UNCHANGED <<enabled, threadVars>>
    BY <1>1, Zenon DEF threadVars, ThreadsKept
  <1>2. CASE Start
    BY <1>2, Zenon DEF Start, ThreadsKept
  <1>3. CASE PowerLoss
    BY <1>3, Zenon DEF PowerLoss, ThreadsKept
  <1>4. CASE SetupReturns \/ Attach
    <2>1. ~attached /\ ui' = "idle"
      BY <1>4, Zenon DEF SetupReturns, Attach, ThreadsKept
    <2>2. CASE attached' = TRUE /\ app' = "wait"
      BY <2>1, <2>2, Zenon DEF ThreadsKept
    <2>3. CASE ~attached' /\ app' \in {"attach", "out"}
      BY <2>1, <2>3, Zenon DEF ThreadsKept
    <2>4. CASE SetupReturns
      <3>1. attached' = attached /\ app' = "attach"
        BY <2>4, Zenon DEF SetupReturns
      <3>2. ~attached'
        BY <2>1, <3>1, Zenon
      <3> QED
        BY <2>3, <3>1, <3>2
    <2>5. CASE Attach
      BY <2>2, <2>3, <2>5, Zenon DEF Attach
    <2> QED
      BY <1>4, <2>4, <2>5
  <1>5. CASE WaitTimesOut \/ ExitTaken
    BY <1>5, Zenon DEF WaitTimesOut, ExitTaken, ThreadsKept
  <1>6. CASE Detach
    BY <1>6, Zenon DEF Detach, ThreadsKept
  <1>16. CASE TeardownReturns
    <2>1. ~attached /\ attached' = attached /\ enabled' = enabled /\ ui' = "idle"
      BY <1>16, Zenon DEF TeardownReturns, ThreadsKept
    <2>2. (app' = "flush" /\ enabled) \/ (app' = "off" /\ ~enabled)
      BY <1>16, Zenon DEF TeardownReturns
    <2> QED
      BY <2>1, <2>2, Zenon DEF ThreadsKept
  <1>7. CASE FlushSkipped \/ FlushStarts
    BY <1>7, Zenon DEF FlushSkipped, FlushStarts, Due, ThreadsKept
  <1>8. CASE Commit
    BY <1>8, Zenon DEF Commit, ThreadsKept
  <1>9. CASE Returning
    <2>1. ASSUME NEW works, NEW stillDirty, FlushReturns(works, stillDirty) PROVE ThreadsKept'
      BY <2>1, <1>t, Zenon DEF FlushReturns, ThreadsKept
    <2> QED
      BY <1>9, <2>1, Zenon DEF Returning, FlushClean, FlushFails, Acknowledge
  <1>10. CASE \E n \in 1 .. Burst : TickEvent(n)
    <2>1. PICK n \in 1 .. Burst : TickEvent(n)
      BY <1>10
    <2>2. n # 0
      BY RunnerAssumption, SMT
    <2> QED
      BY <2>1, <2>2, Zenon DEF TickEvent, Callback, ThreadsKept
  <1>11. CASE BeginTick
    BY <1>11, Zenon DEF BeginTick, ThreadsKept
  <1>12. CASE EndTick
    <2>1. ticks' = ticks - 1 /\ (ticks # 1 => ticks' # 0)
      BY <1>12, <1>t, SMT DEF EndTick
    <2> QED
      BY <1>12, <2>1, Zenon DEF EndTick, ThreadsKept
  <1>13. CASE LatchInput \/ ScreenSwitch \/ ExitGesture
    <2>1. UNCHANGED <<enabled, app, attached, ui, ticks>>
      BY <1>13 DEF LatchInput, ScreenSwitch, ExitGesture, restOfInput
    <2> QED
      BY <2>1, Zenon DEF ThreadsKept
  <1>14. CASE (\E v \in Items : StoreBegins(v)) \/ (\E v \in Items : PutItem(v))
              \/ (\E update \in BOOLEAN : StoreByte(update))
    BY <1>14, <1>1 DEF StoreBegins, PutItem, StoreByte
  <1>15. CASE UNCHANGED runnerVars
    BY <1>15, <1>1 DEF runnerVars
  <1> QED
    BY RunnerCases, <1>2, <1>3, <1>4, <1>5, <1>6, <1>7, <1>8, <1>9, <1>10, <1>11, <1>12, <1>13,
       <1>14, <1>15, <1>16 DEF QuietApp

\* While the mirror is still and no flush changes hands, its part is kept.
LEMMA MirrorStep ==
  RunnerTypeOK /\ MirrorKept /\ StoreKept /\ ThreadsKept /\ [RunnerNext]_runnerVars => MirrorKept'
  <1> SUFFICES ASSUME RunnerTypeOK, MirrorKept, StoreKept, ThreadsKept, [RunnerNext]_runnerVars
               PROVE  MirrorKept'
    OBVIOUS
  <1>t. shot \in Image \cup {NoImage} /\ mirror \in Image /\ NoImage \notin Image
    BY RunnerAssumption DEF RunnerTypeOK
  <1>1. CASE UNCHANGED <<mirrorVars, shot, saved, enabled, attached, app>>
    BY <1>1, Zenon DEF mirrorVars, MirrorKept
  <1>2. ASSUME UNCHANGED <<mirrorVars, shot, saved, enabled>>, shot = NoImage,
               app' \notin {"commit", "ack"}
        PROVE  MirrorKept'
    BY <1>2, Zenon DEF mirrorVars, MirrorKept
  <1>3. CASE Start
    <2>1. shot = NoImage /\ shot' = NoImage /\ saved' = saved /\ app' \notin {"commit", "ack"}
      BY <1>3, Zenon DEF Start, flushVars, MirrorKept
    <2>2. enabled' => mirror' = saved'
      BY <1>3, <2>1, Zenon DEF Start
    <2> QED
      BY <2>1, <2>2, Zenon DEF MirrorKept
  <1>4. CASE PowerLoss
    BY <1>4, Zenon DEF PowerLoss, MirrorKept
  <1>5. CASE QuietApp
    <2>1. shot = NoImage /\ UNCHANGED <<mirrorVars, shot, saved, enabled>>
          /\ app' \notin {"commit", "ack"}
      BY <1>5 DEF QuietApp, SetupReturns, Attach, WaitTimesOut, ExitTaken, Detach,
           TeardownReturns, flushVars, MirrorKept
    <2> QED
      BY <2>1, <1>2
  <1>6. CASE FlushSkipped
    <2>1. shot = NoImage /\ UNCHANGED <<mirrorVars, shot, saved, enabled>> /\ app' = "wait"
      BY <1>6, Zenon DEF FlushSkipped, MirrorKept
    <2> QED
      BY <2>1, <1>2, Zenon
  <1>7. CASE FlushStarts
    <2>1. shot' = mirror /\ mirror' = mirror /\ mirror # NoImage /\ app' = "commit"
          /\ dirty' = dirty /\ enabled' = enabled /\ dirty /\ enabled
      BY <1>7, <1>t, Zenon DEF FlushStarts, Due, ThreadsKept
    <2> QED
      BY <2>1, Zenon DEF MirrorKept
  <1>8. CASE Commit
    <2>1. /\ shot # NoImage /\ app' = "ack" /\ saved' = shot /\ shot' = shot
          /\ UNCHANGED <<mirror, dirty, moved, enabled, attached>>
      BY <1>8, Zenon DEF Commit, mirrorVars, MirrorKept
    <2> QED
      BY <2>1, Zenon DEF MirrorKept
  <1>9. CASE Returning
    <2>1. ASSUME NEW works, NEW stillDirty, FlushReturns(works, stillDirty), saved' = saved,
                 ~stillDirty => mirror = saved
          PROVE  MirrorKept'
      <3>1. shot' = NoImage /\ app' \in {"wait", "off"}
        BY <2>1, Zenon DEF FlushReturns
      <3>2. enabled' /\ mirror' # saved' => dirty'
        BY <2>1, Zenon DEF FlushReturns
      <3> QED
        BY <3>1, <3>2, Zenon DEF MirrorKept
    <2>2. CASE FlushClean
      <3>1. mirror = saved
        BY <2>2, Zenon DEF FlushClean, Due, ThreadsKept, MirrorKept
      <3> QED
        BY <2>1, <2>2, <3>1, Zenon DEF FlushClean
    <2>3. CASE FlushFails
      <3>1. enabled
        BY <2>3, Zenon DEF FlushFails, Due, ThreadsKept, MirrorKept
      <3>2. ~dirty => mirror = saved
        BY <3>1, Zenon DEF MirrorKept
      <3> QED
        BY <2>1, <2>3, <3>2, Zenon DEF FlushFails
    <2>4. CASE Acknowledge
      <3>1. ~moved => mirror = saved
        BY <2>4, Zenon DEF Acknowledge, MirrorKept
      <3> QED
        BY <2>1, <2>4, <3>1, Zenon DEF Acknowledge
    <2> QED
      BY <1>9, <2>2, <2>3, <2>4, Zenon DEF Returning
  <1>10. ASSUME NEW v \in Items, PutItem(v) PROVE MirrorKept'
    <2>1. /\ enabled /\ dirty' = TRUE /\ moved' = (shot # NoImage)
          /\ UNCHANGED <<shot, saved, enabled, app, attached>>
      BY <1>10, Zenon DEF PutItem, flushVars, threadVars
    <2>2. shot # NoImage => attached
      BY <1>10, Zenon DEF PutItem, InSketch, ThreadsKept, MirrorKept
    <2> QED
      BY <2>1, <2>2, Zenon DEF MirrorKept
  <1>11. ASSUME NEW update \in BOOLEAN, StoreByte(update) PROVE MirrorKept'
    <2>1. UNCHANGED <<shot, saved, enabled, app, attached>>
      BY <1>11, Zenon DEF StoreByte, flushVars, threadVars
    <2>2. shot # NoImage => attached
      BY <1>11, Zenon DEF StoreByte, StoreKept, InSketch, ThreadsKept, MirrorKept
    <2>3. CASE dirty' = TRUE /\ moved' = (shot # NoImage)
      BY <2>1, <2>2, <2>3, Zenon DEF MirrorKept
    <2>4. CASE mirror[at] = item[at] /\ UNCHANGED <<dirty, moved>>
      <3>1. mirror' = mirror
        BY <1>11, <2>4, <1>t DEF StoreByte, Image
      <3> QED
        BY <3>1, <2>1, <2>4, Zenon DEF MirrorKept
    <2> QED
      BY <1>11, <2>3, <2>4, Zenon DEF StoreByte, Marks
  <1>12. CASE LatchInput \/ ScreenSwitch \/ ExitGesture
    BY <1>12, <1>1 DEF LatchInput, ScreenSwitch, ExitGesture, restOfInput, flushVars
  <1>13. CASE (\E n \in 1 .. Burst : TickEvent(n)) \/ BeginTick \/ EndTick
              \/ (\E v \in Items : StoreBegins(v))
    BY <1>13, <1>1 DEF TickEvent, BeginTick, EndTick, StoreBegins, flushVars, threadVars
  <1>14. CASE UNCHANGED runnerVars
    BY <1>14, <1>1 DEF runnerVars, flushVars, threadVars
  <1> QED
    BY RunnerCases, <1>3, <1>4, <1>5, <1>6, <1>7, <1>8, <1>9, <1>10, <1>11, <1>12, <1>13, <1>14

LEMMA StoreStep ==
  RunnerTypeOK /\ StoreKept /\ ThreadsKept /\ [RunnerNext]_runnerVars => StoreKept'
  <1> SUFFICES ASSUME RunnerTypeOK, StoreKept, ThreadsKept, [RunnerNext]_runnerVars
               PROVE  StoreKept'
    OBVIOUS
  <1>t. mirror \in Image /\ at \in 0 .. Size /\ item \in Image /\ last \in Image /\ Size \in Nat \ {0}
    BY RunnerAssumption DEF RunnerTypeOK
  <1>1. CASE UNCHANGED <<mirror, enabled, item, at, last>> /\ (at # 0 => InSketch')
    BY <1>1, Zenon DEF StoreKept
  <1>2. ASSUME UNCHANGED <<mirror, enabled, item, at, last>>, ~InSketch \/ UNCHANGED <<app, ui>>
        PROVE  StoreKept'
    BY <1>2, <1>1, Zenon DEF StoreKept, InSketch
  <1>3. CASE Start
    <2>1. at = 0
      BY <1>3, Zenon DEF Start, StoreKept, InSketch, ThreadsKept
    <2>2. at' = 0 /\ (enabled' => mirror' = last')
      BY <1>3, <2>1, Zenon DEF Start
    <2> QED
      BY <2>2, Zenon DEF StoreKept
  <1>4. CASE PowerLoss
    BY <1>4, Zenon DEF PowerLoss, StoreKept
  <1>5. CASE SetupReturns \/ TeardownReturns \/ EndTick
    <2>1. at = 0 /\ UNCHANGED <<mirror, enabled, item, at, last>>
      BY <1>5 DEF SetupReturns, TeardownReturns, EndTick, mirrorVars, storeVars
    <2> QED
      BY <2>1, <1>1, Zenon
  <1>6. CASE Attach \/ WaitTimesOut \/ ExitTaken \/ Detach \/ FlushSkipped \/ FlushStarts \/ Commit
    <2>1. /\ UNCHANGED <<mirror, enabled, item, at, last, ui>>
          /\ app \notin {"setup", "teardown"}
      BY <1>6 DEF Attach, WaitTimesOut, ExitTaken, Detach, FlushSkipped, FlushStarts, Commit, Due,
           mirrorVars, storeVars
    <2> QED
      BY <2>1, <1>1, Zenon DEF StoreKept, InSketch
  <1>7. CASE Returning
    <2>1. ASSUME NEW works, NEW stillDirty, FlushReturns(works, stillDirty),
                 app \notin {"setup", "teardown"}
          PROVE  StoreKept'
      <3>1. UNCHANGED <<item, at, last, ui>>
        BY <2>1 DEF FlushReturns, storeVars
      <3>2. CASE attached
        <4>1. UNCHANGED <<mirror, enabled>>
          BY <2>1, <3>2, Zenon DEF FlushReturns
        <4> QED
          BY <3>1, <4>1, <2>1, <1>1, Zenon DEF StoreKept, InSketch
      <3>3. CASE ~attached
        <4>1. at = 0
          BY <2>1, <3>3, Zenon DEF StoreKept, InSketch, ThreadsKept
        <4>2. ~enabled'
          BY <2>1, <3>3, Zenon DEF FlushReturns
        <4> QED
          BY <3>1, <4>1, <4>2, Zenon DEF StoreKept
      <3> QED
        BY <3>2, <3>3
    <2>2. app \notin {"setup", "teardown"}
      BY <1>7 DEF Returning, FlushClean, FlushFails, Acknowledge, Due
    <2> QED
      BY <1>7, <2>1, <2>2, Zenon DEF Returning, FlushClean, FlushFails, Acknowledge
  <1>8. ASSUME NEW v \in Items, PutItem(v) PROVE StoreKept'
    <2>1. at' = 0 /\ mirror' = last'
      BY <1>8, Zenon DEF PutItem
    <2> QED
      BY <2>1, Zenon DEF StoreKept
  <1>9. ASSUME NEW v \in Items, StoreBegins(v) PROVE StoreKept'
    <2>1. /\ InSketch /\ enabled /\ enabled' = enabled /\ app' = app /\ ui' = ui /\ at' = 1
      BY <1>9, Zenon DEF StoreBegins, threadVars
    <2>2. at' # 0 /\ \A i \in 1 .. at' - 1 : mirror'[i] = item'[i]
      BY <2>1, SMT
    <2> QED
      BY <2>1, <2>2, Zenon DEF StoreKept, InSketch
  <1>10. ASSUME NEW update \in BOOLEAN, StoreByte(update) PROVE StoreKept'
    <2>1. at # 0 /\ enabled /\ InSketch /\ \A i \in 1 .. at - 1 : mirror[i] = item[i]
      BY <1>10, Zenon DEF StoreByte, StoreKept
    <2>2. UNCHANGED <<enabled, app, ui>>
      BY <1>10, Zenon DEF StoreByte, threadVars
    <2>3. /\ mirror' \in Image /\ at \in 1 .. Size
          /\ \A i \in 1 .. Size : mirror'[i] = IF i = at THEN item[i] ELSE mirror[i]
      BY <1>10, <2>1, ByteStored
    <2>4. \A i \in 1 .. at : mirror'[i] = item[i]
      BY <2>1, <2>3, <1>t, SMT
    <2>5. CASE at = Size
      <3>1. at' = 0 /\ last' = item
        BY <1>10, <2>5, Zenon DEF StoreByte
      <3>2. mirror' = item
        BY <2>3, <2>4, <2>5, <1>t DEF Image
      <3> QED
        BY <3>1, <3>2, Zenon DEF StoreKept
    <2>6. CASE at # Size
      <3>1. at' = at + 1 /\ item' = item
        BY <1>10, <2>6, Zenon DEF StoreByte
      <3>2. at' # 0 /\ \A i \in 1 .. at' - 1 : mirror'[i] = item'[i]
        BY <3>1, <2>3, <2>4, SMT
      <3> QED
        BY <3>2, <2>1, <2>2, Zenon DEF StoreKept, InSketch
    <2> QED
      BY <2>5, <2>6
  <1>11. CASE LatchInput \/ ScreenSwitch \/ ExitGesture
    <2>1. UNCHANGED <<mirror, enabled, item, at, last, app, ui>>
      BY <1>11 DEF LatchInput, ScreenSwitch, ExitGesture, restOfInput, mirrorVars, storeVars
    <2> QED
      BY <2>1, <1>2, Zenon
  <1>12. CASE (\E n \in 1 .. Burst : TickEvent(n)) \/ BeginTick
    <2>1. ~InSketch /\ UNCHANGED <<mirror, enabled, item, at, last>>
      BY <1>12, Zenon DEF TickEvent, BeginTick, Callback, InSketch, ThreadsKept, mirrorVars, storeVars
    <2> QED
      BY <2>1, <1>2, Zenon
  <1>13. CASE UNCHANGED runnerVars
    BY <1>13, <1>2 DEF runnerVars, mirrorVars, storeVars, threadVars
  <1> QED
    BY RunnerCases, <1>3, <1>4, <1>5, <1>6, <1>7, <1>8, <1>9, <1>10, <1>11, <1>12, <1>13 DEF QuietApp

\* A flush that worked while no callback can run has saved what was stored last.
LEMMA LastStep ==
  /\ RunnerTypeOK /\ MirrorKept /\ StoreKept /\ ThreadsKept /\ LastKept
  /\ [RunnerNext]_runnerVars
  => LastKept'
  <1> SUFFICES ASSUME RunnerTypeOK, MirrorKept, StoreKept, ThreadsKept, LastKept,
                      [RunnerNext]_runnerVars
               PROVE  LastKept'
    OBVIOUS
  <1>1. CASE enabled'
    BY <1>1, Zenon DEF LastKept
  <1>2. CASE saved' = saved /\ last' = last /\ enabled' = enabled /\ (cut' <=> cut)
             /\ (app = "off" => app' = "off")
    BY <1>2, Zenon DEF LastKept
  <1>3. CASE Start
    BY <1>3, Zenon DEF Start, flushVars, LastKept
  <1>4. CASE PowerLoss
    BY <1>4, Zenon DEF PowerLoss, LastKept
  <1>5. CASE QuietApp \/ FlushSkipped
    <2>1. UNCHANGED <<saved, last, enabled, cut>> /\ app # "off"
      BY <1>5 DEF QuietApp, SetupReturns, Attach, WaitTimesOut, ExitTaken, Detach,
           TeardownReturns, FlushSkipped, flushVars, storeVars
    <2> QED
      BY <2>1, <1>2, Zenon
  <1>6. CASE FlushStarts \/ Commit
    BY <1>6, Zenon DEF FlushStarts, Commit, Due, ThreadsKept, MirrorKept, LastKept
  <1>7. CASE Returning
    <2>1. enabled
      BY <1>7, Zenon DEF Returning, FlushClean, FlushFails, Acknowledge, Due, ThreadsKept, MirrorKept
    <2>2. CASE attached
      BY <1>7, <2>1, <2>2, Zenon DEF Returning, FlushClean, FlushFails, Acknowledge, FlushReturns, LastKept
    <2>3. CASE ~attached
      <3>1. app \notin {"setup", "teardown"}
        BY <1>7 DEF Returning, FlushClean, FlushFails, Acknowledge, Due
      <3>2. mirror = last
        BY <2>1, <2>3, <3>1, Zenon DEF StoreKept, InSketch, ThreadsKept
      <3>3. CASE FlushFails
        BY <2>3, <3>3, Zenon DEF FlushFails, FlushReturns, LastKept
      <3>4. CASE FlushClean
        <4>1. mirror = saved
          BY <2>1, <3>4, Zenon DEF FlushClean, MirrorKept
        <4>2. saved' = saved /\ last' = last
          BY <3>4 DEF FlushClean, FlushReturns, storeVars
        <4> QED
          BY <3>2, <4>1, <4>2, Zenon DEF LastKept
      <3>5. CASE Acknowledge
        <4>1. mirror = saved
          BY <2>3, <3>5, Zenon DEF Acknowledge, MirrorKept
        <4>2. saved' = saved /\ last' = last
          BY <3>5 DEF Acknowledge, FlushReturns, storeVars
        <4> QED
          BY <3>2, <4>1, <4>2, Zenon DEF LastKept
      <3> QED
        BY <1>7, <3>3, <3>4, <3>5 DEF Returning
    <2> QED
      BY <2>2, <2>3
  <1>8. CASE LatchInput \/ ScreenSwitch \/ ExitGesture
    <2>1. UNCHANGED <<saved, last, enabled, cut, app>>
      BY <1>8 DEF LatchInput, ScreenSwitch, ExitGesture, restOfInput, flushVars, storeVars
    <2> QED
      BY <2>1, <1>2, Zenon
  <1>9. CASE (\E n \in 1 .. Burst : TickEvent(n)) \/ BeginTick \/ EndTick
    <2>1. UNCHANGED <<saved, last, enabled, cut, app>>
      BY <1>9 DEF TickEvent, BeginTick, EndTick, flushVars, storeVars
    <2> QED
      BY <2>1, <1>2, Zenon
  <1>10. CASE (\E v \in Items : StoreBegins(v)) \/ (\E v \in Items : PutItem(v))
              \/ (\E update \in BOOLEAN : StoreByte(update))
    <2>1. enabled' = enabled /\ enabled
      BY <1>10, Zenon DEF StoreBegins, PutItem, StoreByte, StoreKept
    <2> QED
      BY <2>1, <1>1, Zenon
  <1>11. CASE UNCHANGED runnerVars
    <2>1. UNCHANGED <<saved, last, enabled, cut, app>>
      BY <1>11 DEF runnerVars, flushVars, storeVars, threadVars
    <2> QED
      BY <2>1, <1>2, Zenon
  <1> QED
    BY RunnerCases, <1>3, <1>4, <1>5, <1>6, <1>7, <1>8, <1>9, <1>10, <1>11

-----------------------------------------------------------------------------
LEMMA RunnerStarts == RunnerInit => RunnerIInv
  <1> SUFFICES ASSUME RunnerInit PROVE RunnerIInv
    OBVIOUS
  <1>1. GestureInv /\ down = previous
    BY InitGestureInv DEF RunnerInit, GestureInit, Init
  <1>2. RunnerTypeOK
    <2>1. MirrorOK /\ FlagsOK
      BY RunnerAssumption, Zenon DEF RunnerInit, MirrorOK, FlagsOK
    <2>2. FlushOK /\ SketchOK
      BY RunnerAssumption, SMT DEF RunnerInit, FlushOK, SketchOK
    <2>3. ThreadsOK
      BY RunnerAssumption, SMT DEF RunnerInit, ThreadsOK, AppAt, UiAt
    <2> QED
      BY <2>1, <2>2, <2>3, RunnerTypes
  <1>3. MirrorKept /\ StoreKept /\ ThreadsKept /\ LastKept
    BY Zenon DEF RunnerInit, MirrorKept, StoreKept, ThreadsKept, LastKept
  <1> QED
    BY <1>1, <1>2, <1>3 DEF RunnerIInv

LEMMA RunnerSteps == RunnerIInv /\ [RunnerNext]_runnerVars => RunnerIInv'
  <1> SUFFICES ASSUME RunnerIInv, [RunnerNext]_runnerVars PROVE RunnerIInv'
    OBVIOUS
  <1>i. RunnerTypeOK /\ GestureInv /\ down = previous /\ MirrorKept /\ StoreKept /\ ThreadsKept
        /\ LastKept
    BY DEF RunnerIInv
  <1>1. GestureInv'
    BY <1>i, RunnerStepsAreGestures, StepGestureInv
  <1>2. RunnerTypeOK'
    BY <1>i, <1>1, MirrorTypes, FlushTypes, FlagTypes, ThreadTypes, SketchTypes, RunnerTypesNext
  <1>3. MirrorKept' /\ StoreKept' /\ ThreadsKept' /\ LastKept'
    BY <1>i, MirrorStep, StoreStep, ThreadsStep, LastStep
  <1>4. down' = previous'
    BY <1>i, DownIsShown
  <1> QED
    BY <1>1, <1>2, <1>3, <1>4 DEF RunnerIInv

\* For every item, every number of ticks at once and every back-off, whatever part of
\* a store a flush catches and wherever the power fails: a save behind the item the
\* sketch stored last is marked to be written, and a session that is not cut short
\* ends with that item saved.
THEOREM RunnerInvariance == RunnerSpec => []RunnerInv
  <1>1. RunnerInit => RunnerIInv
    BY RunnerStarts
  <1>2. RunnerIInv /\ [RunnerNext]_runnerVars => RunnerIInv'
    BY RunnerSteps
  <1>3. RunnerIInv => RunnerInv
    <2> SUFFICES ASSUME RunnerIInv PROVE RunnerInv
      OBVIOUS
    <2>1. BehindIsDirty /\ MirrorIsLast
      BY Zenon DEF RunnerIInv, MirrorKept, StoreKept, BehindIsDirty, MirrorIsLast
    <2>2. app = "off" => ui = "idle" /\ ~InSketch /\ (cut \/ saved = last)
      BY Zenon DEF RunnerIInv, ThreadsKept, LastKept, InSketch
    <2>3. SessionKeepsLastItem
      BY <2>2, Zenon DEF RunnerIInv, StoreKept, SessionKeepsLastItem
    <2> QED
      BY <2>1, <2>3 DEF RunnerIInv, RunnerInv
  <1> QED
    BY <1>1, <1>2, <1>3, PTL DEF RunnerSpec

\* Through every entry, exit and exit gesture a tick sees a press exactly when it
\* spends a tap.
THEOREM TicksSeeTaps == RunnerSpec => TicksSeeEveryTap
  <1>1. RunnerInit => RunnerIInv
    BY RunnerStarts
  <1>2. RunnerIInv /\ [RunnerNext]_runnerVars => RunnerIInv'
    BY RunnerSteps
  <1>3. ASSUME RunnerIInv, BeginTick, NEW a \in Actions
        PROVE  a \in pressed' <=> pending'[a] < pending[a]
    <2>1. GestureInv /\ down = previous
      BY <1>3 DEF RunnerIInv
    <2>2. Consume /\ pressed' = previous' \ previous
      BY <1>3, <2>1 DEF BeginTick, NextFrame
    <2> QED
      BY <2>1, <2>2, ShownOrSpent
  <1>4. RunnerIInv /\ [RunnerNext]_runnerVars
          => [BeginTick => \A a \in Actions : a \in pressed' <=> pending'[a] < pending[a]]_runnerVars
    BY <1>3
  <1> QED
    BY <1>1, <1>2, <1>4, PTL DEF RunnerSpec, TicksSeeEveryTap

\* What the latch promises of gestures it promises the callback runner.
THEOREM RunnerKeepsGestures ==
  RunnerSpec => TapAndClickCoalesce /\ ReleaseIsSeen /\ []TapsAreOwed
  BY RunnerImplementsGestures, TapAndClickAreOne, ReleaseIsAlwaysSeen, EveryTapIsOwed, PTL
=============================================================================

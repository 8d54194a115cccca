------------------------ MODULE RuntimeBridge_proofs ------------------------
(***************************************************************************)
(* The two threads of the runtime, for every set of actions, chunks and    *)
(* images: the lock is held in the critical sections only, the latch is    *)
(* used one call at a time, and the display shows whole submitted frames.  *)
(***************************************************************************)
EXTENDS RuntimeBridge, TLAPS

USE DEF bridgeVars, latchVars, sharedVars, uiVars, appVars

LEMMA BridgeInitInv == BridgeInit => BridgeInv
  <1> SUFFICES ASSUME BridgeInit PROVE BridgeInv
    OBVIOUS
  <1>1. TypeOK
    BY LimitAssumption, SMT DEF BridgeInit, Init, TypeOK, NoTaps
  <1>2. BridgeTypeOK
    BY <1>1, BridgeAssumption DEF BridgeInit, BridgeTypeOK, BlankFrame, Frames, AppAt, UiAt
  <1>3. LockWhereCopying /\ CopyInProgress
    BY DEF BridgeInit, LockWhereCopying, CopyInProgress
  <1> QED
    BY <1>2, <1>3 DEF BridgeInv

(* The latch keeps its types: only the critical sections write it.         *)
LEMMA LatchTypes ==
  ASSUME TypeOK
  PROVE  /\ \A S \in SUBSET Actions : (Press(S) \/ Release(S) \/ Click(S)) => TypeOK'
         /\ Reset => TypeOK'
         /\ Spent \in [Actions -> 0 .. Limit]
  <1>1. \A S \in SUBSET Actions : Enqueue(pending, S) \in [Actions -> 0 .. Limit]
    <2> TAKE S \in SUBSET Actions
    <2>1. ASSUME NEW a \in Actions
          PROVE (IF a \in S /\ pending[a] # Limit THEN pending[a] + 1 ELSE pending[a]) \in 0 .. Limit
      <3>1. pending[a] \in 0 .. Limit
        BY DEF TypeOK
      <3> QED
        BY <3>1, LimitAssumption, SMT
    <2> QED
      BY <2>1 DEF Enqueue
  <1>2. ASSUME NEW S \in SUBSET Actions, Press(S) PROVE TypeOK'
    BY <1>1, <1>2 DEF Press, TypeOK
  <1>3. ASSUME NEW S \in SUBSET Actions, Release(S) PROVE TypeOK'
    BY <1>3 DEF Release, TypeOK
  <1>4. ASSUME NEW S \in SUBSET Actions, Click(S) PROVE TypeOK'
    BY <1>1, <1>4 DEF Click, TypeOK
  <1>5. ASSUME Reset PROVE TypeOK'
    BY <1>5, LimitAssumption, SMT DEF Reset, TypeOK, NoTaps
  <1>6. ASSUME NEW a \in Actions
        PROVE (IF pending[a] # 0 /\ a \notin previous THEN pending[a] - 1
                                                      ELSE pending[a]) \in 0 .. Limit
    <2>1. pending[a] \in 0 .. Limit
      BY DEF TypeOK
    <2> QED
      BY <2>1, LimitAssumption, SMT
  <1>7. Spent \in [Actions -> 0 .. Limit]
    BY <1>6 DEF Spent
  <1> QED
    BY <1>2, <1>3, <1>4, <1>5, <1>7

LEMMA UiKeepsInv == BridgeInv /\ (Ui \/ DesktopStops) => BridgeInv'
  <1> SUFFICES ASSUME BridgeInv, Ui \/ DesktopStops PROVE BridgeInv'
    OBVIOUS
  <1> USE DEF BridgeInv
  <1>t. TypeOK
    BY DEF BridgeTypeOK
  <1>1. ASSUME DrawBegin \/ DrawLock \/ DrawUnlock \/ DrawDone PROVE BridgeInv'
    <2>1. BridgeTypeOK'
      BY <1>1 DEF DrawBegin, DrawLock, DrawUnlock, DrawDone, BridgeTypeOK, TypeOK, UiAt
    <2>2. LockWhereCopying'
      BY <1>1 DEF DrawBegin, DrawLock, DrawUnlock, DrawDone, LockWhereCopying, LockFree
    <2>3. CopyInProgress'
      BY <1>1 DEF DrawBegin, DrawLock, DrawUnlock, DrawDone, CopyInProgress
    <2> QED
      BY <2>1, <2>2, <2>3
  <1>2. ASSUME NEW c \in Chunks, DrawCopy(c) PROVE BridgeInv'
    <2>1. BridgeTypeOK'
      BY <1>2 DEF DrawCopy, BridgeTypeOK, TypeOK, Frames
    <2>2. LockWhereCopying'
      BY <1>2 DEF DrawCopy, LockWhereCopying
    <2>3. CopyInProgress'
      BY <1>2 DEF DrawCopy, CopyInProgress, BridgeTypeOK, Frames
    <2> QED
      BY <2>1, <2>2, <2>3
  <1>3. ASSUME NEW S \in SUBSET Actions, InputEvent(S) PROVE BridgeInv'
    <2>1. TypeOK'
      <3>1. S \ held \in SUBSET Actions /\ S \cap held \in SUBSET Actions
        OBVIOUS
      <3> QED
        BY <1>3, <1>t, <3>1, LatchTypes DEF InputEvent
    <2>2. BridgeTypeOK' /\ LockWhereCopying'
      BY <1>3, <2>1 DEF InputEvent, BridgeTypeOK, LockWhereCopying
    <2>3. app # "consuming"
      BY <1>3 DEF InputEvent, LockFree, LockWhereCopying
    <2>4. CopyInProgress'
      BY <1>3, <2>3 DEF InputEvent, CopyInProgress
    <2> QED
      BY <2>2, <2>4
  <1>4. ASSUME ExitGesture PROVE BridgeInv'
    <2>1. TypeOK'
      BY <1>4, <1>t, LatchTypes DEF ExitGesture
    <2>2. app # "consuming"
      BY <1>4 DEF ExitGesture, LockFree, LockWhereCopying
    <2>3. BridgeTypeOK' /\ LockWhereCopying' /\ CopyInProgress'
      BY <1>4, <2>1, <2>2
      DEF ExitGesture, BridgeTypeOK, UiAt, LockWhereCopying, CopyInProgress
    <2> QED
      BY <2>3
  <1>5. ASSUME SetStopping \/ WakeApp \/ DesktopStops PROVE BridgeInv'
    <2>1. BridgeTypeOK'
      BY <1>5 DEF SetStopping, WakeApp, DesktopStops, Give, BridgeTypeOK, TypeOK, UiAt
    <2>2. LockWhereCopying' /\ CopyInProgress'
      BY <1>5 DEF SetStopping, WakeApp, DesktopStops, LockWhereCopying, CopyInProgress
    <2> QED
      BY <2>1, <2>2
  <1>6. ASSUME ResetInput PROVE BridgeInv'
    <2>1. TypeOK'
      BY <1>6, <1>t, LatchTypes DEF ResetInput
    <2>2. app # "consuming"
      BY <1>6 DEF ResetInput, LockFree, LockWhereCopying
    <2>3. BridgeTypeOK' /\ LockWhereCopying' /\ CopyInProgress'
      BY <1>6, <2>1, <2>2 DEF ResetInput, BridgeTypeOK, LockWhereCopying, CopyInProgress
    <2> QED
      BY <2>3
  <1> QED
    BY <1>1, <1>2, <1>3, <1>4, <1>5, <1>6 DEF Ui, Draw, Input

LEMMA AppKeepsInv == BridgeInv /\ App => BridgeInv'
  <1> SUFFICES ASSUME BridgeInv, App PROVE BridgeInv'
    OBVIOUS
  <1> USE DEF BridgeInv
  <1>t. TypeOK /\ Spent \in [Actions -> 0 .. Limit]
    BY LatchTypes DEF BridgeTypeOK
  <1>1. ASSUME Execute \/ DelayGoesOn \/ DelayReturns PROVE BridgeInv'
    <2>1. BridgeTypeOK'
      BY <1>1 DEF Execute, Top, After, Wait, DelayGoesOn, DelayReturns, TakeExit, TimeOut,
                  BridgeTypeOK, TypeOK, AppAt
    <2>2. LockWhereCopying' /\ CopyInProgress'
      BY <1>1 DEF Execute, Top, After, Wait, DelayGoesOn, DelayReturns,
                  LockWhereCopying, CopyInProgress
    <2> QED
      BY <2>1, <2>2
  <1>2. ASSUME ConsumeLock PROVE BridgeInv'
    <2>1. BridgeTypeOK'
      BY <1>2 DEF ConsumeLock, BridgeTypeOK, TypeOK, AppAt
    <2>2. LockWhereCopying' /\ CopyInProgress'
      BY <1>2 DEF ConsumeLock, LockFree, LockWhereCopying, CopyInProgress
    <2> QED
      BY <2>1, <2>2
  <1>3. ASSUME NEW a \in Actions, ConsumeBit(a) PROVE BridgeInv'
    <2>1. pending' \in [Actions -> 0 .. Limit]
      <3>1. pending[a] # 0 => pending[a] - 1 \in 0 .. Limit
        <4>1. pending[a] \in 0 .. Limit
          BY <1>t DEF TypeOK
        <4> QED
          BY <4>1, LimitAssumption, SMT
      <3> QED
        BY <1>3, <1>t, <3>1 DEF ConsumeBit, TypeOK
    <2>2. BridgeTypeOK'
      BY <1>3, <2>1 DEF ConsumeBit, BridgeTypeOK, TypeOK
    <2>3. LockWhereCopying' /\ CopyInProgress'
      BY <1>3 DEF ConsumeBit, LockWhereCopying, CopyInProgress
    <2> QED
      BY <2>2, <2>3
  <1>4. ASSUME ConsumeUnlock \/ SetButtons PROVE BridgeInv'
    <2>1. BridgeTypeOK'
      BY <1>4 DEF ConsumeUnlock, SetButtons, StillRaw, BridgeTypeOK, TypeOK, AppAt
    <2>2. LockWhereCopying' /\ CopyInProgress'
      BY <1>4 DEF ConsumeUnlock, SetButtons, LockWhereCopying, CopyInProgress
    <2> QED
      BY <2>1, <2>2
  <1>5. ASSUME Sketch PROVE BridgeInv'
    <2>1. CASE NextFrameDue \/ CallsExit \/ CallsDelay \/ SketchReturns
      <3>1. BridgeTypeOK'
        BY <2>1 DEF NextFrameDue, CallsExit, CallsDelay, SketchReturns, Give,
                    BridgeTypeOK, TypeOK, AppAt
      <3>2. LockWhereCopying' /\ CopyInProgress'
        BY <2>1 DEF NextFrameDue, CallsExit, CallsDelay, SketchReturns,
                    LockWhereCopying, CopyInProgress
      <3> QED
        BY <3>1, <3>2
    <2>2. ASSUME NEW c \in Chunks, NEW i \in Images, Draws(c, i) PROVE BridgeInv'
      <3>1. BridgeTypeOK'
        BY <2>2 DEF Draws, BridgeTypeOK, TypeOK, Frames
      <3>2. LockWhereCopying' /\ CopyInProgress'
        BY <2>2 DEF Draws, LockWhereCopying, CopyInProgress
      <3> QED
        BY <3>1, <3>2
    <2>3. ASSUME NEW clear \in BOOLEAN, CallsDisplay(clear) PROVE BridgeInv'
      BY <2>3 DEF CallsDisplay, BridgeTypeOK, TypeOK, AppAt, LockWhereCopying, CopyInProgress
    <2> QED
      BY <1>5, <2>1, <2>2, <2>3 DEF Sketch
  <1>6. ASSUME PublishLock \/ PublishUnlock \/ RequestRedraw PROVE BridgeInv'
    <2>1. BridgeTypeOK'
      BY <1>6 DEF PublishLock, PublishUnlock, RequestRedraw, BridgeTypeOK, TypeOK, AppAt
    <2>2. LockWhereCopying' /\ CopyInProgress'
      BY <1>6 DEF PublishLock, PublishUnlock, RequestRedraw, LockFree,
                  LockWhereCopying, CopyInProgress
    <2> QED
      BY <2>1, <2>2
  <1>7. ASSUME NEW c \in Chunks, PublishCopy(c) PROVE BridgeInv'
    <2>1. BridgeTypeOK'
      BY <1>7 DEF PublishCopy, BridgeTypeOK, TypeOK, Frames
    <2>2. ui # "copying"
      BY <1>7 DEF PublishCopy, LockWhereCopying
    <2>3. LockWhereCopying' /\ CopyInProgress'
      BY <1>7, <2>2 DEF PublishCopy, LockWhereCopying, CopyInProgress, BridgeTypeOK, Frames
    <2> QED
      BY <2>1, <2>3
  <1>8. ASSUME ClearDrawing PROVE BridgeInv'
    <2>1. BlankFrame \in Frames
      BY BridgeAssumption DEF BlankFrame, Frames
    <2>2. BridgeTypeOK'
      BY <1>8, <2>1 DEF ClearDrawing, BridgeTypeOK, TypeOK, AppAt
    <2>3. LockWhereCopying' /\ CopyInProgress'
      BY <1>8 DEF ClearDrawing, LockWhereCopying, CopyInProgress
    <2> QED
      BY <2>2, <2>3
  <1> QED
    BY <1>1, <1>2, <1>3, <1>4, <1>5, <1>6, <1>7, <1>8 DEF App, ConsumeInput, Display

\* The lock is held in the critical sections and nowhere else, and nobody touches
\* what a critical section in progress works on.
THEOREM BridgeInvariance == BridgeSpec => []BridgeInv
  <1>1. BridgeInit => BridgeInv
    BY BridgeInitInv
  <1>2. BridgeInv /\ [BridgeNext]_bridgeVars => BridgeInv'
    <2>1. BridgeInv /\ UNCHANGED bridgeVars => BridgeInv'
      BY DEF BridgeInv, BridgeTypeOK, TypeOK, LockWhereCopying, CopyInProgress
    <2> QED
      BY <2>1, UiKeepsInv, AppKeepsInv DEF BridgeNext
  <1> QED
    BY <1>1, <1>2, PTL DEF BridgeSpec

-----------------------------------------------------------------------------
(* The latch.                                                              *)

\* What consume() will leave, seen from any point inside it.
LEMMA LatchOutside ==
  ASSUME app # "consuming"
  PROVE  ShownPrevious = previous /\ ShownRaw = rawSeen /\ ShownPending = pending
  BY DEF ShownPrevious, ShownRaw, ShownPending

LEMMA LatchOutsideNext ==
  ASSUME app' # "consuming"
  PROVE  ShownPrevious' = previous' /\ ShownRaw' = rawSeen' /\ ShownPending' = pending'
  BY DEF ShownPrevious, ShownRaw, ShownPending

\* A step that leaves the latch and the progress of consume() alone is a stutter.
LEMMA LatchStutters ==
  ASSUME UNCHANGED latchVars, app' = "consuming" <=> app = "consuming",
         UNCHANGED <<bitsLeft, result>>
  PROVE  UNCHANGED Latch!latchVars
  <1>1. Frame' = Frame /\ Spent' = Spent /\ StillRaw' = StillRaw
    BY DEF Frame, Spent, StillRaw
  <1> QED
    BY <1>1 DEF ShownPrevious, ShownRaw, ShownPending, Latch!latchVars

LEMMA UiStepsLatch == BridgeInv /\ (Ui \/ DesktopStops) => [Latch!Next]_(Latch!latchVars)
  <1> SUFFICES ASSUME BridgeInv, Ui \/ DesktopStops PROVE [Latch!Next]_(Latch!latchVars)
    OBVIOUS
  <1>1. CASE DrawBegin \/ Draw \/ SetStopping \/ WakeApp \/ DesktopStops
    BY <1>1, LatchStutters
    DEF DrawBegin, Draw, DrawLock, DrawCopy, DrawUnlock, DrawDone, SetStopping, WakeApp,
        DesktopStops
  <1>2. ASSUME LockFree, UNCHANGED app
        PROVE  /\ ShownPrevious = previous /\ ShownRaw = rawSeen /\ ShownPending = pending
               /\ ShownPrevious' = previous' /\ ShownRaw' = rawSeen' /\ ShownPending' = pending'
    <2>1. app # "consuming" /\ app' # "consuming"
      BY <1>2 DEF BridgeInv, LockWhereCopying, LockFree
    <2> QED
      BY <2>1, LatchOutside, LatchOutsideNext
  <1>3. ASSUME NEW S \in SUBSET Actions, InputEvent(S) PROVE Latch!Next
    <2>1. LockFree /\ UNCHANGED app
      BY <1>3 DEF InputEvent
    <2>2. S \ held \in SUBSET Actions /\ S \cap held \in SUBSET Actions
      OBVIOUS
    <2>3. Latch!Press(S \ held) \/ Latch!Release(S \cap held) \/ Latch!Click(S)
      BY <1>2, <1>3, <2>1
      DEF InputEvent, Press, Release, Click, Enqueue,
          Latch!Press, Latch!Release, Latch!Click, Latch!Enqueue
    <2> QED
      BY <2>2, <2>3 DEF Latch!Next, Latch!Event
  <1>4. ASSUME ResetInput \/ ExitGesture PROVE Latch!Next
    <2>1. LockFree /\ Reset /\ UNCHANGED app
      BY <1>4 DEF ResetInput, ExitGesture
    <2>2. Latch!Reset
      BY <1>2, <2>1 DEF Reset, NoTaps, Latch!Reset, Latch!NoTaps
    <2> QED
      BY <2>2 DEF Latch!Next
  <1> QED
    BY <1>1, <1>3, <1>4 DEF Ui, Input

LEMMA AppStepsLatch == BridgeInv /\ App => [Latch!Next]_(Latch!latchVars)
  <1> SUFFICES ASSUME BridgeInv, App PROVE [Latch!Next]_(Latch!latchVars)
    OBVIOUS
  <1>p. pending \in [Actions -> 0 .. Limit]
    BY DEF BridgeInv, BridgeTypeOK, TypeOK
  <1>1. CASE Execute \/ DelayGoesOn \/ DelayReturns \/ Sketch
    BY <1>1, LatchStutters
    DEF Execute, Top, After, Wait, DelayGoesOn, DelayReturns, Sketch, Draws, CallsDisplay,
        NextFrameDue, CallsExit, CallsDelay, SketchReturns
  <1>2. CASE Display \/ SetButtons
    BY <1>2, LatchStutters
    DEF Display, PublishLock, PublishCopy, PublishUnlock, ClearDrawing, RequestRedraw, SetButtons
  <1>3. CASE ConsumeLock
    <2>1. ShownPrevious = previous /\ ShownRaw = rawSeen /\ ShownPending = pending
      BY <1>3, LatchOutside DEF ConsumeLock
    <2>2. Frame' = Frame /\ Spent' = Spent /\ StillRaw' = StillRaw
      BY <1>3 DEF ConsumeLock, Frame, Spent, StillRaw
    <2>3. ShownPrevious' = Frame
      BY <1>3, <2>2 DEF ConsumeLock, ShownPrevious, Frame
    <2>4. ShownPending' = [a \in Actions |-> Spent[a]] /\ ShownRaw' = StillRaw
      BY <1>3, <2>2 DEF ConsumeLock, ShownPending, ShownRaw
    <2>5. ShownPending' = Spent
      BY <2>4 DEF Spent
    <2>6. Latch!Frame = Frame /\ Latch!Spent = Spent /\ Latch!StillRaw = StillRaw
      BY <2>1 DEF Latch!Frame, Frame, Latch!Spent, Spent, Latch!StillRaw, StillRaw
    <2>7. Latch!Consume
      BY <1>3, <2>3, <2>4, <2>5, <2>6 DEF Latch!Consume, ConsumeLock
    <2> QED
      BY <2>7 DEF Latch!Next
  <1>4. ASSUME NEW a \in Actions, ConsumeBit(a) PROVE UNCHANGED Latch!latchVars
    <2>1. /\ app = "consuming" /\ app' = "consuming"
          /\ a \in bitsLeft /\ bitsLeft' = bitsLeft \ {a}
          /\ UNCHANGED <<held, previous, rawSeen>>
      BY <1>4 DEF ConsumeBit
    <2>2. a \in result <=> a \in held
      BY <2>1 DEF BridgeInv, CopyInProgress
    <2>3. \A b \in Actions \ {a} : pending'[b] = pending[b] /\ (b \in result' <=> b \in result)
      BY <1>4, <1>p DEF ConsumeBit
    <2>4. a \in result' <=> a \in Frame
      BY <1>4, <2>2 DEF ConsumeBit, Frame
    <2>5. pending'[a] = Spent[a]
      BY <1>4, <1>p DEF ConsumeBit, Spent
    <2>6. \A b \in Actions \ {a} : (b \in Frame' <=> b \in Frame) /\ Spent'[b] = Spent[b]
      BY <2>1, <2>3 DEF Frame, Spent
    <2>7. ShownPrevious' = ShownPrevious
      BY <2>1, <2>3, <2>4, <2>6 DEF ShownPrevious
    <2>8. ShownPending' = ShownPending
      <3> DEFINE was(b) == IF b \in bitsLeft THEN Spent[b] ELSE pending[b]
                 is(b) == IF b \in bitsLeft' THEN Spent'[b] ELSE pending'[b]
      <3>1. \A b \in Actions : is(b) = was(b)
        BY <2>1, <2>3, <2>5, <2>6
      <3>2. ShownPending = [b \in Actions |-> was(b)] /\ ShownPending' = [b \in Actions |-> is(b)]
        BY <2>1 DEF ShownPending
      <3> HIDE DEF was, is
      <3> QED
        BY <3>1, <3>2
    <2>9. ShownRaw' = ShownRaw
      BY <2>1 DEF ShownRaw, StillRaw
    <2> QED
      BY <2>1, <2>7, <2>8, <2>9 DEF Latch!latchVars
  <1>5. CASE ConsumeUnlock
    <2>1. /\ app = "consuming" /\ bitsLeft = {} /\ previous' = result /\ rawSeen' = StillRaw
          /\ UNCHANGED <<held, pending>> /\ app' # "consuming"
      BY <1>5 DEF ConsumeUnlock
    <2>2. result \subseteq Actions
      BY DEF BridgeInv, BridgeTypeOK
    <2>3. ShownPrevious = result
      BY <2>1, <2>2 DEF ShownPrevious
    <2>4. ShownPending = pending
      <3>1. ShownPending = [a \in Actions |-> pending[a]]
        BY <2>1 DEF ShownPending
      <3> QED
        BY <3>1, <1>p
    <2>5. ShownRaw = StillRaw
      BY <2>1 DEF ShownRaw
    <2> QED
      BY <2>1, <2>3, <2>4, <2>5, LatchOutsideNext DEF Latch!latchVars
  <1> QED
    BY <1>1, <1>2, <1>3, <1>4, <1>5 DEF App, ConsumeInput

\* The runtime uses the latch as its author requires: one call at a time.  All that
\* is proved of InputLatch holds of the latch of a running sketch.
THEOREM BridgeImplementsLatch == BridgeSpec => BridgeSerializes
  <1>1. BridgeInit => Latch!Init
    <2>1. BridgeInit => app # "consuming"
      BY DEF BridgeInit
    <2> QED
      BY <2>1, LatchOutside DEF BridgeInit, Init, NoTaps, Latch!Init, Latch!NoTaps
  <1>2. BridgeInv /\ [BridgeNext]_bridgeVars => [Latch!Next]_(Latch!latchVars)
    <2>1. UNCHANGED bridgeVars => UNCHANGED Latch!latchVars
      BY LatchStutters
    <2> QED
      BY <2>1, UiStepsLatch, AppStepsLatch DEF BridgeNext
  <1> QED
    BY <1>1, <1>2, BridgeInvariance, PTL DEF BridgeSpec, BridgeSerializes, Latch!Spec

-----------------------------------------------------------------------------
(* The frames.                                                             *)

\* A step that leaves the buffers alone and enters or leaves no copy is a stutter.
LEMMA ChannelStutters ==
  ASSUME UNCHANGED <<drawing, submitted, visible, clear_after>>,
         UNCHANGED app \/ (app \notin {"publishing", "clear"} /\ app' \notin {"publishing", "clear"}),
         ui' = "copying" <=> ui = "copying"
  PROVE  UNCHANGED Channel!vars
  BY DEF NowDrawing, NowSubmitted, NowVisible, BlankFrame, Channel!vars

LEMMA UiStepsChannel == BridgeInv /\ (Ui \/ DesktopStops) => [Channel!Next]_(Channel!vars)
  <1> SUFFICES ASSUME BridgeInv, Ui \/ DesktopStops PROVE [Channel!Next]_(Channel!vars)
    OBVIOUS
  <1>1. CASE DrawBegin \/ DrawDone \/ Input \/ SetStopping \/ WakeApp \/ ResetInput \/ DesktopStops
    BY <1>1, ChannelStutters
    DEF DrawBegin, DrawDone, Input, InputEvent, ExitGesture, SetStopping, WakeApp, ResetInput,
        DesktopStops
  <1>2. CASE DrawLock
    <2>1. ui' = "copying" /\ UNCHANGED <<drawing, submitted, app, clear_after>>
      BY <1>2 DEF DrawLock
    <2>2. NowVisible' = NowSubmitted /\ UNCHANGED <<NowDrawing, NowSubmitted>>
      BY <2>1 DEF NowVisible, NowSubmitted, NowDrawing, BlankFrame
    <2> QED
      BY <2>2 DEF Channel!Next, Channel!Show
  <1>3. ASSUME NEW c \in Chunks, DrawCopy(c) PROVE UNCHANGED Channel!vars
    BY <1>3 DEF DrawCopy, NowDrawing, NowSubmitted, NowVisible, BlankFrame, Channel!vars
  <1>4. CASE DrawUnlock
    <2>1. app # "publishing" /\ ui = "copying" /\ uiLeft = {}
      BY <1>4 DEF DrawUnlock, BridgeInv, LockWhereCopying
    <2>2. visible = submitted
      <3>1. \A c \in Chunks : visible[c] = submitted[c]
        BY <2>1 DEF BridgeInv, CopyInProgress
      <3>2. visible \in [Chunks -> Images] /\ submitted \in [Chunks -> Images]
        BY DEF BridgeInv, BridgeTypeOK, Frames
      <3>3. visible = [c \in Chunks |-> visible[c]] /\ submitted = [c \in Chunks |-> submitted[c]]
        BY <3>2
      <3> QED
        BY <3>1, <3>3
    <2> QED
      BY <1>4, <2>1, <2>2
      DEF DrawUnlock, NowDrawing, NowSubmitted, NowVisible, BlankFrame, Channel!vars
  <1> QED
    BY <1>1, <1>2, <1>3, <1>4 DEF Ui, Draw

LEMMA AppStepsChannel == BridgeInv /\ App => [Channel!Next]_(Channel!vars)
  <1> SUFFICES ASSUME BridgeInv, App PROVE [Channel!Next]_(Channel!vars)
    OBVIOUS
  <1>1. CASE Execute \/ ConsumeInput \/ DelayGoesOn \/ DelayReturns
    BY <1>1, ChannelStutters
    DEF Execute, Top, After, Wait, ConsumeInput, ConsumeLock, ConsumeBit, ConsumeUnlock,
        SetButtons, DelayGoesOn, DelayReturns
  <1>2. CASE NextFrameDue \/ CallsExit \/ CallsDelay \/ SketchReturns \/ RequestRedraw
    BY <1>2, ChannelStutters
    DEF NextFrameDue, CallsExit, CallsDelay, SketchReturns, RequestRedraw
  <1>3. ASSUME NEW c \in Chunks, NEW i \in Images, Draws(c, i) PROVE Channel!Next
    <2>1. Channel!Draw(c, i)
      BY <1>3 DEF Draws, Channel!Draw, NowDrawing, NowSubmitted, NowVisible
    <2> QED
      BY <2>1 DEF Channel!Next
  <1>4. ASSUME NEW clear \in BOOLEAN, CallsDisplay(clear) PROVE UNCHANGED Channel!vars
    BY <1>4 DEF CallsDisplay, NowDrawing, NowSubmitted, NowVisible, Channel!vars
  <1>5. CASE PublishLock
    <2>1. ui # "copying"
      BY <1>5 DEF PublishLock, LockFree, BridgeInv, LockWhereCopying
    <2>2. clear_after \in BOOLEAN
      BY DEF BridgeInv, BridgeTypeOK
    <2>3. Channel!Display(clear_after)
      BY <1>5, <2>1
      DEF PublishLock, Channel!Display, Channel!Cleared, BlankFrame,
          NowDrawing, NowSubmitted, NowVisible
    <2> QED
      BY <2>2, <2>3 DEF Channel!Next
  <1>6. ASSUME NEW c \in Chunks, PublishCopy(c) PROVE UNCHANGED Channel!vars
    BY <1>6 DEF PublishCopy, BridgeInv, LockWhereCopying, NowDrawing, NowSubmitted, NowVisible,
                BlankFrame, Channel!vars
  <1>7. CASE PublishUnlock
    <2>1. ui # "copying"
      BY <1>7 DEF PublishUnlock, BridgeInv, LockWhereCopying
    <2>2. submitted = drawing
      <3>1. \A c \in Chunks : submitted[c] = drawing[c]
        BY <1>7 DEF PublishUnlock, BridgeInv, CopyInProgress
      <3>2. drawing \in [Chunks -> Images] /\ submitted \in [Chunks -> Images]
        BY DEF BridgeInv, BridgeTypeOK, Frames
      <3>3. drawing = [c \in Chunks |-> drawing[c]] /\ submitted = [c \in Chunks |-> submitted[c]]
        BY <3>2
      <3> QED
        BY <3>1, <3>3
    <2> QED
      BY <1>7, <2>1, <2>2
      DEF PublishUnlock, NowDrawing, NowSubmitted, NowVisible, BlankFrame, Channel!vars
  <1>8. CASE ClearDrawing
    BY <1>8 DEF ClearDrawing, NowDrawing, NowSubmitted, NowVisible, BlankFrame, Channel!vars
  <1> QED
    BY <1>1, <1>2, <1>3, <1>4, <1>5, <1>6, <1>7, <1>8 DEF App, Sketch, Display

\* Whole frames, in order: the copies and the lock keep the promise of display().
THEOREM BridgeImplementsChannel == BridgeSpec => ImplementsFrameChannel
  <1>1. BridgeInit => Channel!Init
    BY DEF BridgeInit, NowDrawing, NowSubmitted, NowVisible, BlankFrame, Channel!Init, Channel!Cleared
  <1>2. BridgeInv /\ [BridgeNext]_bridgeVars => [Channel!Next]_(Channel!vars)
    <2>1. UNCHANGED bridgeVars => UNCHANGED Channel!vars
      BY ChannelStutters
    <2> QED
      BY <2>1, UiStepsChannel, AppStepsChannel DEF BridgeNext
  <1> QED
    BY <1>1, <1>2, BridgeInvariance, PTL DEF BridgeSpec, ImplementsFrameChannel, Channel!Spec
=============================================================================

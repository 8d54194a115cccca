--------------------------- MODULE RuntimeBridge ---------------------------
(***************************************************************************)
(* The bridge between the two threads of a running sketch (src/runtime.cpp)*)
(* The application thread runs the sketch: it draws, publishes frames with *)
(* display(), consumes input, waits and delays.  The user interface thread *)
(* calls draw(), input() and reset_input() of the screen.  They share the  *)
(* input latch, the submitted frame, the stop flag and the exit semaphore. *)
(* A copy under bridge_lock is made chunk by chunk, and consume() reads    *)
(* the latch bit by bit; the other critical sections are one step, taken   *)
(* when the lock is free.                                                  *)
(***************************************************************************)
EXTENDS InputLatch

CONSTANTS Chunks,      \* the parts of a frame a copy moves one at a time
          Images,      \* what a part of a frame may show
          Blank,       \* what memset(0) leaves in it
          ExitMask,    \* sketch->exit_action_mask; short presses of its actions
                       \* matter only if they are among Actions
          FrameGated,  \* sketch->frame_gated: the sketch calls nextFrame()
          Managed      \* built with MESHBUS_ARDUBOY_MANAGED_STOP

ASSUME BridgeAssumption ==
  Blank \in Images /\ FrameGated \in BOOLEAN /\ Managed \in BOOLEAN

VARIABLES bridge_lock,   \* holder of the binary semaphore: "none", "ui" or "app"
          stopping,      \* app->stopping
          exit_sem,      \* count of runtime.exit_sem, at most 1
          desktop_stop,  \* mbs_desktop_app_stop_requested()
          redraw,        \* the user interface has been asked to draw the screen
          drawing, submitted, visible,
          ui,            \* where the user interface thread is
          uiLeft,        \* chunks of its copy still to make
          app,           \* where the application thread is
          started,       \* setup() has returned
          clear_after,   \* the argument of the display() in progress
          chunksLeft,    \* chunks of the publication still to copy
          bitsLeft,      \* actions consume() has still to look at
          result,        \* what consume() has found so far
          buttons        \* app->buttons

sharedVars == <<bridge_lock, stopping, exit_sem, desktop_stop, redraw, submitted>>
uiVars     == <<ui, uiLeft, visible>>
appVars    == <<app, started, drawing, clear_after, chunksLeft, bitsLeft, result, buttons>>
bridgeVars == <<latchVars, sharedVars, uiVars, appVars>>

BlankFrame == [c \in Chunks |-> Blank]
Frames == [Chunks -> Images]

AppAt == {"top", "consume", "consuming", "buttons", "sketch", "publish", "publishing",
          "clear", "redraw", "delay", "after", "waiting", "done"}
UiAt  == {"idle", "draw", "copying", "driver", "stop", "wake"}

BridgeTypeOK ==
  /\ TypeOK
  /\ bridge_lock \in {"none", "ui", "app"}
  /\ stopping \in BOOLEAN /\ desktop_stop \in BOOLEAN /\ redraw \in BOOLEAN
  /\ exit_sem \in {0, 1}
  /\ drawing \in Frames /\ submitted \in Frames /\ visible \in Frames
  /\ ui \in UiAt /\ app \in AppAt
  /\ uiLeft \subseteq Chunks /\ chunksLeft \subseteq Chunks
  /\ started \in BOOLEAN /\ clear_after \in BOOLEAN
  /\ bitsLeft \subseteq Actions /\ result \subseteq Actions /\ buttons \subseteq Actions

\* run() has attached the screen and calls setup() on the application thread.
BridgeInit ==
  /\ Init
  /\ bridge_lock = "none"
  /\ stopping = FALSE /\ desktop_stop = FALSE /\ redraw = TRUE
  /\ exit_sem = 0
  /\ drawing = BlankFrame /\ submitted = BlankFrame /\ visible = BlankFrame
  /\ ui = "idle" /\ uiLeft = {}
  /\ app = "sketch" /\ started = FALSE /\ clear_after = FALSE
  /\ chunksLeft = {} /\ bitsLeft = {} /\ result = {} /\ buttons = {}

-----------------------------------------------------------------------------
(* Shared operations.                                                      *)

\* mutant: exit_requested() knows only the stop of the desktop
OnlyDesktopStop == desktop_stop

ExitRequested == stopping \/ desktop_stop

\* mutant: Guard takes no semaphore
NoLock == TRUE

LockFree == bridge_lock = "none"

\* k_sem_give() on a semaphore whose limit is 1
Give == exit_sem' = 1

-----------------------------------------------------------------------------
(* The user interface thread.  The host calls one callback at a time.      *)

\* zui redraws the screen when asked to, or on its own.
DrawBegin ==
  /\ ui = "idle"
  /\ ui' = "draw"
  /\ redraw' = FALSE
  /\ UNCHANGED <<latchVars, bridge_lock, stopping, exit_sem, desktop_stop, submitted,
                 uiLeft, visible, appVars>>

DrawLock ==
  /\ ui = "draw"
  /\ LockFree
  /\ bridge_lock' = "ui"
  /\ ui' = "copying"
  /\ uiLeft' = Chunks
  /\ UNCHANGED <<latchVars, stopping, exit_sem, desktop_stop, redraw, submitted,
                 visible, appVars>>

\* memcpy(visible, submitted)
DrawCopy(c) ==
  /\ ui = "copying"
  /\ c \in uiLeft
  /\ visible' = [visible EXCEPT ![c] = submitted[c]]
  /\ uiLeft' = uiLeft \ {c}
  /\ UNCHANGED <<latchVars, sharedVars, ui, appVars>>

DrawUnlock ==
  /\ ui = "copying"
  /\ uiLeft = {}
  /\ bridge_lock' = "none"
  /\ ui' = "driver"
  /\ UNCHANGED <<latchVars, stopping, exit_sem, desktop_stop, redraw, submitted,
                 uiLeft, visible, appVars>>

\* zui_draw_framebuffer() returns.
DrawDone ==
  /\ ui = "driver"
  /\ ui' = "idle"
  /\ UNCHANGED <<latchVars, sharedVars, uiLeft, visible, appVars>>

\* input(): a PRESS, RELEASE or CLICK of a mask, reduced by zui to its edges.
InputEvent(S) ==
  /\ ui = "idle"
  /\ LockFree
  /\ Press(S \ held) \/ Release(S \cap held) \/ Click(S)
  /\ UNCHANGED <<sharedVars, uiVars, appVars>>

\* input(): a LONG_PRESS of an action of the exit mask; the others change nothing.
ExitGesture ==
  /\ ui = "idle"
  /\ LockFree
  /\ ExitMask # {}
  /\ Reset
  /\ ui' = "stop"
  /\ UNCHANGED <<sharedVars, uiLeft, visible, appVars>>

SetStopping ==
  /\ ui = "stop"
  /\ stopping' = TRUE
  /\ ui' = "wake"
  /\ UNCHANGED <<latchVars, bridge_lock, exit_sem, desktop_stop, redraw, submitted,
                 uiLeft, visible, appVars>>

WakeApp ==
  /\ ui = "wake"
  /\ Give
  /\ ui' = "idle"
  /\ UNCHANGED <<latchVars, bridge_lock, stopping, desktop_stop, redraw, submitted,
                 uiLeft, visible, appVars>>

\* reset_input(): the screen is entered or left.
ResetInput ==
  /\ ui = "idle"
  /\ LockFree
  /\ Reset
  /\ UNCHANGED <<sharedVars, uiVars, appVars>>

\* The desktop asks a managed application to stop; nothing wakes its thread.
DesktopStops ==
  /\ Managed
  /\ desktop_stop' = TRUE
  /\ UNCHANGED <<latchVars, bridge_lock, stopping, exit_sem, redraw, submitted,
                 uiVars, appVars>>

-----------------------------------------------------------------------------
(* The application thread.  First execute(), the loop around the sketch.   *)

Top ==
  /\ app = "top"
  /\ app' = IF ExitRequested THEN "done" ELSE IF FrameGated THEN "sketch" ELSE "consume"
  /\ UNCHANGED <<latchVars, sharedVars, uiVars, started, drawing, clear_after,
                 chunksLeft, bitsLeft, result, buttons>>

After ==
  /\ app = "after"
  /\ app' = IF ExitRequested THEN "done" ELSE "waiting"
  /\ UNCHANGED <<latchVars, sharedVars, uiVars, started, drawing, clear_after,
                 chunksLeft, bitsLeft, result, buttons>>

\* k_sem_take() of the exit semaphore succeeds, or times out.
TakeExit ==
  /\ exit_sem = 1
  /\ exit_sem' = 0
  /\ stopping' = TRUE

TimeOut == exit_sem = 0 /\ UNCHANGED <<exit_sem, stopping>>

Wait ==
  /\ app = "waiting"
  /\ TakeExit \/ TimeOut
  /\ app' = "top"
  /\ UNCHANGED <<latchVars, bridge_lock, desktop_stop, redraw, submitted, uiVars,
                 started, drawing, clear_after, chunksLeft, bitsLeft, result, buttons>>

\* consume_input(), called by execute() or by nextFrame()
ConsumeLock ==
  /\ app = "consume"
  /\ LockFree
  /\ bridge_lock' = "app"
  /\ app' = "consuming"
  /\ bitsLeft' = Actions
  /\ result' = held
  /\ UNCHANGED <<latchVars, stopping, exit_sem, desktop_stop, redraw, submitted, uiVars,
                 started, drawing, clear_after, chunksLeft, buttons>>

ConsumeBit(a) ==
  /\ app = "consuming"
  /\ a \in bitsLeft
  /\ bitsLeft' = bitsLeft \ {a}
  /\ \/ /\ pending[a] = 0
        /\ UNCHANGED <<result, pending>>
     \/ /\ pending[a] # 0 /\ a \in previous
        /\ result' = result \ {a}
        /\ UNCHANGED pending
     \/ /\ pending[a] # 0 /\ a \notin previous
        /\ result' = result \cup {a}
        /\ pending' = [pending EXCEPT ![a] = @ - 1]
  /\ UNCHANGED <<held, previous, rawSeen, sharedVars, uiVars, app, started, drawing,
                 clear_after, chunksLeft, buttons>>

ConsumeUnlock ==
  /\ app = "consuming"
  /\ bitsLeft = {}
  /\ previous' = result
  /\ rawSeen' = StillRaw
  /\ bridge_lock' = "none"
  /\ app' = "buttons"
  /\ UNCHANGED <<held, pending, stopping, exit_sem, desktop_stop, redraw, submitted, uiVars,
                 started, drawing, clear_after, chunksLeft, bitsLeft, result, buttons>>

SetButtons ==
  /\ app = "buttons"
  /\ buttons' = result
  /\ app' = "sketch"
  /\ UNCHANGED <<latchVars, sharedVars, uiVars, started, drawing, clear_after,
                 chunksLeft, bitsLeft, result>>

-----------------------------------------------------------------------------
(* What setup() and loop() of the sketch may call.                         *)

Draws(c, i) ==
  /\ app = "sketch"
  /\ drawing' = [drawing EXCEPT ![c] = i]
  /\ UNCHANGED <<latchVars, sharedVars, uiVars, app, started, clear_after, chunksLeft,
                 bitsLeft, result, buttons>>

\* nextFrame() when the clock says a frame is due; otherwise nothing changes.
NextFrameDue ==
  /\ app = "sketch"
  /\ FrameGated
  /\ ~ExitRequested
  /\ app' = "consume"
  /\ UNCHANGED <<latchVars, sharedVars, uiVars, started, drawing, clear_after,
                 chunksLeft, bitsLeft, result, buttons>>

CallsExit ==
  /\ app = "sketch"
  /\ stopping' = TRUE
  /\ Give
  /\ UNCHANGED <<latchVars, bridge_lock, desktop_stop, redraw, submitted, uiVars, appVars>>

CallsDelay ==
  /\ app = "sketch"
  /\ app' = "delay"
  /\ UNCHANGED <<latchVars, sharedVars, uiVars, started, drawing, clear_after,
                 chunksLeft, bitsLeft, result, buttons>>

\* delay(): a chunk of the wait times out and some time is left.
DelayGoesOn ==
  /\ app = "delay"
  /\ ~ExitRequested
  /\ TimeOut
  /\ UNCHANGED bridgeVars

\* delay(): a stop was requested, the exit semaphore ended it, or time is up.
DelayReturns ==
  /\ app = "delay"
  /\ (ExitRequested /\ UNCHANGED <<exit_sem, stopping>>) \/ (~ExitRequested /\ (TakeExit \/ TimeOut))
  /\ app' = "sketch"
  /\ UNCHANGED <<latchVars, bridge_lock, desktop_stop, redraw, submitted, uiVars,
                 started, drawing, clear_after, chunksLeft, bitsLeft, result, buttons>>

\* setup() or loop() returns.
SketchReturns ==
  /\ app = "sketch"
  /\ started' = TRUE
  /\ app' = IF started THEN "after" ELSE "top"
  /\ UNCHANGED <<latchVars, sharedVars, uiVars, drawing, clear_after, chunksLeft,
                 bitsLeft, result, buttons>>

-----------------------------------------------------------------------------
(* display(clear)                                                          *)

CallsDisplay(clear) ==
  /\ app = "sketch"
  /\ clear_after' = clear
  /\ app' = "publish"
  /\ UNCHANGED <<latchVars, sharedVars, uiVars, started, drawing, chunksLeft, bitsLeft,
                 result, buttons>>

PublishLock ==
  /\ app = "publish"
  /\ LockFree
  /\ bridge_lock' = "app"
  /\ app' = "publishing"
  /\ chunksLeft' = Chunks
  /\ UNCHANGED <<latchVars, stopping, exit_sem, desktop_stop, redraw, submitted, uiVars,
                 started, drawing, clear_after, bitsLeft, result, buttons>>

\* memcpy(submitted, drawing)
PublishCopy(c) ==
  /\ app = "publishing"
  /\ c \in chunksLeft
  /\ submitted' = [submitted EXCEPT ![c] = drawing[c]]
  /\ chunksLeft' = chunksLeft \ {c}
  /\ UNCHANGED <<latchVars, bridge_lock, stopping, exit_sem, desktop_stop, redraw, uiVars,
                 app, started, drawing, clear_after, bitsLeft, result, buttons>>

PublishUnlock ==
  /\ app = "publishing"
  /\ chunksLeft = {}
  /\ bridge_lock' = "none"
  /\ app' = "clear"
  /\ UNCHANGED <<latchVars, stopping, exit_sem, desktop_stop, redraw, submitted, uiVars,
                 started, drawing, clear_after, chunksLeft, bitsLeft, result, buttons>>

\* mutant: display(true) also clears what was submitted
ClearsSubmitted ==
  /\ app = "clear"
  /\ drawing' = IF clear_after THEN BlankFrame ELSE drawing
  /\ submitted' = IF clear_after THEN BlankFrame ELSE submitted
  /\ app' = "redraw"
  /\ UNCHANGED <<latchVars, bridge_lock, stopping, exit_sem, desktop_stop, redraw, uiVars,
                 started, clear_after, chunksLeft, bitsLeft, result, buttons>>

ClearDrawing ==
  /\ app = "clear"
  /\ drawing' = IF clear_after THEN BlankFrame ELSE drawing
  /\ app' = "redraw"
  /\ UNCHANGED <<latchVars, sharedVars, uiVars, started, clear_after, chunksLeft,
                 bitsLeft, result, buttons>>

\* mutant: only display(true) asks for a redraw
AsksWhenCleared ==
  /\ app = "redraw"
  /\ redraw' = (redraw \/ clear_after)
  /\ app' = "sketch"
  /\ UNCHANGED <<latchVars, bridge_lock, stopping, exit_sem, desktop_stop, submitted, uiVars,
                 started, drawing, clear_after, chunksLeft, bitsLeft, result, buttons>>

\* zui_screen_request_redraw()
RequestRedraw ==
  /\ app = "redraw"
  /\ redraw' = TRUE
  /\ app' = "sketch"
  /\ UNCHANGED <<latchVars, bridge_lock, stopping, exit_sem, desktop_stop, submitted, uiVars,
                 started, drawing, clear_after, chunksLeft, bitsLeft, result, buttons>>

-----------------------------------------------------------------------------
Draw == DrawLock \/ (\E c \in Chunks : DrawCopy(c)) \/ DrawUnlock \/ DrawDone
Input == (\E S \in SUBSET Actions : InputEvent(S)) \/ ExitGesture
Ui == DrawBegin \/ Draw \/ Input \/ SetStopping \/ WakeApp \/ ResetInput

Execute == Top \/ After \/ Wait
ConsumeInput == ConsumeLock \/ (\E a \in Actions : ConsumeBit(a)) \/ ConsumeUnlock \/ SetButtons
Display == PublishLock \/ (\E c \in Chunks : PublishCopy(c)) \/ PublishUnlock
             \/ ClearDrawing \/ RequestRedraw
Sketch == \/ \E c \in Chunks, i \in Images : Draws(c, i)
          \/ \E clear \in BOOLEAN : CallsDisplay(clear)
          \/ NextFrameDue \/ CallsExit \/ CallsDelay \/ SketchReturns
App == Execute \/ ConsumeInput \/ Sketch \/ Display \/ DelayGoesOn \/ DelayReturns

BridgeNext == Ui \/ App \/ DesktopStops

BridgeSpec == BridgeInit /\ [][BridgeNext]_bridgeVars

(* Both threads are scheduled.  The host draws a screen that asked for it  *)
(* however many events there are, and a thread that waits for the lock     *)
(* gets it: k_sem_give() hands it over.                                    *)
(* The sketch is only trusted to return from its callback in the end.      *)
Fairness ==
  /\ SF_bridgeVars(redraw /\ DrawBegin) /\ SF_bridgeVars(DrawLock)
  /\ WF_bridgeVars(Draw \/ SetStopping \/ WakeApp)
  /\ WF_bridgeVars(Execute) /\ WF_bridgeVars(DelayReturns) /\ SF_bridgeVars(SketchReturns)
  /\ WF_bridgeVars(ConsumeInput \/ Display)
  /\ SF_bridgeVars(ConsumeLock) /\ SF_bridgeVars(PublishLock)

FairBridge == BridgeSpec /\ Fairness

-----------------------------------------------------------------------------
\* docs/runtime.md: "No state lock spans the display driver, filesystem I/O or
\* sleep."  Each thread holds the lock in its critical section and nowhere else.
LockWhereCopying ==
  /\ bridge_lock = "ui" <=> ui = "copying"
  /\ bridge_lock = "app" <=> app \in {"publishing", "consuming"}

\* What a thread has copied so far under the lock is what it is copying from, and
\* the bits consume() has still to look at are as it found them: nobody changes
\* what a critical section in progress reads or writes.
CopyInProgress ==
  /\ app = "publishing" => \A c \in Chunks \ chunksLeft : submitted[c] = drawing[c]
  /\ ui = "copying" => \A c \in Chunks \ uiLeft : visible[c] = submitted[c]
  /\ app = "consuming" => \A a \in bitsLeft : a \in result <=> a \in held

BridgeInv == BridgeTypeOK /\ LockWhereCopying /\ CopyInProgress

\* The exit gesture and the game's own request end the game loop: whatever the
\* sketch is doing or waiting for, it is not called again for ever.
ExitIsNoticed == (ui = "stop" \/ ExitRequested) ~> app = "done"

-----------------------------------------------------------------------------
(* The bridge serializes the latch: consume() takes effect when it takes   *)
(* the lock, so while it runs the latch is what it will leave behind.      *)
ShownPrevious ==
  IF app = "consuming" THEN {a \in Actions : IF a \in bitsLeft THEN a \in Frame ELSE a \in result}
                       ELSE previous
ShownRaw == IF app = "consuming" THEN StillRaw ELSE rawSeen
ShownPending ==
  IF app = "consuming" THEN [a \in Actions |-> IF a \in bitsLeft THEN Spent[a] ELSE pending[a]]
                       ELSE pending

Latch == INSTANCE InputLatch
           WITH previous <- ShownPrevious, rawSeen <- ShownRaw, pending <- ShownPending

\* What the two threads do to the latch, one bit at a time and under the lock, is
\* what InputLatch does in single steps: its guarantees hold in the runtime.
BridgeSerializes == Latch!Spec

(* A frame is submitted, or shown, when its copy takes the lock.           *)
NowDrawing ==
  IF app \in {"publishing", "clear"} /\ clear_after THEN BlankFrame ELSE drawing
NowSubmitted == IF app = "publishing" THEN drawing ELSE submitted
NowVisible == IF ui = "copying" THEN NowSubmitted ELSE visible

Channel == INSTANCE FrameChannel
             WITH drawing <- NowDrawing, sent <- NowSubmitted, shown <- NowVisible

\* The two copies and the lock implement the promise of display(): whole images
\* in order, unaffected by later drawing and by the clearing of the buffer.
ImplementsFrameChannel == Channel!Spec

\* ... and the last image submitted gets to the screen.
LastFrameIsShown == Channel!FairSpec
=============================================================================

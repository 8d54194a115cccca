--------------------------- MODULE CallbackRunner ---------------------------
(***************************************************************************)
(* run() of include/meshbus_arduboy/llext_game.hpp without an executor:    *)
(* the sketch's tick() runs on the user interface thread, between its      *)
(* input events, while the application thread waits for the exit and       *)
(* flushes the EEPROM every 250 ms.  Only setup() and teardown() run on    *)
(* the application thread, before the screen is attached and after it is   *)
(* detached.                                                               *)
(*                                                                         *)
(* The sketch keeps one item in the EEPROM with the helpers of             *)
(* avr/eeprom.h: a word or a double word goes through the C API byte by    *)
(* byte, each byte under the lock of the mirror, a block at once.  A flush *)
(* may fall between two bytes.  EepromSave has the steps of a flush inside *)
(* the mirror and the file system; here it is a snapshot, a commit and its *)
(* acknowledgement.  last, stored and cut are history.                     *)
(***************************************************************************)
EXTENDS InputGestures

CONSTANTS Byte,      \* values of an EEPROM byte
          Size,      \* bytes of the item: 2 for a word, 4 for a double word
          Items,     \* the values of the item a sketch stores; erased is one
          Blank,     \* the item of an erased EEPROM
          NoImage,   \* no snapshot
          ExitMask,  \* exit_action_mask
          Burst,     \* the most ticks one event of the screen stands for
          MaxDelay   \* the longest row of periodic flushes skipped: 8 in the code

Image == [1 .. Size -> Byte]

ASSUME RunnerAssumption ==
  /\ Size \in Nat \ {0} /\ Burst \in Nat \ {0} /\ MaxDelay \in Nat \ {0}
  /\ Items \subseteq Image /\ Blank \in Items
  /\ NoImage \notin Image

VARIABLES mirror, dirty,  \* the EepromFile: its bytes, dirty_,
          moved,          \* generation_ # generation, for the flush in progress
          shot,           \* the snapshot that flush commits
          saved,          \* the committed save
          enabled,        \* eeprom_enabled, and the EEPROM is attached
          retry_skip, retry_delay,
          app,            \* where the application thread is
          attached,       \* router_attached
          exit_sem,
          ui, ticks,      \* the user interface thread; ticks of its event left
          down, pressed,  \* runtime.actions: down and its rising edges
          item, at,       \* the item being stored and its next byte, 0 if none
          last,           \* the item the sketch stored or loaded last
          cut             \* the last session ended without its last flush

inputVars  == <<vars, down, pressed>>
mirrorVars == <<mirror, dirty, moved>>
retryVars  == <<retry_skip, retry_delay>>
flushVars  == <<shot, saved, retryVars>>
threadVars == <<app, attached, exit_sem, ui, ticks>>
storeVars  == <<item, at, last>>
runnerVars == <<inputVars, mirrorVars, flushVars, enabled, threadVars, storeVars, cut>>

AppAt == {"off", "setup", "attach", "wait", "flush", "commit", "ack", "out", "teardown"}
UiAt  == {"idle", "event", "tick"}

RunnerTypeOK ==
  /\ mirror \in Image /\ dirty \in BOOLEAN /\ moved \in BOOLEAN
  /\ shot \in Image \cup {NoImage} /\ saved \in Image
  /\ enabled \in BOOLEAN
  /\ retry_delay \in 0 .. MaxDelay /\ retry_skip \in 0 .. retry_delay
  /\ app \in AppAt /\ attached \in BOOLEAN /\ exit_sem \in {0, 1}
  /\ ui \in UiAt /\ ticks \in 0 .. Burst
  /\ down \subseteq Actions /\ pressed \subseteq Actions
  /\ item \in Items /\ at \in 0 .. Size /\ last \in Image
  /\ cut \in BOOLEAN

RunnerInit ==
  /\ GestureInit
  /\ mirror = Blank /\ dirty = FALSE /\ moved = FALSE
  /\ shot = NoImage /\ saved = Blank /\ enabled = FALSE
  /\ retry_skip = 0 /\ retry_delay = 0
  /\ app = "off" /\ attached = FALSE /\ exit_sem = 0
  /\ ui = "idle" /\ ticks = 0 /\ down = {} /\ pressed = {}
  /\ item = Blank /\ at = 0 /\ last = Blank /\ cut = FALSE

-----------------------------------------------------------------------------
(* The sketch stores its item: in setup() or teardown() on the application *)
(* thread, in a tick on the other.  idle() runs beside the ticks and is    *)
(* trusted to leave the item alone.                                        *)

InSketch == app \in {"setup", "teardown"} \/ ui = "tick"

\* eeprom_write_word, eeprom_update_dword, ...: the first byte is next.
StoreBegins(v) ==
  /\ InSketch /\ enabled /\ at = 0
  /\ item' = v /\ at' = 1
  /\ UNCHANGED <<inputVars, mirrorVars, flushVars, enabled, threadVars, last, cut>>

\* mutant: a word marks the mirror once, with its first byte
MarksOnce(update) ==
  IF at # 1 \/ (update /\ mirror[at] = item[at]) THEN UNCHANGED <<dirty, moved>>
  ELSE dirty' = TRUE /\ moved' = (shot # NoImage)

\* EepromFile::write marks the mirror whatever it held, update only for a new value.
Marks(update) ==
  IF update /\ mirror[at] = item[at] THEN UNCHANGED <<dirty, moved>>
  ELSE dirty' = TRUE /\ moved' = (shot # NoImage)

\* One call of meshbus_arduboy_eeprom_write or _update, under the lock of the mirror.
StoreByte(update) ==
  /\ at # 0
  /\ mirror' = [mirror EXCEPT ![at] = item[at]]
  /\ Marks(update)
  /\ IF at = Size THEN at' = 0 /\ item' = Blank /\ last' = item
     ELSE at' = at + 1 /\ UNCHANGED <<item, last>>
  /\ UNCHANGED <<inputVars, flushVars, enabled, threadVars, cut>>

\* EEPROM.put, eeprom_write_block, eeprom_update_block: all bytes under the lock.
PutItem(v) ==
  /\ InSketch /\ enabled /\ at = 0
  /\ v # mirror
  /\ mirror' = v /\ last' = v
  /\ dirty' = TRUE /\ moved' = (shot # NoImage)
  /\ UNCHANGED <<inputVars, flushVars, enabled, threadVars, item, at, cut>>

-----------------------------------------------------------------------------
(* run(), up to the loop that waits for the exit.                          *)

\* The latch, runtime.actions and the semaphore are reset; runtime.actions lives in
\* the caller's App, and so do the two retry counters, which nobody resets.  The
\* save is loaded and attached, or there is none, or it cannot be read.
Start ==
  /\ app = "off"
  /\ Cleared /\ down' = {} /\ pressed' = {}
  /\ exit_sem' = 0
  /\ enabled' \in BOOLEAN
  /\ app' \in IF enabled' THEN {"setup"} ELSE {"setup", "out"}
  /\ mirror' = IF enabled' THEN saved ELSE Blank
  /\ last' = saved /\ cut' = FALSE
  /\ UNCHANGED <<dirty, moved, flushVars, attached, ui, ticks, item, at>>

SetupReturns ==
  /\ app = "setup" /\ at = 0
  /\ app' = "attach"
  /\ UNCHANGED <<inputVars, mirrorVars, flushVars, enabled, attached, exit_sem, ui, ticks,
                 storeVars, cut>>

\* Router, screen, tick period, registration, switch and attach; any may fail.
Attach ==
  /\ app = "attach"
  /\ (attached' = TRUE /\ app' = "wait") \/ (attached' = FALSE /\ app' = "out")
  /\ UNCHANGED <<inputVars, mirrorVars, flushVars, enabled, exit_sem, ui, ticks, storeVars, cut>>

-----------------------------------------------------------------------------
(* The callbacks of the screen, one after the other on the user interface  *)
(* thread.                                                                 *)

Callback == attached /\ ui = "idle"

restOfInput == <<mirrorVars, flushVars, enabled, app, attached, ui, ticks, storeVars, cut>>

\* input(): the latch takes the event.
LatchInput ==
  /\ Callback
  /\ \E S \in SUBSET Actions : FingerDown(S) \/ FingerUp(S) \/ Clicked(S)
  /\ UNCHANGED <<down, pressed, exit_sem, restOfInput>>

\* input(): a long press of the exit action.
ExitGesture ==
  /\ Callback /\ ExitMask # {}
  /\ Cleared /\ down' = {} /\ pressed' = {}
  /\ exit_sem' = 1
  /\ UNCHANGED restOfInput

\* mutant: the latch is reset alone, runtime.actions is not
SwitchesLatchOnly ==
  /\ Callback
  /\ Cleared
  /\ UNCHANGED <<down, pressed, exit_sem, restOfInput>>

\* enter() and leave()
ScreenSwitch ==
  /\ Callback
  /\ Cleared /\ down' = {} /\ pressed' = {}
  /\ UNCHANGED <<exit_sem, restOfInput>>

\* event(): the screen reports that n tick periods have passed.
TickEvent(n) ==
  /\ Callback
  /\ ui' = "event" /\ ticks' = n
  /\ UNCHANGED <<inputVars, mirrorVars, flushVars, enabled, app, attached, exit_sem, storeVars, cut>>

\* One turn of event()'s loop, up to the call of the sketch's tick().
BeginTick ==
  /\ ui = "event"
  /\ NextFrame
  /\ down' = previous'
  /\ pressed' = down' \ down
  /\ ui' = "tick"
  /\ UNCHANGED <<mirrorVars, flushVars, enabled, app, attached, exit_sem, ticks, storeVars, cut>>

\* tick() returns and the edges are cleared.
EndTick ==
  /\ ui = "tick" /\ at = 0
  /\ pressed' = {}
  /\ ticks' = ticks - 1
  /\ ui' = IF ticks = 1 THEN "idle" ELSE "event"
  /\ UNCHANGED <<vars, down, mirrorVars, flushVars, enabled, app, attached, exit_sem, storeVars, cut>>

-----------------------------------------------------------------------------
(* The application thread: the wait for the exit, flush_eeprom() after     *)
(* every 250 ms of it, and a forced flush at the end.                      *)

WaitTimesOut ==
  /\ app = "wait" /\ exit_sem = 0 /\ enabled
  /\ app' = "flush"
  /\ UNCHANGED <<inputVars, mirrorVars, flushVars, enabled, attached, exit_sem, ui, ticks,
                 storeVars, cut>>

ExitTaken ==
  /\ app = "wait" /\ exit_sem = 1
  /\ exit_sem' = 0 /\ app' = "out"
  /\ UNCHANGED <<inputVars, mirrorVars, flushVars, enabled, attached, ui, ticks, storeVars, cut>>

\* The router is attached during the periodic flushes only: the last one is forced.
Due == app = "flush" /\ (attached => retry_skip = 0)

Backoff == IF retry_delay = 0 THEN 1
           ELSE IF 2 * retry_delay < MaxDelay THEN 2 * retry_delay ELSE MaxDelay

\* Back to the wait, or out of the session: the mirror is detached and given up.
FlushReturns(works, stillDirty) ==
  /\ retry_delay' = IF works THEN 0 ELSE Backoff
  /\ retry_skip' = retry_delay'
  /\ shot' = NoImage /\ moved' = FALSE
  /\ IF attached
     THEN /\ app' = "wait" /\ dirty' = stillDirty
          /\ UNCHANGED <<mirror, enabled, cut>>
     ELSE /\ app' = "off" /\ dirty' = FALSE
          /\ mirror' = Blank /\ enabled' = FALSE /\ cut' = ~works
  /\ UNCHANGED <<inputVars, attached, exit_sem, ui, ticks, storeVars>>

FlushSkipped ==
  /\ app = "flush" /\ attached /\ retry_skip # 0
  /\ retry_skip' = retry_skip - 1
  /\ app' = "wait"
  /\ UNCHANGED <<inputVars, mirrorVars, shot, saved, retry_delay, enabled, attached, exit_sem,
                 ui, ticks, storeVars, cut>>

FlushClean == Due /\ ~dirty /\ FlushReturns(TRUE, FALSE) /\ UNCHANGED saved

\* The snapshot and its generation are taken under the lock of the mirror.
FlushStarts ==
  /\ Due /\ dirty
  /\ shot' = mirror /\ moved' = FALSE
  /\ app' = "commit"
  /\ UNCHANGED <<inputVars, mirror, dirty, saved, retryVars, enabled, attached, exit_sem,
                 ui, ticks, storeVars, cut>>

\* The scratch lease is taken, or the store cannot be written; the old save stays.
FlushFails ==
  /\ (Due /\ dirty) \/ app = "commit"
  /\ FlushReturns(FALSE, dirty)
  /\ UNCHANGED saved

Commit ==
  /\ app = "commit"
  /\ saved' = shot
  /\ app' = "ack"
  /\ UNCHANGED <<inputVars, mirrorVars, shot, retryVars, enabled, attached, exit_sem,
                 ui, ticks, storeVars, cut>>

\* dirty_ = generation_ != generation, under the lock again.
Acknowledge == app = "ack" /\ FlushReturns(TRUE, moved) /\ UNCHANGED saved

-----------------------------------------------------------------------------
(* The label out.                                                          *)

\* cleanup(): zui_host_detach_router() returns when no callback is running.
Detach ==
  /\ app = "out" /\ ui = "idle"
  /\ attached' = FALSE
  /\ app' = "teardown"
  /\ UNCHANGED <<inputVars, mirrorVars, flushVars, enabled, exit_sem, ui, ticks, storeVars, cut>>

\* The sketch's teardown() returns; teardown_eeprom() is next.
TeardownReturns ==
  /\ app = "teardown" /\ at = 0
  /\ app' = IF enabled THEN "flush" ELSE "off"
  /\ UNCHANGED <<inputVars, mirrorVars, flushVars, enabled, attached, exit_sem, ui, ticks,
                 storeVars, cut>>

\* The power fails: only the save is left.
PowerLoss ==
  /\ app # "off"
  /\ Cleared /\ down' = {} /\ pressed' = {}
  /\ mirror' = Blank /\ dirty' = FALSE /\ moved' = FALSE /\ shot' = NoImage
  /\ retry_skip' = 0 /\ retry_delay' = 0
  /\ enabled' = FALSE /\ app' = "off" /\ attached' = FALSE /\ exit_sem' = 0
  /\ ui' = "idle" /\ ticks' = 0 /\ at' = 0 /\ item' = Blank /\ cut' = TRUE
  /\ UNCHANGED <<saved, last>>

-----------------------------------------------------------------------------
Store    == (\E v \in Items : StoreBegins(v) \/ PutItem(v)) \/ \E update \in BOOLEAN : StoreByte(update)
Screen   == LatchInput \/ ExitGesture \/ ScreenSwitch \/ \E n \in 1 .. Burst : TickEvent(n)
Tick     == BeginTick \/ EndTick
Flush    == FlushSkipped \/ FlushClean \/ FlushStarts \/ FlushFails \/ Commit \/ Acknowledge
RunsApp  == SetupReturns \/ Attach \/ WaitTimesOut \/ ExitTaken \/ Flush \/ Detach \/ TeardownReturns

RunnerNext == Start \/ RunsApp \/ Screen \/ Tick \/ Store \/ PowerLoss

RunnerSpec == RunnerInit /\ [][RunnerNext]_runnerVars

\* The screen ticks, the sketch's tick goes on with a store and returns.
FairRunner ==
  /\ RunnerSpec
  /\ WF_runnerVars(\E n \in 1 .. Burst : TickEvent(n))
  /\ WF_runnerVars(BeginTick) /\ SF_runnerVars(EndTick)
  /\ WF_runnerVars(\E update \in BOOLEAN : StoreByte(update))

-----------------------------------------------------------------------------
\* A save that is behind the item the sketch stored last is marked to be written,
\* whatever part of a word a flush caught: a commit between two bytes stores a torn
\* item, and the bytes stored during it mark the mirror again.
BehindIsDirty == enabled /\ at = 0 /\ saved # last => dirty

\* Nothing runs in the sketch when the mirror is given up, and what the sketch
\* stored last, in its teardown() too, is the save unless the last flush failed.
SessionKeepsLastItem == app = "off" => at = 0 /\ ui = "idle" /\ (cut \/ saved = last)

\* Outside a store the mirror is the sketch's item.
MirrorIsLast == enabled /\ at = 0 => mirror = last

RunnerInv ==
  RunnerTypeOK /\ GestureInv /\ BehindIsDirty /\ SessionKeepsLastItem /\ MirrorIsLast

\* Every tick sees a press of a button exactly when it spends a tap of the latch:
\* runtime.actions and the latch keep one copy each of the last frame, and no entry,
\* exit or exit gesture may reset one without the other.
TicksSeeEveryTap ==
  [][BeginTick => \A a \in Actions : a \in pressed' <=> pending'[a] < pending[a]]_runnerVars

\* A tap that was accepted is shown to a tick while the screen stays attached.
TapsAreTicked ==
  \A a \in Actions : \A n \in 1 .. Limit : pending[a] = n ~> pending[a] # n \/ ~attached
=============================================================================

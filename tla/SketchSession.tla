--------------------------- MODULE SketchSession ---------------------------
(***************************************************************************)
(* One session of a sketch: run_sketch() and execute() of src/runtime.cpp  *)
(* around run(), cleanup() and the EEPROM helpers of                       *)
(* include/meshbus_arduboy/llext_game.hpp.  The application thread takes   *)
(* every resource in turn, any of which may fail, runs the sketch, and     *)
(* gives everything back; the user interface thread calls back into the    *)
(* session while its screen is attached.  A flush of the save is one step  *)
(* that works or fails (EepromSave has its steps), the other calls on the  *)
(* bridge are left to RuntimeBridge.                                       *)
(***************************************************************************)
EXTENDS Integers

CONSTANT MaxDelay   \* the longest row of periodic flushes skipped: 8 in the code

ASSUME DelayAssumption == MaxDelay \in Nat \ {0}

VARIABLES pc,          \* where the application thread is
          rc,          \* the result run_sketch() will return
          resources,   \* app.resources is open
          active,      \* the global context is bound to the session
          eeprom,      \* active_eeprom is the session's, and eeprom_enabled
          router, screen,      \* the ZUI objects that exist
          registered, attached,
          callback,    \* the user interface thread is in a callback of the screen
          stopping, exit_sem,
          tone,        \* the buzzer plays a tone of the sketch
          dirty,       \* the EEPROM mirror has unsaved bytes
          tried,       \* ... and a flush failed since the last of them was written
          ran,         \* the sketch's setup() was called
          retry_skip, retry_delay

zuiVars   == <<router, screen, registered, attached>>
stopVars  == <<stopping, exit_sem>>
saveVars  == <<dirty, tried, retry_skip, retry_delay>>
vars == <<pc, rc, resources, active, eeprom, zuiVars, callback, stopVars, tone, saveVars, ran>>

\* In the order of the code; "out" is the label every failure jumps to.
Starting == {"save", "create", "period", "register", "switch", "attach"}
Playing  == {"setup", "loop"}
Looping  == Playing \cup {"top", "after", "flush", "wait"}
Ending   == {"out", "unregister", "screen", "router", "teardown", "eeprom"}
Bound    == {"arguments"} \cup Starting \cup Looping \cup Ending \cup {"close", "unbind"}
At       == {"idle", "bind"} \cup Bound

FlagsOK ==
  /\ resources \in BOOLEAN /\ active \in BOOLEAN /\ eeprom \in BOOLEAN
  /\ router \in BOOLEAN /\ screen \in BOOLEAN
  /\ registered \in BOOLEAN /\ attached \in BOOLEAN /\ callback \in BOOLEAN
  /\ stopping \in BOOLEAN /\ tone \in BOOLEAN
  /\ dirty \in BOOLEAN /\ tried \in BOOLEAN /\ ran \in BOOLEAN

TypeOK ==
  /\ FlagsOK
  /\ pc \in At
  /\ rc \in {"OK", "ERR"}
  /\ exit_sem \in {0, 1}
  /\ retry_delay \in 0 .. MaxDelay /\ retry_skip \in 0 .. retry_delay

Init ==
  /\ pc = "idle" /\ rc = "OK"
  /\ resources = FALSE /\ active = FALSE /\ eeprom = FALSE
  /\ router = FALSE /\ screen = FALSE /\ registered = FALSE /\ attached = FALSE
  /\ callback = FALSE /\ stopping = FALSE /\ exit_sem = 0 /\ tone = FALSE
  /\ dirty = FALSE /\ tried = FALSE /\ ran = FALSE
  /\ retry_skip = 0 /\ retry_delay = 0

\* mutant: only the context is looked at
NoSession == ~active

\* exit_requested(); the stop of a managed desktop is in RuntimeBridge.
ExitRequested == stopping \/ ~active

-----------------------------------------------------------------------------
(* run_sketch() up to run().  A second call while a session is active      *)
(* returns -EBUSY and changes nothing.                                     *)

\* AppContext app{}; the resource bundle is opened if the sketch has one.
Start ==
  /\ pc = "idle"
  /\ ran' = FALSE /\ tried' = FALSE /\ dirty' = FALSE
  /\ stopping' = FALSE /\ exit_sem' = 0
  /\ retry_skip' = 0 /\ retry_delay' = 0
  /\ \/ /\ resources' \in BOOLEAN
        /\ pc' = "bind" /\ rc' = "OK"
     \/ /\ resources' = FALSE
        /\ pc' = "idle" /\ rc' = "ERR"
  /\ UNCHANGED <<active, eeprom, zuiVars, callback, tone>>

Bind ==
  /\ pc = "bind"
  /\ active' = TRUE
  /\ tone' = FALSE
  /\ pc' = "arguments"
  /\ UNCHANGED <<rc, resources, eeprom, zuiVars, callback, stopVars, saveVars, ran>>

-----------------------------------------------------------------------------
(* run(): a step of the start-up succeeds, or fails to the label out.      *)

\* Without arguments or a host, run() returns before it owns anything.
CheckArguments ==
  /\ pc = "arguments"
  /\ (pc' = "save" /\ UNCHANGED rc) \/ (pc' = "close" /\ rc' = "ERR")
  /\ UNCHANGED <<resources, active, eeprom, zuiVars, callback, stopVars, tone, saveVars, ran>>

Continue(to) == pc' = to /\ UNCHANGED rc
Fail == pc' = "out" /\ rc' = "ERR"

\* setup_eeprom(): init and load, then attach.
SetupEeprom ==
  /\ pc = "save"
  /\ (Continue("create") /\ eeprom' = TRUE) \/ (Fail /\ UNCHANGED eeprom)
  /\ UNCHANGED <<resources, active, zuiVars, callback, stopVars, tone, saveVars, ran>>

\* Either of the router and the screen may be missing.
Create ==
  /\ pc = "create"
  /\ router' \in BOOLEAN /\ screen' \in BOOLEAN
  /\ IF router' /\ screen' THEN Continue("period") ELSE Fail
  /\ UNCHANGED <<resources, active, eeprom, registered, attached, callback, stopVars, tone,
                 saveVars, ran>>

SetPeriod ==
  /\ pc = "period"
  /\ Continue("register") \/ Fail
  /\ UNCHANGED <<resources, active, eeprom, zuiVars, callback, stopVars, tone, saveVars, ran>>

Register ==
  /\ pc = "register"
  /\ (Continue("switch") /\ registered' = TRUE) \/ (Fail /\ UNCHANGED registered)
  /\ UNCHANGED <<resources, active, eeprom, router, screen, attached, callback, stopVars,
                 tone, saveVars, ran>>

Switch ==
  /\ pc = "switch"
  /\ Continue("attach") \/ Fail
  /\ UNCHANGED <<resources, active, eeprom, zuiVars, callback, stopVars, tone, saveVars, ran>>

Attach ==
  /\ pc = "attach"
  /\ \/ Continue("setup") /\ attached' = TRUE /\ ran' = TRUE
     \/ Fail /\ UNCHANGED <<attached, ran>>
  /\ UNCHANGED <<resources, active, eeprom, router, screen, registered, callback, stopVars,
                 tone, saveVars>>

-----------------------------------------------------------------------------
(* The sketch, inside setup() or loop().                                   *)

\* A write through the EEPROM C API; the bytes are new, so no flush has seen them.
SketchWrites ==
  /\ pc \in Playing
  /\ eeprom
  /\ dirty' = TRUE /\ tried' = FALSE
  /\ UNCHANGED <<pc, rc, resources, active, eeprom, zuiVars, callback, stopVars, tone,
                 retry_skip, retry_delay, ran>>

\* The tone functions start or stop the buzzer; a tone also ends by itself.
SketchTone ==
  /\ pc \in Playing
  /\ tone' \in BOOLEAN
  /\ UNCHANGED <<pc, rc, resources, active, eeprom, zuiVars, callback, stopVars, saveVars, ran>>

\* request_exit()
SketchExits ==
  /\ pc \in Playing
  /\ stopping' = TRUE /\ exit_sem' = 1
  /\ UNCHANGED <<pc, rc, resources, active, eeprom, zuiVars, callback, tone, saveVars, ran>>

\* delay() may take the exit semaphore.
SketchDelayEnds ==
  /\ pc \in Playing
  /\ exit_sem = 1
  /\ exit_sem' = 0 /\ stopping' = TRUE
  /\ UNCHANGED <<pc, rc, resources, active, eeprom, zuiVars, callback, tone, saveVars, ran>>

SetupReturns ==
  /\ pc = "setup"
  /\ pc' = "top"
  /\ UNCHANGED <<rc, resources, active, eeprom, zuiVars, callback, stopVars, tone, saveVars, ran>>

LoopReturns ==
  /\ pc = "loop"
  /\ pc' = "after"
  /\ UNCHANGED <<rc, resources, active, eeprom, zuiVars, callback, stopVars, tone, saveVars, ran>>

-----------------------------------------------------------------------------
(* execute()                                                               *)

Top ==
  /\ pc = "top"
  /\ pc' = IF ExitRequested THEN "out" ELSE "loop"
  /\ UNCHANGED <<rc, resources, active, eeprom, zuiVars, callback, stopVars, tone, saveVars, ran>>

\* A periodic flush is due when 250 ms have passed since the last.
After ==
  /\ pc = "after"
  /\ IF ExitRequested THEN pc' = "out" ELSE pc' \in {"flush", "wait"}
  /\ UNCHANGED <<rc, resources, active, eeprom, zuiVars, callback, stopVars, tone, saveVars, ran>>

Smaller(x, y) == IF x < y THEN x ELSE y

\* mutant: the delay doubles without an end
DoublesForEver == IF retry_delay = 0 THEN 1 ELSE retry_delay * 2

\* How many periodic flushes to skip after one more failure.
Backoff == IF retry_delay = 0 THEN 1
           ELSE IF retry_delay < MaxDelay THEN Smaller(retry_delay * 2, MaxDelay) ELSE MaxDelay

\* flush(): nothing to save, or saved.
FlushWorks ==
  /\ dirty' = FALSE /\ tried' = FALSE
  /\ retry_delay' = 0 /\ retry_skip' = 0

\* The lease is taken, or the save could not be committed.
FlushFails ==
  /\ dirty
  /\ tried' = TRUE
  /\ retry_delay' = Backoff /\ retry_skip' = Backoff
  /\ UNCHANGED dirty

\* mutant: a skipped flush is not counted
SkipForEver == retry_skip # 0 /\ UNCHANGED saveVars

Skip ==
  /\ retry_skip # 0
  /\ retry_skip' = retry_skip - 1
  /\ UNCHANGED <<dirty, tried, retry_delay>>

\* flush_eeprom(force): the outcome is one of these.
FlushEeprom(force) ==
  \/ ~force /\ Skip
  \/ (force \/ retry_skip = 0) /\ (FlushWorks \/ FlushFails)

PeriodicFlush ==
  /\ pc = "flush"
  /\ FlushEeprom(FALSE)
  /\ pc' = "wait"
  /\ UNCHANGED <<rc, resources, active, eeprom, zuiVars, callback, stopVars, tone, ran>>

\* The wait for the next frame ends by the exit semaphore or by its timeout.
Wait ==
  /\ pc = "wait"
  /\ \/ exit_sem = 1 /\ exit_sem' = 0 /\ stopping' = TRUE
     \/ exit_sem = 0 /\ UNCHANGED stopVars
  /\ pc' = "top"
  /\ UNCHANGED <<rc, resources, active, eeprom, zuiVars, callback, tone, saveVars, ran>>

-----------------------------------------------------------------------------
(* The label out: cleanup(), teardown() and teardown_eeprom(), then the    *)
(* rest of run_sketch().                                                   *)

\* mutant: cleanup() does not detach the router
NeverDetach ==
  /\ pc = "out"
  /\ pc' = "unregister"
  /\ UNCHANGED <<rc, resources, active, eeprom, zuiVars, callback, stopVars, tone, saveVars, ran>>

\* zui_host_detach_router() returns when no callback of the router is running.
Detach ==
  /\ pc = "out"
  /\ ~callback
  /\ attached' = FALSE
  /\ pc' = "unregister"
  /\ UNCHANGED <<rc, resources, active, eeprom, router, screen, registered, callback,
                 stopVars, tone, saveVars, ran>>

Unregister ==
  /\ pc = "unregister"
  /\ registered' = FALSE
  /\ pc' = "screen"
  /\ UNCHANGED <<rc, resources, active, eeprom, router, screen, attached, callback,
                 stopVars, tone, saveVars, ran>>

\* mutant: cleanup() stops at a screen that was not created
StopsWithoutScreen ==
  /\ pc = "screen"
  /\ screen' = FALSE
  /\ pc' = IF screen THEN "router" ELSE "teardown"
  /\ UNCHANGED <<rc, resources, active, eeprom, router, registered, attached, callback,
                 stopVars, tone, saveVars, ran>>

DestroyScreen ==
  /\ pc = "screen"
  /\ screen' = FALSE
  /\ pc' = "router"
  /\ UNCHANGED <<rc, resources, active, eeprom, router, registered, attached, callback,
                 stopVars, tone, saveVars, ran>>

DestroyRouter ==
  /\ pc = "router"
  /\ router' = FALSE
  /\ pc' = "teardown"
  /\ UNCHANGED <<rc, resources, active, eeprom, screen, registered, attached, callback,
                 stopVars, tone, saveVars, ran>>

Teardown ==
  /\ pc = "teardown"
  /\ tone' = FALSE
  /\ pc' = "eeprom"
  /\ UNCHANGED <<rc, resources, active, eeprom, zuiVars, callback, stopVars, saveVars, ran>>

\* mutant: the last flush may be skipped like a periodic one
TeardownSkips ==
  /\ pc = "eeprom"
  /\ IF eeprom THEN FlushEeprom(FALSE) ELSE UNCHANGED saveVars
  /\ eeprom' = FALSE
  /\ pc' = "close"
  /\ UNCHANGED <<rc, resources, active, zuiVars, callback, stopVars, tone, ran>>

\* teardown_eeprom(): the last flush is forced.
TeardownEeprom ==
  /\ pc = "eeprom"
  /\ IF eeprom THEN FlushEeprom(TRUE) ELSE UNCHANGED saveVars
  /\ eeprom' = FALSE
  /\ pc' = "close"
  /\ UNCHANGED <<rc, resources, active, zuiVars, callback, stopVars, tone, ran>>

\* The bundle counts as closed even when closing its file fails.
CloseResources ==
  /\ pc = "close"
  /\ resources' = FALSE
  /\ (UNCHANGED rc) \/ (resources /\ rc' = "ERR")
  /\ pc' = "unbind"
  /\ UNCHANGED <<active, eeprom, zuiVars, callback, stopVars, tone, saveVars, ran>>

Unbind ==
  /\ pc = "unbind"
  /\ active' = FALSE
  /\ pc' = "idle"
  /\ UNCHANGED <<rc, resources, eeprom, zuiVars, callback, stopVars, tone, saveVars, ran>>

-----------------------------------------------------------------------------
(* The user interface thread.                                              *)

CallbackBegins ==
  /\ attached /\ ~callback
  /\ callback' = TRUE
  /\ UNCHANGED <<pc, rc, resources, active, eeprom, zuiVars, stopVars, tone, saveVars, ran>>

CallbackEnds ==
  /\ callback
  /\ callback' = FALSE
  /\ UNCHANGED <<pc, rc, resources, active, eeprom, zuiVars, stopVars, tone, saveVars, ran>>

\* input() sees the exit gesture and returns.
ExitGesture ==
  /\ callback
  /\ callback' = FALSE
  /\ stopping' = TRUE /\ exit_sem' = 1
  /\ UNCHANGED <<pc, rc, resources, active, eeprom, zuiVars, tone, saveVars, ran>>

-----------------------------------------------------------------------------
StartUp == Start \/ Bind \/ CheckArguments \/ SetupEeprom \/ Create \/ SetPeriod \/ Register
             \/ Switch \/ Attach
Sketch == SketchWrites \/ SketchTone \/ SketchExits \/ SketchDelayEnds
Returns == SetupReturns \/ LoopReturns
Execute == Top \/ After \/ PeriodicFlush \/ Wait
WindDown == Detach \/ Unregister \/ DestroyScreen \/ DestroyRouter \/ Teardown \/ TeardownEeprom
              \/ CloseResources \/ Unbind
Callbacks == CallbackBegins \/ CallbackEnds \/ ExitGesture

Next == StartUp \/ Sketch \/ Returns \/ Execute \/ WindDown \/ Callbacks

Spec == Init /\ [][Next]_vars

(* The thread runs.  The sketch returns from its callbacks, a callback of  *)
(* the user interface returns, 250 ms pass again and again, and a flush    *)
(* that is tried again and again works in the end.                         *)
Fairness ==
  /\ WF_vars(Execute \/ WindDown) /\ SF_vars(Detach)
  /\ WF_vars(Returns) /\ WF_vars(CallbackEnds)
  /\ SF_vars(After /\ pc' = "flush")
  /\ SF_vars(PeriodicFlush /\ FlushWorks)

FairSpec == Spec /\ Fairness

-----------------------------------------------------------------------------
\* What the session owns at each point.
Owned ==
  /\ active <=> pc \in Bound
  /\ resources => pc = "bind" \/ pc \in Bound \ {"unbind"}
  /\ eeprom => pc \in (Starting \ {"save"}) \cup Looping \cup Ending
  /\ router \/ screen => pc \in (Starting \ {"save", "create"}) \cup Looping \cup Ending
  /\ pc \in (Starting \ {"save"}) \cup Looping => eeprom
  /\ pc \in (Starting \ {"save", "create"}) \cup Looping => router /\ screen
  /\ screen => pc \notin {"router", "teardown", "eeprom"}
  /\ router => pc \notin {"teardown", "eeprom"}
  /\ registered => router /\ screen /\ pc \notin {"period", "register", "screen"}
  /\ pc \in {"switch", "attach"} \cup Looping => registered
  /\ attached => registered /\ pc \in Looping \cup {"out"}
  /\ pc \in Looping => attached
  /\ tone => pc \in Looping \cup (Ending \ {"eeprom"})
  /\ callback => attached
  /\ ran => pc \in Looping \cup Ending \cup {"idle", "close", "unbind"}
  /\ ran /\ pc \in Ending => eeprom

\* A session that failed before its loop never ran the sketch and wrote nothing.
Outcome ==
  /\ pc \in Starting \cup Looping \cup {"bind", "arguments"} => rc = "OK"
  /\ rc = "ERR" /\ pc \in Ending => ~ran
  /\ dirty => pc \in Looping \cup Ending \cup {"idle", "close", "unbind"}
  /\ tried => dirty
  /\ pc \in {"idle", "close", "unbind"} => (dirty => tried)
  /\ pc \in Looping => ran
  /\ dirty => ran

IInv == TypeOK /\ Owned /\ Outcome

\* A callback of the screen finds the screen, the router and the context alive: the
\* router is detached before anything it uses is destroyed, on every path.
CallbacksFindTheSession == callback => (screen /\ router /\ registered /\ active)

\* When run_sketch() has returned, whatever failed, nothing it took is left: no
\* screen or router, no EEPROM attached, no resources, no tone, no context.
NothingLeft ==
  pc = "idle" =>
    ~(active \/ resources \/ eeprom \/ router \/ screen \/ registered \/ attached \/ tone)

\* setup() and loop() run only with everything in place, the screen attached first
\* (docs/runtime.md: "Display attaches before setup"), and not at all in a session
\* whose start-up failed (tests/runtime.cpp:34).
SketchFindsEverything == pc \in Playing => (active /\ eeprom /\ screen /\ attached /\ rc = "OK")

\* Bytes that are still unsaved when the session is over were offered to a flush
\* after they were written, and that flush failed; the back-off of the periodic
\* flushes never makes a session end without trying.
LastWritesAreTried == (pc = "idle" /\ dirty) => tried

\* A stop that was requested ends the session.
StopEndsSession == (stopping /\ active) ~> ~active

\* Unsaved bytes are saved while the session lasts, however often flushing failed
\* before: the back-off postpones the next try, it never gives up.
SavedWhilePlaying == dirty ~> (~dirty \/ pc \notin Looping)
=============================================================================

------------------------ MODULE SketchSession_proofs ------------------------
(***************************************************************************)
(* The session for every bound of the back-off.  IInv is inductive: Owned  *)
(* says what exists at each line of the start-up and of the cleanup, and   *)
(* Outcome what a failure can have left behind, so that each step needs    *)
(* nothing but the line it is at.                                          *)
(***************************************************************************)
EXTENDS SketchSession, TLAPS

USE DEF zuiVars, stopVars, saveVars, Starting, Playing, Looping, Ending, Bound, At

\* The back-off stays within its bound.
LEMMA BackoffIsBounded ==
  ASSUME retry_delay \in 0 .. MaxDelay
  PROVE  Backoff \in 0 .. MaxDelay /\ Backoff \in 0 .. Backoff
  BY DelayAssumption, SMT DEF Backoff, Smaller

\* A flush keeps the types, and bytes it has not tried to save are not left over.
LEMMA FlushKeeps ==
  ASSUME TypeOK, tried => dirty, NEW force \in BOOLEAN, FlushEeprom(force)
  PROVE  /\ dirty' \in BOOLEAN /\ tried' \in BOOLEAN
         /\ retry_delay' \in 0 .. MaxDelay /\ retry_skip' \in 0 .. retry_delay'
         /\ (tried' => dirty') /\ (dirty' => dirty)
         /\ force => (dirty' => tried')
  <1>1. CASE ~force /\ Skip
    BY <1>1, SMT DEF Skip, TypeOK, FlagsOK
  <1>2. CASE FlushWorks
    <2>1. dirty' = FALSE /\ tried' = FALSE
      BY <1>2 DEF FlushWorks
    <2>2. retry_delay' \in 0 .. MaxDelay /\ retry_skip' \in 0 .. retry_delay'
      BY <1>2, DelayAssumption, SMT DEF FlushWorks
    <2> QED
      BY <2>1, <2>2, Zenon
  <1>3. CASE FlushFails
    <2>1. dirty /\ dirty' = dirty /\ tried' = TRUE
      BY <1>3 DEF FlushFails
    <2>2. retry_delay' \in 0 .. MaxDelay /\ retry_skip' \in 0 .. retry_delay'
      BY <1>3, BackoffIsBounded, SMT DEF FlushFails, TypeOK
    <2> QED
      BY <2>1, <2>2, Zenon DEF TypeOK, FlagsOK
  <1> QED
    BY <1>1, <1>2, <1>3 DEF FlushEeprom

-----------------------------------------------------------------------------
(* Starting: what a step takes is owned from the next line on, or from out. *)

LEMMA StartUpKeeps == ASSUME IInv, StartUp PROVE IInv'
  <1>0. FlagsOK
    BY DEF IInv, TypeOK
  <1>1. CASE Start
    <2>1. FlagsOK'
      BY <1>0, <1>1, DelayAssumption DEF Start, FlagsOK
    <2>2. TypeOK'
      BY <1>1, DelayAssumption, <2>1, SMT DEF Start, IInv, TypeOK
    <2>3. Owned'
      BY <1>1, DelayAssumption, SMTT(30) DEF Start, IInv, TypeOK, Owned
    <2>4. Outcome'
      BY <1>1, DelayAssumption, SMTT(30) DEF Start, IInv, TypeOK, Owned, Outcome
    <2> QED
      BY <2>2, <2>3, <2>4 DEF IInv
  <1>2. CASE Bind
    <2>1. FlagsOK'
      BY <1>0, <1>2 DEF Bind, FlagsOK
    <2>2. TypeOK'
      BY <1>2, <2>1, SMT DEF Bind, IInv, TypeOK
    <2>3. Owned'
      BY <1>2, SMTT(30) DEF Bind, IInv, TypeOK, Owned
    <2>4. Outcome'
      BY <1>2, SMTT(30) DEF Bind, IInv, TypeOK, Owned, Outcome
    <2> QED
      BY <2>2, <2>3, <2>4 DEF IInv
  <1>3. CASE CheckArguments
    <2>1. FlagsOK'
      BY <1>0, <1>3 DEF CheckArguments, FlagsOK
    <2>2. TypeOK'
      BY <1>3, <2>1, SMT DEF CheckArguments, IInv, TypeOK
    <2>3. Owned'
      BY <1>3, SMTT(30) DEF CheckArguments, IInv, TypeOK, Owned
    <2>4. Outcome'
      BY <1>3, SMTT(30) DEF CheckArguments, IInv, TypeOK, Owned, Outcome
    <2> QED
      BY <2>2, <2>3, <2>4 DEF IInv
  <1>4. CASE SetupEeprom
    <2>1. FlagsOK'
      <3>1. eeprom' = TRUE \/ eeprom' = eeprom
        BY <1>4 DEF SetupEeprom
      <3>2. eeprom' \in BOOLEAN
        BY <1>0, <3>1, Zenon DEF FlagsOK
      <3> QED
        BY <1>0, <1>4, <3>2 DEF SetupEeprom, FlagsOK
    <2>2. TypeOK'
      BY <1>4, <2>1, SMT DEF SetupEeprom, Continue, Fail, IInv, TypeOK
    <2>3. Owned'
      BY <1>4, SMTT(30) DEF SetupEeprom, Continue, Fail, IInv, TypeOK, Owned
    <2>4. Outcome'
      BY <1>4, SMTT(30) DEF SetupEeprom, Continue, Fail, IInv, TypeOK, Owned, Outcome
    <2> QED
      BY <2>2, <2>3, <2>4 DEF IInv
  <1>5. CASE Create
    <2>1. FlagsOK'
      BY <1>0, <1>5 DEF Create, Continue, Fail, FlagsOK
    <2>2. TypeOK'
      BY <1>5, <2>1, SMT DEF Create, Continue, Fail, IInv, TypeOK
    <2>3. \/ pc' = "period" /\ router' = TRUE /\ screen' = TRUE /\ rc' = rc
          \/ pc' = "out" /\ router' \in BOOLEAN /\ screen' \in BOOLEAN
      BY <1>5 DEF Create, Continue, Fail
    <2>4. eeprom /\ ~registered /\ ~attached /\ ~callback /\ ~tone
      BY <1>5, SMT DEF Create, IInv, TypeOK, Owned
    <2>5. Owned'
      BY <1>5, <2>3, <2>4, SMTT(30) DEF Create, IInv, TypeOK, Owned
    <2>6. Outcome'
      BY <1>5, SMTT(30) DEF Create, Continue, Fail, IInv, TypeOK, Owned, Outcome
    <2> QED
      BY <2>2, <2>5, <2>6 DEF IInv
  <1>6. CASE SetPeriod
    <2>1. FlagsOK'
      BY <1>0, <1>6 DEF SetPeriod, Continue, Fail, FlagsOK
    <2>2. TypeOK'
      BY <1>6, <2>1, SMT DEF SetPeriod, Continue, Fail, IInv, TypeOK
    <2>3. Owned'
      BY <1>6, SMTT(30) DEF SetPeriod, Continue, Fail, IInv, TypeOK, Owned
    <2>4. Outcome'
      BY <1>6, SMTT(30) DEF SetPeriod, Continue, Fail, IInv, TypeOK, Owned, Outcome
    <2> QED
      BY <2>2, <2>3, <2>4 DEF IInv
  <1>7. CASE Register
    <2>1. FlagsOK'
      <3>1. registered' = TRUE \/ registered' = registered
        BY <1>7 DEF Register
      <3>2. registered' \in BOOLEAN
        BY <1>0, <3>1, Zenon DEF FlagsOK
      <3> QED
        BY <1>0, <1>7, <3>2 DEF Register, FlagsOK
    <2>2. TypeOK'
      BY <1>7, <2>1, SMT DEF Register, Continue, Fail, IInv, TypeOK
    <2>3. Owned'
      BY <1>7, SMTT(30) DEF Register, Continue, Fail, IInv, TypeOK, Owned
    <2>4. Outcome'
      BY <1>7, SMTT(30) DEF Register, Continue, Fail, IInv, TypeOK, Owned, Outcome
    <2> QED
      BY <2>2, <2>3, <2>4 DEF IInv
  <1>8. CASE Switch
    <2>1. FlagsOK'
      BY <1>0, <1>8 DEF Switch, Continue, Fail, FlagsOK
    <2>2. TypeOK'
      BY <1>8, <2>1, SMT DEF Switch, Continue, Fail, IInv, TypeOK
    <2>3. Owned'
      BY <1>8, SMTT(30) DEF Switch, Continue, Fail, IInv, TypeOK, Owned
    <2>4. Outcome'
      BY <1>8, SMTT(30) DEF Switch, Continue, Fail, IInv, TypeOK, Owned, Outcome
    <2> QED
      BY <2>2, <2>3, <2>4 DEF IInv
  <1>9. CASE Attach
    <2>1. FlagsOK'
      <3>1. (attached' = TRUE \/ attached' = attached) /\ (ran' = TRUE \/ ran' = ran)
        BY <1>9 DEF Attach
      <3>2. attached' \in BOOLEAN /\ ran' \in BOOLEAN
        BY <1>0, <3>1, Zenon DEF FlagsOK
      <3> QED
        BY <1>0, <1>9, <3>2 DEF Attach, FlagsOK
    <2>2. TypeOK'
      BY <1>9, <2>1, SMT DEF Attach, Continue, Fail, IInv, TypeOK
    <2>3. Owned'
      BY <1>9, SMTT(30) DEF Attach, Continue, Fail, IInv, TypeOK, Owned
    <2>4. Outcome'
      BY <1>9, SMTT(30) DEF Attach, Continue, Fail, IInv, TypeOK, Owned, Outcome
    <2> QED
      BY <2>2, <2>3, <2>4 DEF IInv
  <1> QED
    BY <1>1, <1>2, <1>3, <1>4, <1>5, <1>6, <1>7, <1>8, <1>9 DEF StartUp

-----------------------------------------------------------------------------
(* The sketch writes and plays only where everything is owned. *)

LEMMA SketchKeeps == ASSUME IInv, Sketch PROVE IInv'
  <1>0. FlagsOK
    BY DEF IInv, TypeOK
  <1>1. CASE SketchWrites
    <2>1. FlagsOK'
      BY <1>0, <1>1 DEF SketchWrites, FlagsOK
    <2>2. TypeOK'
      BY <1>1, <2>1, SMT DEF SketchWrites, IInv, TypeOK
    <2>3. Owned'
      BY <1>1, SMTT(30) DEF SketchWrites, IInv, TypeOK, Owned
    <2>4. Outcome'
      BY <1>1, SMTT(30) DEF SketchWrites, IInv, TypeOK, Owned, Outcome
    <2> QED
      BY <2>2, <2>3, <2>4 DEF IInv
  <1>2. CASE SketchTone
    <2>1. FlagsOK'
      BY <1>0, <1>2 DEF SketchTone, FlagsOK
    <2>2. TypeOK'
      BY <1>2, <2>1, SMT DEF SketchTone, IInv, TypeOK
    <2>3. Owned'
      BY <1>2, SMTT(30) DEF SketchTone, IInv, TypeOK, Owned
    <2>4. Outcome'
      BY <1>2, SMTT(30) DEF SketchTone, IInv, TypeOK, Owned, Outcome
    <2> QED
      BY <2>2, <2>3, <2>4 DEF IInv
  <1>3. CASE SketchExits
    <2>1. FlagsOK'
      BY <1>0, <1>3 DEF SketchExits, FlagsOK
    <2>2. TypeOK'
      BY <1>3, <2>1, SMT DEF SketchExits, IInv, TypeOK
    <2>3. Owned'
      BY <1>3, SMTT(30) DEF SketchExits, IInv, TypeOK, Owned
    <2>4. Outcome'
      BY <1>3, SMTT(30) DEF SketchExits, IInv, TypeOK, Owned, Outcome
    <2> QED
      BY <2>2, <2>3, <2>4 DEF IInv
  <1>4. CASE SketchDelayEnds
    <2>1. FlagsOK'
      BY <1>0, <1>4 DEF SketchDelayEnds, FlagsOK
    <2>2. TypeOK'
      BY <1>4, <2>1, SMT DEF SketchDelayEnds, IInv, TypeOK
    <2>3. Owned'
      BY <1>4, SMTT(30) DEF SketchDelayEnds, IInv, TypeOK, Owned
    <2>4. Outcome'
      BY <1>4, SMTT(30) DEF SketchDelayEnds, IInv, TypeOK, Owned, Outcome
    <2> QED
      BY <2>2, <2>3, <2>4 DEF IInv
  <1> QED
    BY <1>1, <1>2, <1>3, <1>4 DEF Sketch

-----------------------------------------------------------------------------
(* The end of a callback of the sketch moves the thread within the loop. *)

LEMMA ReturnsKeeps == ASSUME IInv, Returns PROVE IInv'
  <1>0. FlagsOK
    BY DEF IInv, TypeOK
  <1>1. CASE SetupReturns
    <2>1. FlagsOK'
      BY <1>0, <1>1 DEF SetupReturns, FlagsOK
    <2>2. TypeOK'
      BY <1>1, <2>1, SMT DEF SetupReturns, IInv, TypeOK
    <2>3. Owned'
      BY <1>1, SMTT(30) DEF SetupReturns, IInv, TypeOK, Owned
    <2>4. Outcome'
      BY <1>1, SMTT(30) DEF SetupReturns, IInv, TypeOK, Owned, Outcome
    <2> QED
      BY <2>2, <2>3, <2>4 DEF IInv
  <1>2. CASE LoopReturns
    <2>1. FlagsOK'
      BY <1>0, <1>2 DEF LoopReturns, FlagsOK
    <2>2. TypeOK'
      BY <1>2, <2>1, SMT DEF LoopReturns, IInv, TypeOK
    <2>3. Owned'
      BY <1>2, SMTT(30) DEF LoopReturns, IInv, TypeOK, Owned
    <2>4. Outcome'
      BY <1>2, SMTT(30) DEF LoopReturns, IInv, TypeOK, Owned, Outcome
    <2> QED
      BY <2>2, <2>3, <2>4 DEF IInv
  <1> QED
    BY <1>1, <1>2 DEF Returns

-----------------------------------------------------------------------------
(* The loop: only the flush touches the save. *)

LEMMA ExecuteKeeps == ASSUME IInv, Execute PROVE IInv'
  <1>0. FlagsOK
    BY DEF IInv, TypeOK
  <1>1. CASE Top
    <2>1. FlagsOK'
      BY <1>0, <1>1 DEF Top, ExitRequested, FlagsOK
    <2>2. TypeOK'
      BY <1>1, <2>1, SMT DEF Top, ExitRequested, IInv, TypeOK
    <2>3. Owned'
      BY <1>1, SMTT(30) DEF Top, ExitRequested, IInv, TypeOK, Owned
    <2>4. Outcome'
      BY <1>1, SMTT(30) DEF Top, ExitRequested, IInv, TypeOK, Owned, Outcome
    <2> QED
      BY <2>2, <2>3, <2>4 DEF IInv
  <1>2. CASE After
    <2>1. FlagsOK'
      BY <1>0, <1>2 DEF After, ExitRequested, FlagsOK
    <2>2. TypeOK'
      BY <1>2, <2>1, SMT DEF After, ExitRequested, IInv, TypeOK
    <2>3. Owned'
      BY <1>2, SMTT(30) DEF After, ExitRequested, IInv, TypeOK, Owned
    <2>4. Outcome'
      BY <1>2, SMTT(30) DEF After, ExitRequested, IInv, TypeOK, Owned, Outcome
    <2> QED
      BY <2>2, <2>3, <2>4 DEF IInv
  <1>3. CASE PeriodicFlush
    <2>1. FlushEeprom(FALSE)
      BY <1>3 DEF PeriodicFlush
    <2>2. /\ dirty' \in BOOLEAN /\ tried' \in BOOLEAN
          /\ retry_delay' \in 0 .. MaxDelay /\ retry_skip' \in 0 .. retry_delay'
          /\ (tried' => dirty') /\ (dirty' => dirty)
      BY <2>1, FlushKeeps DEF IInv, Outcome
    <2>3. FlagsOK'
      BY <1>0, <1>3, <2>2 DEF PeriodicFlush, FlagsOK
    <2>4. TypeOK'
      BY <1>3, <2>2, <2>3, SMT DEF PeriodicFlush, IInv, TypeOK
    <2>5. Owned'
      BY <1>3, <2>2, SMTT(30) DEF PeriodicFlush, IInv, TypeOK, Owned
    <2>6. Outcome'
      BY <1>3, <2>2, SMTT(30) DEF PeriodicFlush, IInv, TypeOK, Owned, Outcome
    <2> QED
      BY <2>4, <2>5, <2>6 DEF IInv
  <1>4. CASE Wait
    <2>1. FlagsOK'
      <3>1. stopping' = TRUE \/ stopping' = stopping
        BY <1>4 DEF Wait
      <3>2. stopping' \in BOOLEAN
        BY <1>0, <3>1, Zenon DEF FlagsOK
      <3> QED
        BY <1>0, <1>4, <3>2 DEF Wait, FlagsOK
    <2>2. TypeOK'
      BY <1>4, <2>1, SMT DEF Wait, IInv, TypeOK
    <2>3. Owned'
      BY <1>4, SMTT(30) DEF Wait, IInv, TypeOK, Owned
    <2>4. Outcome'
      BY <1>4, SMTT(30) DEF Wait, IInv, TypeOK, Owned, Outcome
    <2> QED
      BY <2>2, <2>3, <2>4 DEF IInv
  <1> QED
    BY <1>1, <1>2, <1>3, <1>4 DEF Execute

-----------------------------------------------------------------------------
(* Winding down: each step gives one thing back, after all that needs it. *)

LEMMA WindDownKeeps == ASSUME IInv, WindDown PROVE IInv'
  <1>0. FlagsOK
    BY DEF IInv, TypeOK
  <1>1. CASE Detach
    <2>1. FlagsOK'
      BY <1>0, <1>1 DEF Detach, FlagsOK
    <2>2. TypeOK'
      BY <1>1, <2>1, SMT DEF Detach, IInv, TypeOK
    <2>3. Owned'
      BY <1>1, SMTT(30) DEF Detach, IInv, TypeOK, Owned
    <2>4. Outcome'
      BY <1>1, SMTT(30) DEF Detach, IInv, TypeOK, Owned, Outcome
    <2> QED
      BY <2>2, <2>3, <2>4 DEF IInv
  <1>2. CASE Unregister
    <2>1. FlagsOK'
      BY <1>0, <1>2 DEF Unregister, FlagsOK
    <2>2. TypeOK'
      BY <1>2, <2>1, SMT DEF Unregister, IInv, TypeOK
    <2>3. Owned'
      BY <1>2, SMTT(30) DEF Unregister, IInv, TypeOK, Owned
    <2>4. Outcome'
      BY <1>2, SMTT(30) DEF Unregister, IInv, TypeOK, Owned, Outcome
    <2> QED
      BY <2>2, <2>3, <2>4 DEF IInv
  <1>3. CASE DestroyScreen
    <2>1. FlagsOK'
      BY <1>0, <1>3 DEF DestroyScreen, FlagsOK
    <2>2. TypeOK'
      BY <1>3, <2>1, SMT DEF DestroyScreen, IInv, TypeOK
    <2>3. Owned'
      BY <1>3, SMTT(30) DEF DestroyScreen, IInv, TypeOK, Owned
    <2>4. Outcome'
      BY <1>3, SMTT(30) DEF DestroyScreen, IInv, TypeOK, Owned, Outcome
    <2> QED
      BY <2>2, <2>3, <2>4 DEF IInv
  <1>4. CASE DestroyRouter
    <2>1. FlagsOK'
      BY <1>0, <1>4 DEF DestroyRouter, FlagsOK
    <2>2. TypeOK'
      BY <1>4, <2>1, SMT DEF DestroyRouter, IInv, TypeOK
    <2>3. Owned'
      BY <1>4, SMTT(30) DEF DestroyRouter, IInv, TypeOK, Owned
    <2>4. Outcome'
      BY <1>4, SMTT(30) DEF DestroyRouter, IInv, TypeOK, Owned, Outcome
    <2> QED
      BY <2>2, <2>3, <2>4 DEF IInv
  <1>5. CASE Teardown
    <2>1. FlagsOK'
      BY <1>0, <1>5 DEF Teardown, FlagsOK
    <2>2. TypeOK'
      BY <1>5, <2>1, SMT DEF Teardown, IInv, TypeOK
    <2>3. Owned'
      BY <1>5, SMTT(30) DEF Teardown, IInv, TypeOK, Owned
    <2>4. Outcome'
      BY <1>5, SMTT(30) DEF Teardown, IInv, TypeOK, Owned, Outcome
    <2> QED
      BY <2>2, <2>3, <2>4 DEF IInv
  <1>6. CASE TeardownEeprom
    <2>1. CASE eeprom
      <3>1. FlushEeprom(TRUE)
        BY <1>6, <2>1 DEF TeardownEeprom
      <3>2. /\ dirty' \in BOOLEAN /\ tried' \in BOOLEAN
            /\ retry_delay' \in 0 .. MaxDelay /\ retry_skip' \in 0 .. retry_delay'
            /\ (tried' => dirty') /\ (dirty' => dirty) /\ (dirty' => tried')
        BY <3>1, FlushKeeps DEF IInv, Outcome
      <3>3. FlagsOK'
        BY <1>0, <1>6, <2>1, <3>2 DEF TeardownEeprom, FlagsOK
      <3>4. TypeOK'
        BY <1>6, <2>1, <3>2, <3>3, SMT DEF TeardownEeprom, IInv, TypeOK
      <3>5. Owned'
        BY <1>6, <2>1, <3>2, SMTT(30) DEF TeardownEeprom, IInv, TypeOK, Owned
      <3>6. Outcome'
        BY <1>6, <2>1, <3>2, SMTT(30) DEF TeardownEeprom, IInv, TypeOK, Owned, Outcome
      <3> QED
        BY <3>4, <3>5, <3>6 DEF IInv
    <2>2. CASE ~eeprom
      <3>1. FlagsOK'
        BY <1>0, <1>6, <2>2 DEF TeardownEeprom, FlagsOK
      <3>2. TypeOK'
        BY <1>6, <2>2, <3>1, SMT DEF TeardownEeprom, IInv, TypeOK
      <3>3. Owned'
        BY <1>6, <2>2, SMTT(30) DEF TeardownEeprom, IInv, TypeOK, Owned
      <3>4. Outcome'
        BY <1>6, <2>2, SMTT(30) DEF TeardownEeprom, IInv, TypeOK, Owned, Outcome
      <3> QED
        BY <3>2, <3>3, <3>4 DEF IInv
    <2> QED
      BY <2>1, <2>2
  <1>7. CASE CloseResources
    <2>1. FlagsOK'
      BY <1>0, <1>7 DEF CloseResources, FlagsOK
    <2>2. TypeOK'
      BY <1>7, <2>1, SMT DEF CloseResources, IInv, TypeOK
    <2>3. Owned'
      BY <1>7, SMTT(30) DEF CloseResources, IInv, TypeOK, Owned
    <2>4. Outcome'
      BY <1>7, SMTT(30) DEF CloseResources, IInv, TypeOK, Owned, Outcome
    <2> QED
      BY <2>2, <2>3, <2>4 DEF IInv
  <1>8. CASE Unbind
    <2>1. FlagsOK'
      BY <1>0, <1>8 DEF Unbind, FlagsOK
    <2>2. TypeOK'
      BY <1>8, <2>1, SMT DEF Unbind, IInv, TypeOK
    <2>3. Owned'
      BY <1>8, SMTT(30) DEF Unbind, IInv, TypeOK, Owned, Outcome
    <2>4. Outcome'
      BY <1>8, SMTT(30) DEF Unbind, IInv, TypeOK, Owned, Outcome
    <2> QED
      BY <2>2, <2>3, <2>4 DEF IInv
  <1> QED
    BY <1>1, <1>2, <1>3, <1>4, <1>5, <1>6, <1>7, <1>8 DEF WindDown

-----------------------------------------------------------------------------
(* The user interface thread owns nothing and moves the thread nowhere. *)

LEMMA CallbacksKeeps == ASSUME IInv, Callbacks PROVE IInv'
  <1>0. FlagsOK
    BY DEF IInv, TypeOK
  <1>1. CASE CallbackBegins
    <2>1. FlagsOK'
      BY <1>0, <1>1 DEF CallbackBegins, FlagsOK
    <2>2. TypeOK'
      BY <1>1, <2>1, SMT DEF CallbackBegins, IInv, TypeOK
    <2>3. Owned'
      BY <1>1, SMTT(30) DEF CallbackBegins, IInv, TypeOK, Owned
    <2>4. Outcome'
      BY <1>1, SMTT(30) DEF CallbackBegins, IInv, TypeOK, Owned, Outcome
    <2> QED
      BY <2>2, <2>3, <2>4 DEF IInv
  <1>2. CASE CallbackEnds
    <2>1. FlagsOK'
      BY <1>0, <1>2 DEF CallbackEnds, FlagsOK
    <2>2. TypeOK'
      BY <1>2, <2>1, SMT DEF CallbackEnds, IInv, TypeOK
    <2>3. Owned'
      BY <1>2, SMTT(30) DEF CallbackEnds, IInv, TypeOK, Owned
    <2>4. Outcome'
      BY <1>2, SMTT(30) DEF CallbackEnds, IInv, TypeOK, Owned, Outcome
    <2> QED
      BY <2>2, <2>3, <2>4 DEF IInv
  <1>3. CASE ExitGesture
    <2>1. FlagsOK'
      BY <1>0, <1>3 DEF ExitGesture, FlagsOK
    <2>2. TypeOK'
      BY <1>3, <2>1, SMT DEF ExitGesture, IInv, TypeOK
    <2>3. Owned'
      BY <1>3, SMTT(30) DEF ExitGesture, IInv, TypeOK, Owned
    <2>4. Outcome'
      BY <1>3, SMTT(30) DEF ExitGesture, IInv, TypeOK, Owned, Outcome
    <2> QED
      BY <2>2, <2>3, <2>4 DEF IInv
  <1> QED
    BY <1>1, <1>2, <1>3 DEF Callbacks

-----------------------------------------------------------------------------
\* What the session owns at each point of its life is what the code thinks it owns.
THEOREM SessionInvariance == Spec => []IInv
  <1>1. Init => IInv
    <2> SUFFICES ASSUME Init PROVE IInv
      OBVIOUS
    <2>1. FlagsOK
      BY Zenon DEF Init, FlagsOK
    <2>2. TypeOK
      BY <2>1, DelayAssumption, SMT DEF Init, TypeOK
    <2>3. Owned /\ Outcome
      BY SMT DEF Init, Owned, Outcome
    <2> QED
      BY <2>2, <2>3 DEF IInv
  <1>2. IInv /\ [Next]_vars => IInv'
    <2> SUFFICES ASSUME IInv, [Next]_vars PROVE IInv'
      OBVIOUS
    <2>1. CASE UNCHANGED vars
      BY <2>1, SMT DEF vars, IInv, TypeOK, FlagsOK, Owned, Outcome
    <2> QED
      BY <2>1, StartUpKeeps, SketchKeeps, ReturnsKeeps, ExecuteKeeps, WindDownKeeps,
         CallbacksKeeps DEF Next
  <1> QED
    BY <1>1, <1>2, PTL DEF Spec

\* A callback of the screen never runs on a screen, a router or a session that is gone.
THEOREM CallbacksAreSafe == Spec => []CallbacksFindTheSession
  <1>1. IInv => CallbacksFindTheSession
    BY SMT DEF IInv, Owned, CallbacksFindTheSession
  <1> QED
    BY <1>1, SessionInvariance, PTL

\* Whatever failed, run_sketch() returns with nothing left behind.
THEOREM SessionsLeaveNothing == Spec => []NothingLeft
  <1>1. IInv => NothingLeft
    BY SMT DEF IInv, TypeOK, Owned, NothingLeft
  <1> QED
    BY <1>1, SessionInvariance, PTL

\* A sketch runs only in a session whose start-up worked to the end.
THEOREM SketchesStartComplete == Spec => []SketchFindsEverything
  <1>1. IInv => SketchFindsEverything
    BY SMT DEF IInv, TypeOK, Owned, Outcome, SketchFindsEverything
  <1> QED
    BY <1>1, SessionInvariance, PTL

\* No session ends without a try at saving its last writes.
THEOREM SessionsTryToSave == Spec => []LastWritesAreTried
  <1>1. IInv => LastWritesAreTried
    BY SMT DEF IInv, TypeOK, Outcome, LastWritesAreTried
  <1> QED
    BY <1>1, SessionInvariance, PTL
=============================================================================

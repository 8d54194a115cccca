----------------------------- MODULE FrameClock -----------------------------
(***************************************************************************)
(* class FrameClock of include/meshbus_arduboy/clock.hpp, driven by the    *)
(* frame-gated loop of execute() in src/runtime.cpp: loop() calls          *)
(* nextFrame() once, then the application thread sleeps for wait_ms().     *)
(* The kernel counts ticks; milliseconds are the whole ones of its uptime, *)
(* in a counter that wraps.  since and armed record what happened; the     *)
(* clock never reads them.                                                 *)
(***************************************************************************)
EXTENDS Integers

CONSTANTS Second,     \* milliseconds in a second: 1000 in the code
          TicksPerSecond,   \* CONFIG_SYS_CLOCK_TICKS_PER_SEC
          Rates,      \* the frame rates a sketch may ask for, 0 among them
          Wrap,       \* where milliseconds wrap: 2^32 in the code
          CountWrap,  \* where frame counts wrap: 2^16 in the code
          Busy,       \* the longest a loop() takes, in ticks
          Over        \* the most ticks a sleep is late

\* The most milliseconds that can begin while k ticks pass.
Ms(k) == (k * Second + TicksPerSecond - 1) \div TicksPerSecond

\* The longest way from a frame to the next look at the clock: loop(), a sleep of one
\* millisecond in whole ticks, and its lateness.
LongestPass == 1 + Ms(Busy + Over + 1)

\* Rates are uint8_t; a period and a pass fit in the counter, and so do two passes.
ASSUME ClockAssumption ==
  /\ Second \in Nat /\ Busy \in Nat /\ Over \in Nat /\ Wrap \in Nat /\ CountWrap \in Nat \ {0}
  /\ TicksPerSecond \in Nat \ {0}
  /\ Rates \subseteq 0 .. Second
  /\ Wrap > Second + LongestPass /\ Wrap > 2 * LongestPass

VARIABLES start, period, last_duration, count, rendered,   \* the fields of the class
          now,     \* meshbus_arduboy_millis()
          part,    \* what the ticks are past that millisecond, in ticks / Second
          at,      \* "loop": loop() is about to run, "sleep": it has returned
          since,   \* milliseconds since the last frame, at most Wrap
          armed    \* the last sleep was for the frame of this period

timeVars == <<now, part>>
vars == <<start, period, last_duration, count, rendered, timeVars, at, since, armed>>

\* The milliseconds that pass with n more ticks, and what is left of the last one.
Passing(n) == (part + n * Second) \div TicksPerSecond
Left(n) == (part + n * Second) % TicksPerSecond

\* ticks_to_millis() after n more ticks.
Later(n) == (now + Passing(n)) % Wrap
Elapsed(t) == (t - start) % Wrap
Grown(d) == IF since + d < Wrap THEN since + d ELSE Wrap

TypeOK ==
  /\ start \in 0 .. Wrap - 1 /\ last_duration \in 0 .. Wrap - 1 /\ now \in 0 .. Wrap - 1
  /\ period \in {Second \div r : r \in Rates \ {0}}
  /\ part \in 0 .. TicksPerSecond - 1
  /\ count \in 0 .. CountWrap - 1
  /\ rendered \in BOOLEAN /\ armed \in BOOLEAN
  /\ at \in {"loop", "sleep"}
  /\ since \in 0 .. Wrap

\* run_sketch() makes the clock and sets its rate, at any time of the day.
Init ==
  /\ start = 0 /\ last_duration = 0 /\ count = 0 /\ rendered = FALSE
  /\ period \in {Second \div r : r \in Rates \ {0}}
  /\ now \in 0 .. Wrap - 1
  /\ part \in {(n * Second) % TicksPerSecond : n \in 0 .. TicksPerSecond - 1}
  /\ at = "loop" /\ since = Wrap /\ armed = FALSE

-----------------------------------------------------------------------------
\* mutant: a frame is due one millisecond early
AlmostDue(t) == Elapsed(t) >= period - 1

Due(t) == Elapsed(t) >= period

\* mutant: the pass after a rendered frame leaves the flag set
StaysRendered ==
  /\ at = "loop"
  /\ rendered
  /\ last_duration' = Elapsed(now)
  /\ UNCHANGED <<start, count, rendered, armed, since>>

\* next(): the call after a rendered frame takes its duration and returns false.
FalsePass ==
  /\ at = "loop"
  /\ rendered
  /\ last_duration' = Elapsed(now)
  /\ rendered' = FALSE
  /\ UNCHANGED <<start, count, armed, since>>

NotDue ==
  /\ at = "loop"
  /\ ~rendered
  /\ ~Due(now)
  /\ armed' = FALSE
  /\ UNCHANGED <<start, last_duration, count, rendered, since>>

\* mutant: the next period is counted from when the frame was due, not from now
AcceptFromDue ==
  /\ at = "loop"
  /\ ~rendered
  /\ Due(now)
  /\ rendered' = TRUE
  /\ start' = (start + period) % Wrap
  /\ count' = (count + 1) % CountWrap
  /\ since' = 0
  /\ armed' = FALSE
  /\ UNCHANGED last_duration

Accept ==
  /\ at = "loop"
  /\ ~rendered
  /\ Due(now)
  /\ rendered' = TRUE
  /\ start' = now
  /\ count' = (count + 1) % CountWrap
  /\ since' = 0
  /\ armed' = FALSE
  /\ UNCHANGED last_duration

\* loop() calls nextFrame() and draws a frame if it is told to.
Loop ==
  /\ FalsePass \/ NotDue \/ Accept
  /\ at' = "sleep"
  /\ UNCHANGED <<period, timeVars>>

\* setFrameRate(); zero is refused.  setFrameCount() is the sketch's as well.
SetRate(r) ==
  /\ r # 0
  /\ period' = Second \div r
  /\ armed' = FALSE
  /\ UNCHANGED <<start, last_duration, count, rendered, timeVars, at, since>>

SetCount(n) ==
  /\ count' = n
  /\ UNCHANGED <<start, period, last_duration, rendered, timeVars, at, since, armed>>

WaitMs(t) == IF rendered \/ Due(t) THEN 0 ELSE period - Elapsed(t)

\* mutant: a part of a tick is cut off
WholeTicks(ms) == (ms * TicksPerSecond) \div Second

\* wait_ticks(): so many ticks take at least so many milliseconds.
WaitTicks(ms) == (ms * TicksPerSecond + Second - 1) \div Second

\* What is left of loop() takes d ticks; the thread sleeps for wait_ms(), but for at
\* least one millisecond, in ticks, and wakes up late by o.
Sleep(d, o) ==
  LET wait == WaitMs(Later(d))
      n == d + WaitTicks(IF wait = 0 THEN 1 ELSE wait) + o
  IN  /\ at = "sleep"
      /\ now' = Later(n) /\ part' = Left(n)
      /\ since' = Grown(Passing(n))
      /\ armed' = ~rendered
      /\ at' = "loop"
      /\ UNCHANGED <<start, period, last_duration, count, rendered>>

\* load(): the last frame's share of its period in percent, in a byte.
Load ==
  IF last_duration > (period * 255) \div 100 THEN 255 ELSE (last_duration * 100) \div period

Next ==
  \/ Loop
  \/ \E r \in Rates : SetRate(r)
  \/ \E n \in 0 .. CountWrap - 1 : SetCount(n)
  \/ \E d \in 0 .. Busy, o \in 0 .. Over : Sleep(d, o)

Spec == Init /\ [][Next]_vars

FairSpec == Spec /\ SF_vars(Loop) /\ WF_vars(\E d \in 0 .. Busy, o \in 0 .. Over : Sleep(d, o))

-----------------------------------------------------------------------------
\* The wrapping clock measures real time: what it believes has elapsed since the
\* last frame is what has, as long as that is less than the counter can count; a
\* rendered frame is young enough for that.
ClockInv ==
  /\ TypeOK
  /\ since < Wrap => Elapsed(now) = since
  /\ Load \in 0 .. 255

\* Frames are never closer than the period in force, across the wrap of the
\* millisecond counter and changes of rate (docs/runtime.md, Runtime timebase).
FramesKeepTheirDistance ==
  [][rendered' /\ ~rendered => since >= period]_vars

\* "The executor waits until the next due frame": a sleep ends when the frame is
\* due, whatever loop() took before.  Not later: it only adds its own lateness and a
\* tick of rounding; and not sooner, though the clock cuts milliseconds off and the
\* sleep is in ticks: a nextFrame() that returns false is the pass after a frame, or
\* the rate was changed since the executor went to sleep.
SleepEndsAtTheFrame ==
  [][/\ \A d \in 0 .. Busy, o \in 0 .. Over : (Sleep(d, o) /\ since < period) =>
          \/ since' <= period + Ms(o + 1)
          \/ since' <= since + 1 + Ms(d + o + 1)
     /\ (Loop /\ ~rendered') => (rendered \/ ~armed)]_vars

\* Frames keep coming as long as the rate is left alone; every frame is followed by
\* its false pass.
FramesKeepComing == []<>rendered /\ []<>~rendered
=============================================================================

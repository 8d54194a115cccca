-------------------------- MODULE FrameClock_proofs --------------------------
(***************************************************************************)
(* clock.hpp: the frame clock for every wrap of the counter, length of a   *)
(* second, set of rates and delays the counter can hold, and the division  *)
(* that makes its milliseconds for every width of a word.                  *)
(***************************************************************************)
EXTENDS FrameClock, ClockDivision, TLAPS

\* The remainder of a number less than two turns from zero.
LEMMA WrapOnce ==
  ASSUME NEW n \in Nat, n > 0, NEW i \in Int, -n <= i, i < 2 * n
  PROVE  i % n = IF i < 0 THEN i + n ELSE IF i < n THEN i ELSE i - n
  <1>1. CASE i < 0
    BY <1>1, SMT
  <1>2. CASE 0 <= i /\ i < n
    BY <1>2, SMT
  <1>3. CASE n <= i
    BY <1>3, SMT
  <1> QED
    BY <1>1, <1>2, <1>3, SMT

\* A quotient between its products.
LEMMA QuotientBounds ==
  ASSUME NEW n \in Nat, NEW p \in Nat \ {0}
  PROVE  n \div p \in Nat /\ p * (n \div p) <= n /\ n < p * (n \div p) + p
  BY SMT

LEMMA QuotientAtLeast ==
  ASSUME NEW n \in Nat, NEW p \in Nat \ {0}, NEW q \in Nat, p * q <= n
  PROVE  q <= n \div p
  <1> DEFINE k == n \div p
  <1>1. k \in Nat /\ n < p * k + p
    BY QuotientBounds
  <1> HIDE DEF k
  <1>2. p * q < p * (k + 1)
    BY <1>1, SMT
  <1>3. q < k + 1
    BY <1>1, <1>2, SMT
  <1> QED
    BY <1>1, <1>3, SMT DEF k

LEMMA QuotientAtMost ==
  ASSUME NEW n \in Nat, NEW p \in Nat \ {0}, NEW q \in Nat, n < p * q + p
  PROVE  n \div p <= q
  <1> DEFINE k == n \div p
  <1>1. k \in Nat /\ p * k <= n
    BY QuotientBounds
  <1> HIDE DEF k
  <1>2. p * k < p * (q + 1)
    BY <1>1, SMT
  <1>3. k < q + 1
    BY <1>1, <1>2, SMT
  <1> QED
    BY <1>1, <1>3, SMT DEF k

LEMMA MsIsNat == \A k \in Nat : Ms(k) \in Nat
  <1> SUFFICES ASSUME NEW k \in Nat PROVE Ms(k) \in Nat
    OBVIOUS
  <1>1. TicksPerSecond \in Nat \ {0} /\ k * Second + TicksPerSecond - 1 \in Nat
    BY ClockAssumption, SMT
  <1> QED
    BY <1>1, QuotientBounds DEF Ms

\* The counter has room for a second and a pass.
LEMMA WrapIsWide == LongestPass \in Nat /\ Wrap \in Nat /\ 0 < Wrap /\ Second < Wrap
  <1>1. Busy + Over + 1 \in Nat
    BY ClockAssumption, SMT
  <1>2. LongestPass \in Nat
    BY <1>1, MsIsNat, SMT DEF LongestPass
  <1> QED
    BY <1>2, ClockAssumption, SMT

\* Ticks make milliseconds, and no more of them than Ms says.
LEMMA PassingBounds ==
  ASSUME part \in 0 .. TicksPerSecond - 1, NEW k \in Nat
  PROVE  /\ Passing(k) \in Nat /\ Ms(k) \in Nat /\ Passing(k) <= Ms(k)
         /\ Left(k) \in 0 .. TicksPerSecond - 1
  <1>1. TicksPerSecond \in Nat \ {0} /\ Second \in Nat /\ part \in Nat
    BY ClockAssumption, SMT
  <1> DEFINE x == k * Second
             t == TicksPerSecond
  <1>2. x \in Nat /\ part + x \in Nat /\ x + t - 1 \in Nat /\ part + x <= x + t - 1
    BY <1>1, SMT
  <1> HIDE DEF x
  <1>3. t \in Nat \ {0}
    BY <1>1
  <1> HIDE DEF t
  <1>4. t * ((part + x) \div t) <= part + x /\ (part + x) \div t \in Nat
    BY <1>2, <1>3, QuotientBounds
  <1>5. (part + x) \div t <= (x + t - 1) \div t
    <2>1. t * ((part + x) \div t) <= x + t - 1
      BY <1>2, <1>3, <1>4, SMT
    <2> QED
      BY <1>2, <1>3, <1>4, <2>1, QuotientAtLeast
  <1>6. (x + t - 1) \div t \in Nat
    BY <1>2, <1>3, QuotientBounds
  <1>7. (part + x) % t \in 0 .. t - 1
    BY <1>2, <1>3, SMT
  <1> QED
    BY <1>4, <1>5, <1>6, <1>7 DEF Passing, Left, Ms, x, t

\* More ticks make no fewer milliseconds.
LEMMA MoreTicks ==
  ASSUME NEW j \in Nat, NEW k \in Nat, j <= k PROVE Ms(j) <= Ms(k)
  <1>1. TicksPerSecond \in Nat \ {0} /\ Second \in Nat
    BY ClockAssumption
  <1> DEFINE x == j * Second + TicksPerSecond - 1
             y == k * Second + TicksPerSecond - 1
  <1>2. x \in Nat /\ y \in Nat /\ x <= y
    BY <1>1, SMT
  <1> HIDE DEF x, y
  <1>3. TicksPerSecond * (x \div TicksPerSecond) <= x /\ x \div TicksPerSecond \in Nat
    BY <1>1, <1>2, QuotientBounds
  <1>4. TicksPerSecond * (x \div TicksPerSecond) <= y
    BY <1>1, <1>2, <1>3, SMT
  <1>5. x \div TicksPerSecond <= y \div TicksPerSecond
    BY <1>1, <1>2, <1>3, <1>4, QuotientAtLeast
  <1> QED
    BY <1>5 DEF Ms, x, y

\* wait_ticks() rounds up by less than a tick.
LEMMA WaitIsWhole ==
  ASSUME Second > 0, NEW w \in Nat
  PROVE  /\ WaitTicks(w) \in Nat
         /\ w * TicksPerSecond <= WaitTicks(w) * Second
         /\ WaitTicks(w) * Second <= w * TicksPerSecond + Second - 1
  <1>1. TicksPerSecond \in Nat /\ Second \in Nat \ {0}
    BY ClockAssumption, SMT
  <1> DEFINE x == w * TicksPerSecond
  <1>2. x \in Nat /\ x + Second - 1 \in Nat
    BY <1>1, SMT
  <1> HIDE DEF x
  <1> DEFINE c == (x + Second - 1) \div Second
  <1>3. c \in Nat /\ Second * c <= x + Second - 1 /\ x + Second - 1 < Second * c + Second
    BY <1>1, <1>2, QuotientBounds
  <1> HIDE DEF c
  <1>4. Second * c = c * Second /\ Second * c \in Nat
    BY <1>1, <1>3, SMT
  <1>5. x <= c * Second /\ c * Second <= x + Second - 1
    BY <1>1, <1>2, <1>3, <1>4, SMT
  <1> QED
    BY <1>3, <1>5 DEF WaitTicks, x, c

\* A sleep of w milliseconds in ticks, o ticks late, after n ticks: the clock, which
\* cuts milliseconds off, has gone on by w at least, and at most by its lateness and a
\* tick more.
LEMMA SleepIsLong ==
  ASSUME part \in 0 .. TicksPerSecond - 1, Second > 0,
         NEW n \in Nat, NEW w \in Nat, NEW o \in Nat
  PROVE  /\ Passing(n + WaitTicks(w) + o) \in Nat
         /\ Passing(n) + w <= Passing(n + WaitTicks(w) + o)
         /\ Passing(n + WaitTicks(w) + o) <= Passing(n) + w + Ms(o + 1)
  <1>1. TicksPerSecond \in Nat \ {0} /\ Second \in Nat /\ part \in Nat /\ WaitTicks(w) \in Nat
    BY ClockAssumption, WaitIsWhole, SMT
  <1> DEFINE t == TicksPerSecond
             c == WaitTicks(w)
             a == n * Second
             b == c * Second
             e == o * Second
             v == w * t
  <1>2. a \in Nat /\ b \in Nat /\ e \in Nat /\ v \in Nat /\ t \in Nat \ {0}
        /\ (n + c + o) * Second = a + b + e /\ (o + 1) * Second = e + Second
    BY <1>1, SMT
  <1>3. v <= b /\ b <= v + Second - 1
    BY WaitIsWhole
  <1>4. v = t * w
    BY <1>1, SMT
  <1> HIDE DEF c, a, b, e, v
  <1> DEFINE q == (part + a) \div t
             m == (e + Second + t - 1) \div t
  <1>5. q \in Nat /\ t * q <= part + a /\ part + a < t * q + t
    BY <1>1, <1>2, QuotientBounds
  <1>6. m \in Nat /\ e + Second + t - 1 < t * m + t
    <2>1. e + Second + t - 1 \in Nat
      BY <1>1, <1>2, SMT
    <2> QED
      BY <1>2, <2>1, QuotientBounds
  <1> HIDE DEF q, m, t
  <1> DEFINE x == part + (a + b + e)
  <1>7. x \in Nat /\ q + w \in Nat /\ q + w + m \in Nat
    BY <1>1, <1>2, <1>5, <1>6, SMT
  <1>8. t * (q + w) = t * q + v /\ t * (q + w + m) = t * q + v + t * m
    BY <1>2, <1>4, <1>5, <1>6, SMT
  <1>9. t * q \in Nat /\ t * m \in Nat
    BY <1>2, <1>5, <1>6, SMT
  <1>10. t * (q + w) <= x
    BY <1>1, <1>2, <1>3, <1>5, <1>8, <1>9, SMT
  <1>11. x < t * (q + w + m) + t
    BY <1>1, <1>2, <1>3, <1>5, <1>6, <1>8, <1>9, SMT
  <1> HIDE DEF x
  <1>12. q + w <= x \div t /\ x \div t <= q + w + m /\ x \div t \in Nat
    BY <1>2, <1>7, <1>10, <1>11, QuotientAtLeast, QuotientAtMost, QuotientBounds
  <1>13. Passing(n + c + o) = x \div t /\ Passing(n) = q /\ Ms(o + 1) = m
    BY <1>2 DEF Passing, Ms, x, q, m, a, t
  <1> QED
    BY <1>12, <1>13 DEF c

\* The periods a rate can set, and their range.
Periods == {Second \div r : r \in Rates \ {0}}

LEMMA PeriodBounds == \A p \in Periods : p \in Nat /\ 1 <= p /\ p <= Second
  <1> SUFFICES ASSUME NEW r \in Rates \ {0}
               PROVE  Second \div r \in Nat /\ 1 <= Second \div r /\ Second \div r <= Second
    BY DEF Periods
  <1>1. r \in Nat /\ 1 <= r /\ r <= Second /\ Second \in Nat
    BY ClockAssumption, SMT
  <1> QED
    BY <1>1, SMT

\* The load of a frame fits a byte whatever the frame took.
LEMMA LoadFits ==
  ASSUME NEW d \in Nat, NEW p \in Nat, 1 <= p, d <= (p * 255) \div 100
  PROVE  (d * 100) \div p \in 0 .. 255
  <1>1. d * 100 <= p * 255
    BY SMT
  <1>2. DEFINE q == (d * 100) \div p
  <1>3. q \in Int /\ q * p <= d * 100 /\ 0 <= q
    BY SMT
  <1>4. q * p <= 255 * p
    BY <1>1, <1>3, SMT
  <1>5. q <= 255
    <2>1. SUFFICES ASSUME q >= 256 PROVE FALSE
      BY <1>3, SMT
    <2>2. q * p >= 256 * p
      BY <2>1, <1>3, SMT
    <2> QED
      BY <2>2, <1>4, <1>3, SMT
  <1> QED
    BY <1>3, <1>5, SMT

\* What the clock believes has elapsed, after x more milliseconds.
LEMMA ElapsedGrows ==
  ASSUME NEW s \in 0 .. Wrap - 1, NEW t \in 0 .. Wrap - 1, NEW x \in Nat, x < Wrap,
         ((t - s) % Wrap) + x < Wrap
  PROVE  /\ (t + x) % Wrap \in 0 .. Wrap - 1
         /\ (((t + x) % Wrap) - s) % Wrap = ((t - s) % Wrap) + x
  <1>1. Wrap \in Nat /\ Wrap > 0
    BY ClockAssumption, SMT
  <1>2. (t - s) % Wrap = IF t - s < 0 THEN t - s + Wrap ELSE t - s
    BY <1>1, WrapOnce, SMT
  <1>3. (t + x) % Wrap = IF t + x < Wrap THEN t + x ELSE t + x - Wrap
    BY <1>1, WrapOnce, SMT
  <1> DEFINE u == (t + x) % Wrap
  <1>4. u \in 0 .. Wrap - 1
    BY <1>1, <1>3, SMT
  <1>5. (u - s) % Wrap = IF u - s < 0 THEN u - s + Wrap ELSE u - s
    BY <1>1, <1>4, WrapOnce, SMT
  <1> QED
    BY <1>1, <1>2, <1>3, <1>4, <1>5, SMT

\* ... and so does the load of every frame, the long ones included.
LEMMA LoadOfAny ==
  \A d, p \in Nat : 1 <= p =>
    (IF d > (p * 255) \div 100 THEN 255 ELSE (d * 100) \div p) \in 0 .. 255
  <1> SUFFICES ASSUME NEW d \in Nat, NEW p \in Nat, 1 <= p
               PROVE (IF d > (p * 255) \div 100 THEN 255 ELSE (d * 100) \div p) \in 0 .. 255
    OBVIOUS
  <1>1. CASE d > (p * 255) \div 100
    BY <1>1, SMT
  <1>2. CASE ~(d > (p * 255) \div 100)
    <2>1. (p * 255) \div 100 \in Int
      BY SMT
    <2>2. d <= (p * 255) \div 100
      BY <1>2, <2>1, SMT
    <2> QED
      BY <1>2, <2>2, LoadFits
  <1> QED
    BY <1>1, <1>2

LEMMA InitClockInv == Init => ClockInv
  <1> SUFFICES ASSUME Init PROVE ClockInv
    OBVIOUS
  <1>1. TypeOK
    <2>1. 0 \in 0 .. Wrap - 1 /\ 0 \in 0 .. CountWrap - 1 /\ Wrap \in 0 .. Wrap
      BY ClockAssumption, WrapIsWide, SMT
    <2>2. part \in 0 .. TicksPerSecond - 1
      <3>1. PICK n \in 0 .. TicksPerSecond - 1 : part = (n * Second) % TicksPerSecond
        BY DEF Init
      <3>2. n * Second \in Nat /\ TicksPerSecond \in Nat \ {0}
        BY ClockAssumption, SMT
      <3> QED
        BY <3>1, <3>2, SMT
    <2> QED
      BY <2>1, <2>2 DEF Init, TypeOK
  <1>2. since < Wrap => Elapsed(now) = since
    BY ClockAssumption, SMT DEF Init
  <1>3. Load \in 0 .. 255
    <2>1. last_duration \in Nat /\ period \in Nat /\ 1 <= period
      BY <1>1, ClockAssumption, PeriodBounds, SMT DEF TypeOK, Periods
    <2> QED
      BY <2>1, LoadOfAny DEF Load
  <1> QED
    BY <1>1, <1>2, <1>3 DEF ClockInv

\* The lengths of a pass, in milliseconds.
LEMMA PassBounds ==
  ASSUME Second > 0
  PROVE  /\ LongestPass \in Nat /\ Wrap \in Nat /\ Second + LongestPass < Wrap
         /\ 2 * LongestPass < Wrap
         /\ \A d \in 0 .. Busy, o \in 0 .. Over :
              /\ d \in Nat /\ o \in Nat
              /\ Ms(d + o + 1) \in Nat /\ 1 + Ms(d + o + 1) <= LongestPass
              /\ Ms(o + 1) \in Nat /\ 1 + Ms(o + 1) <= LongestPass
              /\ Ms(d) \in Nat /\ 1 + Ms(d) <= LongestPass
  <1>1. Busy \in Nat /\ Over \in Nat /\ Second \in Nat /\ Wrap \in Nat /\ TicksPerSecond \in Nat \ {0}
        /\ Wrap > Second + LongestPass /\ Wrap > 2 * LongestPass
    BY ClockAssumption
  <1>2. \A k \in Nat : Ms(k) \in Nat
    BY MsIsNat
  <1>3. Busy + Over + 1 \in Nat
    BY <1>1, SMT
  <1>4. LongestPass \in Nat
    BY WrapIsWide
  <1>5. ASSUME NEW d \in 0 .. Busy, NEW o \in 0 .. Over
        PROVE  /\ d \in Nat /\ o \in Nat
               /\ Ms(d + o + 1) \in Nat /\ 1 + Ms(d + o + 1) <= LongestPass
               /\ Ms(o + 1) \in Nat /\ 1 + Ms(o + 1) <= LongestPass
               /\ Ms(d) \in Nat /\ 1 + Ms(d) <= LongestPass
    <2>1. /\ d \in Nat /\ o \in Nat /\ d + o + 1 \in Nat /\ o + 1 \in Nat
          /\ d + o + 1 <= Busy + Over + 1 /\ o + 1 <= Busy + Over + 1 /\ d <= Busy + Over + 1
      BY <1>1, SMT
    <2>2. /\ Ms(d + o + 1) <= Ms(Busy + Over + 1) /\ Ms(o + 1) <= Ms(Busy + Over + 1)
          /\ Ms(d) <= Ms(Busy + Over + 1)
      BY <1>3, <2>1, MoreTicks
    <2>3. Ms(d + o + 1) \in Nat /\ Ms(o + 1) \in Nat /\ Ms(d) \in Nat /\ Ms(Busy + Over + 1) \in Nat
      BY <1>2, <1>3, <2>1
    <2> QED
      BY <2>1, <2>2, <2>3, SMT DEF LongestPass
  <1>6. Second + LongestPass < Wrap /\ 2 * LongestPass < Wrap
    BY <1>1, <1>4, SMT
  <1> QED
    BY <1>1, <1>4, <1>5, <1>6

\* What a sleep adds to the clock: the wait, or a millisecond, and little more.
LEMMA SleepAdds ==
  ASSUME ClockInv, NEW d \in 0 .. Busy, NEW o \in 0 .. Over, Sleep(d, o)
  PROVE  \E x \in Nat :
           /\ now' = (now + x) % Wrap /\ since' = Grown(x) /\ start' = start
           /\ part' \in 0 .. TicksPerSecond - 1
           /\ x < Wrap /\ Second > 0 /\ Passing(d) \in Nat /\ Passing(d) <= Ms(d)
           /\ WaitMs(Later(d)) \in 0 .. Second
           /\ WaitMs(Later(d)) = 0 => /\ 1 <= x /\ Passing(d) <= x
                                     /\ x <= 1 + Ms(d + o + 1)
           /\ WaitMs(Later(d)) # 0 => /\ Passing(d) + WaitMs(Later(d)) <= x
                                     /\ x <= Passing(d) + WaitMs(Later(d)) + Ms(o + 1)
  <1> DEFINE wait == WaitMs(Later(d))
             w == IF wait = 0 THEN 1 ELSE wait
             n == d + WaitTicks(w) + o
             x == Passing(n)
  <1>0. Wrap \in Nat /\ Wrap > 0 /\ part \in 0 .. TicksPerSecond - 1
    BY ClockAssumption, SMT DEF ClockInv, TypeOK
  <1>1. start \in 0 .. Wrap - 1 /\ now \in 0 .. Wrap - 1
    BY DEF ClockInv, TypeOK
  <1>2. period \in Nat /\ period <= Second /\ 1 <= period
    BY PeriodBounds DEF ClockInv, TypeOK, Periods
  <1>3. Second \in Nat /\ Second > 0
    BY <1>2, ClockAssumption, SMT
  <1>4. d \in Nat /\ o \in Nat
    BY <1>3, PassBounds
  <1>5. Passing(d) \in Nat /\ Passing(d) <= Ms(d)
    BY <1>0, <1>4, PassingBounds
  <1>6. Elapsed(Later(d)) \in Nat
    BY <1>0, <1>1, <1>5, SMT DEF Elapsed, Later
  <1>7. wait \in 0 .. Second
    BY <1>2, <1>3, <1>6, SMT DEF WaitMs, Due
  <1> HIDE DEF wait
  <1>8. w \in Nat /\ w <= Second
    BY <1>3, <1>7, SMT
  <1>9. x \in Nat /\ Passing(d) + w <= x /\ x <= Passing(d) + w + Ms(o + 1)
    BY <1>0, <1>3, <1>4, <1>8, SleepIsLong
  <1>10. x <= w + Ms(d + o + 1)
    <2>1. Passing(0) = 0
      <3>1. part + 0 * Second = part /\ part \in Nat /\ TicksPerSecond \in Nat \ {0} /\ part < TicksPerSecond
        BY <1>0, <1>3, ClockAssumption, SMT
      <3>2. part \div TicksPerSecond = 0
        BY <3>1, SMT
      <3> QED
        BY <3>1, <3>2 DEF Passing
    <2>2. WaitTicks(w) \in Nat
      BY <1>3, <1>8, WaitIsWhole
    <2> HIDE DEF w
    <2>3. 0 + WaitTicks(w) + (d + o) = d + WaitTicks(w) + o /\ d + o \in Nat
      BY <1>4, <2>2, SMT
    <2>4. Passing(0 + WaitTicks(w) + (d + o)) <= Passing(0) + w + Ms(d + o + 1)
      BY <1>0, <1>3, <1>8, <2>3, SleepIsLong
    <2>5. x <= 0 + w + Ms(d + o + 1)
      BY <2>1, <2>3, <2>4
    <2> QED
      BY <1>8, <2>5
  <1>11. wait # 0 => w = wait
    OBVIOUS
  <1>12. now' = (now + x) % Wrap /\ since' = Grown(x) /\ start' = start /\ part' = Left(n)
    BY DEF Sleep, Later, wait
  <1>13. Left(n) \in 0 .. TicksPerSecond - 1
    <2>1. n \in Nat
      BY <1>3, <1>4, <1>8, WaitIsWhole, SMT
    <2> QED
      BY <1>0, <2>1, PassingBounds
  <1>15. /\ LongestPass \in Nat /\ Second + LongestPass < Wrap /\ Ms(o + 1) \in Nat
         /\ Ms(d + o + 1) \in Nat /\ 1 + Ms(o + 1) <= LongestPass /\ 1 + Ms(d + o + 1) <= LongestPass
    BY <1>3, PassBounds
  <1>14. w >= 1
    BY <1>7, SMT
  <1> HIDE DEF x, n, w
  <1>16. x < Wrap
    BY <1>0, <1>3, <1>8, <1>9, <1>10, <1>15, SMT
  <1>17. wait = 0 => w = 1
    BY DEF w
  <1>18. wait = 0 => 1 <= x /\ Passing(d) <= x /\ x <= 1 + Ms(d + o + 1)
    BY <1>5, <1>8, <1>9, <1>10, <1>15, <1>17, SMT
  <1> QED
    BY <1>3, <1>5, <1>7, <1>9, <1>11, <1>12, <1>13, <1>16, <1>18 DEF wait

LEMMA SleepKeepsTime ==
  ASSUME ClockInv, NEW d \in 0 .. Busy, NEW o \in 0 .. Over, Sleep(d, o)
  PROVE  /\ now' \in 0 .. Wrap - 1 /\ since' \in 0 .. Wrap /\ part' \in 0 .. TicksPerSecond - 1
         /\ since' < Wrap => Elapsed(now)' = since'
  <1>0. Wrap \in Nat /\ Wrap > 0
    BY ClockAssumption, WrapIsWide, SMT
  <1>1. start \in 0 .. Wrap - 1 /\ now \in 0 .. Wrap - 1 /\ since \in 0 .. Wrap
    BY DEF ClockInv, TypeOK
  <1>2. PICK x \in Nat : /\ now' = (now + x) % Wrap /\ since' = Grown(x) /\ start' = start
                         /\ part' \in 0 .. TicksPerSecond - 1 /\ x < Wrap
    BY SleepAdds
  <1>7. now' \in 0 .. Wrap - 1 /\ since' \in 0 .. Wrap
    BY <1>0, <1>1, <1>2, SMT DEF Grown
  <1>8. ASSUME since' < Wrap PROVE Elapsed(now)' = since'
    <2>1. since' = since + x /\ since < Wrap
      BY <1>0, <1>1, <1>2, <1>8, SMT DEF Grown
    <2>2. (now - start) % Wrap = since
      BY <2>1 DEF ClockInv, Elapsed
    <2> QED
      BY <1>0, <1>1, <1>2, <1>8, <2>1, <2>2, ElapsedGrows DEF Elapsed
  <1> QED
    BY <1>2, <1>7, <1>8

LEMMA StepClockInv == ClockInv /\ [Next]_vars => ClockInv'
  <1> SUFFICES ASSUME ClockInv, [Next]_vars PROVE ClockInv'
    OBVIOUS
  <1>0. Wrap \in Nat /\ Wrap > 0 /\ CountWrap \in Nat /\ CountWrap > 0
    BY ClockAssumption, WrapIsWide, SMT
  <1>t. TypeOK
    BY DEF ClockInv
  <1>1. ASSUME Loop PROVE TypeOK' /\ (since' < Wrap => Elapsed(now)' = since')
    <2>1. CASE FalsePass
      <3>1. Elapsed(now) \in 0 .. Wrap - 1
        BY <1>0, <1>t, SMT DEF Elapsed, TypeOK
      <3> QED
        BY <1>1, <2>1, <3>1, <1>t DEF Loop, FalsePass, timeVars, TypeOK, ClockInv, Elapsed
    <2>2. CASE NotDue
      BY <1>1, <2>2, <1>t DEF Loop, NotDue, timeVars, TypeOK, ClockInv, Elapsed
    <2>3. CASE Accept
      <3>1. (count + 1) % CountWrap \in 0 .. CountWrap - 1
        BY <1>0, <1>t, SMT DEF TypeOK
      <3>2. 0 \in 0 .. Wrap /\ now - now = 0 /\ 0 % Wrap = 0
        BY <1>0, <1>t, WrapOnce, SMT DEF TypeOK
      <3> QED
        BY <1>1, <2>3, <3>1, <3>2, <1>t DEF Loop, Accept, timeVars, TypeOK, Elapsed
    <2> QED
      BY <1>1, <2>1, <2>2, <2>3 DEF Loop
  <1>2. ASSUME NEW r \in Rates, SetRate(r) PROVE TypeOK' /\ (since' < Wrap => Elapsed(now)' = since')
    BY <1>2, <1>t DEF SetRate, timeVars, TypeOK, ClockInv, Elapsed
  <1>3. ASSUME NEW n \in 0 .. CountWrap - 1, SetCount(n)
        PROVE  TypeOK' /\ (since' < Wrap => Elapsed(now)' = since')
    BY <1>3, <1>t DEF SetCount, timeVars, TypeOK, ClockInv, Elapsed
  <1>4. ASSUME NEW d \in 0 .. Busy, NEW o \in 0 .. Over, Sleep(d, o)
        PROVE  TypeOK' /\ (since' < Wrap => Elapsed(now)' = since')
    BY <1>4, <1>t, SleepKeepsTime DEF Sleep, TypeOK
  <1>5. ASSUME UNCHANGED vars PROVE TypeOK' /\ (since' < Wrap => Elapsed(now)' = since')
    BY <1>5, <1>t DEF vars, timeVars, TypeOK, ClockInv, Elapsed
  <1>6. TypeOK' /\ (since' < Wrap => Elapsed(now)' = since')
    BY <1>1, <1>2, <1>3, <1>4, <1>5 DEF Next
  <1>7. (Load \in 0 .. 255)'
    <2>1. (last_duration \in Nat /\ period \in Nat /\ 1 <= period)'
      BY <1>6, ClockAssumption, PeriodBounds, SMT DEF TypeOK, Periods
    <2> QED
      BY <2>1, LoadOfAny DEF Load
  <1> QED
    BY <1>6, <1>7 DEF ClockInv

\* The wrapping clock and real time agree.
THEOREM ClockInvariance == Spec => []ClockInv
  <1>1. Init => ClockInv
    BY InitClockInv
  <1>2. ClockInv /\ [Next]_vars => ClockInv'
    BY StepClockInv
  <1> QED
    BY <1>1, <1>2, PTL DEF Spec

\* No two frames are closer than the period, before and after the counter wraps.
THEOREM FramesAreApart == Spec => FramesKeepTheirDistance
  <1>1. ASSUME ClockInv, [Next]_vars, rendered', ~rendered PROVE since >= period
    <2>1. Accept
      BY <1>1 DEF vars, timeVars, Next, Loop, FalsePass, NotDue, SetRate, SetCount, Sleep
    <2>2. period \in Nat /\ period <= Second
      BY <1>1, PeriodBounds DEF ClockInv, TypeOK, Periods
    <2>3. since \in 0 .. Wrap
      BY <1>1 DEF ClockInv, TypeOK
    <2>4. since < Wrap => since >= period
      BY <1>1, <2>1 DEF Accept, Due, ClockInv
    <2> QED
      BY <2>2, <2>3, <2>4, WrapIsWide, ClockAssumption, SMT
  <1>2. ClockInv /\ [Next]_vars => [rendered' /\ ~rendered => since >= period]_vars
    BY <1>1
  <1> QED
    BY <1>2, ClockInvariance, PTL DEF Spec, FramesKeepTheirDistance

-----------------------------------------------------------------------------
\* How much the clock can believe to have elapsed at each point of the loop: what
\* the wait adds never carries it around the counter.
Paced ==
  /\ ClockInv
  /\ (at = "sleep" /\ rendered) => Elapsed(now) = 0
  /\ (at = "loop" /\ rendered) => Elapsed(now) <= LongestPass
  /\ (at = "sleep" /\ ~rendered) => (Elapsed(now) < Second \/ Elapsed(now) <= LongestPass)
  /\ (at = "loop" /\ ~rendered /\ armed) => Due(now)

\* What a sleep makes of what has elapsed: it ends at the frame, or a millisecond on.
LEMMA SleepEnds ==
  ASSUME ClockInv, NEW d \in 0 .. Busy, NEW o \in 0 .. Over, Sleep(d, o),
         Elapsed(now) < Second \/ Elapsed(now) <= LongestPass
  PROVE  \/ /\ ~rendered /\ Elapsed(now) < period
            /\ period <= Elapsed(now)' /\ Elapsed(now)' <= period + Ms(o + 1)
         \/ /\ \/ rendered
               \/ period <= Elapsed(now)'
            /\ Elapsed(now) < Elapsed(now)'
            /\ Elapsed(now)' <= Elapsed(now) + 1 + Ms(d + o + 1)
  <1> DEFINE E == Elapsed(now)
  <1>0. Wrap \in Nat
    BY ClockAssumption
  <1>1. start \in 0 .. Wrap - 1 /\ now \in 0 .. Wrap - 1 /\ rendered \in BOOLEAN
    BY DEF ClockInv, TypeOK
  <1>2. period \in Nat /\ 1 <= period /\ period <= Second
    BY PeriodBounds DEF ClockInv, TypeOK, Periods
  <1>3. E \in Nat /\ E = (now - start) % Wrap
    BY <1>0, <1>1, ClockAssumption, SMT DEF Elapsed
  <1>4. PICK x \in Nat :
           /\ now' = (now + x) % Wrap /\ start' = start
           /\ Second > 0 /\ Passing(d) \in Nat /\ Passing(d) <= Ms(d) /\ x < Wrap
           /\ WaitMs(Later(d)) = 0 => /\ 1 <= x /\ Passing(d) <= x
                                     /\ x <= 1 + Ms(d + o + 1)
           /\ WaitMs(Later(d)) # 0 => /\ Passing(d) + WaitMs(Later(d)) <= x
                                     /\ x <= Passing(d) + WaitMs(Later(d)) + Ms(o + 1)
    BY SleepAdds
  <1>5. /\ LongestPass \in Nat /\ Second \in Nat /\ Second + LongestPass < Wrap /\ 2 * LongestPass < Wrap
        /\ Ms(d + o + 1) \in Nat /\ 1 + Ms(d + o + 1) <= LongestPass
        /\ Ms(o + 1) \in Nat /\ 1 + Ms(o + 1) <= LongestPass /\ Ms(d) \in Nat /\ 1 + Ms(d) <= LongestPass
    BY <1>4, PassBounds, ClockAssumption
  <1>6. Elapsed(Later(d)) = E + Passing(d)
    <2>1. Passing(d) < Wrap /\ E + Passing(d) < Wrap
      BY <1>0, <1>3, <1>4, <1>5, SMT DEF E
    <2> QED
      BY <1>1, <1>3, <1>4, <2>1, ElapsedGrows DEF Elapsed, Later
  <1>10. ASSUME E + x < Wrap PROVE Elapsed(now)' = E + x
    BY <1>1, <1>3, <1>4, <1>10, ElapsedGrows DEF Elapsed
  <1>11. E < Second \/ E <= LongestPass
    OBVIOUS
  <1> HIDE DEF E
  <1>7. CASE rendered \/ E + Passing(d) >= period
    <2>1. WaitMs(Later(d)) = 0
      BY <1>6, <1>7 DEF WaitMs, Due
    <2>2. 1 <= x /\ x <= 1 + Ms(d + o + 1) /\ E + x < Wrap
      BY <1>0, <1>3, <1>4, <1>5, <1>11, <2>1, SMT
    <2>3. Elapsed(now)' = E + x
      BY <1>10, <2>2
    <2>4. CASE rendered
      BY <1>3, <1>5, <2>2, <2>3, <2>4, SMT DEF E
    <2>5. CASE ~rendered /\ E >= period
      BY <1>2, <1>3, <1>5, <2>2, <2>3, <2>5, SMT DEF E
    <2>6. CASE ~rendered /\ E < period
      <3>1. E + Passing(d) >= period
        BY <1>7, <2>6
      <3>2. Passing(d) <= x
        BY <2>1, <1>4
      <3> QED
        BY <1>2, <1>3, <1>4, <1>5, <2>2, <2>3, <3>1, <3>2, SMT DEF E
    <2> QED
      BY <1>2, <1>3, <2>4, <2>5, <2>6, SMT
  <1>8. CASE ~rendered /\ ~(E + Passing(d) >= period)
    <2>1. WaitMs(Later(d)) = period - (E + Passing(d)) /\ E + Passing(d) < period
      BY <1>2, <1>3, <1>4, <1>6, <1>8, SMT DEF WaitMs, Due
    <2>2. WaitMs(Later(d)) # 0
      BY <1>2, <1>3, <1>4, <2>1, SMT
    <2>3. period <= E + x /\ E + x <= period + Ms(o + 1)
      BY <1>2, <1>3, <1>4, <1>5, <2>1, <2>2, SMT
    <2>4. E + x < Wrap
      BY <1>0, <1>2, <1>3, <1>4, <1>5, <2>3, SMT
    <2>5. Elapsed(now)' = E + x
      BY <1>10, <2>4
    <2>6. E < period
      BY <1>2, <1>3, <1>4, <2>1, SMT
    <2> QED
      BY <1>8, <2>3, <2>5, <2>6 DEF E
  <1> QED
    BY <1>7, <1>8

LEMMA InitPaced == Init => Paced
  BY InitClockInv DEF Init, Paced

LEMMA StepPaced == Paced /\ [Next]_vars => Paced'
  <1> SUFFICES ASSUME Paced, [Next]_vars PROVE Paced'
    OBVIOUS
  <1>i. ClockInv /\ ClockInv'
    BY StepClockInv DEF Paced
  <1>t. TypeOK
    BY <1>i DEF ClockInv
  <1>0. Wrap \in Nat /\ Second \in Nat /\ Busy \in Nat /\ Over \in Nat
    BY ClockAssumption
  <1>p. period \in Nat /\ 1 <= period /\ period <= Second
    BY <1>t, PeriodBounds DEF TypeOK, Periods
  <1>s. Second > 0
    BY <1>0, <1>p, SMT
  <1>n. (now' - start') % Wrap \in Nat
    <2>1. start' \in Int /\ now' \in Int
      BY <1>0, <1>i, SMT DEF ClockInv, TypeOK
    <2>2. now' - start' \in Int
      BY <2>1, SMT
    <2>3. \A m \in Int : m % Wrap \in Nat
      BY WrapIsWide, SMT
    <2> QED
      BY <2>2, <2>3
  <1>e. Elapsed(now) \in Nat
    BY <1>0, <1>t, ClockAssumption, SMT DEF Elapsed, TypeOK
  <1>1. CASE Loop
    <2>1. CASE FalsePass
      <3>1. Elapsed(now)' = Elapsed(now) /\ at = "loop" /\ rendered /\ at' = "sleep" /\ ~rendered'
        BY <1>1, <2>1 DEF Loop, FalsePass, timeVars, Elapsed
      <3> QED
        BY <1>i, <3>1 DEF Paced
    <2>2. CASE NotDue
      <3>1. Elapsed(now)' = Elapsed(now) /\ at' = "sleep" /\ ~rendered' /\ ~(Elapsed(now) >= period)
        BY <1>1, <2>2 DEF Loop, NotDue, timeVars, Elapsed, Due
      <3>2. Elapsed(now) < Second
        BY <1>0, <1>p, <1>e, <3>1, SMT
      <3> QED
        BY <1>i, <3>1, <3>2 DEF Paced
    <2>3. CASE Accept
      <3>1. at' = "sleep" /\ rendered' /\ start' = now /\ now' = now
        BY <1>1, <2>3 DEF Loop, Accept, timeVars
      <3>2. now - now = 0 /\ 0 % Wrap = 0
        BY <1>0, <1>t, ClockAssumption, WrapOnce, SMT DEF TypeOK
      <3> QED
        BY <1>i, <3>1, <3>2 DEF Paced, Elapsed
    <2> QED
      BY <1>1, <2>1, <2>2, <2>3 DEF Loop
  <1>2. ASSUME NEW r \in Rates, SetRate(r) PROVE Paced'
    <2>1. Elapsed(now)' = Elapsed(now) /\ ~armed' /\ UNCHANGED <<at, rendered>>
      BY <1>2 DEF SetRate, timeVars, Elapsed
    <2> QED
      BY <1>i, <2>1 DEF Paced
  <1>3. ASSUME NEW n \in 0 .. CountWrap - 1, SetCount(n) PROVE Paced'
    <2>1. Elapsed(now)' = Elapsed(now) /\ Due(now)' = Due(now) /\ UNCHANGED <<at, rendered, armed>>
      BY <1>3 DEF SetCount, timeVars, Elapsed, Due
    <2> QED
      BY <1>i, <2>1 DEF Paced
  <1>4. ASSUME NEW d \in 0 .. Busy, NEW o \in 0 .. Over, Sleep(d, o) PROVE Paced'
    <2>1. at = "sleep" /\ at' = "loop" /\ UNCHANGED <<rendered, period>> /\ armed' = ~rendered
      BY <1>4 DEF Sleep
    <2>2. /\ d \in Nat /\ o \in Nat /\ Ms(d + o + 1) \in Nat
          /\ 1 + Ms(d + o + 1) <= LongestPass /\ LongestPass \in Nat
      BY <1>s, PassBounds
    <2>3. CASE rendered
      <3>1. Elapsed(now) = 0
        BY <2>1, <2>3 DEF Paced
      <3>2. Elapsed(now) <= LongestPass
        BY <2>2, <3>1, SMT
      <3>3. Elapsed(now)' <= Elapsed(now) + 1 + Ms(d + o + 1)
        BY <1>i, <1>4, <2>3, <3>2, SleepEnds
      <3>4. Elapsed(now)' <= LongestPass
        <4>1. Elapsed(now)' \in Nat
          BY <1>n DEF Elapsed
        <4> QED
          BY <2>2, <3>1, <3>3, <4>1, SMT
      <3> QED
        BY <1>i, <2>1, <2>3, <3>4 DEF Paced
    <2>4. CASE ~rendered
      <3>1. Elapsed(now) < Second \/ Elapsed(now) <= LongestPass
        BY <2>1, <2>4 DEF Paced
      <3>2. period <= Elapsed(now)'
        BY <1>i, <1>4, <2>4, <3>1, SleepEnds
      <3>3. Elapsed(now)' >= period
        <4>1. Elapsed(now)' \in Nat
          BY <1>n DEF Elapsed
        <4> QED
          BY <1>p, <3>2, <4>1, SMT
      <3> QED
        BY <1>i, <2>1, <2>4, <3>3 DEF Paced, Due
    <2> QED
      BY <2>3, <2>4
  <1>5. CASE UNCHANGED vars
    BY <1>5, <1>i DEF vars, timeVars, Paced, Elapsed, Due
  <1> QED
    BY <1>1, <1>2, <1>3, <1>4, <1>5 DEF Next

\* The executor wakes up at the frame: not later than its own lateness and a tick of
\* rounding, and never only to find that the frame it waited for is not due, whatever
\* the rate of the ticks.
THEOREM SleepsEndAtTheFrame == Spec => SleepEndsAtTheFrame
  <1>1. ASSUME Paced, NEW d \in 0 .. Busy, NEW o \in 0 .. Over, Sleep(d, o), since < period
        PROVE  since' <= period + Ms(o + 1) \/ since' <= since + 1 + Ms(d + o + 1)
    <2>1. ClockInv /\ ClockInv'
      BY <1>1, StepClockInv DEF Paced, Next
    <2>2. /\ period \in Nat /\ 1 <= period /\ period <= Second /\ Second \in Nat
          /\ since \in 0 .. Wrap /\ since' \in 0 .. Wrap
      BY <2>1, PeriodBounds, ClockAssumption DEF ClockInv, TypeOK, Periods
    <2>3. Second > 0
      BY <2>2, SMT
    <2>4. /\ Wrap \in Nat /\ LongestPass \in Nat /\ Second + LongestPass < Wrap
          /\ Ms(o + 1) \in Nat /\ Ms(d + o + 1) \in Nat
          /\ 1 + Ms(o + 1) <= LongestPass /\ 1 + Ms(d + o + 1) <= LongestPass
      BY <2>3, PassBounds
    <2>5. since < Wrap /\ since < Second
      BY <1>1, <2>2, <2>4, SMT
    <2>6. Elapsed(now) = since
      BY <2>1, <2>5 DEF ClockInv
    <2>7. Elapsed(now)' <= period + Ms(o + 1) \/ Elapsed(now)' <= since + 1 + Ms(d + o + 1)
      BY <1>1, <2>1, <2>5, <2>6, SleepEnds
    <2>8. since' < Wrap => Elapsed(now)' = since'
      BY <2>1 DEF ClockInv
    <2>9. since' # Wrap
      <3>1. PICK x \in Nat :
              /\ since' = Grown(x) /\ now' = (now + x) % Wrap /\ start' = start
              /\ Passing(d) \in Nat
              /\ WaitMs(Later(d)) = 0 => x <= 1 + Ms(d + o + 1)
              /\ WaitMs(Later(d)) # 0 => x <= Passing(d) + WaitMs(Later(d)) + Ms(o + 1)
              /\ Passing(d) <= Ms(d) /\ x < Wrap
        BY <1>1, <2>1, SleepAdds
      <3>2. since + x < Wrap
        <4>1. CASE WaitMs(Later(d)) = 0
          BY <2>2, <2>4, <2>5, <3>1, <4>1, SMT
        <4>2. CASE WaitMs(Later(d)) # 0
          <5>1. start \in 0 .. Wrap - 1 /\ now \in 0 .. Wrap - 1 /\ (now - start) % Wrap = since
            BY <2>1, <2>6 DEF ClockInv, TypeOK, Elapsed
          <5>2. Ms(d) \in Nat /\ 1 + Ms(d) <= LongestPass
            BY <2>3, PassBounds
          <5>3. Passing(d) < Wrap /\ since + Passing(d) < Wrap
            BY <2>2, <2>4, <2>5, <3>1, <5>2, SMT
          <5>4. Elapsed(Later(d)) = since + Passing(d)
            BY <3>1, <5>1, <5>3, ElapsedGrows DEF Elapsed, Later
          <5>5. WaitMs(Later(d)) = period - (since + Passing(d))
            BY <4>2, <5>4 DEF WaitMs
          <5> QED
            BY <2>2, <2>4, <3>1, <4>2, <5>5, SMT
        <4> QED
          BY <4>1, <4>2
      <3> QED
        BY <2>2, <2>4, <3>1, <3>2, SMT DEF Grown
    <2> QED
      BY <2>2, <2>4, <2>7, <2>8, <2>9, SMT
  <1>2. ASSUME Paced, Loop, ~rendered' PROVE rendered \/ ~armed
    <2>1. CASE FalsePass
      BY <2>1 DEF FalsePass
    <2>2. CASE NotDue
      BY <1>2, <2>2 DEF NotDue, Paced
    <2>3. CASE Accept
      BY <1>2, <2>3 DEF Accept
    <2> QED
      BY <1>2, <2>1, <2>2, <2>3 DEF Loop
  <1>3. Paced /\ [Next]_vars =>
          [/\ \A d \in 0 .. Busy, o \in 0 .. Over : (Sleep(d, o) /\ since < period) =>
                \/ since' <= period + Ms(o + 1)
                \/ since' <= since + 1 + Ms(d + o + 1)
           /\ (Loop /\ ~rendered') => (rendered \/ ~armed)]_vars
    BY <1>1, <1>2
  <1>4. Spec => []Paced
    BY InitPaced, StepPaced, PTL DEF Spec
  <1> QED
    BY <1>3, <1>4, PTL DEF Spec, SleepEndsAtTheFrame

-----------------------------------------------------------------------------
(* The division of ticks by their rate, for every width of a word. *)

\* One bit more of a number.
LEMMA OneBitMore ==
  ASSUME NEW n \in Nat, NEW p \in Nat \ {0}
  PROVE  n \div p = 2 * (n \div (2 * p)) + ((n \div p) % 2)
  <1> DEFINE a == n \div (2 * p)
             b == n \div p
  <1>1. a \in Nat /\ 2 * p * a <= n /\ n < 2 * p * a + 2 * p
    BY SMT
  <1>2. b \in Nat /\ p * b <= n /\ n < p * b + p
    BY SMT
  <1> HIDE DEF a, b
  <1>3. p * (2 * a) < p * (b + 1) /\ p * b < p * (2 * a + 2)
    BY <1>1, <1>2, SMT
  <1>4. 2 * a < b + 1 /\ b < 2 * a + 2
    BY <1>1, <1>2, <1>3, SMT
  <1>5. b = 2 * a \/ b = 2 * a + 1
    BY <1>1, <1>2, <1>4, SMT
  <1>6. b = 2 * a + (b % 2)
    BY <1>1, <1>2, <1>5, SMT
  <1> QED
    BY <1>6 DEF a, b

\* Quotient and remainder are what they are told by.
LEMMA QuotientIs ==
  ASSUME NEW d \in Nat \ {0}, NEW k \in Nat, NEW r \in Nat, r < d
  PROVE  (d * k + r) \div d = k
  <1> DEFINE q == (d * k + r) \div d
  <1>1. q \in Nat /\ d * q <= d * k + r /\ d * k + r < d * q + d
    BY SMT
  <1> HIDE DEF q
  <1>2. d * q < d * (k + 1) /\ d * k < d * (q + 1)
    BY <1>1, SMT
  <1>3. q < k + 1 /\ k < q + 1
    BY <1>1, <1>2, SMT
  <1> QED
    BY <1>1, <1>3, SMT DEF q

LEMMA RemainderIs ==
  ASSUME NEW d \in Nat \ {0}, NEW k \in Nat, NEW r \in Nat, r < d
  PROVE  (d * k + r) % d = r
  <1>1. (d * k + r) \div d = k
    BY QuotientIs
  <1>2. d * k + r = d * ((d * k + r) \div d) + ((d * k + r) % d)
    BY SMT
  <1> QED
    BY <1>1, <1>2, SMT

LEMMA WordsAndBits ==
  ASSUME DivisionTypeOK
  PROVE  /\ Width \in Nat \ {0} /\ Word \in Nat \ {0} /\ divisor \in Nat \ {0} /\ 2 * divisor <= Word
         /\ numerator \in Nat /\ remainder \in Nat /\ quotient \in Nat
         /\ bit \in Int /\ -1 <= bit /\ bit <= Width - 1
         /\ Power[bit + 1] \in Nat \ {0} /\ Power[Width - 1 - bit] \in Nat \ {0}
         /\ numerator \div Word \in Nat /\ numerator % Word \in 0 .. Word - 1
         /\ (numerator \div Word) % divisor \in 0 .. divisor - 1
  <1>1. Width \in Nat \ {0} /\ Word \in Nat \ {0}
    BY DivisionAssumption DEF Word
  <1>2. numerator \in Nat /\ remainder \in Nat /\ quotient \in Nat
        /\ bit \in Int /\ -1 <= bit /\ bit <= Width - 1
    BY <1>1, SMT DEF DivisionTypeOK
  <1>3. divisor \in Nat \ {0} /\ 2 * divisor <= Word
    BY <1>1, SMT DEF DivisionTypeOK
  <1>4. bit + 1 \in 0 .. Width /\ Width - 1 - bit \in 0 .. Width
    BY <1>1, <1>2, SMT
  <1>5. Power[bit + 1] \in Nat \ {0} /\ Power[Width - 1 - bit] \in Nat \ {0}
    BY <1>4, DivisionAssumption
  <1>6. numerator \div Word \in Nat /\ numerator % Word \in 0 .. Word - 1
    BY <1>1, <1>2, SMT
  <1>7. (numerator \div Word) % divisor \in 0 .. divisor - 1
    BY <1>3, <1>6, SMT
  <1> QED
    BY <1>1, <1>2, <1>3, <1>5, <1>6, <1>7

\* A turn of the loop in numbers: r and q are remainder and quotient, p the power of
\* the bit, b the bit itself.
LEMMA TurnInNumbers ==
  ASSUME NEW w \in Nat \ {0}, NEW d \in Nat \ {0}, 2 * d <= w,
         NEW r \in Nat, r < d, NEW q \in Nat, NEW p \in Nat \ {0}, (q + 1) * (2 * p) <= w,
         NEW b \in {0, 1}
  PROVE  /\ (r * 2) % w = 2 * r /\ (q * 2) % w = 2 * q
         /\ 2 * r + b < 2 * d /\ (2 * q + 2) * p <= w /\ 2 * q + 2 <= w
  <1>1. (2 * q + 2) * p <= w
    BY SMT
  <1>2. 2 * q + 2 <= (2 * q + 2) * p
    BY SMT
  <1>3. 2 * q + 2 <= w
    BY <1>1, <1>2, SMT
  <1>4. r * 2 < w /\ q * 2 < w
    BY <1>3, SMT
  <1>5. \A x \in Nat : x < w => x % w = x
    BY SMT
  <1>6. (r * 2) % w = r * 2 /\ (q * 2) % w = q * 2
    BY <1>4, <1>5, SMT
  <1> QED
    BY <1>1, <1>3, <1>6, SMT

LEMMA FewerAreLess ==
  ASSUME NEW x \in Nat, NEW y \in Nat, NEW p \in Nat \ {0}, x + 1 <= 2 * y + 2
  PROVE  (x + 1) * p <= (2 * y + 2) * p
  BY SMT

\* What has been seen doubles, with the next bit behind it.
LEMMA SeenGrows ==
  ASSUME DivisionTypeOK, bit >= 0, bit' = bit - 1, UNCHANGED <<numerator, divisor>>
  PROVE  /\ Seen' = 2 * Seen + (((numerator % Word) \div Power[bit]) % 2)
         /\ Seen \in Nat /\ ((numerator % Word) \div Power[bit]) % 2 \in {0, 1}
         /\ Power[bit + 1] = 2 * Power[bit] /\ Power[bit] \in Nat \ {0}
  <1> DEFINE l == numerator % Word
             h == (numerator \div Word) % divisor
             e == Power[bit]
             u == Power[Width - 1 - bit]
  <1>1. l \in Nat /\ h \in Nat /\ u \in Nat \ {0} /\ Power[bit + 1] \in Nat \ {0}
        /\ bit \in Int /\ bit <= Width - 1 /\ Width \in Nat
    BY WordsAndBits
  <1>2. bit \in 0 .. Width - 1 /\ Width - 1 - bit \in 0 .. Width - 1
    BY <1>1, SMT
  <1>3. Power[bit + 1] = 2 * e /\ e \in Nat \ {0} /\ Power[(Width - 1 - bit) + 1] = 2 * u
    BY <1>2, DivisionAssumption
  <1>4. bit' + 1 = bit /\ Width - 1 - bit' = (Width - 1 - bit) + 1
    BY <1>1, SMT
  <1>5. Seen' = h * (2 * u) + (l \div e)
    BY <1>3, <1>4 DEF Seen, Word
  <1>6. Seen = h * u + (l \div (2 * e))
    BY <1>3 DEF Seen
  <1> HIDE DEF l, h, e, u
  <1>7. l \div e = 2 * (l \div (2 * e)) + ((l \div e) % 2)
    BY <1>1, <1>3, OneBitMore
  <1>8. l \div (2 * e) \in Nat /\ (l \div e) % 2 \in {0, 1}
    BY <1>1, <1>3, SMT
  <1>9. h * (2 * u) = 2 * (h * u) /\ h * u \in Nat
    BY <1>1, SMT
  <1>10. Seen' = 2 * Seen + ((l \div e) % 2) /\ Seen \in Nat
    BY <1>5, <1>6, <1>7, <1>8, <1>9, SMT
  <1> QED
    BY <1>3, <1>8, <1>10 DEF l, e

\* At the end everything has been seen.
LEMMA AllIsSeen ==
  DivisionTypeOK /\ bit = -1 /\ remainder < divisor /\ quotient * divisor + remainder = Seen
    => quotient = (numerator \div divisor) % Word
  <1> SUFFICES ASSUME DivisionTypeOK, bit = -1, remainder < divisor,
                      quotient * divisor + remainder = Seen
               PROVE  quotient = (numerator \div divisor) % Word
    OBVIOUS
  <1> DEFINE l == numerator % Word
             h == numerator \div Word
             w == Word
             m == h \div divisor
  <1>1. /\ l \in Nat /\ h \in Nat /\ w \in Nat \ {0} /\ divisor \in Nat \ {0} /\ Width \in Nat
        /\ numerator \in Nat /\ remainder \in Nat /\ quotient \in Nat /\ quotient < w
    BY WordsAndBits, SMT DEF DivisionTypeOK
  <1>2. bit + 1 = 0 /\ Width - 1 - bit = Width /\ Power[0] = 1
    BY <1>1, DivisionAssumption, SMT
  <1>3. Seen = (h % divisor) * w + (l \div 1)
    BY <1>2 DEF Seen, Word
  <1>4. numerator = w * h + l
    BY <1>1, SMT
  <1> HIDE DEF l, h, w
  <1>5. m \in Nat /\ h = divisor * m + (h % divisor) /\ h % divisor \in Nat
    BY <1>1, SMT
  <1>6. l \div 1 = l
    BY <1>1, SMT
  <1> HIDE DEF m
  <1>7. numerator = divisor * (w * m + quotient) + remainder
    <2> DEFINE x == h % divisor
    <2>1. x \in Nat /\ h = divisor * m + x /\ quotient * divisor + remainder = x * w + l
      BY <1>3, <1>5, <1>6
    <2> HIDE DEF x
    <2>2. w * h = divisor * (w * m) + x * w
      BY <1>1, <1>5, <2>1, SMT
    <2>3. divisor * (w * m + quotient) = divisor * (w * m) + quotient * divisor
      BY <1>1, <1>5, SMT
    <2>4. divisor * (w * m) \in Nat /\ x * w \in Nat /\ quotient * divisor \in Nat
      BY <1>1, <1>5, <2>1, SMT
    <2> QED
      BY <1>1, <1>4, <2>1, <2>2, <2>3, <2>4, SMT
  <1>8. w * m + quotient \in Nat
    BY <1>1, <1>5, SMT
  <1>9. numerator \div divisor = w * m + quotient
    BY <1>1, <1>7, <1>8, QuotientIs
  <1>10. (w * m + quotient) % w = quotient
    BY <1>1, <1>5, RemainderIs
  <1> QED
    BY <1>9, <1>10 DEF w

LEMMA DivisionStepKeeps == ASSUME DivisionInv, DivisionStep PROVE DivisionInv'
  <1> DEFINE b == ((numerator % Word) \div Power[bit]) % 2
  <1>1. DivisionTypeOK /\ bit >= 0 /\ bit' = bit - 1 /\ UNCHANGED <<numerator, divisor>>
    BY DEF DivisionInv, DivisionStep
  <1>2. /\ Word \in Nat \ {0} /\ divisor \in Nat \ {0} /\ 2 * divisor <= Word
        /\ remainder \in Nat /\ quotient \in Nat /\ bit \in Int /\ bit <= Width - 1 /\ Width \in Nat
    BY <1>1, WordsAndBits
  <1>3. /\ Seen' = 2 * Seen + b /\ Seen \in Nat /\ b \in {0, 1}
        /\ Power[bit + 1] = 2 * Power[bit] /\ Power[bit] \in Nat \ {0}
    BY <1>1, SeenGrows
  <1>4. remainder < divisor /\ quotient * divisor + remainder = Seen /\ (quotient + 1) * Power[bit + 1] <= Word
    BY DEF DivisionInv
  <1>5. /\ (remainder * 2) % Word = 2 * remainder /\ (quotient * 2) % Word = 2 * quotient
        /\ 2 * remainder + b < 2 * divisor /\ (2 * quotient + 2) * Power[bit] <= Word
        /\ 2 * quotient + 2 <= Word
    <2> HIDE DEF b
    <2>1. (quotient + 1) * (2 * Power[bit]) <= Word
      BY <1>3, <1>4
    <2> QED
      BY <1>2, <1>3, <1>4, <2>1, TurnInNumbers
  <1>6. Shifted = 2 * remainder + b
    BY <1>5 DEF Shifted
  <1> HIDE DEF b
  <1>7. \/ /\ 2 * remainder + b >= divisor
           /\ remainder' = 2 * remainder + b - divisor /\ quotient' = 2 * quotient + 1
        \/ /\ ~(2 * remainder + b >= divisor)
           /\ remainder' = 2 * remainder + b /\ quotient' = 2 * quotient + 0
    <2>1. /\ remainder' = IF Fits THEN Shifted - divisor ELSE Shifted
          /\ quotient' = 2 * quotient + (IF Fits THEN 1 ELSE 0)
      BY <1>5 DEF DivisionStep
    <2>2. Fits <=> 2 * remainder + b >= divisor
      BY <1>6 DEF Fits
    <2>3. CASE Fits
      <3>1. remainder' = Shifted - divisor /\ quotient' = 2 * quotient + 1
        BY <2>1, <2>3, Zenon
      <3>2. 2 * remainder + b >= divisor
        BY <2>2, <2>3, Zenon
      <3>3. remainder' = 2 * remainder + b - divisor
        BY <1>2, <1>3, <1>6, <3>1, SMT
      <3> QED
        BY <3>1, <3>2, <3>3, Zenon
    <2>4. CASE ~Fits
      <3>1. remainder' = Shifted /\ quotient' = 2 * quotient + 0
        BY <2>1, <2>4, Zenon
      <3>2. ~(2 * remainder + b >= divisor)
        BY <2>2, <2>4, Zenon
      <3>3. remainder' = 2 * remainder + b
        BY <1>6, <3>1, Zenon
      <3> QED
        BY <3>1, <3>2, <3>3, Zenon
    <2> QED
      BY <2>3, <2>4
  <1>8. /\ remainder' \in Nat /\ remainder' < divisor /\ quotient' \in Nat /\ quotient' + 1 <= 2 * quotient + 2
        /\ quotient' < Word
    BY <1>2, <1>3, <1>5, <1>7, SMT
  <1>9. quotient' * divisor + remainder' = Seen'
    <2>1. (2 * quotient + 1) * divisor = 2 * (quotient * divisor) + divisor
          /\ (2 * quotient + 0) * divisor = 2 * (quotient * divisor) /\ quotient * divisor \in Nat
      BY <1>2, SMT
    <2> DEFINE x == quotient * divisor
    <2>2. x \in Nat /\ x + remainder = Seen
      BY <1>4, <2>1
    <2>3. \/ quotient' * divisor = 2 * x + divisor /\ remainder' = 2 * remainder + b - divisor
          \/ quotient' * divisor = 2 * x /\ remainder' = 2 * remainder + b
      BY <1>7, <2>1
    <2> HIDE DEF x
    <2> QED
      BY <1>2, <1>3, <2>2, <2>3, SMT
  <1>10. bit' + 1 = bit
    BY <1>1, <1>2, SMT
  <1>11. (quotient' + 1) * Power[bit' + 1] <= Word'
    <2>1. (quotient' + 1) * Power[bit] <= (2 * quotient + 2) * Power[bit]
      BY <1>2, <1>3, <1>8, FewerAreLess
    <2>2. (quotient' + 1) * Power[bit] <= Word
      BY <1>2, <1>3, <1>5, <1>8, <2>1, SMT
    <2> QED
      BY <1>10, <2>2 DEF Word
  <1>12. DivisionTypeOK'
    <2>1. Word' = Word
      BY DEF Word
    <2>2. remainder' \in 0 .. Word - 1 /\ quotient' \in 0 .. Word - 1 /\ bit' \in -1 .. Width - 1
      BY <1>1, <1>2, <1>8, SMT
    <2> QED
      BY <1>1, <2>1, <2>2 DEF DivisionTypeOK
  <1>13. bit' = -1 => quotient' = (numerator' \div divisor') % Word'
    <2>1. (DivisionTypeOK /\ bit = -1 /\ remainder < divisor /\ quotient * divisor + remainder = Seen
            => quotient = (numerator \div divisor) % Word)'
      BY AllIsSeen, PTL
    <2> QED
      BY <1>1, <1>8, <1>9, <1>12, <2>1
  <1> QED
    BY <1>1, <1>8, <1>9, <1>11, <1>12, <1>13 DEF DivisionInv

LEMMA InitDivision == ASSUME DivisionInit PROVE DivisionInv
  <1>1. Width \in Nat \ {0} /\ Word \in Nat \ {0} /\ Power[0] = 1
    BY DivisionAssumption DEF Word
  <1>2. /\ numerator \in 0 .. Word * Word - 1 /\ divisor \in 1 .. Word \div 2
        /\ remainder = (numerator \div Word) % divisor /\ quotient = 0 /\ bit = Width - 1
    BY DEF DivisionInit
  <1>3. numerator \in Nat /\ divisor \in Nat \ {0} /\ 2 * divisor <= Word
    BY <1>1, <1>2, SMT
  <1>4. numerator \div Word \in Nat /\ numerator % Word \in 0 .. Word - 1
    BY <1>1, <1>3, SMT
  <1>5. remainder \in Nat /\ remainder < divisor
    BY <1>2, <1>3, <1>4, SMT
  <1>6. DivisionTypeOK
    <2>1. remainder \in 0 .. Word - 1 /\ quotient \in 0 .. Word - 1 /\ bit \in -1 .. Width - 1
      BY <1>1, <1>2, <1>3, <1>5, SMT
    <2> QED
      BY <1>2, <2>1 DEF DivisionTypeOK
  <1>7. bit + 1 = Width /\ Width - 1 - bit = 0 /\ bit # -1
    BY <1>1, <1>2, SMT
  <1>8. Seen = remainder * 1 + ((numerator % Word) \div Word)
    BY <1>1, <1>2, <1>7 DEF Seen, Word
  <1>9. (numerator % Word) \div Word = 0
    BY <1>1, <1>4, SMT
  <1>10. quotient * divisor + remainder = Seen /\ (quotient + 1) * Power[bit + 1] <= Word
    <2>1. Power[bit + 1] = Word
      BY <1>7 DEF Word
    <2> QED
      BY <1>1, <1>2, <1>3, <1>5, <1>8, <1>9, <2>1, SMT
  <1> QED
    BY <1>5, <1>6, <1>7, <1>10 DEF DivisionInv

\* divide_u64_u32_low() divides, in words of any width, and no shift of it overflows.
THEOREM DivisionInvariance == DivisionSpec => []DivisionInv
  <1>1. DivisionInv /\ [DivisionStep]_divisionVars => DivisionInv'
    <2>1. ASSUME DivisionInv, UNCHANGED divisionVars PROVE DivisionInv'
      BY <2>1 DEF divisionVars, DivisionInv, DivisionTypeOK, Seen, Word
    <2> QED
      BY <2>1, DivisionStepKeeps
  <1> QED
    BY <1>1, InitDivision, PTL DEF DivisionSpec
=============================================================================

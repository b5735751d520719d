---------------------------- MODULE ButtonProofs ----------------------------
(***************************************************************************)
(* The button requests what its header promises, for every threshold,      *)
(* window, number of presses and width of time.                            *)
(***************************************************************************)
EXTENDS MCButton, TLAPS

\* Where the ring holds the j-th newest press start, and how long before the newest
\* it was.
Slot(next, j) == IF j < next THEN next - 1 - j ELSE next - 1 - j + Presses
Back(j) == Elapsed(gestureStarts[Slot(gestureNext, j)], pressStart)
Capped(age) == IF age < Promise!Long THEN age ELSE Promise!Long

PromiseTypeOK ==
    /\ down \in BOOLEAN
    /\ ages \in [0..(Presses - 1) -> 0..Promise!Long]
    /\ promised \in {"NONE", "HOLD_REACHED", "UPDATE_GESTURE"}

LevelSeen ==
    /\ down = isPressed
    /\ isHoldReported => isPressed /\ gesturePresses = 0 /\ ages = Promise!Forgotten

\* A ring that is not full starts at its first slot.
RingFilled ==
    /\ gesturePresses < Presses => gestureNext = gesturePresses
    /\ gesturePresses > 0 => gestureStarts[Slot(gestureNext, 0)] = pressStart

PressTimed ==
    isPressed /\ ~isHoldReported =>
        gesturePresses > 0 /\ Elapsed(pressStart, now) < HoldMs

PauseTimed ==
    ~isPressed /\ gesturePresses > 0 =>
        /\ Elapsed(release, now) < WindowMs
        /\ Elapsed(pressStart, now) - Elapsed(release, now) \in 1..(HoldMs - 1 + MaxGap)

\* Nothing that the code has forgotten is young enough for another gesture.
IdleForgotten ==
    ~isPressed /\ gesturePresses = 0 => \A j \in 0..(Presses - 1) : ages[j] > WindowMs

RingAged ==
    gesturePresses > 0 =>
        \A j \in 0..(Presses - 1) :
            IF j < gesturePresses
            THEN /\ Back(j) <= j * LongestPause
                 /\ ages[j] = Capped(Back(j) + Elapsed(pressStart, now))
            ELSE \/ ages[j] = Promise!Long
                 \/ ages[j] > Back(gesturePresses - 1) + Elapsed(pressStart, now) + WindowMs

IInv ==
    /\ ButtonTypeOK /\ PromiseTypeOK
    /\ LevelSeen /\ RingFilled /\ PressTimed /\ PauseTimed /\ IdleForgotten /\ RingAged
    /\ RequestsAsPromised

-----------------------------------------------------------------------------
(* Time modulo its width.                                                  *)

\* The sizes the code's constants have to one another.
LEMMA Sizes ==
    /\ HoldMs \in Nat /\ HoldMs > 0 /\ WindowMs \in Nat /\ WindowMs > 0
    /\ Presses \in Nat /\ Presses > 0 /\ MaxGap \in Nat /\ MaxGap > 0
    /\ LongestPause \in Nat /\ LongestPause = HoldMs + WindowMs + 2 * MaxGap - 2
    /\ TimeMod \in Nat /\ TimeMod > LongestPause /\ TimeMod > MaxGap
    /\ Promise!Long = HoldMs + WindowMs
BY ButtonAssumption DEF ButtonAssumption, LongestPause, Promise!Long

\* The remainder, up to twice the divisor, is one subtraction.
LEMMA RemainderOnce ==
    ASSUME NEW m \in Nat, m > 0, NEW x \in 0..(2 * m - 1)
    PROVE  x % m = IF x < m THEN x ELSE x - m
OBVIOUS

\* Elapsed() adds the width exactly when the time has wrapped in between.
LEMMA ElapsedCases ==
    ASSUME NEW a \in Times, NEW b \in Times
    PROVE  /\ Elapsed(a, b) = IF b >= a THEN b - a ELSE b - a + TimeMod
           /\ Elapsed(a, b) \in Times
<1>1. b - a + TimeMod \in 0..(2 * TimeMod - 1)
  BY Sizes DEF Times
<1>2. Elapsed(a, b) = IF b - a + TimeMod < TimeMod THEN b - a + TimeMod ELSE b - a
  BY <1>1, RemainderOnce, Sizes DEF Elapsed, Times
<1> QED BY <1>2, Sizes DEF Times

\* Distances add up as long as their sum is short of a wrap.
LEMMA ElapsedAdds ==
    ASSUME NEW a \in Times, NEW b \in Times, NEW c \in Times,
           Elapsed(a, b) + Elapsed(b, c) < TimeMod
    PROVE  Elapsed(a, c) = Elapsed(a, b) + Elapsed(b, c)
<1>1. Elapsed(a, b) = IF b >= a THEN b - a ELSE b - a + TimeMod
  BY ElapsedCases
<1>2. Elapsed(b, c) = IF c >= b THEN c - b ELSE c - b + TimeMod
  BY ElapsedCases
<1>3. Elapsed(a, c) = IF c >= a THEN c - a ELSE c - a + TimeMod
  BY ElapsedCases
<1> QED BY <1>1, <1>2, <1>3, Sizes DEF Times

\* The next sample is dt later, whatever the width.
LEMMA NextSample ==
    ASSUME NEW t \in Times, NEW dt \in 0..MaxGap
    PROVE  /\ (t + dt) % TimeMod \in Times
           /\ Elapsed(t, (t + dt) % TimeMod) = dt
<1> DEFINE u == (t + dt) % TimeMod
<1>1. t + dt \in 0..(2 * TimeMod - 1)
  BY Sizes DEF Times
<1>2. u = IF t + dt < TimeMod THEN t + dt ELSE t + dt - TimeMod
  <2>1. \A y \in 0..(2 * TimeMod - 1) : y % TimeMod = IF y < TimeMod THEN y ELSE y - TimeMod
    BY RemainderOnce, Sizes
  <2> QED BY <1>1, <2>1, Sizes DEF Times
<1> HIDE DEF u
<1>3. u \in Times
  BY <1>2, Sizes DEF Times
<1>4. Elapsed(t, u) = IF u >= t THEN u - t ELSE u - t + TimeMod
  BY <1>3, ElapsedCases
<1>5. Elapsed(t, u) = dt
  BY <1>2, <1>4, Sizes DEF Times
<1> QED BY <1>3, <1>5 DEF u

\* A distance that does not wrap grows with the time.
LEMMA ElapsedGrows ==
    ASSUME NEW a \in Times, NEW t \in Times, NEW u \in Times, NEW dt \in 0..MaxGap,
           Elapsed(t, u) = dt, Elapsed(a, t) + dt < TimeMod
    PROVE  Elapsed(a, u) = Elapsed(a, t) + dt
BY ElapsedAdds

-----------------------------------------------------------------------------
(* The ring.                                                               *)

Ring == 0..(Presses - 1)

LEMMA SlotInRing ==
    ASSUME NEW next \in Ring, NEW j \in Ring
    PROVE  Slot(next, j) \in Ring
BY Sizes DEF Slot, Ring

\* A press moves every start one place back, and leaves all but the oldest alone.
LEMMA SlotAfterPress ==
    ASSUME NEW next \in Ring
    PROVE  /\ (next + 1) % Presses \in Ring
           /\ Slot((next + 1) % Presses, 0) = next
           /\ \A j \in Ring \ {0} : /\ Slot((next + 1) % Presses, j) = Slot(next, j - 1)
                                    /\ Slot(next, j - 1) # next
<1> DEFINE up == (next + 1) % Presses
<1>1. up = IF next + 1 < Presses THEN next + 1 ELSE next + 1 - Presses
  <2>1. \A y \in 0..(2 * Presses - 1) : y % Presses = IF y < Presses THEN y ELSE y - Presses
    BY RemainderOnce, Sizes
  <2> QED BY <2>1, Sizes DEF Ring
<1> HIDE DEF up
<1>2. up \in Ring /\ Slot(up, 0) = next
  BY <1>1, Sizes DEF Ring, Slot
<1>3. ASSUME NEW j \in Ring \ {0}
      PROVE  Slot(up, j) = Slot(next, j - 1) /\ Slot(next, j - 1) # next
  BY <1>1, Sizes DEF Ring, Slot
<1> QED BY <1>2, <1>3 DEF up

\* The ends of a full ring are where IsGestureComplete() reads them.
LEMMA SlotEnds ==
    ASSUME NEW next \in Ring
    PROVE  /\ Slot(next, Presses - 1) = next
           /\ Slot(next, 0) = (next + Presses - 1) % Presses
<1> DEFINE y == next + Presses - 1
<1>1. y \in 0..(2 * Presses - 1)
  BY Sizes DEF Ring
<1>2. y % Presses = IF y < Presses THEN y ELSE y - Presses
  <2> HIDE DEF y
  <2> QED BY <1>1, RemainderOnce, Sizes
<1> QED BY <1>2, Sizes DEF Ring, Slot

\* A full ring spans less than a wrap.
LEMMA RingSpan ==
    ASSUME NEW j \in Ring
    PROVE  /\ j * LongestPause \in Nat
           /\ j * LongestPause < TimeMod
           /\ j > 0 => j * LongestPause = (j - 1) * LongestPause + LongestPause
<1> DEFINE p == LongestPause
<1>1. p \in Nat /\ TimeMod > (Presses - 1) * p /\ TimeMod \in Nat
  BY Sizes, ButtonAssumption DEF ButtonAssumption
<1> HIDE DEF p
<1>2. j * p \in Nat
  BY <1>1 DEF Ring
<1>3. (Presses - 1) * p = j * p + (Presses - 1 - j) * p
  BY <1>1, Sizes DEF Ring
<1>4. (Presses - 1 - j) * p \in Nat
  BY <1>1, Sizes DEF Ring
<1>5. j * p = (j - 1) * p + p
  BY <1>1 DEF Ring
<1> QED BY <1>1, <1>2, <1>3, <1>4, <1>5 DEF p

\* Ages may be capped before or after they grow.
LEMMA OlderCapped ==
    ASSUME NEW x \in Nat, NEW dt \in Nat
    PROVE  Promise!Older(Capped(x), dt) = Capped(x + dt)
BY Sizes DEF Promise!Older, Capped

\* An age stays in its range, never sinks, and grows by the time if it stays short.
LEMMA OlderGrows ==
    ASSUME NEW x \in 0..Promise!Long, NEW dt \in 0..MaxGap
    PROVE  /\ Promise!Older(x, dt) \in 0..Promise!Long
           /\ Promise!Older(x, dt) >= x
           /\ Promise!Older(x, dt) = Promise!Long \/ Promise!Older(x, dt) = x + dt
BY Sizes DEF Promise!Older

-----------------------------------------------------------------------------
(* The samples.                                                            *)

LEMMA StartTyped ==
    ASSUME IInv, NEW j \in Ring
    PROVE  /\ gestureStarts[Slot(gestureNext, j)] \in Times
           /\ Back(j) \in Times
           /\ gesturePresses > 0 => Back(0) = 0
<1>1. /\ gestureStarts \in [Ring -> Times] /\ gestureNext \in Ring
      /\ pressStart \in Times
  BY DEF IInv, ButtonTypeOK, Ring
<1>2. gestureStarts[Slot(gestureNext, j)] \in Times
  BY <1>1, SlotInRing
<1>3. Back(j) \in Times
  BY <1>1, <1>2, ElapsedCases DEF Back
<1>4. gesturePresses > 0 => Back(0) = Elapsed(pressStart, pressStart)
  BY DEF IInv, RingFilled, Back
<1>5. Elapsed(pressStart, pressStart) = 0
  BY <1>1, ElapsedCases DEF Times
<1> QED BY <1>2, <1>3, <1>4, <1>5

\* A press start that still counts comes at most LongestPause after the one before.
LEMMA PressStep ==
    ASSUME IInv, NEW dt \in 0..MaxGap, now' = (now + dt) % TimeMod,
           PressedSample(now'), down' = TRUE, Promise!Press(dt)
    PROVE  IInv'
<1> DEFINE N == Elapsed(pressStart, now)
           Q == Elapsed(release, now)
<1>1. /\ now \in Times /\ pressStart \in Times /\ release \in Times
      /\ gestureStarts \in [Ring -> Times] /\ gestureNext \in Ring
      /\ gesturePresses \in 0..Presses
      /\ ages \in [Ring -> 0..Promise!Long]
  BY DEF IInv, ButtonTypeOK, PromiseTypeOK, Ring
<1>2. /\ ~isPressed /\ isPressed' = TRUE /\ isHoldReported' = FALSE /\ pressStart' = now'
      /\ gestureStarts' = [gestureStarts EXCEPT ![gestureNext] = now']
      /\ gestureNext' = (gestureNext + 1) % Presses
      /\ gesturePresses' = IF gesturePresses < Presses THEN gesturePresses + 1 ELSE gesturePresses
      /\ event' = "PRESS_STARTED" /\ release' = release
  BY DEF PressedSample, CountGesturePress
<1>3. /\ ages' = [j \in Ring |-> IF j = 0 THEN 0 ELSE Promise!Older(ages[j - 1], dt)]
      /\ promised' = "NONE"
  BY DEF Promise!Press, Ring
<1>4. now' \in Times /\ Elapsed(now, now') = dt /\ Elapsed(now', now') = 0
  <2>1. now' \in Times /\ Elapsed(now, now') = dt
    BY <1>1, NextSample
  <2> QED BY <2>1, ElapsedCases DEF Times
<1>5. ASSUME gesturePresses > 0
      PROVE  /\ Elapsed(pressStart, now') = N + dt /\ N \in Nat
             /\ N + dt <= LongestPause
  <2>1. N \in Times /\ Q \in Times
    BY <1>1, ElapsedCases
  <2>2. Q < WindowMs /\ N - Q \in 1..(HoldMs - 1 + MaxGap)
    BY <1>2, <1>5 DEF IInv, PauseTimed
  <2> HIDE DEF N, Q
  <2>3. N + dt <= LongestPause
    BY <2>1, <2>2, Sizes DEF Times
  <2>4. N \in Nat /\ N + dt < TimeMod
    BY <2>1, <2>3, Sizes DEF Times
  <2>5. Elapsed(pressStart, now') = N + dt
    BY <1>1, <1>4, <2>4, ElapsedGrows DEF N
  <2> QED BY <2>3, <2>4, <2>5
<1>6. /\ gestureNext' \in Ring
      /\ gestureStarts' \in [Ring -> Times]
      /\ gestureStarts'[Slot(gestureNext', 0)] = now'
      /\ \A j \in Ring \ {0} : gestureStarts'[Slot(gestureNext', j)] =
                               gestureStarts[Slot(gestureNext, j - 1)]
  <2>1. ASSUME NEW j \in Ring \ {0}
        PROVE  gestureStarts'[Slot(gestureNext', j)] = gestureStarts[Slot(gestureNext, j - 1)]
    <3>1. j - 1 \in Ring
      BY Sizes DEF Ring
    <3>2. Slot(gestureNext, j - 1) \in Ring
      BY <1>1, <3>1, SlotInRing
    <3>3. Slot(gestureNext', j) = Slot(gestureNext, j - 1) /\ Slot(gestureNext, j - 1) # gestureNext
      BY <1>1, <1>2, SlotAfterPress
    <3> QED BY <1>1, <1>2, <3>2, <3>3
  <2>2. gestureNext' \in Ring /\ Slot(gestureNext', 0) = gestureNext
    BY <1>1, <1>2, SlotAfterPress
  <2> QED BY <1>1, <1>2, <1>4, <2>1, <2>2
<1>7. 0 \in Ring /\ Back(0)' = 0
  BY <1>2, <1>4, <1>6, Sizes DEF Back, Ring
<1>8. ASSUME NEW j \in Ring \ {0}, j - 1 < gesturePresses
      PROVE  /\ Back(j)' = Back(j - 1) + (N + dt)
             /\ Back(j)' <= j * LongestPause
  <2>1. j - 1 \in Ring /\ j \in Ring /\ gesturePresses > 0 /\ j > 0
    BY <1>1, <1>8, Sizes DEF Ring
  <2>2. Back(j - 1) <= (j - 1) * LongestPause /\ Back(j - 1) \in Times
    BY <1>8, <2>1, StartTyped DEF IInv, RingAged, Ring
  <2>3. (j - 1) * LongestPause \in Nat /\ j * LongestPause \in Nat
    BY <2>1, RingSpan
  <2>4. j * LongestPause < TimeMod /\ j * LongestPause = (j - 1) * LongestPause + LongestPause
    BY <2>1, RingSpan
  <2>5. Elapsed(pressStart, now') = N + dt /\ N \in Nat /\ N + dt <= LongestPause
    BY <1>5, <2>1
  <2> HIDE DEF N
  <2>6. Back(j - 1) + (N + dt) <= j * LongestPause
    BY <2>2, <2>3, <2>4, <2>5, Sizes DEF Times
  <2>7. Back(j - 1) + (N + dt) < TimeMod
    BY <2>2, <2>3, <2>4, <2>5, <2>6, Sizes DEF Times
  <2>8. gestureStarts[Slot(gestureNext, j - 1)] \in Times
    BY <2>1, StartTyped
  <2>9. Elapsed(gestureStarts[Slot(gestureNext, j - 1)], now') = Back(j - 1) + (N + dt)
    <3> DEFINE a == gestureStarts[Slot(gestureNext, j - 1)]
    <3>1. Back(j - 1) = Elapsed(a, pressStart)
      BY DEF Back
    <3>2. Elapsed(a, pressStart) + Elapsed(pressStart, now') < TimeMod
      BY <2>5, <2>7, <3>1
    <3>3. a \in Times
      BY <2>8
    <3> HIDE DEF a
    <3>4. Elapsed(a, now') = Elapsed(a, pressStart) + Elapsed(pressStart, now')
      BY <1>1, <1>4, <3>2, <3>3, ElapsedAdds
    <3> QED BY <2>5, <3>1, <3>4 DEF a
  <2>10. Back(j)' = Elapsed(gestureStarts[Slot(gestureNext, j - 1)], now')
    BY <1>2, <1>6 DEF Back
  <2> QED BY <2>6, <2>9, <2>10
<1>9. ButtonTypeOK' /\ PromiseTypeOK'
  <2>1. ButtonTypeOK'
    <3>1. gesturePresses' \in 0..Presses
      BY <1>1, <1>2, Sizes
    <3>2. /\ isPressed' \in BOOLEAN /\ isHoldReported' \in BOOLEAN
          /\ pressStart' \in Times /\ release' \in Times /\ event' \in Events
      BY <1>1, <1>2, <1>4 DEF Events
    <3> QED BY <1>4, <1>6, <3>1, <3>2 DEF ButtonTypeOK, Ring
  <2>2. \A j \in Ring \ {0} : Promise!Older(ages[j - 1], dt) \in 0..Promise!Long
    <3> SUFFICES ASSUME NEW j \in Ring \ {0}
                 PROVE  Promise!Older(ages[j - 1], dt) \in 0..Promise!Long
      OBVIOUS
    <3>1. j - 1 \in Ring
      BY Sizes DEF Ring
    <3>2. ages[j - 1] \in 0..Promise!Long
      BY <1>1, <3>1
    <3> QED BY <3>2, OlderGrows
  <2>3. ages' \in [Ring -> 0..Promise!Long]
    BY <1>3, <2>2, Sizes
  <2>4. down' \in BOOLEAN /\ promised' \in {"NONE", "HOLD_REACHED", "UPDATE_GESTURE"}
    BY <1>3
  <2> QED BY <2>1, <2>3, <2>4 DEF PromiseTypeOK, Ring
<1>10. LevelSeen' /\ PressTimed' /\ PauseTimed' /\ IdleForgotten' /\ RequestsAsPromised'
  BY <1>1, <1>2, <1>3, <1>4, Sizes DEF LevelSeen, PressTimed, PauseTimed, IdleForgotten, RequestsAsPromised
<1>11. RingFilled'
  <2>1. gesturePresses' < Presses => gestureNext' = gesturePresses'
    <3>1. SUFFICES ASSUME gesturePresses' < Presses
                   PROVE  gestureNext' = gesturePresses'
      OBVIOUS
    <3>2. gesturePresses < Presses /\ gesturePresses' = gesturePresses + 1 /\ gestureNext = gesturePresses
      BY <1>1, <1>2, <3>1 DEF IInv, RingFilled
    <3>3. (gestureNext + 1) % Presses = gestureNext + 1
      <4>1. \A y \in 0..(2 * Presses - 1) : y % Presses = IF y < Presses THEN y ELSE y - Presses
        BY RemainderOnce, Sizes
      <4>2. gestureNext + 1 \in 0..(2 * Presses - 1) /\ gestureNext + 1 < Presses
        BY <1>1, <3>1, <3>2, Sizes DEF Ring
      <4> QED BY <4>1, <4>2, Sizes
    <3> QED BY <1>2, <3>2, <3>3
  <2> QED BY <1>2, <1>6, <2>1 DEF RingFilled
<1>12. RingAged'
  <2> DEFINE c == gesturePresses
             M == N + dt
  <2>1. ASSUME NEW j \in Ring, j < gesturePresses'
        PROVE  Back(j)' <= j * LongestPause /\ ages'[j] = Capped(Back(j)')
    <3>1. CASE j = 0
      <4>1. Capped(0) = 0 /\ 0 <= 0 * LongestPause
        BY Sizes DEF Capped
      <4> QED BY <1>3, <1>7, <3>1, <4>1
    <3>2. CASE j # 0
      <4>1. j \in Ring \ {0} /\ j - 1 \in Ring /\ j - 1 < gesturePresses /\ gesturePresses > 0
        BY <1>1, <1>2, <2>1, <3>2, Sizes DEF Ring
      <4>2. Back(j)' = Back(j - 1) + M /\ Back(j)' <= j * LongestPause
        BY <1>8, <4>1
      <4>3. ages[j - 1] = Capped(Back(j - 1) + N)
        BY <4>1 DEF IInv, RingAged, Ring
      <4>4. N \in Nat /\ Back(j - 1) \in Nat
        BY <1>5, <4>1, StartTyped DEF Times
      <4> HIDE DEF N
      <4>5. Promise!Older(ages[j - 1], dt) = Capped(Back(j - 1) + N + dt)
        BY <4>3, <4>4, OlderCapped
      <4>6. ages'[j] = Promise!Older(ages[j - 1], dt)
        BY <1>3, <4>1
      <4>7. Back(j - 1) + N + dt = Back(j - 1) + M
        BY <4>4
      <4> QED BY <4>2, <4>5, <4>6, <4>7
    <3> QED BY <3>1, <3>2
  <2>2. ASSUME NEW j \in Ring, j >= gesturePresses'
        PROVE  ages'[j] = Promise!Long \/ ages'[j] > Back(gesturePresses - 1)' + WindowMs
    <3>1. /\ j \in Ring \ {0} /\ j - 1 \in Ring /\ j - 1 >= c /\ c < Presses
          /\ gesturePresses' = c + 1
      BY <1>1, <1>2, <2>2, Sizes DEF Ring
    <3>2. ages'[j] = Promise!Older(ages[j - 1], dt)
      BY <1>3, <3>1
    <3>3. /\ ages[j - 1] \in 0..Promise!Long
          /\ ages'[j] >= ages[j - 1] /\ ages'[j] \in 0..Promise!Long
          /\ ages'[j] = Promise!Long \/ ages'[j] = ages[j - 1] + dt
      BY <1>1, <3>1, <3>2, OlderGrows
    <3>4. CASE c = 0
      <4>1. ages[j - 1] > WindowMs
        BY <1>2, <3>1, <3>4 DEF IInv, IdleForgotten, Ring
      <4>2. Back(gesturePresses - 1)' = 0
        BY <1>2, <1>4, <1>6, <3>1, <3>4 DEF Back
      <4> QED BY <3>3, <4>1, <4>2, Sizes
    <3>5. CASE c > 0
      <4>1. \/ ages[j - 1] = Promise!Long
            \/ ages[j - 1] > Back(c - 1) + N + WindowMs
        BY <1>1, <3>1, <3>5, Sizes DEF IInv, RingAged, Ring
      <4>2. c \in Ring \ {0} /\ c - 1 \in Ring
        BY <1>1, <3>1, <3>5, Sizes DEF Ring
      <4>3. Back(gesturePresses - 1)' = Back(c - 1) + M
        <5>1. PICK k \in Ring \ {0} : k = c
          BY <4>2
        <5>2. Back(k)' = Back(k - 1) + M
          BY <1>1, <1>8, <5>1, Sizes DEF Ring
        <5>3. Back(gesturePresses - 1)' = Back(k)'
          BY <1>1, <3>1, <5>1 DEF Back
        <5>4. Back(k - 1) = Back(c - 1)
          BY <5>1
        <5> QED BY <5>2, <5>3, <5>4
      <4>4. N \in Nat /\ Back(c - 1) \in Nat
        BY <1>5, <3>5, <4>2, StartTyped DEF Times
      <4> HIDE DEF N
      <4> QED BY <3>3, <4>1, <4>3, <4>4, Sizes
    <3> QED BY <1>1, <3>4, <3>5
  <2>3. SUFFICES ASSUME NEW j \in Ring
                 PROVE  IF j < gesturePresses'
                        THEN /\ Back(j)' <= j * LongestPause
                             /\ ages'[j] = Capped(Back(j)' + 0)
                        ELSE \/ ages'[j] = Promise!Long
                             \/ ages'[j] > Back(gesturePresses - 1)' + 0 + WindowMs
    BY <1>2, <1>4 DEF RingAged, Ring, Capped, Promise!Long
  <2>4. CASE j < gesturePresses'
    <3>1. Slot(gestureNext', j) \in Ring
      BY <1>6, SlotInRing
    <3>2. Back(j)' \in Times
      BY <1>2, <1>4, <1>6, <3>1, ElapsedCases DEF Back
    <3>3. Back(j)' + 0 = Back(j)'
      BY <3>2 DEF Times
    <3> QED BY <2>1, <2>4, <3>3
  <2>5. CASE ~(j < gesturePresses')
    <3>1. PICK k \in Ring : k = gesturePresses' - 1
      BY <1>1, <1>2, Sizes DEF Ring
    <3>2. Back(gesturePresses - 1)' = Back(k)'
      BY <3>1 DEF Back
    <3>3. Slot(gestureNext', k) \in Ring
      BY <1>6, SlotInRing
    <3>4. Back(k)' \in Times
      BY <1>2, <1>4, <1>6, <3>3, ElapsedCases DEF Back
    <3>5. Back(gesturePresses - 1)' + 0 + WindowMs = Back(gesturePresses - 1)' + WindowMs
      BY <3>2, <3>4 DEF Times
    <3>6. j >= gesturePresses'
      BY <1>1, <1>2, <2>5, Sizes DEF Ring
    <3> QED BY <2>2, <2>5, <3>5, <3>6
  <2> QED BY <2>4, <2>5
<1> QED BY <1>9, <1>10, <1>11, <1>12 DEF IInv

\* Ages only grow, within their range.
LEMMA AgedTyped ==
    ASSUME PromiseTypeOK, NEW dt \in 0..MaxGap
    PROVE  /\ Promise!Aged(dt) \in [Ring -> 0..Promise!Long]
           /\ \A j \in Ring : Promise!Aged(dt)[j] = Promise!Older(ages[j], dt)
           /\ \A j \in Ring : Promise!Aged(dt)[j] >= ages[j]
<1>1. \A j \in Ring : ages[j] \in 0..Promise!Long
  BY DEF PromiseTypeOK, Ring
<1>2. Promise!Aged(dt) = [j \in Ring |-> Promise!Older(ages[j], dt)]
  BY DEF Promise!Aged, Ring
<1>3. \A j \in Ring : /\ Promise!Older(ages[j], dt) \in 0..Promise!Long
                      /\ Promise!Older(ages[j], dt) >= ages[j]
  BY <1>1, OlderGrows
<1> QED BY <1>2, <1>3

\* While the starts stay, their ages follow the time since the newest.
LEMMA RingWaits ==
    ASSUME IInv, NEW dt \in 0..MaxGap, now' = (now + dt) % TimeMod,
           UNCHANGED <<pressStart, gestureStarts, gestureNext, gesturePresses>>,
           ages' = Promise!Aged(dt), gesturePresses > 0,
           Elapsed(pressStart, now) + dt < TimeMod
    PROVE  /\ Elapsed(pressStart, now') = Elapsed(pressStart, now) + dt
           /\ RingAged'
<1> DEFINE N == Elapsed(pressStart, now)
<1>1. /\ now \in Times /\ pressStart \in Times /\ N \in Nat
      /\ gesturePresses \in 1..Presses
      /\ ages \in [Ring -> 0..Promise!Long]
  <2>1. /\ now \in Times /\ pressStart \in Times
        /\ gesturePresses \in 0..Presses
        /\ ages \in [Ring -> 0..Promise!Long]
    BY DEF IInv, ButtonTypeOK, PromiseTypeOK, Ring
  <2>2. N \in Times
    BY <2>1, ElapsedCases
  <2> HIDE DEF N
  <2> QED BY <2>1, <2>2, Sizes DEF Times
<1>2. now' \in Times /\ Elapsed(now, now') = dt
  BY <1>1, NextSample
<1>3. Elapsed(pressStart, now') = N + dt
  BY <1>1, <1>2, ElapsedGrows
<1>4. \A j \in Ring : Back(j) \in Nat /\ Back(j)' = Back(j)
  BY StartTyped, Sizes DEF Back, Times
<1>5. \A j \in Ring : ages'[j] = Promise!Older(ages[j], dt)
  BY AgedTyped DEF IInv
<1> HIDE DEF N
<1>6. ASSUME NEW j \in Ring, j < gesturePresses
      PROVE  /\ Back(j) <= j * LongestPause
             /\ ages'[j] = Capped(Back(j) + (N + dt))
  <2>1. Back(j) <= j * LongestPause /\ ages[j] = Capped(Back(j) + N)
    BY <1>6 DEF IInv, RingAged, Ring, N
  <2>2. Back(j) + N \in Nat /\ Back(j) + N + dt = Back(j) + (N + dt)
    BY <1>1, <1>4
  <2>3. Promise!Older(ages[j], dt) = Capped(Back(j) + N + dt)
    BY <2>1, <2>2, OlderCapped
  <2> QED BY <1>5, <2>1, <2>2, <2>3
<1>7. ASSUME NEW j \in Ring, ~(j < gesturePresses)
      PROVE  \/ ages'[j] = Promise!Long
             \/ ages'[j] > Back(gesturePresses - 1) + (N + dt) + WindowMs
  <2>1. \/ ages[j] = Promise!Long
        \/ ages[j] > Back(gesturePresses - 1) + N + WindowMs
    BY <1>7 DEF IInv, RingAged, Ring, N
  <2>2. /\ ages[j] \in 0..Promise!Long
        /\ ages'[j] >= ages[j] /\ ages'[j] \in 0..Promise!Long
        /\ ages'[j] = Promise!Long \/ ages'[j] = ages[j] + dt
    BY <1>1, <1>5, OlderGrows
  <2>3. Back(gesturePresses - 1) \in Nat
    BY <1>1, <1>4, Sizes DEF Ring
  <2> QED BY <1>1, <2>1, <2>2, <2>3, Sizes
<1>8. Back(gesturePresses - 1)' = Back(gesturePresses - 1)
  BY DEF Back
<1>9. RingAged'
  BY <1>3, <1>4, <1>6, <1>7, <1>8 DEF RingAged, Ring
<1> QED BY <1>3, <1>9 DEF N

\* A hold is seen by the code exactly when it is promised.
LEMMA HoldAgrees ==
    ASSUME IInv, isPressed, NEW dt \in 0..MaxGap, now' = (now + dt) % TimeMod
    PROVE  /\ (ages[0] < HoldMs /\ Promise!Older(ages[0], dt) >= HoldMs)
                <=> (~isHoldReported /\ Elapsed(pressStart, now') >= HoldMs)
           /\ ~isHoldReported => /\ gesturePresses > 0 /\ ages[0] = Elapsed(pressStart, now)
                                 /\ Elapsed(pressStart, now) \in 0..(HoldMs - 1)
                                 /\ Elapsed(pressStart, now') = Elapsed(pressStart, now) + dt
                                 /\ Elapsed(pressStart, now) + dt < TimeMod
           /\ isHoldReported => ages[0] = Promise!Long
<1> DEFINE N == Elapsed(pressStart, now)
<1>1. /\ now \in Times /\ pressStart \in Times /\ N \in Nat /\ 0 \in Ring
      /\ isHoldReported \in BOOLEAN
  <2>1. now \in Times /\ pressStart \in Times /\ isHoldReported \in BOOLEAN
    BY DEF IInv, ButtonTypeOK
  <2>2. N \in Times
    BY <2>1, ElapsedCases
  <2> HIDE DEF N
  <2> QED BY <2>1, <2>2, Sizes DEF Times, Ring
<1>2. CASE isHoldReported
  <2>1. ages[0] = Promise!Long
    BY <1>1, <1>2 DEF IInv, LevelSeen, Promise!Forgotten, Ring
  <2> QED BY <1>2, <2>1, Sizes
<1>3. CASE ~isHoldReported
  <2>1. gesturePresses > 0 /\ N < HoldMs
    BY <1>3 DEF IInv, PressTimed
  <2>2. Back(0) = 0
    BY <1>1, <2>1, StartTyped
  <2>3. ages[0] = Capped(0 + N)
    BY <1>1, <2>1, <2>2 DEF IInv, RingAged, Ring
  <2>4. now' \in Times /\ Elapsed(now, now') = dt
    BY <1>1, NextSample
  <2>5. N + dt < TimeMod
    <3> HIDE DEF N
    <3> QED BY <1>1, <2>1, Sizes
  <2>6. Elapsed(pressStart, now') = N + dt
    BY <1>1, <2>4, <2>5, ElapsedGrows
  <2> HIDE DEF N
  <2>7. ages[0] = N
    BY <1>1, <2>1, <2>3, Sizes DEF Capped
  <2>8. Promise!Older(N, dt) >= HoldMs <=> N + dt >= HoldMs
    BY <1>1, Sizes DEF Promise!Older
  <2> QED BY <1>1, <1>3, <2>1, <2>5, <2>6, <2>7, <2>8, Sizes DEF N
<1> QED BY <1>1, <1>2, <1>3

\* At a release, the ring holds a gesture exactly when the header promises it.
LEMMA GestureAgrees ==
    ASSUME IInv, isPressed
    PROVE  (ages[0] < HoldMs /\ ages[Presses - 1] - ages[0] <= WindowMs)
                <=> (~isHoldReported /\ IsGestureComplete)
<1> DEFINE N == Elapsed(pressStart, now)
           last == Presses - 1
<1>1. /\ now \in Times /\ pressStart \in Times /\ N \in Nat /\ 0 \in Ring /\ last \in Ring
      /\ isHoldReported \in BOOLEAN /\ gestureNext \in Ring /\ gesturePresses \in 0..Presses
      /\ ages \in [Ring -> 0..Promise!Long]
  <2>1. /\ now \in Times /\ pressStart \in Times /\ isHoldReported \in BOOLEAN
        /\ gestureNext \in Ring /\ gesturePresses \in 0..Presses
        /\ ages \in [Ring -> 0..Promise!Long]
    BY DEF IInv, ButtonTypeOK, PromiseTypeOK, Ring
  <2>2. N \in Times
    BY <2>1, ElapsedCases
  <2> HIDE DEF N
  <2> QED BY <2>1, <2>2, Sizes DEF Times, Ring
<1>2. CASE isHoldReported
  <2>1. ages[0] = Promise!Long
    BY <1>1, <1>2 DEF IInv, LevelSeen, Promise!Forgotten, Ring
  <2> QED BY <1>2, <2>1, Sizes
<1>3. CASE ~isHoldReported
  <2>1. gesturePresses > 0 /\ N < HoldMs
    BY <1>3 DEF IInv, PressTimed
  <2>2. Back(0) = 0
    BY <1>1, <2>1, StartTyped
  <2>3. ages[0] = Capped(0 + N)
    BY <1>1, <2>1, <2>2 DEF IInv, RingAged, Ring
  <2>4. ages[0] = N
    <3> HIDE DEF N
    <3> QED BY <1>1, <2>1, <2>3, Sizes DEF Capped
  <2>5. IsGestureComplete <=> gesturePresses = Presses /\ Back(last) <= WindowMs
    <3>1. /\ gestureStarts[gestureNext] = gestureStarts[Slot(gestureNext, last)]
          /\ gestureStarts[(gestureNext + Presses - 1) % Presses] = pressStart
      BY <1>1, <2>1, SlotEnds DEF IInv, RingFilled
    <3> QED BY <3>1 DEF IsGestureComplete, Back
  <2>6. CASE gesturePresses = Presses
    <3>1. ages[last] = Capped(Back(last) + N)
      BY <1>1, <2>1, <2>6, Sizes DEF IInv, RingAged, Ring
    <3>2. Back(last) \in Nat
      BY <1>1, StartTyped DEF Times
    <3> HIDE DEF N, last
    <3>3. ages[last] - N <= WindowMs <=> Back(last) <= WindowMs
      BY <1>1, <2>1, <3>1, <3>2, Sizes DEF Capped
    <3> QED BY <1>3, <2>1, <2>4, <2>5, <2>6, <3>3 DEF last
  <2>7. CASE gesturePresses # Presses
    <3>1. /\ ~(last < gesturePresses)
          /\ gesturePresses - 1 \in Ring
      BY <1>1, <2>1, <2>7, Sizes DEF Ring
    <3>2. \/ ages[last] = Promise!Long
          \/ ages[last] > Back(gesturePresses - 1) + N + WindowMs
      BY <1>1, <2>1, <3>1 DEF IInv, RingAged, Ring
    <3>3. Back(gesturePresses - 1) \in Nat
      BY <3>1, StartTyped DEF Times
    <3> HIDE DEF N, last
    <3>4. ~(ages[last] - N <= WindowMs)
      BY <1>1, <2>1, <3>2, <3>3, Sizes
    <3> QED BY <2>4, <2>5, <2>7, <3>4 DEF last
  <2> QED BY <2>6, <2>7
<1> QED BY <1>1, <1>2, <1>3

\* The level stays low.
LEMMA HoldStep ==
    ASSUME IInv, NEW dt \in 0..MaxGap, now' = (now + dt) % TimeMod,
           HeldSample(now'), down' = TRUE, Promise!Hold(dt)
    PROVE  IInv'
<1>1. /\ now \in Times /\ isPressed /\ UNCHANGED <<isPressed, pressStart, gestureStarts, release>>
      /\ gestureNext \in Ring /\ gesturePresses \in 0..Presses
  BY DEF IInv, ButtonTypeOK, HeldSample, Ring
<1>2. now' \in Times /\ Elapsed(now, now') = dt
  BY <1>1, NextSample
<1>3. CASE ~isHoldReported /\ Elapsed(pressStart, now') >= HoldMs
  <2>1. /\ isHoldReported' = TRUE /\ gesturePresses' = 0 /\ gestureNext' = 0
        /\ event' = "HOLD_REACHED"
    <3>1. ~(Elapsed(pressStart, now') < HoldMs)
      <4>1. pressStart \in Times
        BY DEF IInv, ButtonTypeOK
      <4>2. Elapsed(pressStart, now') \in Times
        BY <1>2, <4>1, ElapsedCases
      <4> QED BY <1>3, <4>2, Sizes DEF Times
    <3> QED BY <1>3, <3>1 DEF HeldSample, ResetGesture
  <2>2. promised' = "HOLD_REACHED" /\ ages' = Promise!Forgotten
    BY <1>1, <1>3, HoldAgrees DEF Promise!Hold
  <2>3. Promise!Forgotten \in [Ring -> 0..Promise!Long]
    BY Sizes DEF Promise!Forgotten, Ring
  <2>4. ButtonTypeOK' /\ PromiseTypeOK'
    BY <1>1, <1>2, <2>1, <2>2, <2>3, Sizes
       DEF IInv, ButtonTypeOK, PromiseTypeOK, Events, Ring
  <2>5. LevelSeen' /\ RingFilled'
    BY <1>1, <2>1, <2>2, Sizes DEF IInv, LevelSeen, RingFilled, Promise!Forgotten
  <2>6. PressTimed' /\ PauseTimed' /\ IdleForgotten' /\ RingAged' /\ RequestsAsPromised'
    BY <1>1, <2>1, <2>2 DEF PressTimed, PauseTimed, IdleForgotten, RingAged, RequestsAsPromised
  <2> QED BY <2>4, <2>5, <2>6 DEF IInv
<1>4. CASE ~(~isHoldReported /\ Elapsed(pressStart, now') >= HoldMs)
  <2>1. /\ gesturePresses' = gesturePresses /\ gestureNext' = gestureNext
        /\ event' = "NONE" /\ isHoldReported' = isHoldReported
    BY <1>4 DEF HeldSample, KeepGesture
  <2>2. promised' = "NONE" /\ ages' = Promise!Aged(dt)
    BY <1>1, <1>4, HoldAgrees DEF Promise!Hold
  <2>3. ButtonTypeOK' /\ PromiseTypeOK'
    BY <1>1, <1>2, <2>1, <2>2, AgedTyped
       DEF IInv, ButtonTypeOK, PromiseTypeOK, Events, Ring
  <2>4. RequestsAsPromised' /\ PauseTimed' /\ IdleForgotten'
    BY <1>1, <2>1, <2>2 DEF RequestsAsPromised, PauseTimed, IdleForgotten
  <2>5. RingFilled'
    BY <1>1, <2>1 DEF IInv, RingFilled
  <2>6. CASE isHoldReported
    <3>1. gesturePresses = 0 /\ ages = Promise!Forgotten
      BY <2>6 DEF IInv, LevelSeen
    <3>2. Promise!Aged(dt) = Promise!Forgotten
      BY <3>1, Sizes DEF Promise!Aged, Promise!Forgotten, Promise!Older
    <3>3. LevelSeen'
      BY <1>1, <2>1, <2>2, <3>1, <3>2 DEF IInv, LevelSeen, Promise!Forgotten
    <3>4. PressTimed' /\ RingAged'
      BY <1>1, <2>1, <2>6, <3>1 DEF PressTimed, RingAged
    <3> QED BY <2>3, <2>4, <2>5, <3>3, <3>4 DEF IInv
  <2>7. CASE ~isHoldReported
    <3>1. /\ gesturePresses > 0 /\ Elapsed(pressStart, now) + dt < TimeMod
          /\ Elapsed(pressStart, now') < HoldMs
      <4>1. /\ gesturePresses > 0 /\ Elapsed(pressStart, now) \in 0..(HoldMs - 1)
            /\ Elapsed(pressStart, now') = Elapsed(pressStart, now) + dt
            /\ Elapsed(pressStart, now) + dt < TimeMod
        BY <1>1, <2>7, HoldAgrees
      <4> QED BY <1>4, <2>7, <4>1, Sizes
    <3>2. RingAged'
      BY <1>1, <2>1, <2>2, <3>1, RingWaits
    <3>3. LevelSeen' /\ PressTimed'
      BY <1>1, <2>1, <2>7, <3>1 DEF IInv, LevelSeen, PressTimed
    <3> QED BY <2>3, <2>4, <2>5, <3>2, <3>3 DEF IInv
  <2> QED BY <2>6, <2>7
<1> QED BY <1>3, <1>4

\* The level goes or stays high.
LEMMA ReleaseStep ==
    ASSUME IInv, NEW dt \in 0..MaxGap, dt = 0 => ~isPressed, now' = (now + dt) % TimeMod,
           ReleasedSample(now'), down' = FALSE, Promise!Release(dt)
    PROVE  IInv'
<1> DEFINE N == Elapsed(pressStart, now)
           Q == Elapsed(release, now)
<1>1. /\ now \in Times /\ pressStart \in Times /\ release \in Times
      /\ gestureNext \in Ring /\ gesturePresses \in 0..Presses
      /\ isHoldReported \in BOOLEAN /\ isPressed \in BOOLEAN
      /\ ages \in [Ring -> 0..Promise!Long]
      /\ N \in Times /\ Q \in Times
  <2>1. /\ now \in Times /\ pressStart \in Times /\ release \in Times
        /\ gestureNext \in Ring /\ gesturePresses \in 0..Presses
        /\ isHoldReported \in BOOLEAN /\ isPressed \in BOOLEAN
        /\ ages \in [Ring -> 0..Promise!Long]
    BY DEF IInv, ButtonTypeOK, PromiseTypeOK, Ring
  <2> QED BY <2>1, ElapsedCases
<1>2. isPressed' = FALSE /\ isHoldReported' = FALSE /\ UNCHANGED <<pressStart, gestureStarts>>
  BY DEF ReleasedSample
<1>3. now' \in Times /\ Elapsed(now, now') = dt /\ Elapsed(now', now') = 0
  <2>1. now' \in Times /\ Elapsed(now, now') = dt
    BY <1>1, NextSample
  <2> QED BY <2>1, ElapsedCases DEF Times
<1>4. down = isPressed
  BY DEF IInv, LevelSeen
<1>5. ASSUME gesturePresses > 0, ~isPressed
      PROVE  /\ N + dt < TimeMod /\ Elapsed(pressStart, now') = N + dt
             /\ Elapsed(release, now') = Q + dt
             /\ N - Q \in 1..(HoldMs - 1 + MaxGap)
  <2>1. Q < WindowMs /\ N - Q \in 1..(HoldMs - 1 + MaxGap)
    BY <1>5 DEF IInv, PauseTimed
  <2>2. N + dt < TimeMod /\ Q + dt < TimeMod
    <3> HIDE DEF N, Q
    <3> QED BY <1>1, <2>1, Sizes DEF Times
  <2>3. Elapsed(pressStart, now') = N + dt /\ Elapsed(release, now') = Q + dt
    BY <1>1, <1>3, <2>2, ElapsedGrows
  <2> QED BY <2>1, <2>2, <2>3
<1>6. Promise!Forgotten \in [Ring -> 0..Promise!Long] /\ \A j \in Ring : Promise!Forgotten[j] > WindowMs
  BY Sizes DEF Promise!Forgotten, Ring
\* The release that completes the gesture.
<1>7. CASE isPressed /\ ~isHoldReported /\ IsGestureComplete
  <2>1. /\ release' = now' /\ gesturePresses' = 0 /\ gestureNext' = 0
        /\ event' = "UPDATE_GESTURE"
    BY <1>7 DEF ReleasedSample, ProcessGestureRelease, ResetGesture
  <2>2. promised' = "UPDATE_GESTURE" /\ ages' = Promise!Forgotten
    BY <1>4, <1>7, GestureAgrees DEF Promise!Release
  <2>3. ButtonTypeOK' /\ PromiseTypeOK'
    <3>1. gesturePresses' \in 0..Presses /\ gestureNext' \in Ring
      BY <2>1, Sizes DEF Ring
    <3> QED BY <1>1, <1>2, <1>3, <1>6, <2>1, <2>2, <3>1
            DEF IInv, ButtonTypeOK, PromiseTypeOK, Events, Ring
  <2>4. LevelSeen' /\ PressTimed' /\ RequestsAsPromised'
    BY <1>2, <2>1, <2>2 DEF LevelSeen, PressTimed, RequestsAsPromised
  <2>5. IdleForgotten'
    BY <1>6, <2>2 DEF IdleForgotten, Ring
  <2>6. RingFilled' /\ PauseTimed' /\ RingAged'
    BY <2>1, Sizes DEF RingFilled, PauseTimed, RingAged
  <2> QED BY <2>3, <2>4, <2>5, <2>6 DEF IInv
\* Every other release and pause requests nothing.
<1>8. CASE ~(isPressed /\ ~isHoldReported /\ IsGestureComplete)
  <2>1. event' = "NONE"
    BY <1>8 DEF ReleasedSample, ProcessGestureRelease
  <2>2. promised' = "NONE" /\ ages' = Promise!Aged(dt)
    BY <1>4, <1>8, GestureAgrees DEF Promise!Release
  <2>3. /\ release' = IF isPressed THEN now' ELSE release
        /\ \/ gesturePresses' = gesturePresses /\ gestureNext' = gestureNext
           \/ gesturePresses' = 0 /\ gestureNext' = 0
    BY <1>8 DEF ReleasedSample, ProcessGestureRelease, KeepGesture, ResetGesture
  <2>4. ButtonTypeOK' /\ PromiseTypeOK'
    <3>1. gesturePresses' \in 0..Presses /\ gestureNext' \in Ring /\ release' \in Times
      BY <1>1, <1>3, <2>3, Sizes DEF Ring
    <3> QED BY <1>1, <1>2, <1>3, <2>1, <2>2, <3>1, AgedTyped
            DEF IInv, ButtonTypeOK, PromiseTypeOK, Events, Ring
  <2>5. LevelSeen' /\ PressTimed' /\ RequestsAsPromised'
    BY <1>2, <2>1, <2>2 DEF LevelSeen, PressTimed, RequestsAsPromised
  <2>6. \A j \in Ring : ages'[j] >= ages[j] /\ ages'[j] \in 0..Promise!Long
    BY <2>2, AgedTyped DEF IInv
  <2>7. CASE gesturePresses = 0
    <3>1. gesturePresses' = 0 /\ gestureNext' = 0
      BY <2>3, <2>7, Sizes DEF IInv, RingFilled
    <3>2. \A j \in Ring : ages[j] > WindowMs
      <4>1. CASE isPressed
        <5>1. ages = Promise!Forgotten
          BY <2>7, <4>1 DEF IInv, PressTimed, LevelSeen
        <5> QED BY <1>6, <5>1
      <4>2. CASE ~isPressed
        BY <2>7, <4>2 DEF IInv, IdleForgotten, Ring
      <4> QED BY <4>1, <4>2
    <3>3. IdleForgotten'
      BY <1>1, <2>6, <3>2, Sizes DEF IdleForgotten, Ring
    <3>4. RingFilled' /\ PauseTimed' /\ RingAged'
      BY <3>1, Sizes DEF RingFilled, PauseTimed, RingAged
    <3> QED BY <2>4, <2>5, <3>3, <3>4 DEF IInv
  <2>8. CASE gesturePresses > 0 /\ isPressed
    <3>1. /\ gesturePresses' = gesturePresses /\ gestureNext' = gestureNext /\ release' = now'
          /\ ~isHoldReported
      <4>1. ~isHoldReported
        BY <2>8 DEF IInv, LevelSeen
      <4> QED BY <1>8, <2>8, <4>1 DEF ReleasedSample, ProcessGestureRelease, KeepGesture
    <3>2. /\ N \in 0..(HoldMs - 1) /\ N + dt < TimeMod
          /\ Elapsed(pressStart, now') = N + dt
      BY <2>8, <3>1, HoldAgrees
    <3>3. RingAged'
      BY <1>2, <2>2, <2>8, <3>1, <3>2, RingWaits
    <3>4. PauseTimed'
      <4>1. dt \in 1..MaxGap
        BY <2>8, Sizes
      <4> HIDE DEF N
      <4> QED BY <1>3, <3>1, <3>2, <4>1, <1>2, Sizes DEF PauseTimed
    <3>5. RingFilled' /\ IdleForgotten'
      BY <1>2, <2>8, <3>1 DEF IInv, RingFilled, IdleForgotten
    <3> QED BY <2>4, <2>5, <3>3, <3>4, <3>5 DEF IInv
  <2>9. CASE gesturePresses > 0 /\ ~isPressed /\ Elapsed(release, now') >= WindowMs
    <3>1. gesturePresses' = 0 /\ gestureNext' = 0
      BY <2>9 DEF ReleasedSample, ProcessGestureRelease, ResetGesture
    <3>2. N + dt > WindowMs
      <4>1. N - Q \in 1..(HoldMs - 1 + MaxGap) /\ Q + dt >= WindowMs
        BY <1>5, <2>9
      <4> HIDE DEF N, Q
      <4> QED BY <1>1, <4>1, Sizes DEF Times
    <3>3. ASSUME NEW j \in Ring
          PROVE  ages'[j] > WindowMs
      <4>1. Back(j) \in Nat /\ N \in Nat
        BY <1>1, StartTyped, Sizes DEF Times
      <4>2. ages'[j] = Promise!Older(ages[j], dt) /\ ages[j] \in 0..Promise!Long
        BY <1>1, <2>2, AgedTyped DEF IInv
      <4>3. CASE j < gesturePresses
        <5>1. ages[j] = Capped(Back(j) + N)
          BY <2>9, <4>3 DEF IInv, RingAged, Ring
        <5> HIDE DEF N
        <5>2. ages'[j] = Capped(Back(j) + N + dt)
          BY <4>1, <4>2, <5>1, OlderCapped
        <5> QED BY <3>2, <4>1, <5>2, Sizes DEF Capped
      <4>4. CASE ~(j < gesturePresses)
        <5>1. \/ ages[j] = Promise!Long
              \/ ages[j] > Back(gesturePresses - 1) + N + WindowMs
          BY <2>9, <4>4 DEF IInv, RingAged, Ring
        <5>2. Back(gesturePresses - 1) \in Nat
          BY <1>1, <2>9, StartTyped, Sizes DEF Times, Ring
        <5> HIDE DEF N
        <5> QED BY <2>6, <4>1, <4>2, <5>1, <5>2, Sizes
      <4> QED BY <4>3, <4>4
    <3>4. IdleForgotten'
      BY <3>3 DEF IdleForgotten, Ring
    <3>5. RingFilled' /\ PauseTimed' /\ RingAged'
      BY <3>1, Sizes DEF RingFilled, PauseTimed, RingAged
    <3> QED BY <2>4, <2>5, <3>4, <3>5 DEF IInv
  <2>10. CASE gesturePresses > 0 /\ ~isPressed /\ ~(Elapsed(release, now') >= WindowMs)
    <3>1. gesturePresses' = gesturePresses /\ gestureNext' = gestureNext /\ release' = release
      BY <2>10 DEF ReleasedSample, ProcessGestureRelease, KeepGesture
    <3>2. RingAged'
      BY <1>2, <1>5, <2>2, <2>10, <3>1, RingWaits
    <3>3. PauseTimed'
      <4>1. /\ Elapsed(pressStart, now') = N + dt /\ Elapsed(release, now') = Q + dt
            /\ N - Q \in 1..(HoldMs - 1 + MaxGap)
        BY <1>5, <2>10
      <4> HIDE DEF N, Q
      <4>2. Q + dt < WindowMs /\ (N + dt) - (Q + dt) \in 1..(HoldMs - 1 + MaxGap)
        BY <1>1, <2>10, <4>1, Sizes DEF Times
      <4> QED BY <1>2, <3>1, <4>1, <4>2 DEF PauseTimed
    <3>4. RingFilled' /\ IdleForgotten'
      BY <1>2, <2>10, <3>1 DEF IInv, RingFilled, IdleForgotten
    <3> QED BY <2>4, <2>5, <3>2, <3>3, <3>4 DEF IInv
  <2> QED BY <1>1, <2>7, <2>8, <2>9, <2>10
<1> QED BY <1>7, <1>8

-----------------------------------------------------------------------------
(* The requests.                                                           *)

LEMMA Inductive ==
    /\ Init => IInv
    /\ IInv /\ [Next]_vars => IInv'
<1>1. ASSUME Init
      PROVE  IInv
  <2>1. /\ now \in Times /\ isPressed = FALSE /\ isHoldReported = FALSE
        /\ pressStart = 0 /\ release = 0 /\ gestureStarts = [j \in Ring |-> 0]
        /\ gestureNext = 0 /\ gesturePresses = 0 /\ event = "NONE"
    BY <1>1 DEF Init, ButtonInit, Ring
  <2>2. down = FALSE /\ ages = [j \in Ring |-> Promise!Long] /\ promised = "NONE"
    BY <1>1 DEF Init, Promise!PromiseInit, Promise!Forgotten, Ring
  <2>3. 0 \in Times /\ 0 \in Ring
    BY Sizes DEF Times, Ring
  <2>4. ButtonTypeOK /\ PromiseTypeOK
    <3>1. gesturePresses \in 0..Presses /\ Promise!Long \in 0..Promise!Long
      BY <2>1, Sizes
    <3>2. ages \in [Ring -> 0..Promise!Long] /\ gestureStarts \in [Ring -> Times]
      BY <2>1, <2>2, <2>3, <3>1
    <3> QED BY <2>1, <2>2, <2>3, <3>1, <3>2 DEF ButtonTypeOK, PromiseTypeOK, Events, Ring
  <2>5. LevelSeen /\ PressTimed /\ RequestsAsPromised
    BY <2>1, <2>2 DEF LevelSeen, PressTimed, RequestsAsPromised
  <2>6. IdleForgotten
    BY <2>2, Sizes DEF IdleForgotten, Ring
  <2>7. RingFilled /\ PauseTimed /\ RingAged
    BY <2>1, Sizes DEF RingFilled, PauseTimed, RingAged
  <2> QED BY <2>4, <2>5, <2>6, <2>7 DEF IInv
<1>2. ASSUME IInv, Next
      PROVE  IInv'
  <2>1. PICK isLow \in BOOLEAN, dt \in 0..MaxGap :
            /\ dt = 0 => isLow = isPressed
            /\ ProcessButtonSample(isLow, dt) /\ Promise!Observe(isLow, dt)
    BY <1>2 DEF Next, SampleGaps
  <2>2. now' = (now + dt) % TimeMod /\ down' = isLow
    BY <2>1 DEF ProcessButtonSample, Promise!Observe
  <2>3. CASE ~isLow
    <3>1. ReleasedSample(now') /\ Promise!Release(dt) /\ down' = FALSE
      BY <2>1, <2>3 DEF ProcessButtonSample, Promise!Observe
    <3>2. dt = 0 => ~isPressed
      <4>1. isPressed \in BOOLEAN
        BY <1>2 DEF IInv, ButtonTypeOK
      <4> QED BY <2>1, <2>3, <4>1
    <3> QED BY <1>2, <2>2, <3>1, <3>2, ReleaseStep
  <2>4. CASE isLow /\ ~isPressed
    <3>1. PressedSample(now') /\ Promise!Press(dt)
      BY <1>2, <2>1, <2>4 DEF ProcessButtonSample, HeldSample, Promise!Observe, Promise!Hold, IInv, LevelSeen
    <3> QED BY <1>2, <2>2, <2>4, <3>1, PressStep
  <2>5. CASE isLow /\ isPressed
    <3>1. HeldSample(now') /\ Promise!Hold(dt)
      BY <1>2, <2>1, <2>5 DEF ProcessButtonSample, PressedSample, Promise!Observe, Promise!Press, IInv, LevelSeen
    <3> QED BY <1>2, <2>2, <2>5, <3>1, HoldStep
  <2> QED BY <2>3, <2>4, <2>5
<1>3. ASSUME IInv, UNCHANGED vars
      PROVE  IInv'
  BY <1>3 DEF vars, button, Promise!promise, IInv, ButtonTypeOK, PromiseTypeOK, LevelSeen, RingFilled,
     PressTimed, PauseTimed, IdleForgotten, RingAged, Back, RequestsAsPromised
<1> QED BY <1>1, <1>2, <1>3

\* button.h, SPEC-007 FR-9, for any thresholds, number of presses and width of the
\* time: a hold is requested once, at the first sample at or after its threshold, and
\* the updater exactly at the release at which the last presses form the gesture.
THEOREM ButtonRequestsAsPromised == Spec => []RequestsAsPromised
<1>1. IInv => RequestsAsPromised
  BY DEF IInv
<1> QED BY Inductive, <1>1, PTL DEF Spec
=============================================================================

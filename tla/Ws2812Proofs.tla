---------------------------- MODULE Ws2812Proofs ----------------------------
(***************************************************************************)
(* The frame on the wire and what is measured of it, for every timing that *)
(* is accepted, every frame length, every way the driver cuts a frame into *)
(* calls, and every error of the receiver within the jitter.               *)
(***************************************************************************)
EXTENDS Ws2812Loopback, FiniteSetTheorems, SequenceTheorems, WellFoundedInduction, TLAPS

-----------------------------------------------------------------------------
(* Durations.                                                              *)

LEMMA DurationBound == MaxDuration \in Nat /\ MaxDuration >= 32000 /\ MaxDuration < 65536
BY DEF MaxDuration

\* A whole number of ticks is neither rounded nor cut.
LEMMA TicksExact ==
    ASSUME NEW q \in 0..MaxDuration
    PROVE  Ws2812NsToTicks(25 * q) = q
<1>1. q \in Nat /\ q < 65536
  BY DurationBound
<1>2. q % 65536 = q /\ (25 * q + 12) \div 25 = q
  BY <1>1
<1>3. TickNs \div 2 = 12
  BY DEF TickNs
<1> QED BY <1>2, <1>3 DEF Ws2812NsToTicks, TickNs

LEMMA StepBounds ==
    ASSUME NEW value, NEW least \in Int, NEW most \in Int, NEW step \in Int,
           IsOnStep(value, least, most, step)
    PROVE  value \in Int /\ least <= value /\ value <= most /\ value % step = 0
BY DEF IsOnStep

LEMMA Accepted ==
    ASSUME NEW t, ValidateWs2812Timing(t) = "OK", NEW b \in {0, 1}
    PROVE  /\ t.high[b] \in Int /\ 100 <= t.high[b] /\ t.high[b] <= 1200
           /\ t.high[b] % 25 = 0
           /\ t.period[b] \in Int /\ 800 <= t.period[b] /\ t.period[b] <= 2000
           /\ t.period[b] % 25 = 0
           /\ t.reset \in Int /\ 50 <= t.reset /\ t.reset <= 800
           /\ t.period[b] - t.high[b] >= 100
<1>1. InRange(t)
  BY DEF ValidateWs2812Timing
<1>2. /\ IsOnStep(t.high[b], 100, 1200, 25) /\ IsOnStep(t.period[b], 800, 2000, 25)
      /\ IsOnStep(t.reset, 50, 800, 10)
  BY <1>1 DEF InRange
<1>3. /\ t.high[b] \in Int /\ 100 <= t.high[b] /\ t.high[b] <= 1200 /\ t.high[b] % 25 = 0
      /\ t.period[b] \in Int /\ 800 <= t.period[b] /\ t.period[b] <= 2000 /\ t.period[b] % 25 = 0
      /\ t.reset \in Int /\ 50 <= t.reset /\ t.reset <= 800
  BY <1>2, StepBounds
<1>4. ~ \E c \in {0, 1} : t.period[c] - t.high[c] < 100
  BY <1>1, Zenon DEF ValidateWs2812Timing
<1>5. ~(t.period[b] - t.high[b] < 100)
  BY <1>4
<1> QED BY <1>3, <1>5

\* The symbol of a bit has its two durations to the tick.
LEMMA BitExact ==
    ASSUME NEW t, ValidateWs2812Timing(t) = "OK", NEW b \in {0, 1}
    PROVE  /\ BitSymbol(t, b).level0 = 1 /\ BitSymbol(t, b).level1 = 0
           /\ BitSymbol(t, b).high \in Int /\ BitSymbol(t, b).low \in Int
           /\ 4 <= BitSymbol(t, b).high /\ BitSymbol(t, b).high <= MaxDuration
           /\ 4 <= BitSymbol(t, b).low /\ BitSymbol(t, b).low <= MaxDuration
           /\ High(BitSymbol(t, b)) = t.high[b]
           /\ Period(BitSymbol(t, b)) = t.period[b]
           /\ Ws2812TicksToNs(BitSymbol(t, b).low) = t.period[b] - t.high[b]
<1> DEFINE h == t.high[b]
           p == t.period[b]
<1>1. /\ h \in Int /\ 100 <= h /\ h <= 1200 /\ h % 25 = 0
      /\ p \in Int /\ 800 <= p /\ p <= 2000 /\ p % 25 = 0
      /\ p - h >= 100
  BY Accepted
<1>2. BitSymbol(t, b) = [level0 |-> 1, high |-> Ws2812NsToTicks(h),
                         level1 |-> 0, low |-> Ws2812NsToTicks(p - h)]
  BY DEF BitSymbol
<1> HIDE DEF h, p
<1>3. PICK x \in Int : h = 25 * x /\ 4 <= x /\ x <= 48
  <2>1. h \div 25 \in Int /\ h = 25 * (h \div 25)
    BY <1>1
  <2> QED BY <1>1, <2>1
<1>4. PICK y \in Int : p = 25 * y /\ y <= 80
  <2>1. p \div 25 \in Int /\ p = 25 * (p \div 25)
    BY <1>1
  <2> QED BY <1>1, <2>1
<1>5. y - x \in Int /\ 4 <= y - x /\ y - x <= 80 /\ p - h = 25 * (y - x)
  BY <1>1, <1>3, <1>4
<1>6. x \in 0..MaxDuration /\ y - x \in 0..MaxDuration
  BY <1>3, <1>5, DurationBound
<1>7. Ws2812NsToTicks(h) = x /\ Ws2812NsToTicks(p - h) = y - x
  BY <1>3, <1>5, <1>6, TicksExact
<1>8. /\ BitSymbol(t, b).level0 = 1 /\ BitSymbol(t, b).level1 = 0
      /\ BitSymbol(t, b).high = x /\ BitSymbol(t, b).low = y - x
  BY <1>2, <1>7
<1>9. x * 25 = h /\ (x + (y - x)) * 25 = p /\ (y - x) * 25 = p - h
  BY <1>3, <1>4, <1>5
<1> QED BY <1>3, <1>5, <1>6, <1>8, <1>9 DEF High, Period, Ws2812TicksToNs, TickNs, h, p

LEMMA ResetExact ==
    ASSUME NEW t, ValidateWs2812Timing(t) = "OK"
    PROVE  /\ ResetSymbol(t).level0 = 0 /\ ResetSymbol(t).high = 0
           /\ ResetSymbol(t).low \in 0..MaxDuration
<1> DEFINE r == t.reset
<1>1. r \in Int /\ 50 <= r /\ r <= 800
  BY Accepted
<1>2. ResetSymbol(t) = [level0 |-> 0, high |-> 0, level1 |-> 0, low |-> Ws2812NsToTicks(r * 1000)]
  BY DEF ResetSymbol
<1> HIDE DEF r
<1>3. r * 1000 = 25 * (40 * r) /\ 40 * r \in 0..MaxDuration
  BY <1>1, DurationBound
<1>4. Ws2812NsToTicks(r * 1000) = 40 * r
  BY <1>3, TicksExact
<1> QED BY <1>2, <1>3, <1>4

-----------------------------------------------------------------------------
(* Extremes and averages.                                                  *)

\* Every set of numbers has a least one; the way to every induction below.
LEMMA NatLeast ==
    ASSUME NEW T, T \subseteq Nat, T # {}
    PROVE  \E m \in T : \A k \in T : m <= k
<1> DEFINE R == {ss \in Nat \X Nat : ss[1] < ss[2]}
<1>1. OpToRel(<, Nat) = R
  BY DEF OpToRel
<1>2. IsWellFoundedOn(R, Nat)
  BY <1>1, NatLessThanWellFounded
<1>3. PICK m \in T : \A k \in T : ~(<<k, m>> \in R)
  <2> HIDE DEF R
  <2> QED BY <1>2, WFMin
<1>4. ASSUME NEW k \in T
      PROVE  m <= k
  <2>1. <<k, m>> \notin {ss \in Nat \X Nat : ss[1] < ss[2]}
    BY <1>3
  <2>2. ~(k < m)
    BY <2>1
  <2> QED BY <2>2
<1> QED BY <1>3, <1>4

LEMMA NatGreatest ==
    ASSUME NEW T, T \subseteq Nat, T # {}, NEW n \in Nat, \A k \in T : k <= n
    PROVE  \E m \in T : \A k \in T : k <= m
<1> DEFINE U == {n - k : k \in T}
<1>1. U \subseteq Nat /\ U # {}
  <2>1. \A k \in T : n - k \in Nat
    OBVIOUS
  <2> QED BY <2>1
<1>2. PICK u \in U : \A k \in U : u <= k
  <2> HIDE DEF U
  <2> QED BY <1>1, NatLeast
<1>3. PICK m \in T : u = n - m
  OBVIOUS
<1>4. \A k \in T : k <= m
  BY <1>2, <1>3
<1> QED BY <1>4

LEMMA MinLeast ==
    ASSUME NEW T, T \subseteq Nat, T # {}
    PROVE  Min(T) \in T /\ \A k \in T : Min(T) <= k
BY NatLeast DEF Min

LEMMA MaxGreatest ==
    ASSUME NEW T, T \subseteq Nat, T # {}, NEW n \in Nat, \A k \in T : k <= n
    PROVE  Max(T) \in T /\ \A k \in T : k <= Max(T)
<1>1. \E m \in T : \A k \in T : m >= k
  <2>1. PICK m \in T : \A k \in T : k <= m
    BY NatGreatest
  <2> QED BY <2>1
<1>2. Max(T) \in T /\ \A k \in T : Max(T) >= k
  BY <1>1 DEF Max
<1> QED BY <1>2

\* g is the sum of the loop for k rounds.
IsSum(g, value, of, k) ==
    g = [i \in 0..k |-> IF i = 0 THEN 0 ELSE g[i - 1] + IF i \in of THEN value[i] ELSE 0]

\* It exists for every number of rounds,
LEMMA SumExists ==
    ASSUME NEW value, NEW of, NEW n \in Nat
    PROVE  \E g : IsSum(g, value, of, n)
<1> DEFINE Sums(g, k) == IsSum(g, value, of, k)
           T == {k \in Nat : ~ \E g : Sums(g, k)}
<1>1. SUFFICES ASSUME T # {}
               PROVE  FALSE
  OBVIOUS
<1>2. PICK m \in T : \A k \in T : m <= k
  <2>1. T \subseteq Nat
    OBVIOUS
  <2> HIDE DEF T
  <2> QED BY <1>1, <2>1, NatLeast
<1>3. m # 0
  <2>1. Sums([i \in 0..0 |-> 0], 0)
    BY DEF IsSum
  <2> QED BY <2>1
<1>4. PICK g : Sums(g, m - 1)
  BY <1>2, <1>3
<1> DEFINE h == [i \in 0..m |-> IF i = m THEN g[m - 1] + IF m \in of THEN value[m] ELSE 0 ELSE g[i]]
<1>5. Sums(h, m)
  <2>1. ASSUME NEW i \in 0..m
        PROVE  h[i] = IF i = 0 THEN 0 ELSE h[i - 1] + IF i \in of THEN value[i] ELSE 0
    <3>1. CASE i = m
      BY <1>3, <3>1
    <3>2. CASE i # m
      <4>1. i \in 0..(m - 1) /\ h[i] = g[i] /\ (i # 0 => h[i - 1] = g[i - 1])
        BY <3>2
      <4>2. g[i] = IF i = 0 THEN 0 ELSE g[i - 1] + IF i \in of THEN value[i] ELSE 0
        BY <1>4, <4>1 DEF IsSum
      <4> QED BY <4>1, <4>2
    <3> QED BY <3>1, <3>2
  <2> QED BY <2>1 DEF IsSum
<1> QED BY <1>5

\* so each round adds its value.
LEMMA SumRounds ==
    ASSUME NEW value, NEW of, DataSymbols \in Nat
    PROVE  /\ RunningSum(value, of)[0] = 0
           /\ \A i \in 1..DataSymbols :
                RunningSum(value, of)[i] =
                    RunningSum(value, of)[i - 1] + IF i \in of THEN value[i] ELSE 0
<1> DEFINE s == RunningSum(value, of)
<1>1. PICK g : IsSum(g, value, of, DataSymbols)
  BY SumExists
<1>2. s = [i \in 0..DataSymbols |-> IF i = 0 THEN 0
                                   ELSE s[i - 1] + IF i \in of THEN value[i] ELSE 0]
  BY <1>1 DEF RunningSum, IsSum
<1> HIDE DEF s
<1>3. 0 \in 0..DataSymbols /\ 1..DataSymbols \subseteq 0..DataSymbols
  OBVIOUS
<1>4. s[0] = 0
  BY <1>2, <1>3
<1>5. ASSUME NEW i \in 1..DataSymbols
      PROVE  s[i] = s[i - 1] + IF i \in of THEN value[i] ELSE 0
  BY <1>2, <1>3
<1> QED BY <1>4, <1>5 DEF s

\* The sum lies between as many times the least and the greatest value.
LEMMA SumBounds ==
    ASSUME NEW value, NEW of, of \subseteq 1..DataSymbols, DataSymbols \in Nat,
           NEW lo \in Int, NEW hi \in Int,
           \A i \in of : value[i] \in Int /\ lo <= value[i] /\ value[i] <= hi
    PROVE  /\ IsFiniteSet(of) /\ Cardinality(of) \in Nat
           /\ RunningSum(value, of)[DataSymbols] \in Int
           /\ Cardinality(of) * lo <= RunningSum(value, of)[DataSymbols]
           /\ RunningSum(value, of)[DataSymbols] <= Cardinality(of) * hi
<1> DEFINE s == RunningSum(value, of)
           upTo(k) == {i \in of : i <= k}
           Bounded(k) == /\ s[k] \in Int
                         /\ Cardinality(upTo(k)) * lo <= s[k]
                         /\ s[k] <= Cardinality(upTo(k)) * hi
           T == {k \in Nat : k <= DataSymbols /\ ~Bounded(k)}
<1>a. \A i \in of : i \in Nat /\ 1 <= i /\ i <= DataSymbols
  OBVIOUS
<1>1. ASSUME NEW k \in Nat
      PROVE  IsFiniteSet(upTo(k)) /\ Cardinality(upTo(k)) \in Nat
  <2>1. IsFiniteSet(1..DataSymbols)
    BY FS_Interval
  <2>2. upTo(k) \in SUBSET (1..DataSymbols)
    OBVIOUS
  <2>3. IsFiniteSet(upTo(k))
    BY <2>1, <2>2, FS_Subset
  <2> QED BY <2>3, FS_CardinalityType
<1>2. s[0] = 0 /\ \A i \in 1..DataSymbols : s[i] = s[i - 1] + IF i \in of THEN value[i] ELSE 0
  BY SumRounds
<1> HIDE DEF s
<1>3. T = {}
  <2>1. SUFFICES ASSUME T # {}
                 PROVE  FALSE
    OBVIOUS
  <2>2. PICK m \in T : \A k \in T : m <= k
    <3>1. T \subseteq Nat
      OBVIOUS
    <3> HIDE DEF T
    <3> QED BY <2>1, <3>1, NatLeast
  <2>3. CASE m = 0
    <3>1. upTo(0) = {}
      <4> HIDE DEF T, Bounded
      <4>1. \A i \in of : ~(i <= 0)
        BY <1>a
      <4> QED BY <4>1
    <3>2. Cardinality(upTo(0)) = 0
      BY <3>1, FS_EmptySet
    <3>3. 0 * lo = 0 /\ 0 * hi = 0
      OBVIOUS
    <3>4. Bounded(0)
      BY <1>2, <3>2, <3>3
    <3> QED BY <2>3, <3>4
  <2>4. CASE m # 0
    <3> DEFINE c == Cardinality(upTo(m - 1))
    <3>1. m \in 1..DataSymbols /\ m - 1 \in Nat /\ m - 1 <= DataSymbols /\ ~(m - 1 \in T)
      <4>1. m \in Nat /\ m <= DataSymbols
        OBVIOUS
      <4>2. m - 1 \notin T
        <5>1. ~(m <= m - 1)
          BY <4>1
        <5> HIDE DEF T
        <5> QED BY <2>2, <5>1
      <4> HIDE DEF T
      <4> QED BY <2>4, <4>1, <4>2
    <3>2. Bounded(m - 1)
      <4> HIDE DEF Bounded
      <4> QED BY <3>1
    <3>3. c \in Nat /\ IsFiniteSet(upTo(m - 1))
      BY <1>1, <3>1
    <3>4. CASE m \in of
      <4>1. upTo(m) = upTo(m - 1) \cup {m} /\ m \notin upTo(m - 1)
        <5> HIDE DEF T, Bounded
        <5>1. \A i \in of : i <= m <=> i <= m - 1 \/ i = m
          BY <1>a, <3>1
        <5>2. ~(m <= m - 1)
          BY <3>1
        <5> QED BY <3>4, <5>1, <5>2
      <4>2. Cardinality(upTo(m)) = c + 1
        <5> HIDE DEF upTo
        <5> QED BY <3>3, <4>1, FS_AddElement
      <4>3. s[m] = s[m - 1] + value[m] /\ value[m] \in Int /\ lo <= value[m] /\ value[m] <= hi
        BY <1>2, <3>1, <3>4
      <4>4. s[m - 1] \in Int /\ c * lo <= s[m - 1] /\ s[m - 1] <= c * hi
        BY <3>2
      <4> HIDE DEF c
      <4>5. (c + 1) * lo = c * lo + lo /\ (c + 1) * hi = c * hi + hi
        BY <3>3
      <4>6. c * lo \in Int /\ c * hi \in Int
        BY <3>3
      <4>7. s[m] \in Int /\ (c + 1) * lo <= s[m] /\ s[m] <= (c + 1) * hi
        BY <4>3, <4>4, <4>5, <4>6
      <4>8. Bounded(m)
        BY <4>2, <4>7
      <4> QED BY <2>2, <4>8
    <3>5. CASE m \notin of
      <4>1. upTo(m) = upTo(m - 1)
        <5> HIDE DEF T, Bounded
        <5>1. \A i \in of : i <= m <=> i <= m - 1
          BY <1>a, <3>1, <3>5
        <5> QED BY <5>1
      <4>2. s[m] = s[m - 1]
        BY <1>2, <3>1, <3>2, <3>5
      <4>3. Bounded(m)
        BY <3>2, <4>1, <4>2
      <4> QED BY <2>2, <4>3
    <3> QED BY <3>4, <3>5
  <2> QED BY <2>3, <2>4
<1>4. upTo(DataSymbols) = of
  <2> HIDE DEF T, Bounded
  <2> QED BY <1>a
<1>5. Bounded(DataSymbols)
  <2>1. DataSymbols \notin T /\ DataSymbols <= DataSymbols
    BY <1>3
  <2> HIDE DEF Bounded
  <2> QED BY <2>1
<1>6. IsFiniteSet(of) /\ Cardinality(of) \in Nat
  BY <1>1, <1>4
<1> QED BY <1>4, <1>5, <1>6 DEF s

\* The rounded average of a sum within c times a range is within the range.
LEMMA RoundedBounds ==
    ASSUME NEW c \in Nat, c > 0, NEW lo \in Int, NEW hi \in Int, NEW s \in Int,
           c * lo <= s, s <= c * hi, 0 <= s
    PROVE  /\ RoundedAverage(s, c) \in Int
           /\ lo <= RoundedAverage(s, c) /\ RoundedAverage(s, c) <= hi
<1> DEFINE half == c \div 2
           q == (s + half) \div c
<1>1. half \in Nat /\ half < c
  OBVIOUS
<1>2. q \in Int /\ q * c <= s + half /\ s + half < q * c + c
  <2> HIDE DEF half
  <2> DEFINE x == s + half
  <2>1. x \in Nat
    BY <1>1
  <2> HIDE DEF x
  <2>2. x \div c \in Int /\ (x \div c) * c <= x /\ x < (x \div c) * c + c
    BY <2>1
  <2> QED BY <2>2 DEF x
<1> HIDE DEF half, q
<1>3. lo <= q
  <2>1. SUFFICES ASSUME q + 1 <= lo
                 PROVE  FALSE
    BY <1>2
  <2>2. q * c + c <= c * lo
    <3>1. c * (lo - (q + 1)) >= 0
      BY <1>2, <2>1
    <3>2. c * (lo - (q + 1)) = c * lo - (q * c + c)
      BY <1>2
    <3>3. c * lo \in Int /\ q * c \in Int
      BY <1>2
    <3> QED BY <3>1, <3>2, <3>3
  <2> QED BY <1>1, <1>2, <2>2
<1>4. q <= hi
  <2>1. SUFFICES ASSUME q >= hi + 1
                 PROVE  FALSE
    BY <1>2
  <2>2. c * hi + c <= q * c
    <3>1. c * (q - (hi + 1)) >= 0
      BY <1>2, <2>1
    <3>2. c * (q - (hi + 1)) = q * c - (c * hi + c)
      BY <1>2
    <3>3. c * hi \in Int /\ q * c \in Int
      BY <1>2
    <3> QED BY <3>1, <3>2, <3>3
  <2>3. c * hi \in Int /\ q * c \in Int
    BY <1>2
  <2> QED BY <1>1, <1>2, <2>2, <2>3
<1>5. RoundedAverage(s, c) = q
  BY DEF RoundedAverage, q, half
<1> QED BY <1>2, <1>3, <1>4, <1>5

\* The average of what lies in a range lies there; of nothing it is 0.
LEMMA AverageBounds ==
    ASSUME NEW value, NEW of, of \subseteq 1..DataSymbols, DataSymbols \in Nat,
           NEW lo \in Nat, NEW hi \in Int,
           \A i \in of : value[i] \in Int /\ lo <= value[i] /\ value[i] <= hi
    PROVE  /\ IsFiniteSet(of) /\ Cardinality(of) \in Nat
           /\ of = {} => Average(value, of) = 0
           /\ of # {} => /\ Average(value, of) \in Int
                         /\ lo <= Average(value, of) /\ Average(value, of) <= hi
<1> DEFINE s == RunningSum(value, of)[DataSymbols]
           c == Cardinality(of)
<1>1. /\ IsFiniteSet(of) /\ c \in Nat /\ s \in Int
      /\ c * lo <= s /\ s <= c * hi
  <2>1. lo \in Int
    OBVIOUS
  <2> QED BY <2>1, SumBounds, Zenon
<1>2. of = {} => c = 0
  BY FS_EmptySet
<1>3. of # {} => c # 0
  BY <1>1, FS_EmptySet
<1>4. Average(value, of) = RoundedAverage(s, c)
  BY DEF Average
<1> HIDE DEF s, c
<1>5. of = {} => Average(value, of) = 0
  BY <1>2, <1>4 DEF RoundedAverage
<1>6. ASSUME of # {}
      PROVE  /\ Average(value, of) \in Int
             /\ lo <= Average(value, of) /\ Average(value, of) <= hi
  <2>1. c > 0 /\ lo \in Int
    BY <1>1, <1>3, <1>6
  <2>2. c * lo \in Nat
    BY <1>1
  <2>3. 0 <= s
    BY <1>1, <2>2
  <2>4. /\ RoundedAverage(s, c) \in Int
        /\ lo <= RoundedAverage(s, c) /\ RoundedAverage(s, c) <= hi
    BY <1>1, <2>1, <2>3, RoundedBounds, Zenon
  <2> QED BY <1>4, <2>4
<1> QED BY <1>1, <1>5, <1>6 DEF c

-----------------------------------------------------------------------------
(* The frame on the wire.                                                  *)

\* The first n bits as they are sent.
Sent(n) == [i \in 1..n |-> BitSymbol(timing, bits[i])]
Frame == Sent(DataSymbols) \o <<ResetSymbol(timing)>>

FrameGiven == ValidateWs2812Timing(timing) = "OK" /\ bits \in [1..DataSymbols -> {0, 1}]

\* The encoder has sent what it counts, and waits for room for the reset exactly when
\* it has sent all bits.
EncodeInv ==
    /\ encoded \in 0..DataSymbols
    /\ stage \in {"encode", "sent", "captured"}
    /\ stage = "encode" => /\ wire = Sent(encoded)
                           /\ state = IF encoded = DataSymbols THEN 1 ELSE 0
    /\ stage # "encode" => wire = Frame

CaptureInv ==
    stage = "captured" =>
        /\ error \in [1..DataSymbols -> Errors]
        /\ capture = [i \in 1..DataSymbols |-> Received(i, error)]

FrameInv == FrameGiven /\ EncodeInv /\ CaptureInv

Symbols == {BitSymbol(timing, 0), BitSymbol(timing, 1), ResetSymbol(timing)}

\* A function on an initial range is a sequence of that length.
LEMMA FunctionIsSeq ==
    ASSUME NEW S, NEW n \in Nat, NEW f \in [1..n -> S]
    PROVE  f \in Seq(S) /\ Len(f) = n /\ DOMAIN f = 1..n
<1>1. f \in Seq(S)
  BY SeqDef
<1>2. Len(f) \in Nat /\ DOMAIN f = 1..Len(f)
  BY <1>1, LenProperties
<1> QED BY <1>1, <1>2

LEMMA SentSeq ==
    ASSUME FrameGiven, NEW n \in Nat, n <= DataSymbols, DataSymbols \in Nat
    PROVE  /\ Sent(n) \in Seq(Symbols) /\ Len(Sent(n)) = n
           /\ \A i \in 1..n : Sent(n)[i] = BitSymbol(timing, bits[i])
<1>1. \A i \in 1..n : bits[i] \in {0, 1}
  BY DEF FrameGiven
<1>2. Sent(n) \in [1..n -> Symbols]
  BY <1>1 DEF Sent, Symbols
<1> QED BY <1>2, FunctionIsSeq DEF Sent

\* The next bits continue the frame.
LEMMA SentGrows ==
    ASSUME FrameGiven, DataSymbols \in Nat, encoded \in 0..DataSymbols,
           NEW n \in 0..(DataSymbols - encoded)
    PROVE  Sent(encoded) \o DataChunk(n) = Sent(encoded + n)
<1> DEFINE a == Sent(encoded)
           b == DataChunk(n)
           c == Sent(encoded + n)
<1>1. /\ encoded \in Nat /\ n \in Nat /\ encoded + n \in Nat
      /\ encoded <= DataSymbols /\ encoded + n <= DataSymbols
  OBVIOUS
<1>2. a \in Seq(Symbols) /\ Len(a) = encoded /\ \A i \in 1..encoded : a[i] = BitSymbol(timing, bits[i])
  BY <1>1, SentSeq
<1>3. /\ c \in Seq(Symbols) /\ Len(c) = encoded + n
      /\ \A i \in 1..(encoded + n) : c[i] = BitSymbol(timing, bits[i])
  BY <1>1, SentSeq
<1>4. b \in Seq(Symbols) /\ Len(b) = n /\ \A i \in 1..n : b[i] = BitSymbol(timing, bits[encoded + i])
  <2>1. \A i \in 1..n : encoded + i \in 1..DataSymbols
    BY <1>1
  <2>2. \A i \in 1..n : bits[encoded + i] \in {0, 1}
    BY <2>1 DEF FrameGiven
  <2>3. b \in [1..n -> Symbols]
    BY <2>2 DEF DataChunk, Symbols
  <2> QED BY <1>1, <2>3, FunctionIsSeq DEF DataChunk
<1> HIDE DEF a, b, c
<1>5. /\ a \o b \in Seq(Symbols) /\ Len(a \o b) = encoded + n
      /\ \A i \in 1..(encoded + n) : (a \o b)[i] = IF i <= encoded THEN a[i] ELSE b[i - encoded]
  BY <1>1, <1>2, <1>4, ConcatProperties
<1>6. ASSUME NEW i \in 1..(encoded + n)
      PROVE  (a \o b)[i] = c[i]
  <2>1. CASE i <= encoded
    BY <1>1, <1>2, <1>3, <1>5, <2>1
  <2>2. CASE ~(i <= encoded)
    <3>1. i - encoded \in 1..n /\ encoded + (i - encoded) = i
      BY <1>1, <2>2
    <3> QED BY <1>3, <1>4, <1>5, <2>2, <3>1
  <2> QED BY <2>1, <2>2
<1>7. a \o b = c
  BY <1>3, <1>5, <1>6, SeqEqual
<1> QED BY <1>7 DEF a, b, c

LEMMA FrameInvInductive ==
    /\ Init => FrameInv
    /\ FrameInv /\ [Next]_vars => FrameInv'
<1>1. DataSymbols \in Nat /\ DataSymbols > 0
  BY LoopbackAssumption DEF LoopbackAssumption
<1>2. ASSUME Init
      PROVE  FrameInv
  <2>1. FrameGiven
    BY <1>2 DEF Init, FrameGiven
  <2>2. Sent(0) = <<>>
    BY DEF Sent
  <2>3. EncodeInv /\ CaptureInv
    BY <1>1, <1>2, <2>2 DEF Init, EncodeInv, CaptureInv
  <2> QED BY <2>1, <2>3 DEF FrameInv
<1>3. ASSUME FrameInv, NEW room \in 1..MaxRoom, EncodeWs2812Frame(room)
      PROVE  FrameInv'
  <2>1. /\ FrameGiven /\ encoded \in 0..DataSymbols /\ stage = "encode"
        /\ wire = Sent(encoded) /\ state = IF encoded = DataSymbols THEN 1 ELSE 0
        /\ UNCHANGED <<timing, bits, error, capture>>
        /\ room \in Nat
    BY <1>3, LoopbackAssumption DEF FrameInv, EncodeInv, EncodeWs2812Frame, LoopbackAssumption
  <2>2. FrameGiven' /\ \A n \in 0..DataSymbols : Sent(n)' = Sent(n)
    BY <2>1 DEF FrameGiven, Sent
  <2>3. Frame' = Frame
    BY <1>1, <2>1 DEF Frame, Sent
  <2>4. CASE state = 0 /\ encoded + room <= DataSymbols
    <3>1. /\ EncodeData(room) /\ state' = (IF encoded' = DataSymbols THEN 1 ELSE 0)
          /\ stage' = stage
      BY <1>1, <1>3, <2>1, <2>4 DEF EncodeWs2812Frame
    <3>2. wire' = wire \o DataChunk(room) /\ encoded' = encoded + room
      <4>1. (IF room < DataSymbols - encoded THEN room ELSE DataSymbols - encoded) = room
        BY <1>1, <2>1, <2>4
      <4> QED BY <3>1, <4>1, Zenon DEF EncodeData
    <3>3. encoded + room \in 0..DataSymbols /\ room \in 0..(DataSymbols - encoded)
      BY <1>1, <2>1, <2>4
    <3>4. wire' = Sent(encoded + room)
      BY <1>1, <2>1, <3>2, <3>3, SentGrows
    <3>5. EncodeInv'
      BY <2>1, <2>2, <3>1, <3>2, <3>3, <3>4 DEF EncodeInv
    <3>6. CaptureInv'
      BY <2>1, <3>1 DEF CaptureInv
    <3> QED BY <2>2, <3>5, <3>6 DEF FrameInv
  <2>5. CASE state = 0 /\ encoded + room > DataSymbols
    <3>1. /\ wire' = wire \o DataChunk(DataSymbols - encoded) \o <<ResetSymbol(timing)>>
          /\ encoded' = DataSymbols /\ stage' = "sent"
      <4>1. ~(encoded + room <= DataSymbols) /\ state # 1
        BY <1>1, <2>1, <2>5
      <4> QED BY <1>3, <4>1, Zenon DEF EncodeWs2812Frame
    <3>2. DataSymbols - encoded \in 0..(DataSymbols - encoded) /\ encoded + (DataSymbols - encoded) = DataSymbols
      BY <1>1, <2>1
    <3>3. wire \o DataChunk(DataSymbols - encoded) = Sent(DataSymbols)
      BY <1>1, <2>1, <3>2, SentGrows
    <3>4. wire' = Frame
      BY <3>1, <3>3 DEF Frame
    <3>5. EncodeInv' /\ CaptureInv'
      BY <1>1, <2>3, <3>1, <3>4 DEF EncodeInv, CaptureInv
    <3> QED BY <2>2, <3>5 DEF FrameInv
  <2>6. CASE state = 1
    <3>1. /\ wire' = Append(wire, ResetSymbol(timing)) /\ stage' = "sent"
          /\ encoded' = encoded /\ encoded = DataSymbols
      BY <1>3, <2>1, <2>6 DEF EncodeWs2812Frame
    <3>2. wire \in Seq(Symbols) /\ ResetSymbol(timing) \in Symbols
      BY <1>1, <2>1, SentSeq DEF Symbols
    <3>3. wire' = Frame
      BY <2>1, <3>1, <3>2, AppendIsConcat DEF Frame
    <3>4. EncodeInv' /\ CaptureInv'
      BY <1>1, <2>1, <2>3, <3>1, <3>3 DEF EncodeInv, CaptureInv
    <3> QED BY <2>2, <3>4 DEF FrameInv
  <2> QED BY <1>1, <1>3, <2>1, <2>4, <2>5, <2>6
<1>4. ASSUME FrameInv, NEW e \in [1..DataSymbols -> Errors], CaptureFrame(e)
      PROVE  FrameInv'
  <2>1. /\ UNCHANGED <<timing, bits, state, encoded, wire>>
        /\ stage = "sent" /\ stage' = "captured" /\ error' = e
        /\ capture' = [i \in 1..DataSymbols |-> Received(i, e)]
    BY <1>4 DEF CaptureFrame
  <2>2. FrameGiven'
    BY <1>4, <2>1 DEF FrameInv, FrameGiven
  <2>3. EncodeInv'
    BY <1>4, <2>1 DEF FrameInv, EncodeInv, Frame, Sent
  <2>4. CaptureInv'
    BY <2>1 DEF CaptureInv, Received
  <2> QED BY <2>2, <2>3, <2>4 DEF FrameInv
<1>5. ASSUME FrameInv, UNCHANGED vars
      PROVE  FrameInv'
  BY <1>5 DEF vars, FrameInv, FrameGiven, EncodeInv, CaptureInv, Frame, Sent, Received
<1> QED BY <1>2, <1>3, <1>4, <1>5 DEF Next

\* What goes out for each bit, and for the reset.
LEMMA FrameSymbols ==
    ASSUME FrameGiven, wire = Frame
    PROVE  /\ DOMAIN wire = 1..(DataSymbols + 1)
           /\ \A i \in 1..DataSymbols : wire[i] = BitSymbol(timing, bits[i])
           /\ wire[DataSymbols + 1] = ResetSymbol(timing)
<1>1. DataSymbols \in Nat /\ DataSymbols > 0
  BY LoopbackAssumption DEF LoopbackAssumption
<1> DEFINE a == Sent(DataSymbols)
           r == ResetSymbol(timing)
<1>2. /\ a \in Seq(Symbols) /\ Len(a) = DataSymbols
      /\ \A i \in 1..DataSymbols : a[i] = BitSymbol(timing, bits[i])
  BY <1>1, SentSeq
<1>3. r \in Symbols
  BY DEF Symbols
<1> HIDE DEF a, r
<1>4. wire = Append(a, r)
  BY <1>2, <1>3, AppendIsConcat DEF Frame, a, r
<1>5. /\ Append(a, r) \in Seq(Symbols) /\ Len(Append(a, r)) = DataSymbols + 1
      /\ \A i \in 1..DataSymbols : Append(a, r)[i] = a[i]
      /\ Append(a, r)[DataSymbols + 1] = r
  BY <1>1, <1>2, <1>3, AppendProperties
<1>6. DOMAIN wire = 1..(DataSymbols + 1)
  BY <1>4, <1>5, LenProperties
<1>7. \A i \in 1..DataSymbols : wire[i] = BitSymbol(timing, bits[i])
  BY <1>2, <1>4, <1>5
<1> QED BY <1>4, <1>5, <1>6, <1>7 DEF r

\* EncodeWs2812Frame(): for every accepted timing, frame and room of the driver's
\* calls, what goes out is each bit once, in order, to the tick, and one reset.
THEOREM WireSafety == Spec => []FrameOnWire
<1>1. ASSUME FrameInv
      PROVE  FrameOnWire
  <2>1. SUFFICES ASSUME stage = "sent"
                 PROVE  FrameOnWire
    BY DEF FrameOnWire
  <2>2. FrameGiven /\ wire = Frame /\ DataSymbols \in Nat
    BY <1>1, <2>1, LoopbackAssumption DEF FrameInv, EncodeInv, LoopbackAssumption
  <2>3. wire = [i \in 1..DataSymbols |-> BitSymbol(timing, bits[i])] \o <<ResetSymbol(timing)>>
    BY <2>2 DEF Frame, Sent
  <2>4. ASSUME NEW i \in 1..DataSymbols
        PROVE  /\ High(wire[i]) = timing.high[bits[i]] /\ Period(wire[i]) = timing.period[bits[i]]
               /\ wire[i].high <= MaxDuration /\ wire[i].low <= MaxDuration
    <3>1. wire[i] = BitSymbol(timing, bits[i]) /\ bits[i] \in {0, 1}
      BY <2>2, FrameSymbols DEF FrameGiven
    <3> QED BY <2>2, <3>1, BitExact DEF FrameGiven
  <2>5. ASSUME NEW i \in DOMAIN wire
        PROVE  wire[i].high <= MaxDuration /\ wire[i].low <= MaxDuration
    <3>1. i \in 1..DataSymbols \/ wire[i] = ResetSymbol(timing)
      <4>1. i \in 1..(DataSymbols + 1) /\ wire[DataSymbols + 1] = ResetSymbol(timing)
        BY <2>2, FrameSymbols
      <4> QED BY <2>2, <4>1
    <3>2. CASE i \in 1..DataSymbols
      BY <2>4, <3>2
    <3>3. CASE wire[i] = ResetSymbol(timing)
      <4>1. /\ ResetSymbol(timing).high = 0 /\ ResetSymbol(timing).low \in 0..MaxDuration
        BY <2>2, ResetExact DEF FrameGiven
      <4> QED BY <3>3, <4>1, DurationBound
    <3> QED BY <3>1, <3>2, <3>3
  <2> QED BY <2>3, <2>4, <2>5, Zenon DEF FrameOnWire
<1> QED BY <1>1, FrameInvInductive, PTL DEF Spec

-----------------------------------------------------------------------------
(* What is captured of it.                                                 *)

\* The worst error of a pulse is known, and at most a tick.
LEMMA WorstBound ==
    ASSUME error \in [1..DataSymbols -> Errors]
    PROVE  /\ Worst \in {0, 1} /\ Jitter = 25 * Worst
           /\ \A i \in 1..DataSymbols : error[i] # Noise =>
                /\ error[i] \in Int /\ -Worst <= error[i] /\ error[i] <= Worst
<1> DEFINE D == {Distance(error[i], 0) : i \in {j \in 1..DataSymbols : error[j] # Noise}}
           T == {0} \cup D
<1>1. ASSUME NEW i \in 1..DataSymbols, error[i] # Noise
      PROVE  error[i] \in {-1, 0, 1}
  <2>1. error[i] \in (-MaxJitter)..MaxJitter /\ MaxJitter \in 0..1
    BY <1>1, LoopbackAssumption DEF LoopbackAssumption, Errors
  <2> QED BY <2>1
<1>2. ASSUME NEW i \in 1..DataSymbols, error[i] # Noise
      PROVE  Distance(error[i], 0) \in {0, 1} /\ Distance(error[i], 0) \in T
  <2>1. Distance(error[i], 0) \in {0, 1}
    BY <1>1, <1>2 DEF Distance
  <2> QED BY <1>2, <2>1
<1>3. \A k \in T : k \in {0, 1}
  BY <1>2
<1>4. T \subseteq Nat /\ T # {} /\ \A k \in T : k <= 1
  <2>1. 0 \in T
    OBVIOUS
  <2> HIDE DEF T
  <2> QED BY <1>3, <2>1
<1>5. Max(T) \in T /\ \A k \in T : k <= Max(T)
  <2> HIDE DEF T
  <2> QED BY <1>4, MaxGreatest
<1>6. Worst = Max(T)
  BY DEF Worst
<1> HIDE DEF T
<1>7. Worst \in {0, 1}
  BY <1>3, <1>5, <1>6
<1>8. ASSUME NEW i \in 1..DataSymbols, error[i] # Noise
      PROVE  error[i] \in Int /\ -Worst <= error[i] /\ error[i] <= Worst
  <2>1. Distance(error[i], 0) <= Worst
    BY <1>2, <1>5, <1>6, <1>8
  <2>2. error[i] \in {-1, 0, 1}
    BY <1>1, <1>8
  <2> QED BY <1>7, <2>1, <2>2 DEF Distance
<1> QED BY <1>7, <1>8 DEF Jitter, Ws2812TicksToNs, TickNs

LEMMA NearBounds ==
    ASSUME Worst \in {0, 1}, Jitter = 25 * Worst, NEW measured \in Int, NEW sent \in Int,
           sent - Jitter <= measured, measured <= sent + Jitter
    PROVE  Near(measured, sent)
BY DEF Near, Jitter, Distance

\* A pulse is as long as its bit, up to the jitter; noise is no pulse.
LEMMA CapturedSymbol ==
    ASSUME FrameInv, stage = "captured", NEW i \in 1..DataSymbols
    PROVE  /\ error[i] = Noise => capture[i].level0 = 0
           /\ error[i] # Noise => /\ capture[i].level0 = 1 /\ capture[i].level1 = 0 /\ bits[i] \in {0, 1}
                                  /\ capture[i].high \in Int /\ capture[i].high > 0
                                  /\ timing.high[bits[i]] - Jitter <= High(capture[i])
                                  /\ High(capture[i]) <= timing.high[bits[i]] + Jitter
           /\ High(capture[i]) \in Nat /\ High(capture[i]) <= 1250
           /\ i # DataSymbols =>
                /\ capture[i].low \in Int /\ capture[i].low > 0
                /\ Ws2812TicksToNs(capture[i].low) = timing.period[bits[i]] - timing.high[bits[i]]
                /\ error[i] # Noise =>
                    /\ Period(capture[i]) \in Int
                    /\ timing.period[bits[i]] - Jitter <= Period(capture[i])
                    /\ Period(capture[i]) <= timing.period[bits[i]] + Jitter
<1> DEFINE w == BitSymbol(timing, bits[i])
           b == bits[i]
           e == error[i]
           s == capture[i]
<1>1. /\ FrameGiven /\ wire = Frame /\ error \in [1..DataSymbols -> Errors]
      /\ s = Received(i, error)
  BY DEF FrameInv, EncodeInv, CaptureInv
<1>2. wire[i] = w /\ b \in {0, 1}
  BY <1>1, FrameSymbols DEF FrameGiven
<1>3. /\ w.high \in Int /\ w.low \in Int /\ 4 <= w.high /\ 4 <= w.low
      /\ High(w) = timing.high[b] /\ Period(w) = timing.period[b]
      /\ Ws2812TicksToNs(w.low) = timing.period[b] - timing.high[b]
  BY <1>1, <1>2, BitExact DEF FrameGiven
<1>4. timing.high[b] \in Int /\ timing.period[b] \in Int /\ timing.high[b] <= 1200
  BY <1>1, <1>2, Accepted DEF FrameGiven
<1>5. /\ s.level0 = IF e = Noise THEN 0 ELSE 1
      /\ s.level1 = IF e = Noise THEN 1 ELSE 0
      /\ s.high = IF e = Noise THEN w.high ELSE w.high + e
      /\ s.low = IF i = DataSymbols THEN 0 ELSE w.low
  BY <1>1, <1>2 DEF Received
<1>6. /\ Worst \in {0, 1} /\ Jitter = 25 * Worst
      /\ e # Noise => e \in Int /\ -Worst <= e /\ e <= Worst
  BY <1>1, WorstBound
<1> DEFINE h == timing.high[b]
           p == timing.period[b]
<1>7. w.high * 25 = h /\ (w.high + w.low) * 25 = p /\ w.low * 25 = p - h
  BY <1>3 DEF High, Period, Ws2812TicksToNs, TickNs
<1>8. High(s) = s.high * 25 /\ Period(s) = (s.high + s.low) * 25 /\ Ws2812TicksToNs(s.low) = s.low * 25
  BY DEF High, Period, Ws2812TicksToNs, TickNs
<1> HIDE DEF w, b, e, s, h, p
<1>9. CASE e = Noise
  <2>1. High(s) = h /\ High(s) \in Nat /\ High(s) <= 1250
    BY <1>3, <1>4, <1>5, <1>7, <1>8, <1>9 DEF h
  <2>2. i # DataSymbols => s.low \in Int /\ s.low > 0 /\ Ws2812TicksToNs(s.low) = p - h
    BY <1>3, <1>5, <1>7, <1>8
  <2> QED BY <1>5, <1>9, <2>1, <2>2 DEF s, e, h, p, b
<1>10. CASE e # Noise
  <2>1. e \in Int /\ -Worst <= e /\ e <= Worst
    BY <1>6, <1>10
  <2>2. s.high = w.high + e /\ s.high \in Int /\ s.high > 0
    BY <1>3, <1>5, <1>6, <1>10, <2>1
  <2>3. h \in Int /\ p \in Int /\ h <= 1200
    BY <1>4 DEF h, p
  <2>4. High(s) = h + 25 * e
    BY <1>3, <1>7, <1>8, <2>1, <2>2
  <2>5. /\ h - Jitter <= High(s) /\ High(s) <= h + Jitter /\ High(s) \in Nat /\ High(s) <= 1250
    BY <1>6, <1>8, <2>1, <2>2, <2>3, <2>4
  <2>6. ASSUME i # DataSymbols
        PROVE  /\ s.low \in Int /\ s.low > 0 /\ Ws2812TicksToNs(s.low) = p - h
               /\ Period(s) \in Int /\ p - Jitter <= Period(s) /\ Period(s) <= p + Jitter
    <3>1. s.low = w.low
      BY <1>5, <2>6
    <3>2. Period(s) = p + 25 * e
      BY <1>3, <1>7, <1>8, <2>1, <2>2, <3>1
    <3> QED BY <1>3, <1>6, <1>7, <1>8, <2>1, <2>3, <3>1, <3>2
  <2>7. s.level0 = 1 /\ s.level1 = 0 /\ b \in {0, 1}
    BY <1>2, <1>5, <1>10
  <2> QED BY <1>10, <2>2, <2>5, <2>6, <2>7 DEF s, e, h, p, b
<1> QED BY <1>9, <1>10

-----------------------------------------------------------------------------
(* The statistics of a Send.                                               *)

Separated == MatchAvailable(timing) => 2 * Jitter < Distance(timing.high[0], timing.high[1])

\* Every pulse is taken for the bit that was sent, and noise for none.
LEMMA SendDecoded ==
    ASSUME FrameInv, stage = "captured", Separated, NEW i \in 1..DataSymbols
    PROVE  /\ MatchAvailable(timing) =>
                (DecodeWs2812Symbol(capture[i], timing) = bits[i] <=> error[i] # Noise)
           /\ \A b \in {0, 1} : StatsBit(capture[i], timing, bits[i]) = b <=> i \in Pulses(b)
<1> DEFINE h0 == timing.high[0]
           h1 == timing.high[1]
           m == High(capture[i])
           d == DecodeWs2812Symbol(capture[i], timing)
<1>1. /\ FrameGiven /\ bits[i] \in {0, 1} /\ h0 \in Int /\ h1 \in Int
      /\ error \in [1..DataSymbols -> Errors]
  BY Accepted DEF FrameInv, FrameGiven, CaptureInv
<1>2. Worst \in {0, 1} /\ Jitter = 25 * Worst
  BY <1>1, WorstBound
<1>3. CASE error[i] = Noise
  <2>1. capture[i].level0 = 0
    BY <1>3, CapturedSymbol
  <2>2. d = Invalid /\ d \notin {0, 1}
    BY <2>1 DEF DecodeWs2812Symbol, Invalid
  <2>3. StatsBit(capture[i], timing, bits[i]) = d
    BY <2>1 DEF StatsBit
  <2> QED BY <1>1, <1>3, <2>2, <2>3 DEF Pulses
<1>4. CASE error[i] # Noise
  <2>1. /\ capture[i].level0 = 1 /\ m \in Int
        /\ timing.high[bits[i]] - Jitter <= m /\ m <= timing.high[bits[i]] + Jitter
    BY <1>4, CapturedSymbol
  <2>2. d = IF Distance(m, h0) <= Distance(m, h1) THEN 0 ELSE 1
    BY <2>1 DEF DecodeWs2812Symbol
  <2>3. ASSUME MatchAvailable(timing)
        PROVE  d = bits[i]
    <3>1. 2 * Jitter < Distance(h0, h1)
      BY <2>3 DEF Separated
    <3> HIDE DEF h0, h1, m, d
    <3>2. CASE bits[i] = 0
      <4>1. h0 - Jitter <= m /\ m <= h0 + Jitter
        BY <2>1, <3>2 DEF h0
      <4>2. Distance(m, h0) <= Distance(m, h1)
        BY <1>1, <1>2, <2>1, <3>1, <4>1 DEF Distance
      <4> QED BY <2>2, <3>2, <4>2
    <3>3. CASE bits[i] = 1
      <4>1. h1 - Jitter <= m /\ m <= h1 + Jitter
        BY <2>1, <3>3 DEF h1
      <4>2. ~(Distance(m, h0) <= Distance(m, h1))
        BY <1>1, <1>2, <2>1, <3>1, <4>1 DEF Distance
      <4> QED BY <2>2, <3>3, <4>2
    <3> QED BY <1>1, <3>2, <3>3
  <2>4. StatsBit(capture[i], timing, bits[i]) = bits[i]
    BY <2>1, <2>3 DEF StatsBit
  <2> QED BY <1>1, <1>4, <2>3, <2>4 DEF Pulses
<1> QED BY <1>3, <1>4

\* The statistics of a bit are those of its pulses.
LEMMA SendStats ==
    ASSUME FrameInv, stage = "captured", Separated, NEW b \in {0, 1}
    PROVE  LET stats == PulseStats(capture, timing, bits, b)
           IN IF Pulses(b) = {} THEN stats.average = 0
              ELSE /\ Near(stats.least, timing.high[b]) /\ Near(stats.most, timing.high[b])
                   /\ stats.average \in stats.least..stats.most
                   /\ stats.firstHigh # 0 =>
                       stats.firstLow = timing.period[b] - timing.high[b]
<1> DEFINE of == {i \in 1..DataSymbols : StatsBit(capture[i], timing, bits[i]) = b}
           highs == {High(capture[i]) : i \in of}
           first == IF of \ {DataSymbols} = {} THEN 0 ELSE Min(of \ {DataSymbols})
           stats == PulseStats(capture, timing, bits, b)
           h == timing.high[b]
           average == Average(Highs(capture), of)
<1>1. /\ FrameGiven /\ h \in Int /\ DataSymbols \in Nat
      /\ error \in [1..DataSymbols -> Errors]
  BY Accepted, LoopbackAssumption DEF FrameInv, FrameGiven, CaptureInv, LoopbackAssumption
<1>2. Worst \in {0, 1} /\ Jitter = 25 * Worst
  BY <1>1, WorstBound
<1>3. of = Pulses(b)
  <2>1. Pulses(b) \subseteq 1..DataSymbols
    BY DEF Pulses
  <2> QED BY <2>1, SendDecoded
<1>4. ASSUME NEW i \in of
      PROVE  /\ i \in 1..DataSymbols /\ i \in Nat /\ bits[i] = b /\ error[i] # Noise
             /\ High(capture[i]) \in Nat /\ High(capture[i]) <= 1250
             /\ h - Jitter <= High(capture[i]) /\ High(capture[i]) <= h + Jitter
  <2>1. i \in 1..DataSymbols /\ bits[i] = b /\ error[i] # Noise
    BY <1>3, <1>4 DEF Pulses
  <2> QED BY <2>1, CapturedSymbol
<1>5. stats = [firstHigh |-> IF first = 0 THEN 0 ELSE High(capture[first]),
               firstLow  |-> IF first = 0 THEN 0 ELSE Ws2812TicksToNs(capture[first].low),
               least     |-> IF of = {} THEN 0 ELSE Min(highs),
               most      |-> IF of = {} THEN 0 ELSE Max(highs),
               average   |-> average]
  BY DEF PulseStats
<1>6. CASE Pulses(b) = {}
  <2>1. of = {} /\ of \subseteq 1..DataSymbols /\ 0 \in Nat /\ 0 \in Int
    BY <1>3, <1>6
  <2> HIDE DEF of
  <2>2. average = 0
    BY <1>1, <2>1, AverageBounds
  <2> QED BY <1>5, <1>6, <2>2
<1>7. CASE Pulses(b) # {}
  <2>1. of # {} /\ of \subseteq 1..DataSymbols
    BY <1>3, <1>7
  <2> HIDE DEF of
  <2>2. highs \subseteq Nat /\ highs # {} /\ \E n \in Nat : \A k \in highs : k <= n
    <3>1. \A k \in highs : k \in Nat /\ k <= 1250
      BY <1>4
    <3>2. highs # {}
      BY <2>1
    <3>3. 1250 \in Nat
      OBVIOUS
    <3> HIDE DEF highs
    <3> QED BY <3>1, <3>2, <3>3
  <2>3. Min(highs) \in highs /\ \A k \in highs : Min(highs) <= k
    <3> HIDE DEF highs
    <3> QED BY <2>2, MinLeast
  <2>4. Max(highs) \in highs /\ \A k \in highs : k <= Max(highs)
    <3>1. PICK n \in Nat : \A k \in highs : k <= n
      BY <2>2
    <3> HIDE DEF highs
    <3> QED BY <2>2, <3>1, MaxGreatest
  <2>5. \A k \in highs : k \in Nat /\ h - Jitter <= k /\ k <= h + Jitter
    BY <1>4
  <2>6. Min(highs) \in Nat /\ Max(highs) \in Nat
    BY <2>3, <2>4, <2>5
  <2>7. Near(Min(highs), h) /\ Near(Max(highs), h)
    <3> HIDE DEF highs, h
    <3> QED BY <1>1, <1>2, <2>3, <2>4, <2>5, <2>6, NearBounds
  <2>8. average \in Min(highs)..Max(highs)
    <3>1. ASSUME NEW i \in of
          PROVE  /\ Highs(capture)[i] \in Int
                 /\ Min(highs) <= Highs(capture)[i] /\ Highs(capture)[i] <= Max(highs)
      <4>1. Highs(capture)[i] = High(capture[i]) /\ High(capture[i]) \in highs
        BY <1>4 DEF Highs
      <4> QED BY <2>3, <2>4, <2>5, <4>1
    <3>2. /\ average \in Int /\ Min(highs) <= average /\ average <= Max(highs)
      <4> HIDE DEF highs
      <4>1. Max(highs) \in Int
        BY <2>6
      <4> QED BY <1>1, <2>1, <2>6, <3>1, <4>1, AverageBounds
    <3> QED BY <2>6, <3>2
  <2>9. ASSUME stats.firstHigh # 0
        PROVE  stats.firstLow = timing.period[b] - timing.high[b]
    <3>1. first # 0 /\ of \ {DataSymbols} # {}
      BY <1>5, <2>9
    <3>2. of \ {DataSymbols} \subseteq Nat
      BY <1>4
    <3>3. first \in of \ {DataSymbols}
      BY <3>1, <3>2, MinLeast
    <3>4. Ws2812TicksToNs(capture[first].low) = timing.period[bits[first]] - timing.high[bits[first]]
      BY <1>4, <3>3, CapturedSymbol
    <3>5. bits[first] = b
      BY <1>4, <3>3
    <3>6. stats.firstLow = Ws2812TicksToNs(capture[first].low)
      BY <1>5, <3>1
    <3> QED BY <3>4, <3>5, <3>6
  <2>10. stats.least = Min(highs) /\ stats.most = Max(highs) /\ stats.average = average
    <3> HIDE DEF stats, highs, average, first
    <3> QED BY <1>5, <2>1
  <2>11. /\ Near(stats.least, h) /\ Near(stats.most, h)
         /\ stats.average \in stats.least..stats.most
    <3> HIDE DEF stats, highs, average, h
    <3> QED BY <2>7, <2>8, <2>10
  <2>12. IF Pulses(b) = {} THEN stats.average = 0
         ELSE /\ Near(stats.least, h) /\ Near(stats.most, h)
              /\ stats.average \in stats.least..stats.most
              /\ stats.firstHigh # 0 =>
                  stats.firstLow = timing.period[b] - timing.high[b]
    <3> HIDE DEF stats, highs, average, h
    <3> QED BY <1>7, <2>9, <2>11
  <2> QED BY <2>12, Zenon
<1> QED BY <1>6, <1>7

\* SPEC-006 FR-27, FR-28: while the jitter is less than half of what tells the bits
\* apart, every pulse counts for the bit that was sent, and the statistics are those of
\* the commanded timing.
THEOREM SendSafety == Spec => []SendMeasured
<1>1. ASSUME FrameInv
      PROVE  SendMeasured
  <2>1. SUFFICES ASSUME stage = "captured",
                        MatchAvailable(timing) => 2 * Jitter < Distance(timing.high[0], timing.high[1])
                 PROVE  /\ MatchCount(capture, timing, bits) =
                            IF MatchAvailable(timing) THEN Cardinality(Pulses(0) \cup Pulses(1)) ELSE 0
                        /\ \A b \in {0, 1} :
                            LET stats == PulseStats(capture, timing, bits, b)
                            IN IF Pulses(b) = {} THEN stats.average = 0
                               ELSE /\ Near(stats.least, timing.high[b]) /\ Near(stats.most, timing.high[b])
                                    /\ stats.average \in stats.least..stats.most
                                    /\ stats.firstHigh # 0 =>
                                        stats.firstLow = timing.period[b] - timing.high[b]
    BY DEF SendMeasured
  <2>2. Separated
    BY <2>1 DEF Separated
  <2>3. ASSUME MatchAvailable(timing)
        PROVE  {i \in 1..DataSymbols : DecodeWs2812Symbol(capture[i], timing) = bits[i]} =
                    Pulses(0) \cup Pulses(1)
    <3>1. \A i \in 1..DataSymbols : bits[i] \in {0, 1}
      BY <1>1 DEF FrameInv, FrameGiven
    <3>2. \A i \in 1..DataSymbols : i \in Pulses(0) \cup Pulses(1) <=> error[i] # Noise
      BY <3>1 DEF Pulses
    <3>3. Pulses(0) \cup Pulses(1) \subseteq 1..DataSymbols
      BY DEF Pulses
    <3>4. \A i \in 1..DataSymbols : DecodeWs2812Symbol(capture[i], timing) = bits[i] <=> error[i] # Noise
      BY <1>1, <2>1, <2>2, <2>3, SendDecoded
    <3> QED BY <3>2, <3>3, <3>4
  <2>4. MatchCount(capture, timing, bits) =
            IF MatchAvailable(timing) THEN Cardinality(Pulses(0) \cup Pulses(1)) ELSE 0
    BY <2>3 DEF MatchCount
  <2> QED BY <1>1, <2>1, <2>2, <2>4, SendStats
<1> QED BY <1>1, FrameInvInductive, PTL DEF Spec

-----------------------------------------------------------------------------
(* The measurement of a Read.                                              *)

\* The bits differ by enough, and each is there to be measured.
Readable ==
    /\ timing.high[1] - timing.high[0] >= SplitMinNs + 2 * Jitter
    /\ \A b \in {0, 1} : Measured(b) # {}

\* What is usable are the pulses that have a low time.
LEMMA ReadUsable ==
    ASSUME FrameInv, stage = "captured"
    PROVE  Usable(capture, DataSymbols) = Measured(0) \cup Measured(1)
<1>1. /\ DataSymbols \in Nat /\ \A i \in 1..DataSymbols : bits[i] \in {0, 1}
  BY LoopbackAssumption DEF LoopbackAssumption, FrameInv, FrameGiven
<1>2. ASSUME NEW i \in 1..DataSymbols
      PROVE  i \in Usable(capture, DataSymbols) <=> i # DataSymbols /\ error[i] # Noise
  <2>1. i \in 1..(DataSymbols - 1) <=> i # DataSymbols
    BY <1>1
  <2>2. CASE i = DataSymbols
    BY <2>1, <2>2 DEF Usable, IsPulse
  <2>3. CASE i # DataSymbols
    <3>1. capture[i].low > 0
      BY <2>3, CapturedSymbol
    <3>2. error[i] = Noise => capture[i].level0 = 0
      BY CapturedSymbol
    <3>3. error[i] # Noise => capture[i].level0 = 1 /\ capture[i].level1 = 0 /\ capture[i].high > 0
      BY CapturedSymbol
    <3> QED BY <2>1, <2>3, <3>1, <3>2, <3>3 DEF Usable, IsPulse
  <2> QED BY <2>2, <2>3
<1>3. ASSUME NEW i \in 1..DataSymbols
      PROVE  i \in Measured(0) \cup Measured(1) <=> i # DataSymbols /\ error[i] # Noise
  BY <1>1 DEF Measured, Pulses
<1>4. Usable(capture, DataSymbols) \subseteq 1..DataSymbols
  BY <1>1 DEF Usable
<1>5. Measured(0) \cup Measured(1) \subseteq 1..DataSymbols
  BY DEF Measured, Pulses
<1> QED BY <1>2, <1>3, <1>4, <1>5

LEMMA MeasuredPulse ==
    ASSUME FrameInv, stage = "captured", NEW b \in {0, 1}, NEW i \in Measured(b)
    PROVE  /\ i \in 1..DataSymbols /\ bits[i] = b
           /\ High(capture[i]) \in Nat /\ High(capture[i]) <= 1250
           /\ timing.high[b] - Jitter <= High(capture[i])
           /\ High(capture[i]) <= timing.high[b] + Jitter
           /\ Period(capture[i]) \in Int
           /\ timing.period[b] - Jitter <= Period(capture[i])
           /\ Period(capture[i]) <= timing.period[b] + Jitter
<1>1. i \in 1..DataSymbols /\ i # DataSymbols /\ bits[i] = b /\ error[i] # Noise
  BY DEF Measured, Pulses
<1> QED BY <1>1, CapturedSymbol

\* The midpoint of the extremes separates the bits.
LEMMA ReadSplit ==
    ASSUME FrameInv, stage = "captured", Readable
    PROVE  ReadBit0(capture, Measured(0) \cup Measured(1)) = Measured(0)
<1> DEFINE usable == Measured(0) \cup Measured(1)
           highs == {High(capture[i]) : i \in usable}
           least == Min(highs)
           most == Max(highs)
           h0 == timing.high[0]
           h1 == timing.high[1]
<1>1. FrameGiven /\ error \in [1..DataSymbols -> Errors]
  BY DEF FrameInv, CaptureInv
<1>2. h0 \in Int /\ h1 \in Int
  BY <1>1, Accepted DEF FrameGiven
<1>3. Worst \in {0, 1} /\ Jitter = 25 * Worst
  BY <1>1, WorstBound
<1>4. h1 - h0 >= 100 + 2 * Jitter
  BY DEF Readable, SplitMinNs
<1>5. ASSUME NEW i \in Measured(0)
      PROVE  High(capture[i]) \in Nat /\ h0 - Jitter <= High(capture[i]) /\ High(capture[i]) <= h0 + Jitter
  BY MeasuredPulse
<1>6. ASSUME NEW i \in Measured(1)
      PROVE  High(capture[i]) \in Nat /\ h1 - Jitter <= High(capture[i]) /\ High(capture[i]) <= h1 + Jitter
  BY MeasuredPulse
<1>7. PICK i0 \in Measured(0), i1 \in Measured(1) : TRUE
  BY DEF Readable
<1>8. High(capture[i0]) \in highs /\ High(capture[i1]) \in highs
  BY <1>7
<1>9. \A k \in highs : /\ k \in Nat /\ k <= 1250
                       /\ \/ h0 - Jitter <= k /\ k <= h0 + Jitter
                          \/ h1 - Jitter <= k /\ k <= h1 + Jitter
  <2>1. ASSUME NEW i \in usable
        PROVE  LET k == High(capture[i])
               IN /\ k \in Nat /\ k <= 1250
                  /\ \/ h0 - Jitter <= k /\ k <= h0 + Jitter
                     \/ h1 - Jitter <= k /\ k <= h1 + Jitter
    <3>1. CASE i \in Measured(0)
      BY <3>1, MeasuredPulse
    <3>2. CASE i \in Measured(1)
      BY <3>2, MeasuredPulse
    <3> QED BY <3>1, <3>2
  <2> HIDE DEF h0, h1, usable
  <2> QED BY <2>1
<1> HIDE DEF h0, h1
<1>10. highs \subseteq Nat /\ highs # {} /\ \E n \in Nat : \A k \in highs : k <= n
  <2>1. 1250 \in Nat
    OBVIOUS
  <2> HIDE DEF highs
  <2> QED BY <1>8, <1>9, <2>1
<1>11. least \in highs /\ \A k \in highs : least <= k
  <2> HIDE DEF highs
  <2> QED BY <1>10, MinLeast
<1>12. most \in highs /\ \A k \in highs : k <= most
  <2> HIDE DEF highs
  <2>1. PICK n \in Nat : \A k \in highs : k <= n
    BY <1>10
  <2> QED BY <1>10, <2>1, MaxGreatest
<1>13. /\ least \in Nat /\ least >= h0 - Jitter /\ least <= h0 + Jitter
       /\ most \in Nat /\ most >= h1 - Jitter /\ most <= h1 + Jitter
  <2>1. High(capture[i0]) <= h0 + Jitter /\ High(capture[i1]) >= h1 - Jitter
    BY <1>5, <1>6, <1>2, <1>3
  <2>2. least <= High(capture[i0]) /\ High(capture[i1]) <= most
    BY <1>8, <1>11, <1>12
  <2>3. High(capture[i0]) \in Nat /\ High(capture[i1]) \in Nat
    BY <1>5, <1>6
  <2>4. /\ least \in Nat /\ \/ h0 - Jitter <= least /\ least <= h0 + Jitter
                            \/ h1 - Jitter <= least /\ least <= h1 + Jitter
    BY <1>9, <1>11
  <2>5. /\ most \in Nat /\ \/ h0 - Jitter <= most /\ most <= h0 + Jitter
                           \/ h1 - Jitter <= most /\ most <= h1 + Jitter
    BY <1>9, <1>12
  <2> HIDE DEF least, most
  <2> QED BY <1>2, <1>3, <1>4, <2>1, <2>2, <2>3, <2>4, <2>5
<1>14. most - least >= SplitMinNs
  <2> HIDE DEF least, most
  <2> QED BY <1>2, <1>3, <1>4, <1>13 DEF SplitMinNs
<1>15. ReadBit0(capture, usable) = {i \in usable : 2 * High(capture[i]) <= least + most}
  BY <1>14 DEF ReadBit0
<1>16. ASSUME NEW i \in Measured(0)
       PROVE  2 * High(capture[i]) <= least + most
  <2>1. High(capture[i]) \in Nat /\ High(capture[i]) <= h0 + Jitter
    BY <1>5
  <2> HIDE DEF least, most
  <2> QED BY <1>2, <1>3, <1>4, <1>13, <2>1
<1>17. ASSUME NEW i \in Measured(1)
       PROVE  ~(2 * High(capture[i]) <= least + most)
  <2>1. High(capture[i]) \in Nat /\ h1 - Jitter <= High(capture[i])
    BY <1>6
  <2> HIDE DEF least, most
  <2> QED BY <1>2, <1>3, <1>4, <1>13, <2>1
<1> HIDE DEF least, most
<1> QED BY <1>15, <1>16, <1>17

LEMMA MeasuredStats ==
    ASSUME FrameInv, stage = "captured", NEW b \in {0, 1}, Measured(b) # {}
    PROVE  /\ IsFiniteSet(Measured(b)) /\ Cardinality(Measured(b)) \in Nat
           /\ Near(Average(Highs(capture), Measured(b)), timing.high[b])
           /\ Near(Average(Periods(capture), Measured(b)), timing.period[b])
<1> DEFINE of == Measured(b)
           h == timing.high[b]
           p == timing.period[b]
<1>1. /\ FrameGiven /\ error \in [1..DataSymbols -> Errors] /\ DataSymbols \in Nat
      /\ of \subseteq 1..DataSymbols
  BY LoopbackAssumption DEF LoopbackAssumption, FrameInv, CaptureInv, Measured, Pulses
<1>2. h \in Int /\ p \in Int /\ 100 <= h /\ 800 <= p
  BY <1>1, Accepted DEF FrameGiven
<1>3. Worst \in {0, 1} /\ Jitter = 25 * Worst
  BY <1>1, WorstBound
<1>4. /\ h - Jitter \in Nat /\ h + Jitter \in Int
      /\ p - Jitter \in Nat /\ p + Jitter \in Int
  BY <1>2, <1>3
<1>5. ASSUME NEW i \in of
      PROVE  /\ Highs(capture)[i] \in Int
             /\ h - Jitter <= Highs(capture)[i] /\ Highs(capture)[i] <= h + Jitter
             /\ Periods(capture)[i] \in Int
             /\ p - Jitter <= Periods(capture)[i] /\ Periods(capture)[i] <= p + Jitter
  <2>1. /\ i \in 1..DataSymbols /\ High(capture[i]) \in Int
        /\ h - Jitter <= High(capture[i]) /\ High(capture[i]) <= h + Jitter
        /\ Period(capture[i]) \in Int
        /\ p - Jitter <= Period(capture[i]) /\ Period(capture[i]) <= p + Jitter
    BY MeasuredPulse
  <2>2. Highs(capture)[i] = High(capture[i]) /\ Periods(capture)[i] = Period(capture[i])
    BY <2>1 DEF Highs, Periods
  <2> QED BY <2>1, <2>2
<1> DEFINE high == Average(Highs(capture), of)
           period == Average(Periods(capture), of)
<1> HIDE DEF h, p, of
<1>6. /\ IsFiniteSet(of) /\ Cardinality(of) \in Nat
      /\ high \in Int /\ h - Jitter <= high /\ high <= h + Jitter
  BY <1>1, <1>4, <1>5, AverageBounds DEF of
<1>7. period \in Int /\ p - Jitter <= period /\ period <= p + Jitter
  BY <1>1, <1>4, <1>5, AverageBounds DEF of
<1> HIDE DEF high, period
<1>8. Near(high, h) /\ Near(period, p)
  BY <1>2, <1>3, <1>6, <1>7, NearBounds
<1> QED BY <1>6, <1>8 DEF high, period, h, p, of

\* The pulses of one bit only stay one class: below the datasheet's midpoint bit 0,
\* above it bit 1.
LEMMA ReadSingle ==
    ASSUME FrameInv, stage = "captured", NEW b \in {0, 1}, Measured(b) # {}
    PROVE  /\ timing.high[b] + Jitter <= SingleSplitNs =>
                ReadBit0(capture, Measured(b)) = Measured(b)
           /\ timing.high[b] - Jitter > SingleSplitNs =>
                ReadBit0(capture, Measured(b)) = {}
<1> DEFINE highs == {High(capture[i]) : i \in Measured(b)}
           least == Min(highs)
           most == Max(highs)
           h == timing.high[b]
<1>1. FrameGiven /\ error \in [1..DataSymbols -> Errors]
  BY DEF FrameInv, CaptureInv
<1>2. h \in Int
  BY <1>1, Accepted DEF FrameGiven
<1>3. Worst \in {0, 1} /\ Jitter = 25 * Worst
  BY <1>1, WorstBound
<1>4. \A k \in highs : k \in Nat /\ k <= 1250 /\ h - Jitter <= k /\ k <= h + Jitter
  BY MeasuredPulse
<1>5. highs \subseteq Nat /\ highs # {} /\ \E n \in Nat : \A k \in highs : k <= n
  <2>1. 1250 \in Nat /\ highs # {}
    OBVIOUS
  <2> HIDE DEF highs
  <2> QED BY <1>4, <2>1
<1>6. least \in highs /\ most \in highs
  <2> HIDE DEF highs
  <2>1. PICK n \in Nat : \A k \in highs : k <= n
    BY <1>5
  <2> QED BY <1>5, <2>1, MinLeast, MaxGreatest
<1>7. /\ least \in Nat /\ h - Jitter <= least /\ least <= h + Jitter
      /\ most \in Nat /\ h - Jitter <= most /\ most <= h + Jitter
  <2> HIDE DEF highs, least, most, h
  <2> QED BY <1>4, <1>6
<1>8. ~(most - least >= SplitMinNs)
  <2> HIDE DEF least, most, h
  <2> QED BY <1>2, <1>3, <1>7 DEF SplitMinNs
<1>9. ReadBit0(capture, Measured(b)) = IF least + most <= 2 * SingleSplitNs THEN Measured(b) ELSE {}
  BY <1>8 DEF ReadBit0
<1>10. /\ h + Jitter <= SingleSplitNs => least + most <= 2 * SingleSplitNs
       /\ h - Jitter > SingleSplitNs => ~(least + most <= 2 * SingleSplitNs)
  <2> HIDE DEF least, most, h
  <2> QED BY <1>2, <1>3, <1>7 DEF SingleSplitNs
<1> HIDE DEF least, most
<1> QED BY <1>9, <1>10

\* What a Read returns, once it is known which pulses it takes for bit 0.
LEMMA ReadReturns ==
    ASSUME FrameInv, stage = "captured", NEW bit0,
           LET usable == Measured(0) \cup Measured(1)
           IN bit0 = IF usable = {} THEN {} ELSE ReadBit0(capture, usable)
    PROVE  LET usable == Measured(0) \cup Measured(1)
               read == AnalyzeWs2812Read(capture, DataSymbols)
           IN /\ read.ok <=> usable # {} /\ Cardinality(usable) >= ReadMinBits
              /\ read.bits[0] = ReadStats(capture, bit0)
              /\ read.bits[1] = ReadStats(capture, usable \ bit0)
<1> DEFINE usable == Measured(0) \cup Measured(1)
           read == AnalyzeWs2812Read(capture, DataSymbols)
<1> SUFFICES /\ read.ok <=> usable # {} /\ Cardinality(usable) >= ReadMinBits
             /\ read.bits[0] = ReadStats(capture, bit0)
             /\ read.bits[1] = ReadStats(capture, usable \ bit0)
  BY Zenon
<1>1. Usable(capture, DataSymbols) = usable
  BY ReadUsable
<1> HIDE DEF usable
<1>2. bit0 = IF usable = {} THEN {} ELSE ReadBit0(capture, usable)
  BY DEF usable
<1>3. read = [ok   |-> Cardinality(usable) >= ReadMinBits /\ usable # {},
              bits |-> [b \in {0, 1} |-> ReadStats(capture, IF b = 0 THEN bit0 ELSE usable \ bit0)]]
  BY <1>1, <1>2, Zenon DEF AnalyzeWs2812Read
<1> HIDE DEF read
<1>4. read.ok = (Cardinality(usable) >= ReadMinBits /\ usable # {})
  BY <1>3
<1>5. read.bits = [b \in {0, 1} |-> ReadStats(capture, IF b = 0 THEN bit0 ELSE usable \ bit0)]
  BY <1>3
<1>6. read.bits[0] = ReadStats(capture, bit0) /\ read.bits[1] = ReadStats(capture, usable \ bit0)
  BY <1>5
<1>7. read.ok <=> usable # {} /\ Cardinality(usable) >= ReadMinBits
  BY <1>4, Zenon
<1> QED BY <1>6, <1>7

LEMMA StatsOfPulses ==
    ASSUME FrameInv, stage = "captured", NEW b \in {0, 1}, Measured(b) # {}
    PROVE  ReadOf(ReadStats(capture, Measured(b)), b)
BY MeasuredStats DEF ReadOf, ReadStats

LEMMA StatsOfNone == ReadOfNone(ReadStats(capture, {}))
<1>1. Cardinality({}) = 0
  BY FS_EmptySet
<1>2. \A value : Average(value, {}) = 0
  BY <1>1 DEF Average, RoundedAverage
<1> QED BY <1>1, <1>2 DEF ReadOfNone, ReadStats

\* SPEC-006 FR-15: a Read of a source whose bits differ by enough finds both bits,
\* counts each pulse under its own, and measures its high time and its period; and of
\* a source of one bit only, it finds that bit.
THEOREM ReadSafety == Spec => []ReadMeasured
<1> DEFINE usable == Measured(0) \cup Measured(1)
           read == AnalyzeWs2812Read(capture, DataSymbols)
<1>1. ASSUME FrameInv, stage = "captured"
      PROVE  read.ok <=> usable # {} /\ Cardinality(usable) >= ReadMinBits
  BY <1>1, ReadReturns
<1>2. ASSUME FrameInv, stage = "captured", Readable, NEW b \in {0, 1}
      PROVE  ReadOf(read.bits[b], b)
  <2>1. Measured(0) # {} /\ Measured(1) # {} /\ usable # {} /\ usable \ Measured(0) = Measured(1)
    BY <1>2 DEF Readable, Measured, Pulses
  <2>2. ReadBit0(capture, usable) = Measured(0)
    BY <1>2, ReadSplit
  <2>3. /\ read.bits[0] = ReadStats(capture, Measured(0))
        /\ read.bits[1] = ReadStats(capture, Measured(1))
    BY <1>2, <2>1, <2>2, ReadReturns
  <2> HIDE DEF read
  <2> QED BY <1>2, <2>1, <2>3, StatsOfPulses
<1>3. ASSUME FrameInv, stage = "captured", NEW b \in {0, 1}, Measured(b) # {}, Measured(1 - b) = {}
      PROVE  /\ timing.high[b] + Jitter <= SingleSplitNs =>
                    ReadOf(read.bits[0], b) /\ ReadOfNone(read.bits[1])
             /\ timing.high[b] - Jitter > SingleSplitNs =>
                    ReadOf(read.bits[1], b) /\ ReadOfNone(read.bits[0])
  <2>1. usable = Measured(b) /\ usable # {}
    BY <1>3
  <2>2. ReadOf(ReadStats(capture, Measured(b)), b) /\ ReadOfNone(ReadStats(capture, {}))
    BY <1>3, StatsOfPulses, StatsOfNone
  <2>3. CASE timing.high[b] + Jitter <= SingleSplitNs
    <3>1. ReadBit0(capture, usable) = Measured(b) /\ usable \ Measured(b) = {}
      BY <1>3, <2>1, <2>3, ReadSingle
    <3>2. /\ read.bits[0] = ReadStats(capture, Measured(b))
          /\ read.bits[1] = ReadStats(capture, {})
      BY <1>3, <2>1, <3>1, ReadReturns
    <3>3. ~(timing.high[b] - Jitter > SingleSplitNs)
      <4>1. timing.high[b] \in Int
        BY <1>3, Accepted DEF FrameInv, FrameGiven
      <4>2. Worst \in {0, 1} /\ Jitter = 25 * Worst
        BY <1>3, WorstBound DEF FrameInv, CaptureInv
      <4> QED BY <2>3, <4>1, <4>2 DEF SingleSplitNs
    <3> HIDE DEF read
    <3> QED BY <2>2, <3>2, <3>3
  <2>4. CASE ~(timing.high[b] + Jitter <= SingleSplitNs) /\ timing.high[b] - Jitter > SingleSplitNs
    <3>1. ReadBit0(capture, usable) = {} /\ usable \ {} = Measured(b)
      BY <1>3, <2>1, <2>4, ReadSingle
    <3>2. /\ read.bits[0] = ReadStats(capture, {})
          /\ read.bits[1] = ReadStats(capture, Measured(b))
      BY <1>3, <2>1, <3>1, ReadReturns
    <3> HIDE DEF read
    <3> QED BY <2>2, <2>4, <3>2
  <2> QED BY <2>3, <2>4
<1>4. ASSUME FrameInv
      PROVE  ReadMeasured
  <2> SUFFICES ASSUME stage = "captured"
               PROVE  /\ TwoClassesRead(read) /\ OneClassRead(read)
                      /\ read.ok <=> usable # {} /\ Cardinality(usable) >= ReadMinBits
    BY DEF ReadMeasured
  <2>1. TwoClassesRead(read)
    <3> HIDE DEF read
    <3> QED BY <1>2, <1>4 DEF TwoClassesRead, Readable
  <2>2. OneClassRead(read)
    <3> HIDE DEF read
    <3> QED BY <1>3, <1>4 DEF OneClassRead
  <2> HIDE DEF read, usable
  <2> QED BY <1>1, <1>4, <2>1, <2>2
<1> QED BY <1>4, FrameInvInductive, PTL DEF Spec
=============================================================================

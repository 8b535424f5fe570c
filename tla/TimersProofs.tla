---------------------------- MODULE TimersProofs -----------------------------
(* Theorems about Tick and Timers, for every value of their constants.     *)
EXTENDS Timers, TLAPS

-----------------------------------------------------------------------------
(* Arithmetic                                                               *)

LEMMA ModRange ==
  ASSUME NEW x \in Int, NEW n \in Nat \ {0}
  PROVE  (x % n) \in 0 .. n - 1
OBVIOUS

LEMMA DivRange ==
  ASSUME NEW x \in Nat, NEW n \in Nat \ {0}
  PROVE  x \div n \in 0 .. x
OBVIOUS

LEMMA SignedRange ==
  ASSUME NEW u \in Phases
  PROVE  Signed(u) \in -Lap .. Lap
BY WidthsAssumption DEF Signed, Phases

LEMMA MillisRange ==
  ASSUME NEW u \in Phases
  PROVE  Millis(u) \in -Lap .. Lap
<1> DEFINE v == Signed(u)
<1>1. v \in -Lap .. Lap /\ v \in Int /\ Lap \in Nat /\ Milli \in Nat \ {0}
  BY SignedRange, WidthsAssumption
<1> HIDE DEF v
<1>2. CASE v >= 0
  <2>1. v \div Milli \in 0 .. v
    BY <1>1, <1>2, DivRange
  <2> QED
    BY <1>1, <1>2, <2>1 DEF Millis, Truncated, v
<1>3. CASE ~(v >= 0)
  <2>1. -v \in Nat
    BY <1>1, <1>3
  <2>2. (-v) \div Milli \in 0 .. -v
    BY <1>1, <2>1, DivRange
  <2> QED
    BY <1>1, <1>3, <2>1, <2>2 DEF Millis, Truncated, v
<1> QED
  BY <1>2, <1>3

\* How far a quotient rounded towards zero is from its dividend.
LEMMA DivBounds ==
  ASSUME NEW x \in Nat, NEW n \in Nat \ {0}
  PROVE  (x \div n) * n <= x /\ x < (x \div n) * n + n /\ x \div n \in Nat
OBVIOUS

LEMMA TruncatedBounds ==
  ASSUME NEW v \in Int
  PROVE  /\ Truncated(v) \in Int
         /\ v >= 0 => Truncated(v) * Milli <= v /\ v < Truncated(v) * Milli + Milli
         /\ v < 0 => v <= Truncated(v) * Milli /\ Truncated(v) * Milli - Milli < v
<1>1. Milli \in Nat \ {0}
  BY WidthsAssumption
<1>2. CASE v >= 0
  BY <1>1, <1>2, DivBounds DEF Truncated
<1>3. CASE v < 0
  <2>1. PICK q \in Nat : q = (-v) \div Milli /\ q * Milli <= -v /\ -v < q * Milli + Milli
    BY <1>1, <1>3, DivBounds
  <2>2. Truncated(v) = -q
    BY <1>3, <2>1 DEF Truncated
  <2>3. (-q) * Milli = -(q * Milli)
    BY <1>1, <2>1
  <2> QED
    BY <1>1, <1>3, <2>1, <2>2, <2>3
<1> QED
  BY <1>2, <1>3

\* d microseconds are d / Milli milliseconds, give or take: the one around zero,
\* which has two halves, can be lost.
LEMMA TruncatedDifference ==
  ASSUME NEW a \in Int, NEW d \in Nat
  PROVE  LET D == Truncated(a + d) - Truncated(a)
         IN  D \in Int /\ d - 2 * Milli < D * Milli /\ D * Milli < d + Milli
<1> DEFINE p == Truncated(a)
           q == Truncated(a + d)
<1>1. Milli \in Nat \ {0} /\ p \in Int /\ q \in Int
  BY WidthsAssumption, TruncatedBounds
<1>2. (q - p) * Milli = q * Milli - p * Milli /\ p * Milli \in Int /\ q * Milli \in Int
  BY <1>1
<1>3. /\ a >= 0 => p * Milli <= a /\ a < p * Milli + Milli
      /\ a < 0 => a <= p * Milli /\ p * Milli - Milli < a
  BY TruncatedBounds
<1>4. /\ a + d >= 0 => q * Milli <= a + d /\ a + d < q * Milli + Milli
      /\ a + d < 0 => a + d <= q * Milli /\ q * Milli - Milli < a + d
  BY TruncatedBounds
<1> HIDE DEF p, q
<1>5. d - 2 * Milli < (q - p) * Milli /\ (q - p) * Milli < d + Milli
  <2> DEFINE x == p * Milli
             y == q * Milli
             z == (q - p) * Milli
  <2>1. x \in Int /\ y \in Int /\ z = y - x
    BY <1>2
  <2>2. /\ a >= 0 => x <= a /\ a < x + Milli
        /\ a < 0 => a <= x /\ x - Milli < a
        /\ a + d >= 0 => y <= a + d /\ a + d < y + Milli
        /\ a + d < 0 => a + d <= y /\ y - Milli < a + d
    BY <1>3, <1>4
  <2> HIDE DEF x, y, z
  <2>3. d - 2 * Milli < z /\ z < d + Milli
    BY <1>1, <2>1, <2>2
  <2> QED
    BY <2>3 DEF z
<1> QED
  BY <1>1, <1>5 DEF p, q

LEMMA SmallMultiple ==
  ASSUME NEW n \in Nat \ {0}, NEW m \in Int, -n < n * m, n * m < n
  PROVE  m = 0
<1>1. m <= 0
  <2> SUFFICES ASSUME m >= 1 PROVE FALSE
    OBVIOUS
  <2>1. n * m >= n
    OBVIOUS
  <2> QED
    BY <2>1
<1>2. m >= 0
  <2> SUFFICES ASSUME m <= -1 PROVE FALSE
    OBVIOUS
  <2>1. n * m <= -n
    OBVIOUS
  <2> QED
    BY <2>1
<1> QED
  BY <1>1, <1>2

LEMMA ModIs ==
  ASSUME NEW x \in Int, NEW n \in Nat \ {0}
  PROVE  \E k \in Int : (x % n) = x + n * k
<1>1. x = n * (x \div n) + (x % n) /\ x \div n \in Int /\ (x % n) \in Int
  OBVIOUS
<1>2. n * (-(x \div n)) = -(n * (x \div n))
  BY <1>1
<1>3. (x % n) = x + n * (-(x \div n)) /\ -(x \div n) \in Int
  BY <1>1, <1>2
<1> QED
  BY <1>3

LEMMA WideFacts == Wide \in Nat \ {0} /\ Wide >= Lap /\ Lap \in Nat \ {0}
BY WidthsAssumption

LEMMA ElapsedIs ==
  ASSUME NEW act \in Ticks, NEW prev \in Ticks
  PROVE  Elapsed(act, prev) \in Ticks /\ \E k \in Int : Elapsed(act, prev) = act - prev + Wide * k
<1>1. act \in Int /\ prev \in Int /\ (act >= prev \/ act < prev)
  BY WideFacts DEF Ticks
<1>2. CASE act >= prev
  <2>1. Elapsed(act, prev) = act - prev + Wide * 0 /\ 0 \in Int
    BY <1>1, <1>2, WideFacts DEF Elapsed
  <2>2. Elapsed(act, prev) \in Ticks
    BY <1>2, WideFacts DEF Elapsed, Ticks
  <2> QED
    BY <2>1, <2>2
<1>3. CASE act < prev
  <2>1. Elapsed(act, prev) = act - prev + Wide * 1 /\ 1 \in Int
    BY <1>1, <1>3, WideFacts DEF Elapsed
  <2>2. Elapsed(act, prev) \in Ticks
    BY <1>3, WideFacts DEF Elapsed, Ticks
  <2> QED
    BY <2>1, <2>2
<1> QED
  BY <1>1, <1>2, <1>3

\* If the tick moves by D milliseconds, so does the time elapsed, modulo Wide.
LEMMA ElapsedMoves ==
  ASSUME NEW x \in Int, NEW D \in Int, NEW prev \in Ticks, NEW e,
         e = Elapsed((x % Wide), prev)
  PROVE  /\ e + D \in Ticks => Elapsed((x + D) % Wide, prev) = e + D
         /\ e + D + Wide \in Ticks => Elapsed((x + D) % Wide, prev) = e + D + Wide
<1> DEFINE a == (x % Wide)
           b == (x + D) % Wide
           g == Elapsed(b, prev)
<1>1. a \in Ticks /\ b \in Ticks
  BY ModRange, WideFacts DEF Ticks
<1>2. PICK i \in Int : a = x + Wide * i
  BY ModIs, WideFacts
<1>3. PICK j \in Int : b = (x + D) + Wide * j
  <2>1. x + D \in Int
    OBVIOUS
  <2> QED
    BY <2>1, ModIs, WideFacts
<1>4. PICK k \in Int : e = a - prev + Wide * k
  BY <1>1, ElapsedIs
<1>5. PICK l \in Int : g = b - prev + Wide * l
  BY <1>1, ElapsedIs
<1>6. g \in Ticks /\ e \in Ticks
  BY <1>1, ElapsedIs
<1> HIDE DEF a, b, g
<1>7. g = e + D + Wide * (j + l - i - k)
  <2>1. Wide * (j + l - i - k) = Wide * j + Wide * l - Wide * i - Wide * k
    BY WideFacts
  <2>2. Wide * i \in Int /\ Wide * j \in Int /\ Wide * k \in Int /\ Wide * l \in Int
    BY WideFacts
  <2> QED
    BY <1>1, <1>2, <1>3, <1>4, <1>5, <1>6, <2>1, <2>2, WideFacts DEF Ticks
<1>8. PICK m \in Int : g = e + D + Wide * m
  BY <1>7
<1>9. ASSUME e + D \in Ticks PROVE g = e + D
  <2>1. -Wide < Wide * m /\ Wide * m < Wide
    BY <1>6, <1>8, <1>9, WideFacts DEF Ticks
  <2>2. m = 0
    BY <2>1, SmallMultiple, WideFacts
  <2> QED
    BY <1>6, <1>8, <2>2, WideFacts DEF Ticks
<1>10. ASSUME e + D + Wide \in Ticks PROVE g = e + D + Wide
  <2>1. Wide * (m - 1) = Wide * m - Wide
    BY WideFacts
  <2>2. -Wide < Wide * (m - 1) /\ Wide * (m - 1) < Wide
    BY <1>6, <1>8, <1>10, <2>1, WideFacts DEF Ticks
  <2>3. m - 1 = 0
    BY <2>2, SmallMultiple, WideFacts
  <2> QED
    BY <1>6, <1>8, <2>3, WideFacts DEF Ticks
<1> QED
  BY <1>9, <1>10 DEF b, g

-----------------------------------------------------------------------------
(* The arithmetic of a timer's wait                                         *)

\* Milliseconds against microseconds, from the bounds of TruncatedDifference.
LEMMA AtLeast ==
  ASSUME NEW D \in Int, NEW P \in Nat, NEW d \in Int,
         d - 2 * Milli < D * Milli, d >= (P + 1) * Milli
  PROVE  D >= P
<1>1. Milli \in Nat \ {0} /\ (P + 1) * Milli = P * Milli + Milli /\ P * Milli \in Nat /\ D * Milli \in Int
  BY WidthsAssumption
<1> SUFFICES ASSUME D <= P - 1 PROVE FALSE
  OBVIOUS
<1>2. D * Milli <= (P - 1) * Milli /\ (P - 1) * Milli = P * Milli - Milli
  BY <1>1
<1> QED
  BY <1>1, <1>2

LEMMA AtMost ==
  ASSUME NEW D \in Int, NEW P \in Nat, NEW d \in Int,
         D * Milli < d + Milli, D >= P
  PROVE  d > (P - 1) * Milli
<1>1. Milli \in Nat \ {0} /\ (P - 1) * Milli = P * Milli - Milli /\ P * Milli \in Nat /\ D * Milli \in Int
  BY WidthsAssumption
<1>2. D * Milli >= P * Milli
  BY <1>1
<1> QED
  BY <1>1, <1>2

\* With room for P more milliseconds below Lap.
LEMMA Room ==
  ASSUME NEW D \in Int, NEW P \in Nat, NEW d \in Int,
         D * Milli < d + Milli, d <= Lap - (P + 1) * Milli
  PROVE  D + P < Lap
<1>1. /\ Milli \in Nat \ {0} /\ (P + 1) * Milli = P * Milli + Milli /\ P * Milli \in Nat
      /\ D * Milli \in Int /\ Lap \in Nat /\ (D + P) * Milli = D * Milli + P * Milli
  BY WidthsAssumption
<1>2. (D + P) * Milli < Lap
  BY <1>1
<1> SUFFICES ASSUME D + P >= Lap PROVE FALSE
  BY <1>1
<1>3. (D + P) * Milli >= Lap * Milli /\ Lap * Milli >= Lap
  BY <1>1
<1>4. Lap * Milli \in Int /\ (D + P) * Milli \in Int
  BY <1>1
<1> QED
  BY <1>1, <1>2, <1>3, <1>4

LEMMA SmallDifference ==
  ASSUME NEW D \in Int, NEW d \in Nat, d - 2 * Milli < D * Milli, D * Milli < d + Milli
  PROVE  D <= d
<1>1. Milli \in Nat \ {0}
  BY WidthsAssumption
<1> SUFFICES ASSUME D >= d + 1 PROVE FALSE
  OBVIOUS
<1>2. D * Milli >= (d + 1) * Milli /\ (d + 1) * Milli = d * Milli + Milli /\ d * Milli >= d
  BY <1>1
<1>3. D * Milli \in Int /\ d * Milli \in Int
  BY <1>1
<1> QED
  BY <1>1, <1>2, <1>3

LEMMA TruncatedMonotone ==
  ASSUME NEW a \in Int, NEW d \in Nat
  PROVE  Truncated(a + d) - Truncated(a) >= 0
<1> DEFINE D == Truncated(a + d) - Truncated(a)
           p == Truncated(a)
           q == Truncated(a + d)
<1>1. Milli \in Nat \ {0} /\ p \in Int /\ q \in Int
  BY WidthsAssumption, TruncatedBounds
<1>2. /\ a >= 0 => p * Milli <= a /\ a < p * Milli + Milli
      /\ a < 0 => a <= p * Milli /\ p * Milli - Milli < a
      /\ a + d >= 0 => q * Milli <= a + d /\ a + d < q * Milli + Milli
      /\ a + d < 0 => a + d <= q * Milli /\ q * Milli - Milli < a + d
  BY TruncatedBounds
<1> HIDE DEF p, q
<1> SUFFICES ASSUME q <= p - 1 PROVE FALSE
  BY <1>1 DEF p, q
<1>3. q * Milli <= (p - 1) * Milli /\ (p - 1) * Milli = p * Milli - Milli
  BY <1>1
<1>4. q * Milli \in Int /\ p * Milli \in Int
  BY <1>1
<1>5. CASE a >= 0
  BY <1>1, <1>2, <1>3, <1>4, <1>5
<1>6. CASE a < 0 /\ a + d < 0
  BY <1>1, <1>2, <1>3, <1>4, <1>6
<1>7. CASE a < 0 /\ a + d >= 0
  <2>1. p * Milli < Milli /\ q * Milli > -Milli
    BY <1>1, <1>2, <1>4, <1>7
  <2>2. p <= 0
    <3> SUFFICES ASSUME p >= 1 PROVE FALSE
      BY <1>1
    <3>1. p * Milli >= Milli
      BY <1>1
    <3> QED
      BY <1>1, <1>4, <2>1, <3>1
  <2>3. q >= 0
    <3> SUFFICES ASSUME q <= -1 PROVE FALSE
      BY <1>1
    <3>1. q * Milli <= -Milli
      BY <1>1
    <3> QED
      BY <1>1, <1>4, <2>1, <3>1
  <2> QED
    BY <1>1, <2>2, <2>3
<1> QED
  BY <1>1, <1>5, <1>6, <1>7

\* Two phases d microseconds apart, within a lap or across its end.
Apart(u, d, t) == t = u + d \/ t = u + d - Lap

LEMMA HalfLap ==
  /\ Lap \div 2 \in Nat \ {0}
  /\ Lap = 2 * (Lap \div 2)
<1>1. \A n \in Nat : n = 2 * (n \div 2) + (n % 2) /\ n \div 2 \in Nat
  OBVIOUS
<1>2. Lap \in Nat \ {0} /\ (Lap % 2) = 0
  BY WidthsAssumption
<1>3. Lap = 2 * (Lap \div 2) /\ Lap \div 2 \in Nat
  BY <1>1, <1>2
<1>4. Lap \div 2 # 0
  BY <1>2, <1>3
<1> QED
  BY <1>3, <1>4

LEMMA SignedApart ==
  ASSUME NEW u \in Phases, NEW t \in Phases, NEW d \in Nat, d < Lap, Apart(u, d, t)
  PROVE  Signed(t) = Signed(u) + d \/ Signed(t) = Signed(u) + d - Lap
<1>1. PICK h \in Nat : h = Lap \div 2 /\ Lap = 2 * h
  BY HalfLap
<1> QED
  BY <1>1 DEF Signed, Phases, Apart

LEMMA TickIs ==
  ASSUME NEW u \in Phases, NEW s \in Int
  PROVE  /\ Signed(u) \in Int /\ Signed(u) < Lap \div 2 /\ Truncated(Signed(u)) \in Int
         /\ TickAt(u, s) = (Truncated(Signed(u)) - s) % Wide /\ TickAt(u, s) \in Ticks
<1>1. Signed(u) \in Int /\ Signed(u) < Lap \div 2
  BY HalfLap DEF Signed, Phases
<1>2. Truncated(Signed(u)) \in Int
  BY <1>1, TruncatedBounds
<1>3. TickAt(u, s) = (Truncated(Signed(u)) - s) % Wide
  BY DEF TickAt, Millis
<1>4. Truncated(Signed(u)) - s \in Int
  BY <1>2
<1>5. TickAt(u, s) \in Ticks
  BY <1>3, <1>4, ModRange, WideFacts DEF Ticks
<1> QED
  BY <1>1, <1>2, <1>3, <1>5

LEMMA ElapsedNone == \A t \in Ticks : Elapsed(t, t) = 0
BY WideFacts DEF Elapsed, Ticks

\* If the lap did not end since last was read, d microseconds ago, and the timer
\* finds P milliseconds elapsed, d is more than P - 1 milliseconds.
LEMMA EarlyArithmetic ==
  ASSUME NEW t \in Phases, NEW s \in Int, NEW d \in Nat, NEW P \in Nat, NEW last,
         Signed(t) - d >= -(Lap \div 2), last = (Truncated(Signed(t) - d) - s) % Wide,
         Elapsed(TickAt(t, s), last) >= P
  PROVE  d > (P - 1) * Milli
<1> DEFINE a == Signed(t) - d
           x == Truncated(a) - s
           D == Truncated(a + d) - Truncated(a)
<1>1. a \in Int /\ a + d = Signed(t) /\ d < Lap
  BY TickIs, HalfLap
<1>2. Truncated(a) \in Int /\ x \in Int
  BY <1>1, TruncatedBounds
<1>3. D \in Int /\ d - 2 * Milli < D * Milli /\ D * Milli < d + Milli /\ D >= 0
  BY <1>1, TruncatedDifference, TruncatedMonotone
<1>4. D <= d
  BY <1>3, SmallDifference
<1>5. 0 + D \in Ticks
  BY <1>1, <1>3, <1>4, WideFacts DEF Ticks
<1>6. last = (x % Wide) /\ last \in Ticks
  BY <1>2, ModRange, WideFacts DEF Ticks
<1>7. Elapsed((x % Wide), last) = 0
  BY <1>6, ElapsedNone
<1>8. TickAt(t, s) = (x + D) % Wide
  <2>1. x + D = Truncated(Signed(t)) - s
    BY <1>1, <1>2, TickIs
  <2> QED
    BY <2>1, TickIs
<1> HIDE DEF a, x, D
<1>9. Elapsed((x + D) % Wide, last) = 0 + D
  BY <1>2, <1>3, <1>5, <1>6, <1>7, ElapsedMoves
<1>10. D >= P
  BY <1>3, <1>8, <1>9
<1> QED
  BY <1>3, <1>10, AtMost

\* A timer that had less than P milliseconds to show when it was looked at has P to
\* show d microseconds later, if d is P milliseconds and one and not nearly a lap.
LEMMA LateArithmetic ==
  ASSUME NEW u \in Phases, NEW t \in Phases, NEW s \in Int, NEW d \in Nat, NEW P \in Nat \ {0},
         NEW last \in Ticks, Apart(u, d, t), Elapsed(TickAt(u, s), last) < P,
         d >= (P + 1) * Milli, d < Lap - (P + 1) * Milli
  PROVE  Elapsed(TickAt(t, s), last) >= P
<1> DEFINE a == Signed(u)
           x == Truncated(a) - s
           e == Elapsed(TickAt(u, s), last)
<1>1. a \in Int /\ Truncated(a) \in Int /\ x \in Int /\ e \in Ticks /\ e = Elapsed((x % Wide), last) /\ e < P
  BY TickIs, ElapsedIs
<1>2. (P + 1) * Milli \in Nat /\ d < Lap
  BY WidthsAssumption
<1>3. Signed(t) = a + d \/ Signed(t) = a + d - Lap
  BY <1>2, SignedApart
<1>4. TickAt(t, s) = (Truncated(Signed(t)) - s) % Wide /\ Signed(t) \in Int
  BY TickIs
<1> HIDE DEF a, e
<1>5. CASE Signed(t) = a + d
  <2> DEFINE D == Truncated(a + d) - Truncated(a)
  <2>1. D \in Int /\ d - 2 * Milli < D * Milli /\ D * Milli < d + Milli
    BY <1>1, TruncatedDifference
  <2>2. TickAt(t, s) = (x + D) % Wide
    <3>1. x + D = Truncated(Signed(t)) - s
      BY <1>1, <1>4, <1>5, TruncatedBounds
    <3> QED
      BY <1>4, <3>1
  <2> HIDE DEF D, x
  <2>3. D >= P /\ D + P < Lap
    <3>1. D >= P
      BY <2>1, AtLeast
    <3>2. d \in Int /\ d <= Lap - (P + 1) * Milli
      BY <1>2, WidthsAssumption
    <3> QED
      BY <2>1, <3>1, <3>2, Room
  <2>4. e + D \in Ticks
    BY <1>1, <2>1, <2>3, WideFacts DEF Ticks
  <2>5. Elapsed((x + D) % Wide, last) = e + D
    BY <1>1, <2>1, <2>4, ElapsedMoves
  <2> QED
    BY <1>1, <2>1, <2>2, <2>3, <2>5, WideFacts DEF Ticks
<1>6. CASE Signed(t) = a + d - Lap
  <2> DEFINE b == Signed(t)
             g == Lap - d
             D == Truncated(b + g) - Truncated(b)
  <2>1. b \in Int /\ g \in Nat /\ b + g = a /\ g >= (P + 1) * Milli /\ g <= Lap - (P + 1) * Milli
    BY <1>1, <1>2, <1>4, <1>6, WideFacts
  <2>2. D \in Int /\ g - 2 * Milli < D * Milli /\ D * Milli < g + Milli
    BY <2>1, TruncatedDifference
  <2>3. TickAt(t, s) = (x + (-D)) % Wide
    <3>1. x + (-D) = Truncated(Signed(t)) - s
      BY <1>1, <1>4, <2>1, TruncatedBounds
    <3> QED
      BY <1>4, <3>1
  <2> HIDE DEF D, x, b, g
  <2>4. D >= P /\ D + P < Lap
    BY <2>1, <2>2, AtLeast, Room
  <2>5. e + (-D) + Wide \in Ticks /\ -D \in Int
    BY <1>1, <2>2, <2>4, WideFacts DEF Ticks
  <2>6. Elapsed((x + (-D)) % Wide, last) = e + (-D) + Wide
    BY <1>1, <2>5, ElapsedMoves
  <2> QED
    BY <1>1, <2>2, <2>3, <2>4, <2>6, WideFacts DEF Ticks
<1> QED
  BY <1>3, <1>5, <1>6

-----------------------------------------------------------------------------
(* Types                                                                    *)

LEMMA AwayRange == Away \in Nat \ {0} /\ Away < Lap
BY WidthsAssumption, TimersAssumption DEF Away

LEMMA CappedRange ==
  ASSUME NEW t \in Nat, NEW n \in Nat
  PROVE  Capped(t, n) \in 0 .. n
BY DEF Capped

LEMMA InitTypes ==
  ASSUME Init
  PROVE  TypeOK
<1>1. now \in Phases
  BY DEF Init
<1>2. Millis(now) \in -Lap .. Lap
  BY <1>1, MillisRange
<1>3. 0 \in Ticks /\ 0 \in 0 .. Period * Milli /\ 0 \in -1 .. Away /\ 0 \in 0 .. MaxSets
  BY WidthsAssumption, TimersAssumption, AwayRange, WideFacts DEF Ticks
<1> QED
  BY <1>1, <1>2, <1>3 DEF Init, TypeOK

\* What custom_tick_get leaves in start_ms, and returns.
LEMMA TickTypes ==
  ASSUME TypeOK
  PROVE  Start \in -Lap .. Lap /\ Start \in Int /\ Tick \in Ticks
<1>1. now \in Phases /\ startMs \in -Lap .. Lap
  BY DEF TypeOK
<1>2. Start \in -Lap .. Lap
  BY <1>1, MillisRange DEF Start
<1>3. Start \in Int
  BY <1>2, WideFacts
<1> QED
  BY <1>1, <1>2, <1>3, TickIs DEF Tick

LEMMA NextTypes ==
  ASSUME TypeOK, Next
  PROVE  TypeOK'
<1>1. Start \in -Lap .. Lap /\ Tick \in Ticks
  BY TickTypes
<1>2. Away \in Nat /\ Period * Milli \in Nat
  BY AwayRange, WidthsAssumption, TimersAssumption
<1>3. CASE Pass
  <2>1. now \in Int /\ since \in Nat /\ steady \in Int
    BY <1>2 DEF TypeOK, Phases
  <2>2. now' \in Phases
    BY <1>3, <2>1, ModRange, WideFacts DEF Pass, Phases
  <2>3. since' \in 0 .. Period * Milli
    BY <1>2, <1>3, <2>1, CappedRange DEF Pass
  <2>4. steady' \in -1 .. Away
    BY <1>2, <1>3, <2>1 DEF Pass, Capped
  <2>5. lapped' \in BOOLEAN
    BY <1>3 DEF Pass, TypeOK
  <2> QED
    BY <1>3, <2>2, <2>3, <2>4, <2>5 DEF Pass, TypeOK
<1>4. CASE SetClock
  <2>1. sets' \in 0 .. MaxSets /\ -1 \in -1 .. Away
    BY <1>2, <1>4, TimersAssumption DEF SetClock, TypeOK
  <2> QED
    BY <1>4, <2>1 DEF SetClock, TypeOK
<1>5. ASSUME NEW c \in Callers, HandlerStep(c) PROVE TypeOK'
  <2>1. 0 \in -1 .. Away /\ 0 \in 0 .. Period * Milli
    BY <1>2
  <2>2. CASE Enter(c)
    BY <2>2 DEF Enter, Goto, clock, history, TypeOK
  <2>3. CASE Claim(c)
    BY <2>3 DEF Claim, Goto, clock, TypeOK
  <2>4. CASE Exec(c)
    BY <1>1, <2>1, <2>4 DEF Exec, Goto, GetTick, TypeOK
  <2>5. CASE Run(c)
    BY <1>1, <2>1, <2>5 DEF Run, Goto, GetTick, TypeOK
  <2>6. CASE Leave(c)
    BY <2>6 DEF Leave, Goto, clock, TypeOK
  <2>7. CASE Glance(c)
    <3>1. steady' \in -1 .. Away /\ disturbed' \in BOOLEAN
      BY <1>2, <2>7 DEF Glance, TypeOK
    <3> QED
      BY <1>1, <2>7, <3>1 DEF Glance, GetTick, TypeOK
  <2> QED
    BY <1>5, <2>2, <2>3, <2>4, <2>5, <2>6, <2>7 DEF HandlerStep
<1> QED
  BY <1>3, <1>4, <1>5 DEF Next

\* Types hold: the tick and the time since last_run stay within their widths.
THEOREM TypeCorrect == Spec => []TypeOK
<1>1. TypeOK /\ UNCHANGED vars => TypeOK'
  BY DEF vars, clock, history, TypeOK
<1>2. TypeOK /\ [Next]_vars => TypeOK'
  BY <1>1, NextTypes
<1> QED
  BY <1>2, InitTypes, PTL DEF Spec

-----------------------------------------------------------------------------
(* The inductive invariants                                                 *)

\* Unless two callers met, lv_timer_handler has at most one, and already_running tells.
Alone ==
  ~raced => /\ \A c, d \in Inside : c = d
            /\ running <=> Inside # {}

\* Unless time was disturbed, last_run is the tick of a moment in this lap.
Dated ==
  ~disturbed /\ ~lapped =>
    \E d \in Nat : /\ Signed(now) - d >= -(Lap \div 2)
                   /\ lastRun = (Truncated(Signed(now) - d) - startMs) % Wide
                   /\ since = Capped(d, Period * Milli)

\* Whoever found the timer due found it so in time.
DueInTime ==
  ~raced /\ ~disturbed /\ ~lapped =>
    \A c \in Callers : pc[c] = "run" => since > (Period - 1) * Milli

\* Until it is found due the timer was not due when it was first looked at.
NotDueAt(d) ==
  \E u \in Phases : Apart(u, d, now) /\ Elapsed(TickAt(u, startMs), lastRun) < Period

WasNotDue ==
  /\ steady >= 0 /\ steady < Away
  /\ \A c \in Callers : pc[c] # "run"
  => NotDueAt(steady)

EarlyInv == TypeOK /\ Alone /\ Dated /\ DueInTime

LateInv == TypeOK /\ Alone /\ WasNotDue

LEMMA InitAlone ==
  ASSUME Init
  PROVE  Alone
BY DEF Init, Alone, Inside

LEMMA NextAlone ==
  ASSUME TypeOK, Alone, Next
  PROVE  Alone'
<1>1. CASE Pass
  BY <1>1 DEF Pass, Alone, Inside
<1>2. CASE SetClock
  BY <1>2 DEF SetClock, Alone, Inside
<1>3. ASSUME NEW c \in Callers, HandlerStep(c) PROVE Alone'
  <2>1. CASE Enter(c)
    <3>1. Inside' = Inside
      BY <2>1 DEF Enter, Goto, Inside, TypeOK
    <3> QED
      BY <2>1, <3>1 DEF Enter, history, Alone
  <2>2. CASE Claim(c)
    <3>1. Inside' = Inside \cup {c}
      BY <2>2 DEF Claim, Goto, Inside, TypeOK
    <3>2. running' = TRUE /\ raced' = (raced \/ running)
      BY <2>2 DEF Claim
    <3>3. ~raced' => Inside = {}
      BY <3>2 DEF Alone, TypeOK
    <3> QED
      BY <3>1, <3>2, <3>3 DEF Alone
  <2>3. CASE Exec(c)
    <3>1. Inside' = Inside
      BY <2>3 DEF Exec, Goto, Inside, TypeOK
    <3> QED
      BY <2>3, <3>1 DEF Exec, Alone
  <2>4. CASE Run(c)
    <3>1. Inside' = Inside
      BY <2>4 DEF Run, Goto, Inside, TypeOK
    <3> QED
      BY <2>4, <3>1 DEF Run, Alone
  <2>5. CASE Leave(c)
    <3>1. Inside' = Inside \ {c} /\ c \in Inside
      BY <2>5 DEF Leave, Goto, Inside, TypeOK
    <3>2. running' = FALSE /\ raced' = (raced /\ Inside # {c})
      BY <2>5 DEF Leave
    <3>3. ~raced' => Inside' = {}
      BY <3>1, <3>2 DEF Alone
    <3> QED
      BY <3>2, <3>3 DEF Alone
  <2>6. CASE Glance(c)
    <3>1. Inside' = Inside
      BY <2>6 DEF Glance, Inside
    <3> QED
      BY <2>6, <3>1 DEF Glance, Alone
  <2> QED
    BY <1>3, <2>1, <2>2, <2>3, <2>4, <2>5, <2>6 DEF HandlerStep
<1> QED
  BY <1>1, <1>2, <1>3 DEF Next

-----------------------------------------------------------------------------
(* A timer that runs early                                                  *)

\* last_run is read at distance 0.
LEMMA DatedNow ==
  ASSUME NEW t \in Phases, NEW s \in Int
  PROVE  /\ Signed(t) - 0 >= -(Lap \div 2)
         /\ TickAt(t, s) = (Truncated(Signed(t) - 0) - s) % Wide
         /\ 0 = Capped(0, Period * Milli)
<1>1. Signed(t) \in Int /\ Signed(t) - 0 = Signed(t)
  BY TickIs
<1>2. Signed(t) >= -(Lap \div 2)
  BY HalfLap DEF Signed, Phases
<1>3. TickAt(t, s) = (Truncated(Signed(t)) - s) % Wide
  BY TickIs
<1>4. Period * Milli \in Nat
  BY WidthsAssumption, TimersAssumption
<1> QED
  BY <1>1, <1>2, <1>3, <1>4 DEF Capped

LEMMA InitDated ==
  ASSUME Init
  PROVE  Dated
<1>1. PICK t \in Phases : t = now
  BY DEF Init
<1>2. PICK s \in Int : s = Millis(t)
  BY TickIs DEF Millis
<1>3. /\ Signed(t) - 0 >= -(Lap \div 2) /\ 0 = Capped(0, Period * Milli)
      /\ TickAt(t, s) = (Truncated(Signed(t) - 0) - s) % Wide
  BY DatedNow
<1>4. TickAt(t, s) = 0
  <2>1. Millis(t) - s = 0 /\ (0 % Wide) = 0
    BY <1>2, WideFacts
  <2> QED
    BY <2>1 DEF TickAt
<1> QED
  BY <1>1, <1>2, <1>3, <1>4 DEF Init, Dated

\* A microsecond later, unless the lap ends.
LEMMA PassSigned ==
  ASSUME NEW t \in Phases, NEW t2, t2 = (t + 1) % Lap, t2 # Lap \div 2
  PROVE  Signed(t2) = Signed(t) + 1 /\ t2 \in Phases
<1>1. PICK h \in Nat : h = Lap \div 2 /\ Lap = 2 * h /\ h # 0
  BY HalfLap
<1>2. t2 = IF t = Lap - 1 THEN 0 ELSE t + 1
  <2>1. CASE t = Lap - 1
    <3>1. (Lap % Lap) = 0
      BY WideFacts
    <3> QED
      BY <2>1, <3>1, WideFacts
  <2>2. CASE t # Lap - 1
    <3>1. t + 1 \in 0 .. Lap - 1
      BY <2>2, WideFacts DEF Phases
    <3>2. (t + 1) % Lap = t + 1
      BY <3>1, WideFacts
    <3> QED
      BY <2>2, <3>2
  <2> QED
    BY <2>1, <2>2
<1> QED
  BY <1>1, <1>2 DEF Signed, Phases

LEMMA NextDated ==
  ASSUME TypeOK, Dated, Next
  PROVE  Dated'
<1> SUFFICES ASSUME ~disturbed', ~lapped' PROVE Dated'
  BY DEF Dated
<1>1. CASE Pass
  <2>1. PICK t \in Phases : t = now
    BY DEF TypeOK
  <2>2. PICK t2 : t2 = now'
    OBVIOUS
  <2>3. t2 = (t + 1) % Lap /\ t2 # Lap \div 2 /\ ~disturbed /\ ~lapped
    BY <1>1, <2>1, <2>2 DEF Pass
  <2>4. PICK d \in Nat : /\ Signed(t) - d >= -(Lap \div 2)
                         /\ lastRun = (Truncated(Signed(t) - d) - startMs) % Wide
                         /\ since = Capped(d, Period * Milli)
    BY <2>1, <2>3 DEF Dated
  <2>5. Signed(t2) = Signed(t) + 1
    BY <2>3, PassSigned
  <2>6. Signed(t2) - (d + 1) = Signed(t) - d
    BY <2>5, TickIs
  <2>7. since' = Capped(d + 1, Period * Milli)
    <3>1. Period * Milli \in Nat
      BY WidthsAssumption, TimersAssumption
    <3>2. since' = Capped(since + 1, Period * Milli)
      BY <1>1 DEF Pass
    <3> QED
      BY <2>4, <3>1, <3>2 DEF Capped
  <2>8. lastRun' = lastRun /\ startMs' = startMs /\ d + 1 \in Nat
    BY <1>1 DEF Pass
  <2> QED
    BY <2>2, <2>4, <2>6, <2>7, <2>8 DEF Dated
<1>2. CASE SetClock
  BY <1>2 DEF SetClock
<1>3. ASSUME NEW c \in Callers, HandlerStep(c) PROVE Dated'
  <2>1. CASE Enter(c)
    BY <2>1 DEF Enter, clock, history, Dated
  <2>2. CASE Claim(c)
    BY <2>2 DEF Claim, clock, Dated
  <2>3. CASE Exec(c)
    <3>1. startMs' = startMs /\ ~disturbed /\ ~lapped
      BY <2>3 DEF Exec, GetTick
    <3> QED
      BY <2>3, <3>1 DEF Exec, Dated
  <2>4. CASE Run(c)
    <3>1. PICK t \in Phases : t = now
      BY DEF TypeOK
    <3>2. PICK s \in Int : s = Start
      BY TickTypes
    <3>3. lastRun' = TickAt(t, s) /\ startMs' = s /\ since' = 0 /\ now' = t
      BY <2>4, <3>1, <3>2 DEF Run, GetTick, Tick
    <3>4. /\ Signed(t) - 0 >= -(Lap \div 2) /\ 0 = Capped(0, Period * Milli)
          /\ TickAt(t, s) = (Truncated(Signed(t) - 0) - s) % Wide
      BY DatedNow
    <3> QED
      BY <3>3, <3>4 DEF Dated
  <2>5. CASE Leave(c)
    BY <2>5 DEF Leave, clock, Dated
  <2>6. CASE Glance(c)
    <3>1. startMs' = startMs /\ ~disturbed /\ ~lapped
      BY <2>6 DEF Glance, GetTick
    <3> QED
      BY <2>6, <3>1 DEF Glance, Dated
  <2> QED
    BY <1>3, <2>1, <2>2, <2>3, <2>4, <2>5, <2>6 DEF HandlerStep
<1> QED
  BY <1>1, <1>2, <1>3 DEF Next

LEMMA NextDueInTime ==
  ASSUME EarlyInv, Next
  PROVE  DueInTime'
<1> SUFFICES ASSUME ~raced', ~disturbed', ~lapped', NEW b \in Callers, (pc[b])' = "run"
             PROVE  since' > (Period - 1) * Milli
  BY DEF DueInTime
<1> USE DEF EarlyInv
<1>0. /\ Period \in Nat \ {0} /\ Period * Milli \in Nat /\ (Period - 1) * Milli \in Int
      /\ (Period - 1) * Milli < Period * Milli
  BY WidthsAssumption, TimersAssumption
<1>1. CASE Pass
  <2>1. ~raced /\ ~disturbed /\ ~lapped /\ pc[b] = "run" /\ since' = Capped(since + 1, Period * Milli)
    BY <1>1 DEF Pass
  <2>2. since > (Period - 1) * Milli /\ since \in Nat
    BY <1>0, <2>1 DEF DueInTime, TypeOK
  <2> QED
    BY <1>0, <2>1, <2>2 DEF Capped
<1>2. CASE SetClock
  BY <1>2 DEF SetClock
<1>3. ASSUME NEW c \in Callers, HandlerStep(c) PROVE since' > (Period - 1) * Milli
  <2>1. CASE Enter(c)
    BY <2>1 DEF Enter, Goto, history, DueInTime, TypeOK
  <2>2. CASE Claim(c)
    <3>1. ~raced /\ ~running
      BY <2>2 DEF Claim, TypeOK
    <3>2. b \notin Inside
      BY <3>1 DEF Alone
    <3>3. pc[b] = "enter" \/ pc[b] = "out"
      BY <3>2 DEF Inside
    <3> QED
      BY <2>2, <3>3 DEF Claim, Goto, TypeOK
  <2>3. CASE Exec(c)
    <3>1. startMs' = startMs /\ Start = startMs /\ ~disturbed /\ ~lapped /\ ~raced /\ since' = since
      BY <2>3 DEF Exec, GetTick
    <3>2. CASE pc[b] = "run"
      BY <3>1, <3>2 DEF DueInTime
    <3>3. CASE pc[b] # "run"
      <4>1. b = c /\ Elapsed(Tick, lastRun) >= Period
        BY <2>3, <3>3 DEF Exec, Goto, TypeOK
      <4>2. PICK t \in Phases : t = now
        BY DEF TypeOK
      <4>3. PICK s \in Int : s = startMs
        BY <3>1, TickTypes
      <4>4. PICK last : last = lastRun
        OBVIOUS
      <4>5. PICK d \in Nat : /\ Signed(t) - d >= -(Lap \div 2)
                             /\ last = (Truncated(Signed(t) - d) - s) % Wide
                             /\ since = Capped(d, Period * Milli)
        BY <3>1, <4>2, <4>3, <4>4 DEF Dated
      <4>6. Elapsed(TickAt(t, s), last) >= Period
        BY <3>1, <4>1, <4>2, <4>3, <4>4 DEF Tick
      <4>7. d > (Period - 1) * Milli
        BY <1>0, <4>5, <4>6, EarlyArithmetic
      <4> QED
        BY <1>0, <3>1, <4>5, <4>7 DEF Capped
    <3> QED
      BY <3>2, <3>3
  <2>4. CASE Run(c)
    <3>1. pc[b] = "run" /\ pc[c] = "run" /\ b # c /\ ~raced
      BY <2>4 DEF Run, Goto, TypeOK
    <3> QED
      BY <3>1 DEF Alone, Inside
  <2>5. CASE Leave(c)
    <3>1. pc[b] = "run" /\ b # c /\ pc[c] = "leave"
      BY <2>5 DEF Leave, Goto, TypeOK
    <3>2. ~raced /\ ~disturbed /\ ~lapped /\ since' = since
      <4>1. {b, c} \subseteq Inside
        BY <3>1 DEF Inside
      <4>2. Inside # {c}
        BY <3>1, <4>1
      <4> QED
        BY <2>5, <4>2 DEF Leave
    <3> QED
      BY <3>1, <3>2 DEF DueInTime
  <2>6. CASE Glance(c)
    <3>1. ~raced /\ ~disturbed /\ ~lapped /\ pc[b] = "run" /\ since' = since
      BY <2>6 DEF Glance
    <3> QED
      BY <3>1 DEF DueInTime
  <2> QED
    BY <1>3, <2>1, <2>2, <2>3, <2>4, <2>5, <2>6 DEF HandlerStep
<1> QED
  BY <1>1, <1>2, <1>3 DEF Next

LEMMA EarlyInvHolds == Spec => []EarlyInv
<1>1. Init => EarlyInv
  BY InitTypes, InitAlone, InitDated DEF Init, DueInTime, EarlyInv
<1>2. EarlyInv /\ Next => EarlyInv'
  BY NextTypes, NextAlone, NextDated, NextDueInTime DEF EarlyInv
<1>3. EarlyInv /\ UNCHANGED vars => EarlyInv'
  BY DEF vars, clock, history, EarlyInv, TypeOK, Alone, Inside, Dated, DueInTime
<1>4. EarlyInv /\ [Next]_vars => EarlyInv'
  BY <1>2, <1>3
<1> QED
  BY <1>1, <1>4, PTL DEF Spec

\* No timer runs a millisecond early but for the clock, the end of a lap or two callers.
THEOREM EarlySafe == Spec => EarlyWhenDisturbed
<1>1. EarlyInv /\ [Next]_vars =>
        [\A c \in Callers :
          Run(c) /\ since <= (Period - 1) * Milli => disturbed \/ lapped \/ raced]_vars
  <2> SUFFICES ASSUME EarlyInv, NEW c \in Callers, Run(c), since <= (Period - 1) * Milli,
                      ~disturbed, ~lapped, ~raced
               PROVE  FALSE
    BY DEF EarlyInv, TypeOK
  <2>1. since > (Period - 1) * Milli
    BY DEF Run, Goto, EarlyInv, DueInTime
  <2>2. since \in Int /\ (Period - 1) * Milli \in Int
    BY WidthsAssumption, TimersAssumption DEF EarlyInv, TypeOK
  <2> QED
    BY <2>1, <2>2
<1> QED
  BY <1>1, EarlyInvHolds, PTL DEF Spec, EarlyWhenDisturbed

-----------------------------------------------------------------------------
(* A timer that runs late                                                   *)

LEMMA InitWasNotDue ==
  ASSUME Init
  PROVE  WasNotDue
<1>1. PICK t \in Phases : t = now
  BY DEF Init
<1>2. PICK s \in Int : s = startMs
  BY <1>1, TickIs DEF Init, Millis
<1>3. TickAt(t, s) = 0 /\ 0 \in Ticks
  <2>1. Millis(t) - s = 0 /\ (0 % Wide) = 0
    BY <1>1, <1>2, WideFacts DEF Init
  <2> QED
    BY <2>1, WideFacts DEF TickAt, Ticks
<1>4. Elapsed(TickAt(t, s), 0) < Period
  BY <1>3, ElapsedNone, TimersAssumption
<1>5. Apart(t, 0, t)
  BY DEF Apart, Phases
<1> QED
  BY <1>1, <1>2, <1>4, <1>5 DEF Init, WasNotDue, NotDueAt

LEMMA NextWasNotDue ==
  ASSUME LateInv, Next
  PROVE  WasNotDue'
<1> SUFFICES ASSUME (steady >= 0)', (steady < Away)', \A c \in Callers : (pc[c])' # "run"
             PROVE  NotDueAt(steady)'
  BY DEF WasNotDue
<1> USE DEF LateInv
<1>0. PICK t \in Phases : t = now
  BY DEF TypeOK
<1>1. CASE Pass
  <2>1. steady >= 0 /\ steady < Away /\ steady' = steady + 1 /\ steady \in Nat
    BY <1>1, AwayRange DEF Pass, Capped, TypeOK
  <2>2. \A c \in Callers : pc[c] # "run"
    BY <1>1 DEF Pass
  <2>3. PICK u \in Phases : Apart(u, steady, t) /\ Elapsed(TickAt(u, startMs), lastRun) < Period
    BY <1>0, <2>1, <2>2 DEF WasNotDue, NotDueAt
  <2>4. PICK d \in Nat : d = steady
    BY <2>1
  <2>5. PICK t2 : t2 = now'
    OBVIOUS
  <2>6. t2 = (t + 1) % Lap /\ Apart(u, d, t) /\ d < Lap
    <3>1. t2 = (t + 1) % Lap
      BY <1>0, <1>1, <2>5 DEF Pass
    <3>2. d < Lap
      BY <2>1, <2>4, AwayRange, WideFacts
    <3> QED
      BY <2>3, <2>4, <3>1, <3>2
  <2>7. Apart(u, d + 1, t2)
    <3>1. t + 1 = Lap \/ t + 1 \in 0 .. Lap - 1
      BY WideFacts DEF Phases
    <3>2. (Lap % Lap) = 0
      BY WideFacts
    <3>3. \A y \in 0 .. Lap - 1 : (y % Lap) = y
      BY WideFacts
    <3>4. (t + 1 = Lap /\ t2 = 0) \/ t2 = t + 1
      BY <2>6, <3>1, <3>2, <3>3
    <3> QED
      BY <2>6, <3>4, WideFacts DEF Apart, Phases
  <2>8. startMs' = startMs /\ lastRun' = lastRun
    BY <1>1 DEF Pass
  <2> QED
    BY <2>1, <2>3, <2>4, <2>5, <2>7, <2>8 DEF NotDueAt
<1>2. CASE SetClock
  BY <1>2 DEF SetClock
<1>3. ASSUME NEW c \in Callers, HandlerStep(c) PROVE NotDueAt(steady)'
  <2> DEFINE Same == /\ steady' = steady /\ now' = now /\ startMs' = startMs /\ lastRun' = lastRun
                     /\ \A b \in Callers : pc[b] # "run"
  <2>0. Same => NotDueAt(steady)'
    BY DEF WasNotDue, NotDueAt
  <2>00. \A s \in Int, last \in Ticks :
           /\ now' = now /\ startMs' = s /\ lastRun' = last /\ steady' = 0
           /\ Elapsed(TickAt(t, s), last) < Period
           => NotDueAt(steady)'
    <3>1. Apart(t, 0, t)
      BY DEF Apart, Phases
    <3> QED
      BY <1>0, <3>1 DEF NotDueAt
  <2>1. CASE Enter(c)
    <3>1. Same
      BY <2>1 DEF Enter, Goto, clock, history, TypeOK
    <3> QED
      BY <2>0, <3>1
  <2>2. CASE Claim(c)
    <3>1. Same
      BY <2>2 DEF Claim, Goto, clock, TypeOK
    <3> QED
      BY <2>0, <3>1
  <2>3. CASE Exec(c)
    <3>1. \A b \in Callers : pc[b] # "run"
      BY <2>3 DEF Exec, Goto, TypeOK
    <3>2. ~(Elapsed(Tick, lastRun) >= Period)
      BY <2>3 DEF Exec, Goto, TypeOK
    <3>3. CASE Start # startMs \/ steady < 0
      <4>1. PICK s \in Int : s = Start
        BY TickTypes
      <4>2. PICK last \in Ticks : last = lastRun
        BY DEF TypeOK
      <4>3. Elapsed(TickAt(t, s), last) < Period
        <5>1. TickAt(t, s) \in Ticks
          BY TickIs
        <5>2. Elapsed(TickAt(t, s), last) \in Int
          BY <5>1, ElapsedIs, WideFacts DEF Ticks
        <5> QED
          BY <1>0, <3>2, <4>1, <4>2, <5>2, TimersAssumption DEF Tick
      <4> QED
        BY <2>3, <2>00, <3>3, <4>1, <4>2, <4>3 DEF Exec, GetTick
    <3>4. CASE ~(Start # startMs \/ steady < 0)
      <4>1. Same
        BY <2>3, <3>1, <3>4 DEF Exec, GetTick
      <4> QED
        BY <2>0, <4>1
    <3> QED
      BY <3>3, <3>4
  <2>4. CASE Run(c)
    <3>1. PICK s \in Int : s = Start
      BY TickTypes
    <3>2. lastRun' = TickAt(t, s) /\ TickAt(t, s) \in Ticks
      BY <1>0, <2>4, <3>1, TickIs DEF Run, Tick
    <3>3. Elapsed(TickAt(t, s), TickAt(t, s)) < Period
      BY <3>2, ElapsedNone, TimersAssumption
    <3> QED
      BY <2>4, <2>00, <3>1, <3>2, <3>3 DEF Run, GetTick
  <2>5. CASE Leave(c)
    <3>1. Same
      BY <2>5 DEF Leave, Goto, clock, TypeOK
    <3> QED
      BY <2>0, <3>1
  <2>6. CASE Glance(c)
    <3>1. steady' # -1
      OBVIOUS
    <3>2. Start = startMs /\ steady' = steady
      BY <2>6, <3>1 DEF Glance
    <3>3. Same
      BY <2>6, <3>2 DEF Glance, GetTick
    <3> QED
      BY <2>0, <3>3
  <2> QED
    BY <1>3, <2>1, <2>2, <2>3, <2>4, <2>5, <2>6 DEF HandlerStep
<1> QED
  BY <1>1, <1>2, <1>3 DEF Next

LEMMA LateInvHolds == Spec => []LateInv
<1>1. Init => LateInv
  BY InitTypes, InitAlone, InitWasNotDue DEF LateInv
<1>2. LateInv /\ Next => LateInv'
  BY NextTypes, NextAlone, NextWasNotDue DEF LateInv
<1>3. LateInv /\ UNCHANGED vars => LateInv'
  BY DEF vars, clock, history, LateInv, TypeOK, Alone, Inside, WasNotDue, NotDueAt
<1>4. LateInv /\ [Next]_vars => LateInv'
  BY <1>2, <1>3
<1> QED
  BY <1>1, <1>4, PTL DEF Spec

\* lv_timer_exec runs a timer that is a period and a millisecond overdue, at any
\* phase of the time of day, if only one caller is in lv_timer_handler.
THEOREM LateSafe == Spec => NeverLate
<1>1. LateInv /\ [Next]_vars =>
        [\A c \in Callers :
          /\ Exec(c) /\ startMs' = startMs /\ ~raced
          /\ steady >= (Period + 1) * Milli /\ steady < Away
          => pc'[c] = "run"]_vars
  <2> SUFFICES ASSUME LateInv, NEW c \in Callers, Exec(c), startMs' = startMs, ~raced,
                      steady >= (Period + 1) * Milli, steady < Away
               PROVE  pc'[c] = "run"
    OBVIOUS
  <2> USE DEF LateInv
  <2>1. pc[c] = "exec" /\ Start = startMs
    BY DEF Exec, Goto, GetTick
  <2>2. \A b \in Callers : pc[b] # "run"
    BY <2>1 DEF Alone, Inside
  <2>3. steady \in Nat
    BY WidthsAssumption, TimersAssumption DEF TypeOK
  <2>4. PICK t \in Phases : t = now
    BY DEF TypeOK
  <2>5. PICK s \in Int : s = startMs
    BY <2>1, TickTypes
  <2>6. PICK last \in Ticks : last = lastRun
    BY DEF TypeOK
  <2>7. PICK d \in Nat : d = steady
    BY <2>3
  <2>8. PICK u \in Phases : Apart(u, d, t) /\ Elapsed(TickAt(u, s), last) < Period
    BY <2>2, <2>3, <2>4, <2>5, <2>6, <2>7 DEF WasNotDue, NotDueAt
  <2>9. d >= (Period + 1) * Milli /\ d < Lap - (Period + 1) * Milli
    BY <2>7 DEF Away
  <2>10. Elapsed(TickAt(t, s), last) >= Period
    BY <2>8, <2>9, LateArithmetic, TimersAssumption
  <2>11. Elapsed(Tick, lastRun) >= Period
    BY <2>1, <2>4, <2>5, <2>6, <2>10 DEF Tick
  <2> QED
    BY <2>11 DEF Exec, Goto, TypeOK
<1> QED
  BY <1>1, LateInvHolds, PTL DEF Spec, NeverLate

=============================================================================

-------------------------- MODULE PriceHistoryProofs --------------------------
(***************************************************************************)
(* What the price tables and the indicators guarantee for series of every  *)
(* length, every choice of periods and every interleaving of the writers.  *)
(***************************************************************************)
EXTENDS PriceHistory, Induction, SequenceTheorems

-----------------------------------------------------------------------------
(* Sums *)

(* The prefix sums behind Total.                                            *)
SumStep(v, f) == [i \in 0..Len(v) |-> IF i = 0 THEN 0 ELSE f[i - 1] + v[i]]

Sums(v) == CHOOSE f : f = SumStep(v, f)

LEMMA TotalUnfolds ==
    ASSUME NEW v
    PROVE  Total(v) = Sums(v)[Len(v)]
BY DEF Total, Sums, SumStep

LEMMA Element ==
    ASSUME NEW S, NEW v \in Seq(S)
    PROVE  Len(v) \in Nat /\ DOMAIN v = 1..Len(v) /\ \A i \in 1..Len(v) : v[i] \in S
OBVIOUS

LEMMA SumsRecursion ==
    ASSUME NEW v \in Seq(Int)
    PROVE  /\ Sums(v)[0] = 0
           /\ \A i \in 1..Len(v) : Sums(v)[i] = Sums(v)[i - 1] + v[i]
           /\ \A i \in 0..Len(v) : Sums(v)[i] \in Int
<1>1. PICK n \in Nat : n = Len(v)
  BY Element
<1>2. \A i \in 1..n : v[i] \in Int
  BY <1>1, Element
<1> DEFINE g == [p \in (1..n) \X Int |-> p[2] + v[p[1]]]
<1>3. g \in [(1..n) \X Int -> Int]
  BY <1>2
<1>4. \A i \in 1..n, x \in Int : g[<<i, x>>] = x + v[i]
  OBVIOUS
<1> HIDE DEF g
<1>5. PICK f : Unfolds(f, n, Int, 0, g)
  <2>1. 0 \in Int
    OBVIOUS
  <2>2. QED
    BY <1>1, <1>3, <2>1, RecursionUpTo
<1>6. f = SumStep(v, f)
  <2>1. /\ f \in [0..n -> Int] /\ f[0] = 0
        /\ \A i \in 1..n : f[i] = g[<<i, f[i - 1]>>]
    BY <1>5 DEF Unfolds
  <2>2. ASSUME NEW i \in 0..n
        PROVE  f[i] = IF i = 0 THEN 0 ELSE f[i - 1] + v[i]
    <3>1. CASE i = 0
      BY <2>1, <3>1
    <3>2. CASE i # 0
      <4>1. i \in 1..n /\ i - 1 \in 0..n
        BY <1>1, <3>2
      <4>2. f[i - 1] \in Int
        BY <2>1, <4>1
      <4>3. QED
        BY <1>4, <2>1, <3>2, <4>1, <4>2
    <3>3. QED
      BY <3>1, <3>2
  <2>3. QED
    BY <1>1, <2>1, <2>2 DEF SumStep
<1>7. Sums(v) = SumStep(v, Sums(v))
  BY <1>6 DEF Sums
<1>8. /\ Sums(v)[0] = 0
      /\ \A i \in 1..n : Sums(v)[i] = Sums(v)[i - 1] + v[i]
  BY <1>1, <1>7 DEF SumStep
<1>9. \A i \in 0..n : Sums(v)[i] \in Int
  <2>1. \A i \in 1..n : Sums(v)[i - 1] \in Int => Sums(v)[i] \in Int
    BY <1>2, <1>8
  <2>2. Sums(v)[0] \in Int
    BY <1>8
  <2>3. QED
    BY <1>1, <2>1, <2>2, RecursionTyped
<1>10. QED
  BY <1>1, <1>8, <1>9

LEMMA TotalTyped ==
    ASSUME NEW v \in Seq(Int)
    PROVE  Total(v) \in Int
BY SumsRecursion, TotalUnfolds, Element

(* A sum of what is nowhere less is not less.                               *)
LEMMA TotalMonotone ==
    ASSUME NEW v \in Seq(Int), NEW w \in Seq(Int), Len(v) = Len(w),
           \A i \in 1..Len(v) : v[i] <= w[i]
    PROVE  Total(v) <= Total(w)
<1>1. PICK n \in Nat : n = Len(v) /\ n = Len(w)
  BY Element
<1> DEFINE S == {i \in 0..n : Sums(v)[i] <= Sums(w)[i]}
<1>2. 0 \in S
  BY <1>1, SumsRecursion
<1>3. ASSUME NEW i \in 0..n, i \in S, i + 1 \in 0..n
      PROVE  i + 1 \in S
  <2>1. i + 1 \in 1..n /\ (i + 1) - 1 = i
    BY <1>3
  <2>2. /\ Sums(v)[i + 1] = Sums(v)[i] + v[i + 1]
        /\ Sums(w)[i + 1] = Sums(w)[i] + w[i + 1]
    BY <1>1, <2>1, SumsRecursion
  <2>3. /\ Sums(v)[i] \in Int /\ Sums(w)[i] \in Int
        /\ v[i + 1] \in Int /\ w[i + 1] \in Int
    BY <1>1, <2>1, SumsRecursion, Element
  <2>4. v[i + 1] <= w[i + 1] /\ Sums(v)[i] <= Sums(w)[i]
    BY <1>1, <1>3, <2>1
  <2>5. Sums(v)[i + 1] <= Sums(w)[i + 1]
    BY <2>2, <2>3, <2>4
  <2>6. QED
    BY <1>3, <2>5
<1> HIDE DEF S
<1>4. 0..n \subseteq S
  BY <1>2, <1>3, UpToByInduction
<1>5. Sums(v)[n] <= Sums(w)[n]
  BY <1>4 DEF S
<1>6. QED
  BY <1>1, <1>5, TotalUnfolds

(* What only grows adds up to nothing negative.                             *)
LEMMA TotalNotNegative ==
    ASSUME NEW v \in Seq(Int), \A i \in 1..Len(v) : v[i] >= 0
    PROVE  Total(v) >= 0
<1>1. PICK n \in Nat : n = Len(v)
  BY Element
<1>2. \A i \in 1..n : v[i] \in Nat
  BY <1>1, Element
<1>3. \A i \in 1..n : Sums(v)[i - 1] \in Nat => Sums(v)[i] \in Nat
  <2>1. \A i \in 1..n : Sums(v)[i] = Sums(v)[i - 1] + v[i]
    BY <1>1, SumsRecursion
  <2>2. QED
    BY <1>2, <2>1
<1>4. Sums(v)[0] \in Nat
  BY SumsRecursion
<1>5. Sums(v)[n] \in Nat
  <2>1. \A i \in 0..n : Sums(v)[i] \in Nat
    BY <1>1, <1>3, <1>4, RecursionTyped
  <2>2. QED
    BY <1>1, <2>1
<1>6. QED
  BY <1>1, <1>5, TotalUnfolds

(* The ups and downs of a walk add up to where it went.                     *)
LEMMA TotalsOfWalk ==
    ASSUME NEW n \in Nat,
           NEW up \in Seq(Int), NEW down \in Seq(Int), NEW walk \in Seq(Int),
           Len(up) = n, Len(down) = n, Len(walk) = n + 1,
           \A i \in 1..n : up[i] - down[i] = walk[i + 1] - walk[i]
    PROVE  Total(up) - Total(down) = walk[n + 1] - walk[1]
<1>1. n = Len(up) /\ n = Len(down) /\ Len(walk) = n + 1
  OBVIOUS
<1> DEFINE S == {i \in 0..n : Sums(up)[i] - Sums(down)[i] = walk[i + 1] - walk[1]}
<1>2. 0 \in S
  <2>1. walk[1] \in Int /\ Sums(up)[0] = 0 /\ Sums(down)[0] = 0
    BY <1>1, SumsRecursion, Element
  <2>2. QED
    BY <2>1
<1>3. ASSUME NEW i \in 0..n, i \in S, i + 1 \in 0..n
      PROVE  i + 1 \in S
  <2>1. i + 1 \in 1..n /\ (i + 1) - 1 = i
    BY <1>3
  <2>2. /\ Sums(up)[i + 1] = Sums(up)[i] + up[i + 1]
        /\ Sums(down)[i + 1] = Sums(down)[i] + down[i + 1]
    BY <1>1, <2>1, SumsRecursion
  <2>3. /\ Sums(up)[i] \in Int /\ Sums(down)[i] \in Int
        /\ up[i + 1] \in Int /\ down[i + 1] \in Int
    BY <1>1, <2>1, SumsRecursion, Element
  <2>4. walk[1] \in Int /\ walk[i + 1] \in Int /\ walk[(i + 1) + 1] \in Int
    BY <1>1, <2>1, Element
  <2>5. /\ up[i + 1] - down[i + 1] = walk[(i + 1) + 1] - walk[i + 1]
        /\ Sums(up)[i] - Sums(down)[i] = walk[i + 1] - walk[1]
    BY <1>1, <1>3, <2>1
  <2>6. Sums(up)[i + 1] - Sums(down)[i + 1] = walk[(i + 1) + 1] - walk[1]
    <3>1. PICK a \in Int, b \in Int, c \in Int :
              a = walk[1] /\ b = walk[i + 1] /\ c = walk[(i + 1) + 1]
      BY <2>4
    <3>2. PICK x \in Int, y \in Int, u \in Int, d \in Int :
              /\ x = Sums(up)[i] /\ y = Sums(down)[i]
              /\ u = up[i + 1] /\ d = down[i + 1]
      BY <2>3
    <3>3. u - d = c - b /\ x - y = b - a
      BY <2>5, <3>1, <3>2
    <3>4. (x + u) - (y + d) = c - a
      BY <3>3
    <3>5. QED
      BY <2>2, <3>1, <3>2, <3>4
  <2>7. QED
    BY <1>3, <2>6
<1> HIDE DEF S
<1>4. 0..n \subseteq S
  BY <1>2, <1>3, UpToByInduction
<1>5. Sums(up)[n] - Sums(down)[n] = walk[n + 1] - walk[1]
  BY <1>4 DEF S
<1>6. QED
  BY <1>1, <1>5, TotalUnfolds

-----------------------------------------------------------------------------
(* Indicators *)

(* Each weight is one of three, and the two that share an average oppose.    *)
LEMMA WeightsTyped ==
    ASSUME NEW v \in Seq(Int)
    PROVE  /\ TrendWeight(v) \in {-3, 0, 3}
           /\ MacdWeight(v) \in {-3, 0, 3}
           /\ BandsWeight(v) \in {-2, 0, 2}
           /\ BandsWeight(v) = 2 => TrendWeight(v) = -3
           /\ BandsWeight(v) = -2 => TrendWeight(v) = 3
<1>1. Len(v) \in Nat /\ SmaPeriod \in Nat
  BY PeriodsAssumption
<1>2. CASE Len(v) < SmaPeriod
  <2>1. TrendWeight(v) = 0 /\ BandsWeight(v) = 0
    BY <1>1, <1>2 DEF TrendWeight, BandsWeight
  <2>2. MacdWeight(v) \in {-3, 0, 3}
    BY DEF MacdWeight
  <2>3. QED
    BY <2>1, <2>2
<1>3. CASE Len(v) >= SmaPeriod
  <2>1. MacdWeight(v) \in {-3, 0, 3}
    BY DEF MacdWeight
  <2>2. TrendWeight(v) = IF AboveAverage(v, SmaPeriod) THEN 3 ELSE -3
    BY <1>1, <1>3 DEF TrendWeight
  <2>3. BandsWeight(v) = IF ~OutsideBands(v, SmaPeriod) THEN 0
                         ELSE IF AboveAverage(v, SmaPeriod) THEN -2 ELSE 2
    BY <1>1, <1>3 DEF BandsWeight
  <2>4. QED
    BY <2>1, <2>2, <2>3
<1>4. QED
  BY <1>1, <1>2, <1>3

(* pipeline.rs:264-333: trend, MACD and bands alone stay within the          *)
(* threshold of a verdict, for the bands speak against the trend whenever   *)
(* they speak at all; beyond it the RSI has spoken.                         *)
THEOREM ScoreNeedsRsi ==
    ASSUME NEW v \in Seq(Int), TechnicalScore(v) \notin -7..7
    PROVE  RsiWeight(v) # 0
<1>1. SUFFICES ASSUME RsiWeight(v) = 0
               PROVE  FALSE
  OBVIOUS
<1> DEFINE t == TrendWeight(v)
           m == MacdWeight(v)
           b == BandsWeight(v)
<1>2. /\ t \in {-3, 0, 3} /\ m \in {-3, 0, 3} /\ b \in {-2, 0, 2}
      /\ b = 2 => t = -3
      /\ b = -2 => t = 3
  BY WeightsTyped
<1>3. TechnicalScore(v) = 0 + t + m + b
  BY <1>1 DEF TechnicalScore
<1> HIDE DEF t, m, b
<1>4. 0 + t + m + b \in -7..7
  BY <1>2
<1>5. QED
  BY <1>3, <1>4

(* The maximum of three integers is one of them and no less than the others. *)
LEMMA MaxOfThree ==
    ASSUME NEW a \in Int, NEW b \in Int, NEW c \in Int
    PROVE  /\ Max({a, b, c}) \in {a, b, c}
           /\ Max({a, b, c}) >= a /\ Max({a, b, c}) >= b /\ Max({a, b, c}) >= c
<1>1. \E x \in {a, b, c} : \A y \in {a, b, c} : x >= y
  <2>1. CASE a >= b /\ a >= c
    BY <2>1
  <2>2. CASE b >= a /\ b >= c
    BY <2>2
  <2>3. CASE c >= a /\ c >= b
    BY <2>3
  <2>4. QED
    BY <2>1, <2>2, <2>3
<1>2. QED
  BY <1>1 DEF Max

(* indicators.rs:110-129, why the real range of a day is never less than     *)
(* what two closes show of it, if the day closed between its low and its     *)
(* high: the gap to the close before is in the high's or in the low's.       *)
THEOREM TrueRangeSeesGap ==
    ASSUME NEW bar, NEW previous, bar.high \in Int, bar.low \in Int,
           bar.close \in Int, previous.close \in Int,
           bar.low <= bar.close, bar.close <= bar.high
    PROVE  /\ TrueRange(bar, previous) \in Int
           /\ TrueRange(bar, previous) >= Gap(bar.close - previous.close)
<1>1. PICK high \in Int, low \in Int, close \in Int, before \in Int :
           /\ high = bar.high /\ low = bar.low /\ close = bar.close
           /\ before = previous.close
  OBVIOUS
<1>2. PICK x \in Int, y \in Int, z \in Int :
           x = high - low /\ y = Gap(high - before) /\ z = Gap(low - before)
  <2>1. high - low \in Int /\ Gap(high - before) \in Int /\ Gap(low - before) \in Int
    BY DEF Gap
  <2>2. QED
    BY <2>1
<1>3. TrueRange(bar, previous) = Max({x, y, z})
  BY <1>1, <1>2 DEF TrueRange
<1>4. PICK range \in Int : /\ range = Max({x, y, z})
                           /\ range >= x /\ range >= y /\ range >= z
  <2>1. /\ Max({x, y, z}) \in {x, y, z}
        /\ Max({x, y, z}) >= x /\ Max({x, y, z}) >= y /\ Max({x, y, z}) >= z
    BY MaxOfThree
  <2>2. QED
    BY <2>1
<1>5. Gap(close - before) <= y \/ Gap(close - before) <= z
  BY <1>1, <1>2 DEF Gap
<1>6. Gap(close - before) \in Int
  BY DEF Gap
<1>7. QED
  BY <1>1, <1>3, <1>4, <1>5, <1>6

LEMMA BarsTyped ==
    ASSUME NEW bar \in Bars
    PROVE  /\ bar.high \in Int /\ bar.low \in Int /\ bar.close \in Int
           /\ bar.close \in Prices
           /\ bar.low <= bar.close /\ bar.close <= bar.high
<1>1. bar \in [high : Nat, low : Nat, close : Prices] /\ Prices \subseteq Nat
  BY HistoryAssumption
<1>2. bar.high \in Nat /\ bar.low \in Nat /\ bar.close \in Prices /\ bar.close \in Nat
  BY <1>1
<1>3. bar.low <= bar.close /\ bar.close <= bar.high
  BY HistoryAssumption
<1>4. QED
  BY <1>2, <1>3

-----------------------------------------------------------------------------
(* Windows of a series *)

LEMMA WindowOf ==
    ASSUME NEW S, NEW v \in Seq(S), NEW n \in Nat, n <= Len(v)
    PROVE  /\ Window(v, n) \in Seq(S) /\ Len(Window(v, n)) = n
           /\ \A i \in 1..n : Window(v, n)[i] = v[Len(v) - n + i]
<1>1. PICK m \in Nat : m = Len(v)
  BY Element
<1>2. \A i \in m - n + 1..m : v[i] \in S
  <2>1. \A i \in m - n + 1..m : i \in 1..m
    BY <1>1
  <2>2. QED
    BY <1>1, <2>1, Element
<1>3. m - n + 1 \in Int /\ m \in Int /\ m - (m - n + 1) + 1 = n
  BY <1>1
<1>4. /\ SubSeq(v, m - n + 1, m) \in Seq(S)
      /\ Len(SubSeq(v, m - n + 1, m))
            = IF m - n + 1 <= m THEN m - (m - n + 1) + 1 ELSE 0
      /\ \A i \in 1..m - (m - n + 1) + 1 :
            SubSeq(v, m - n + 1, m)[i] = v[(m - n + 1) + i - 1]
  BY <1>2, <1>3, SubSeqProperties
<1>5. Len(SubSeq(v, m - n + 1, m)) = n
  BY <1>1, <1>3, <1>4
<1>6. ASSUME NEW i \in 1..n
      PROVE  SubSeq(v, m - n + 1, m)[i] = v[m - n + i]
  <2>1. (m - n + 1) + i - 1 = m - n + i
    BY <1>1
  <2>2. QED
    BY <1>3, <1>4, <2>1
<1>7. QED
  BY <1>1, <1>4, <1>5, <1>6 DEF Window

(* The changes over the last n days, and the first of these days.           *)
LEMMA ChangesOf ==
    ASSUME NEW v \in Seq(Int), NEW n \in Nat, n < Len(v),
           NEW moves, moves = Changes(Window(v, n + 1))
    PROVE  /\ moves \in Seq(Int) /\ Len(moves) = n /\ DOMAIN moves = 1..n
           /\ \A i \in 1..n : moves[i] = Window(v, n + 1)[i + 1] - Window(v, n + 1)[i]
           /\ Window(v, n + 1) \in Seq(Int) /\ Len(Window(v, n + 1)) = n + 1
           /\ Window(v, n + 1)[1] = v[Len(v) - n]
           /\ Window(v, n + 1)[n + 1] = v[Len(v)]
<1>1. PICK m \in Nat : m = Len(v)
  BY Element
<1>2. PICK w \in Seq(Int) : w = Window(v, n + 1)
  <2>1. n + 1 \in Nat /\ n + 1 <= Len(v)
    BY <1>1
  <2>2. QED
    BY <2>1, WindowOf
<1>3. /\ Len(w) = n + 1 /\ DOMAIN w = 1..n + 1
      /\ \A i \in 1..n + 1 : w[i] = v[m - (n + 1) + i] /\ w[i] \in Int
  <2>1. n + 1 \in Nat /\ n + 1 <= Len(v)
    BY <1>1
  <2>2. Len(w) = n + 1 /\ \A i \in 1..n + 1 : w[i] = v[m - (n + 1) + i]
    BY <1>1, <1>2, <2>1, WindowOf
  <2>3. QED
    BY <2>2, Element
<1>4. moves = [i \in 1..n |-> w[i + 1] - w[i]]
  BY <1>2, <1>3 DEF Changes
<1>5. ASSUME NEW i \in 1..n
      PROVE  w[i + 1] - w[i] \in Int
  <2>1. i \in 1..n + 1 /\ i + 1 \in 1..n + 1
    OBVIOUS
  <2>2. w[i] \in Int /\ w[i + 1] \in Int
    BY <1>3, <2>1
  <2>3. QED
    BY <2>2
<1>6. moves \in Seq(Int) /\ Len(moves) = n /\ DOMAIN moves = 1..n
  BY <1>4, <1>5
<1>7. w[1] = v[m - n] /\ w[n + 1] = v[m]
  <2>1. /\ 1 \in 1..n + 1 /\ n + 1 \in 1..n + 1
        /\ m - (n + 1) + 1 = m - n /\ m - (n + 1) + (n + 1) = m
    BY <1>1
  <2>2. QED
    BY <1>3, <2>1
<1>8. QED
  BY <1>1, <1>2, <1>3, <1>4, <1>6, <1>7

(* indicators.rs:75-97, what the window gained and lost adds up to what the  *)
(* price did over it.                                                       *)
LEMMA RsiBalance ==
    ASSUME NEW v \in Seq(Int), NEW n \in Nat, n < Len(v)
    PROVE  /\ Rsi(v, n).gains \in Nat /\ Rsi(v, n).losses \in Nat
           /\ Rsi(v, n).gains - Rsi(v, n).losses = v[Len(v)] - v[Len(v) - n]
<1> DEFINE moves == Changes(Window(v, n + 1))
           up == [i \in DOMAIN moves |-> IF moves[i] > 0 THEN moves[i] ELSE 0]
           down == [i \in DOMAIN moves |-> IF moves[i] > 0 THEN 0 ELSE -moves[i]]
           w == Window(v, n + 1)
<1>1. /\ moves \in Seq(Int) /\ Len(moves) = n /\ DOMAIN moves = 1..n
      /\ \A i \in 1..n : moves[i] = w[i + 1] - w[i]
      /\ w \in Seq(Int) /\ Len(w) = n + 1
      /\ w[1] = v[Len(v) - n] /\ w[n + 1] = v[Len(v)]
  BY ChangesOf
<1>2. Rsi(v, n).gains = Total(up) /\ Rsi(v, n).losses = Total(down)
  BY DEF Rsi
<1> HIDE DEF moves, w
<1>3. \A i \in 1..n : moves[i] \in Int
  BY <1>1, Element
<1>4. /\ up = [i \in 1..n |-> IF moves[i] > 0 THEN moves[i] ELSE 0]
      /\ down = [i \in 1..n |-> IF moves[i] > 0 THEN 0 ELSE -moves[i]]
  BY <1>1
<1> HIDE DEF up, down
<1>5. \A i \in 1..n : /\ up[i] \in Int /\ up[i] >= 0
                      /\ down[i] \in Int /\ down[i] >= 0
                      /\ up[i] - down[i] = moves[i]
  BY <1>3, <1>4
<1>6. /\ up \in Seq(Int) /\ Len(up) = n
      /\ down \in Seq(Int) /\ Len(down) = n
  BY <1>4, <1>5
<1>7. Total(up) \in Int /\ Total(down) \in Int /\ Total(up) >= 0 /\ Total(down) >= 0
  BY <1>5, <1>6, TotalTyped, TotalNotNegative
<1>8. Total(up) - Total(down) = w[n + 1] - w[1]
  <2>1. \A i \in 1..n : up[i] - down[i] = w[i + 1] - w[i]
    BY <1>1, <1>5
  <2>2. QED
    BY <1>1, <1>6, <2>1, TotalsOfWalk
<1>9. QED
  BY <1>1, <1>2, <1>7, <1>8

(* pipeline.rs:264-279, an RSI that speaks for a purchase has seen the price *)
(* fall over its window, and one that speaks against has not, for series of  *)
(* every length and every period.                                           *)
THEOREM RsiSeesTheTrend ==
    ASSUME NEW v \in Seq(Int), Len(v) > RsiPeriod
    PROVE  /\ RsiWeight(v) = 6 => v[Len(v)] < v[Len(v) - RsiPeriod]
           /\ RsiWeight(v) = -6 => v[Len(v)] >= v[Len(v) - RsiPeriod]
<1>1. PICK n \in Nat, m \in Nat : n = RsiPeriod /\ m = Len(v) /\ n < m
  BY PeriodsAssumption, Element
<1>2. PICK gains \in Nat, losses \in Nat, first \in Int, last \in Int :
          /\ gains = Rsi(v, n).gains /\ losses = Rsi(v, n).losses
          /\ first = v[m - n] /\ last = v[m]
  <2>1. m - n \in 1..m /\ m \in 1..m
    BY <1>1, PeriodsAssumption
  <2>2. v[m - n] \in Int /\ v[m] \in Int
    BY <1>1, <2>1, Element
  <2>3. QED
    BY <1>1, <2>2, RsiBalance
<1>3. gains - losses = last - first
  BY <1>1, <1>2, RsiBalance
<1>4. ASSUME RsiWeight(v) = 6
      PROVE  last < first
  <2>1. losses # 0 /\ gains * 70 < 30 * losses
    BY <1>1, <1>2, <1>4 DEF RsiWeight, Below
  <2>2. QED
    BY <1>3, <2>1
<1>5. ASSUME RsiWeight(v) = -6
      PROVE  last >= first
  <2>1. losses = 0 \/ gains * 25 > 75 * losses
    BY <1>1, <1>2, <1>5 DEF RsiWeight, Above
  <2>2. QED
    BY <1>3, <2>1
<1>6. QED
  BY <1>1, <1>2, <1>4, <1>5

(* indicators.rs:99-131, the average true range of a series of bars is at    *)
(* least what their closes alone show, over every period they cover.        *)
THEOREM AtrAtLeastCloses ==
    ASSUME NEW b \in Seq(Bars), NEW n \in Nat, n < Len(b)
    PROVE  Atr(b, n) >= AtrFromCloses([i \in DOMAIN b |-> b[i].close], n)
<1>1. PICK m \in Nat : m = Len(b) /\ DOMAIN b = 1..m /\ \A i \in 1..m : b[i] \in Bars
  BY Element
<1>2. \A bar \in Bars : /\ bar.high \in Int /\ bar.low \in Int /\ bar.close \in Int
                        /\ bar.low <= bar.close /\ bar.close <= bar.high
  BY BarsTyped
<1> DEFINE closes == [i \in DOMAIN b |-> b[i].close]
           last == Window(b, n + 1)
           ranges == [i \in 1..n |-> TrueRange(last[i + 1], last[i])]
           moves == Changes(Window(closes, n + 1))
           gaps == [i \in DOMAIN moves |-> Gap(moves[i])]
<1>3. closes \in Seq(Int) /\ Len(closes) = m
  BY <1>1, <1>2
<1>4. Atr(b, n) = Total(ranges) /\ AtrFromCloses(closes, n) = Total(gaps)
  BY DEF Atr, AtrFromCloses
<1> HIDE DEF closes
<1>5. \A i \in 1..n + 1 : last[i] \in Bars /\ Window(closes, n + 1)[i] = last[i].close
  <2>1. n + 1 \in Nat /\ n + 1 <= m
    BY <1>1
  <2>2. \A i \in 1..n + 1 : last[i] = b[m - (n + 1) + i]
    BY <1>1, <2>1, WindowOf
  <2>3. \A i \in 1..n + 1 : Window(closes, n + 1)[i] = closes[m - (n + 1) + i]
    BY <1>3, <2>1, WindowOf
  <2>4. \A i \in 1..n + 1 : m - (n + 1) + i \in 1..m
    BY <2>1
  <2>5. QED
    BY <1>1, <2>2, <2>3, <2>4 DEF closes
<1>6. /\ moves \in Seq(Int) /\ Len(moves) = n /\ DOMAIN moves = 1..n
      /\ \A i \in 1..n : moves[i] = Window(closes, n + 1)[i + 1] - Window(closes, n + 1)[i]
  BY <1>1, <1>3, ChangesOf
<1> HIDE DEF last, moves
<1>7. ASSUME NEW i \in 1..n
      PROVE  /\ TrueRange(last[i + 1], last[i]) \in Int
             /\ Gap(moves[i]) \in Int
             /\ Gap(moves[i]) <= TrueRange(last[i + 1], last[i])
  <2>1. i \in 1..n + 1 /\ i + 1 \in 1..n + 1
    OBVIOUS
  <2>2. PICK bar \in Bars, previous \in Bars : bar = last[i + 1] /\ previous = last[i]
    BY <1>5, <2>1
  <2>3. moves[i] = bar.close - previous.close
    BY <1>5, <1>6, <2>1, <2>2
  <2>4. /\ TrueRange(bar, previous) \in Int
        /\ TrueRange(bar, previous) >= Gap(bar.close - previous.close)
    BY <1>2, TrueRangeSeesGap
  <2>5. Gap(bar.close - previous.close) \in Int
    BY <1>2 DEF Gap
  <2>6. QED
    BY <2>2, <2>3, <2>4, <2>5
<1>8. /\ ranges \in Seq(Int) /\ Len(ranges) = n
      /\ gaps \in Seq(Int) /\ Len(gaps) = n
      /\ \A i \in 1..n : gaps[i] <= ranges[i]
  BY <1>6, <1>7
<1> HIDE DEF ranges, gaps
<1>9. Total(gaps) <= Total(ranges) /\ Total(gaps) \in Int /\ Total(ranges) \in Int
  BY <1>8, TotalMonotone, TotalTyped
<1>10. Atr(b, n) >= AtrFromCloses(closes, n)
  BY <1>4, <1>9
<1>11. QED
  BY <1>10 DEF closes

-----------------------------------------------------------------------------
(* Averages that are rolled forward *)

(* Products keep the order of what is multiplied.                            *)
LEMMA TimesKeepsOrder ==
    ASSUME NEW n \in Nat, NEW a \in Int, NEW b \in Int
    PROVE  /\ a <= b => n * a <= n * b
           /\ n > 0 => (a < b <=> n * a < n * b)
OBVIOUS

(* A factor apart, and what is in between.                                   *)
LEMMA BetweenProducts ==
    ASSUME NEW n \in Nat \ {0}, NEW a \in Int, NEW b \in Int, NEW s \in Int
    PROVE  /\ n * a <= s /\ s < n * (b + 1) => a <= b
           /\ n * a <= s /\ s <= n * b => a <= b
<1>1. PICK y \in Int, z \in Int : y = n * a /\ z = n * b
  OBVIOUS
<1>2. n * (b + 1) = z + n
  BY <1>1
<1>3. b < a => n * (b + 1) <= n * a
  BY TimesKeepsOrder
<1>4. b < a => n * b < n * a
  BY TimesKeepsOrder
<1>5. QED
  BY <1>1, <1>2, <1>3, <1>4

LEMMA AtLeastOnce ==
    ASSUME NEW s \in Int, NEW u \in Nat, s <= u, NEW n \in Nat \ {0}
    PROVE  s <= u * n
<1>1. u * 1 <= u * n
  BY TimesKeepsOrder
<1>2. PICK z \in Int : z = u * n
  OBVIOUS
<1>3. QED
  BY <1>1, <1>2

LEMMA SquaresGrow ==
    ASSUME NEW n \in Nat, NEW k \in Nat, k <= n
    PROVE  k * k \in Int /\ n * n \in Int /\ k * k <= n * n
OBVIOUS

(* A quotient is rounded down.                                              *)
LEMMA RoundedDown ==
    ASSUME NEW a \in Int, NEW n \in Nat \ {0}
    PROVE  /\ a \div n \in Int
           /\ n * (a \div n) <= a
           /\ a < n * ((a \div n) + 1)
OBVIOUS

(* The longer the period of an average, the less it keeps of a difference.   *)
LEMMA LongerKeepsMore ==
    ASSUME NEW p \in Nat \ {0}, NEW q \in Nat, p <= q, NEW c \in Nat, NEW e \in Int
    PROVE  /\ (p + 1) * e < (p - 1) * c => (q + 1) * e < (q - 1) * c
           /\ (p + 1) * e <= (p - 1) * c => (q + 1) * e <= (q - 1) * c
<1>1. PICK x \in Int, y \in Int : x = (p + 1) * e /\ y = (p - 1) * c
  OBVIOUS
<1>2. PICK u \in Int, w \in Int : u = (q + 1) * e /\ w = (q - 1) * c
  OBVIOUS
<1>3. (q + 1) * x = (p + 1) * u
  BY <1>1, <1>2
<1>4. (q + 1) * y <= (p + 1) * w
  <2>1. (q + 1) * y = (p * q - q + p - 1) * c
    BY <1>1
  <2>2. (p + 1) * w = (p * q + q - p - 1) * c
    BY <1>2
  <2>3. PICK a \in Int : a = p * q
    OBVIOUS
  <2>4. a - q + p - 1 <= a + q - p - 1
    BY <2>3
  <2>5. (a - q + p - 1) * c <= (a + q - p - 1) * c
    BY <2>4
  <2>6. QED
    BY <2>1, <2>2, <2>3, <2>5
<1>5. ASSUME x < y
      PROVE  u < w
  <2>1. (q + 1) * x < (q + 1) * y
    BY <1>5, TimesKeepsOrder
  <2>2. (p + 1) * u < (p + 1) * w
    BY <1>3, <1>4, <2>1
  <2>3. QED
    BY <2>2, TimesKeepsOrder
<1>6. ASSUME x <= y
      PROVE  u <= w
  <2>1. (q + 1) * x <= (q + 1) * y
    BY <1>6, TimesKeepsOrder
  <2>2. (p + 1) * u <= (p + 1) * w
    BY <1>3, <1>4, <2>1
  <2>3. ~((p + 1) * w < (p + 1) * u)
    BY <2>2
  <2>4. ~(w < u)
    BY <2>3, TimesKeepsOrder
  <2>5. QED
    BY <2>4
<1>7. QED
  BY <1>1, <1>2, <1>5, <1>6

(* The first n of a series add up to what the sums of all have at n.         *)
LEMMA HeadAddsUp ==
    ASSUME NEW v \in Seq(Int), NEW n \in 0..Len(v)
    PROVE  Total(SubSeq(v, 1, n)) = Sums(v)[n]
<1>1. PICK m \in Nat : m = Len(v) /\ n \in 0..m
  BY Element
<1>2. PICK head \in Seq(Int) : /\ head = SubSeq(v, 1, n) /\ Len(head) = n
                               /\ \A i \in 1..n : head[i] = v[i]
  <2>1. SubSeq(v, 1, n) \in Seq(Int) /\ Len(SubSeq(v, 1, n)) = n
    BY <1>1
  <2>2. \A i \in 1..n : SubSeq(v, 1, n)[i] = v[i]
    BY <1>1
  <2>3. QED
    BY <2>1, <2>2
<1> DEFINE S == {i \in 0..n : Sums(head)[i] = Sums(v)[i]}
<1>3. 0 \in S
  BY <1>1, SumsRecursion
<1>4. ASSUME NEW i \in 0..n, i \in S, i + 1 \in 0..n
      PROVE  i + 1 \in S
  <2>1. i + 1 \in 1..n /\ i + 1 \in 1..m /\ (i + 1) - 1 = i
    BY <1>1, <1>4
  <2>2. Sums(head)[i + 1] = Sums(head)[i] + head[i + 1]
    BY <1>2, <2>1, SumsRecursion
  <2>3. Sums(v)[i + 1] = Sums(v)[i] + v[i + 1]
    BY <1>1, <2>1, SumsRecursion
  <2>4. QED
    BY <1>2, <1>4, <2>1, <2>2, <2>3
<1> HIDE DEF S
<1>5. 0..n \subseteq S
  <2>1. n \in Nat
    BY <1>1
  <2>2. QED
    BY <1>3, <1>4, <2>1, UpToByInduction
<1>6. Sums(head)[n] = Sums(v)[n]
  BY <1>1, <1>5 DEF S
<1>7. QED
  BY <1>2, <1>6, TotalUnfolds

(* One roll: the value of the day and what the average was.                 *)
EmaStep(v, p, f) ==
    [i \in 0..Len(v) - p |->
        IF i = 0 THEN Total(SubSeq(v, 1, p)) \div p
                 ELSE (2 * v[p + i] + (p - 1) * f[i - 1]) \div (p + 1)]

Ema(v, p) == CHOOSE f : f = EmaStep(v, p, f)

LEMMA EmaUnfolds ==
    ASSUME NEW v, NEW p
    PROVE  EmaSeries(v, p) = [i \in 1..Len(v) - p + 1 |-> Ema(v, p)[i - 1]]
BY DEF EmaSeries, Ema, EmaStep

LEMMA EmaRecursion ==
    ASSUME NEW v \in Seq(Int), NEW p \in Nat \ {0}, p <= Len(v)
    PROVE  /\ Ema(v, p)[0] = Sums(v)[p] \div p
           /\ \A i \in 1..Len(v) - p :
                 Ema(v, p)[i] = (2 * v[p + i] + (p - 1) * Ema(v, p)[i - 1]) \div (p + 1)
           /\ \A i \in 0..Len(v) - p : Ema(v, p)[i] \in Int
<1>1. PICK m \in Nat, n \in Nat : m = Len(v) /\ n = Len(v) - p /\ n = m - p
  BY Element
<1>2. \A i \in 1..n : v[p + i] \in Int
  <2>1. \A i \in 1..n : p + i \in 1..m
    BY <1>1
  <2>2. QED
    BY <1>1, <2>1, Element
<1>3. PICK base \in Int : base = Sums(v)[p] \div p
  <2>1. Sums(v)[p] \in Int
    BY <1>1, SumsRecursion
  <2>2. QED
    BY <2>1, RoundedDown
<1>4. Total(SubSeq(v, 1, p)) = Sums(v)[p]
  BY <1>1, HeadAddsUp
<1> DEFINE g == [x \in (1..n) \X Int |-> (2 * v[p + x[1]] + (p - 1) * x[2]) \div (p + 1)]
<1>5. ASSUME NEW i \in 1..n, NEW x \in Int
      PROVE  (2 * v[p + i] + (p - 1) * x) \div (p + 1) \in Int
  <2>1. PICK y \in Int : y = v[p + i]
    BY <1>2
  <2>2. 2 * y + (p - 1) * x \in Int /\ p + 1 \in Nat \ {0}
    OBVIOUS
  <2>3. QED
    BY <2>1, <2>2, RoundedDown
<1>6. g \in [(1..n) \X Int -> Int]
  BY <1>5
<1>7. \A i \in 1..n, x \in Int : g[<<i, x>>] = (2 * v[p + i] + (p - 1) * x) \div (p + 1)
  OBVIOUS
<1> HIDE DEF g
<1>8. PICK f : Unfolds(f, n, Int, base, g)
  BY <1>6, RecursionUpTo
<1>9. f = EmaStep(v, p, f)
  <2>1. /\ f \in [0..n -> Int] /\ f[0] = base
        /\ \A i \in 1..n : f[i] = g[<<i, f[i - 1]>>]
    BY <1>8 DEF Unfolds
  <2>2. ASSUME NEW i \in 0..n
        PROVE  f[i] = IF i = 0 THEN base
                               ELSE (2 * v[p + i] + (p - 1) * f[i - 1]) \div (p + 1)
    <3>1. CASE i = 0
      BY <2>1, <3>1
    <3>2. CASE i # 0
      <4>1. i \in 1..n /\ i - 1 \in 0..n
        BY <1>1, <3>2
      <4>2. f[i - 1] \in Int
        BY <2>1, <4>1
      <4>3. f[i] = (2 * v[p + i] + (p - 1) * f[i - 1]) \div (p + 1)
        BY <1>7, <2>1, <4>1, <4>2
      <4>4. QED
        BY <3>2, <4>3
    <3>3. QED
      BY <3>1, <3>2
  <2>3. f = [i \in 0..n |-> IF i = 0 THEN base
                                     ELSE (2 * v[p + i] + (p - 1) * f[i - 1]) \div (p + 1)]
    BY <2>1, <2>2
  <2>4. QED
    BY <1>1, <1>3, <1>4, <2>3 DEF EmaStep
<1>10. Ema(v, p) = EmaStep(v, p, Ema(v, p))
  BY <1>9 DEF Ema
<1>11. PICK e : e = Ema(v, p)
  OBVIOUS
<1>12. /\ e[0] = base
       /\ \A i \in 1..n : e[i] = (2 * v[p + i] + (p - 1) * e[i - 1]) \div (p + 1)
  <2>1. e = [i \in 0..n |-> IF i = 0 THEN base
                                     ELSE (2 * v[p + i] + (p - 1) * e[i - 1]) \div (p + 1)]
    BY <1>1, <1>3, <1>4, <1>10, <1>11 DEF EmaStep
  <2>2. e[0] = base
    <3>1. 0 \in 0..n
      BY <1>1
    <3>2. QED
      BY <2>1, <3>1
  <2>3. ASSUME NEW i \in 1..n
        PROVE  e[i] = (2 * v[p + i] + (p - 1) * e[i - 1]) \div (p + 1)
    <3>1. i \in 0..n /\ i # 0
      BY <1>1
    <3>2. QED
      BY <2>1, <3>1, Zenon
  <2>4. QED
    BY <2>2, <2>3
<1>13. \A i \in 0..n : e[i] \in Int
  <2>1. \A i \in 1..n : e[i - 1] \in Int => e[i] \in Int
    BY <1>5, <1>12
  <2>2. QED
    BY <1>1, <1>12, <2>1, RecursionTyped
<1>14. QED
  BY <1>1, <1>3, <1>11, <1>12, <1>13

(* The next average b after a, of period p, when the value is x.             *)
Roll(p, a, b, x) ==
    /\ (p + 1) * b <= 2 * x + (p - 1) * a
    /\ 2 * x + (p - 1) * a < (p + 1) * (b + 1)

(* What an average of period p over w is by its days, without division:      *)
(* rounded down from the first average, then from every roll.               *)
Rolls(a, w, p, m) ==
    /\ \A k \in p..m : a[k] \in Int
    /\ p * a[p] <= Sums(w)[p] /\ Sums(w)[p] < p * (a[p] + 1)
    /\ \A k \in p..m - 1 : Roll(p, a[k], a[k + 1], w[k + 1])

AveragesOf(a, w, p) ==
    /\ Rolls(a, w, p, Len(w))
    /\ Len(EmaSeries(w, p)) = Len(w) - p + 1
    /\ \A k \in p..Len(w) : a[k] = EmaSeries(w, p)[k - p + 1]

LEMMA EmaRolls ==
    ASSUME NEW w \in Seq(Int), NEW p \in Nat \ {0}, p <= Len(w)
    PROVE  \E a : AveragesOf(a, w, p)
<1>1. PICK m \in Nat : m = Len(w) /\ p \in 1..m /\ m - p + 1 \in Nat
  BY Element
<1>2. PICK e : /\ EmaSeries(w, p) = [i \in 1..m - p + 1 |-> e[i - 1]]
               /\ e[0] = Sums(w)[p] \div p
               /\ \A i \in 1..m - p :
                     e[i] = (2 * w[p + i] + (p - 1) * e[i - 1]) \div (p + 1)
               /\ \A i \in 0..m - p : e[i] \in Int
  BY <1>1, EmaUnfolds, EmaRecursion
<1>3. Len(EmaSeries(w, p)) = m - p + 1
  BY <1>1, <1>2
<1> DEFINE a == [k \in p..m |-> e[k - p]]
<1>4. \A k \in p..m : a[k] = EmaSeries(w, p)[k - p + 1]
  <2>1. ASSUME NEW k \in p..m
        PROVE  e[k - p] = EmaSeries(w, p)[k - p + 1]
    <3>1. k - p + 1 \in 1..m - p + 1 /\ (k - p + 1) - 1 = k - p
      BY <1>1
    <3>2. QED
      BY <1>2, <3>1
  <2>2. QED
    BY <2>1
<1>5. \A k \in p..m : a[k] = e[k - p]
  OBVIOUS
<1> HIDE DEF a
<1>6. \A k \in p..m : a[k] \in Int
  <2>1. \A k \in p..m : k - p \in 0..m - p
    BY <1>1
  <2>2. QED
    BY <1>2, <1>5, <2>1
<1>7. p * a[p] <= Sums(w)[p] /\ Sums(w)[p] < p * (a[p] + 1)
  <2>1. p \in p..m /\ p - p = 0
    BY <1>1
  <2>2. a[p] = Sums(w)[p] \div p
    BY <1>2, <1>5, <2>1
  <2>3. Sums(w)[p] \in Int
    BY <1>1, SumsRecursion
  <2>4. QED
    BY <2>2, <2>3, RoundedDown
<1>8. ASSUME NEW k \in p..m - 1
      PROVE  Roll(p, a[k], a[k + 1], w[k + 1])
  <2>1. /\ k + 1 \in p..m /\ k \in p..m /\ k + 1 \in 1..m
        /\ (k + 1) - p \in 1..m - p /\ ((k + 1) - p) - 1 = k - p
        /\ p + ((k + 1) - p) = k + 1
    BY <1>1
  <2>2. PICK before \in Int, price \in Int : before = a[k] /\ price = w[k + 1]
    BY <1>1, <1>6, <2>1, Element
  <2>3. a[k + 1] = (2 * price + (p - 1) * before) \div (p + 1)
    BY <1>2, <1>5, <2>1, <2>2
  <2>4. 2 * price + (p - 1) * before \in Int /\ p + 1 \in Nat \ {0}
    OBVIOUS
  <2>5. QED
    BY <2>2, <2>3, <2>4, RoundedDown DEF Roll
<1>9. Rolls(a, w, p, m)
  BY <1>6, <1>7, <1>8 DEF Rolls
<1>10. AveragesOf(a, w, p)
  BY <1>1, <1>3, <1>4, <1>9 DEF AveragesOf
<1>11. QED
  BY <1>10

(* A series in units, and what its first days add up to.                    *)
Rises(v) == \A i \in 1..Len(v) - 1 : v[i] <= v[i + 1]
Falls(v) == \A i \in 1..Len(v) - 1 : v[i] >= v[i + 1]

LEMMA HeadsOfUnits ==
    ASSUME NEW v \in Seq(Int), NEW w \in Seq(Int), NEW u \in Nat, Len(w) = Len(v),
           \A i \in 1..Len(v) : w[i] = v[i] * u
    PROVE  \A k \in 0..Len(v) : Sums(w)[k] = Sums(v)[k] * u
<1>1. PICK m \in Nat : m = Len(v) /\ m = Len(w)
  BY Element
<1> DEFINE S == {k \in 0..m : Sums(w)[k] = Sums(v)[k] * u}
<1>2. 0 \in S
  BY <1>1, SumsRecursion
<1>3. ASSUME NEW k \in 0..m, k \in S, k + 1 \in 0..m
      PROVE  k + 1 \in S
  <2>1. k + 1 \in 1..m /\ (k + 1) - 1 = k
    BY <1>3
  <2>2. PICK x \in Int, y \in Int : x = v[k + 1] /\ y = Sums(v)[k]
    BY <1>1, <2>1, SumsRecursion, Element
  <2>3. Sums(v)[k + 1] = y + x /\ Sums(w)[k + 1] = y * u + x * u
    BY <1>1, <1>3, <2>1, <2>2, SumsRecursion
  <2>4. (y + x) * u = y * u + x * u
    OBVIOUS
  <2>5. QED
    BY <1>3, <2>3, <2>4
<1> HIDE DEF S
<1>4. 0..m \subseteq S
  BY <1>2, <1>3, UpToByInduction
<1>5. QED
  BY <1>1, <1>4 DEF S

(* On a rise the days so far are worth no more than as many of the last, and *)
(* on a fall no less.                                                       *)
LEMMA HeadsOfTrend ==
    ASSUME NEW v \in Seq(Int)
    PROVE  /\ Rises(v) => \A k \in 1..Len(v) : Sums(v)[k] <= k * v[k]
           /\ Falls(v) => \A k \in 1..Len(v) : Sums(v)[k] >= k * v[k]
<1>1. PICK m \in Nat : m = Len(v)
  BY Element
<1>2. ASSUME NEW k \in 1..m, k + 1 \in 1..m
      PROVE  /\ Sums(v)[k + 1] = Sums(v)[k] + v[k + 1]
             /\ Sums(v)[k] \in Int /\ v[k] \in Int /\ v[k + 1] \in Int
  <2>1. (k + 1) - 1 = k /\ k \in 0..m
    OBVIOUS
  <2>2. QED
    BY <1>1, <1>2, <2>1, SumsRecursion, Element
<1>3. ASSUME 1 \in 1..m
      PROVE  Sums(v)[1] = 1 * v[1]
  <2>1. Sums(v)[1] = Sums(v)[1 - 1] + v[1] /\ Sums(v)[0] = 0 /\ v[1] \in Int
    BY <1>1, <1>3, SumsRecursion, Element
  <2>2. QED
    BY <2>1
<1>4. ASSUME Rises(v)
      PROVE  \A k \in 1..m : Sums(v)[k] <= k * v[k]
  <2> DEFINE S == {k \in 0..m : k = 0 \/ Sums(v)[k] <= k * v[k]}
  <2>1. 0 \in S
    OBVIOUS
  <2>2. ASSUME NEW k \in 0..m, k \in S, k + 1 \in 0..m
        PROVE  k + 1 \in S
    <3>1. CASE k = 0
      <4>1. v[1] \in Int /\ Sums(v)[1] = 1 * v[1]
        BY <1>1, <1>3, <2>2, <3>1, Element
      <4>2. QED
        BY <2>2, <3>1, <4>1
    <3>2. CASE k # 0
      <4>1. k \in 1..m /\ k + 1 \in 1..m /\ k \in 1..m - 1
        BY <2>2, <3>2
      <4>2. PICK s \in Int, x \in Int, y \in Int :
                s = Sums(v)[k] /\ x = v[k] /\ y = v[k + 1]
        BY <1>2, <4>1
      <4>3. Sums(v)[k + 1] = s + y /\ s <= k * x /\ x <= y
        BY <1>1, <1>2, <1>4, <2>2, <3>2, <4>1, <4>2 DEF Rises
      <4>4. k * x \in Int /\ k * y \in Int /\ k * x <= k * y /\ (k + 1) * y = k * y + y
        BY <4>1, <4>3, TimesKeepsOrder
      <4>5. s + y <= (k + 1) * y
        BY <4>3, <4>4
      <4>6. Sums(v)[k + 1] <= (k + 1) * v[k + 1]
        BY <4>2, <4>3, <4>5
      <4>7. QED
        BY <2>2, <4>6
    <3>3. QED
      BY <3>1, <3>2
  <2> HIDE DEF S
  <2>3. 0..m \subseteq S
    BY <2>1, <2>2, UpToByInduction
  <2>4. QED
    BY <2>3 DEF S
<1>5. ASSUME Falls(v)
      PROVE  \A k \in 1..m : Sums(v)[k] >= k * v[k]
  <2> DEFINE S == {k \in 0..m : k = 0 \/ Sums(v)[k] >= k * v[k]}
  <2>1. 0 \in S
    OBVIOUS
  <2>2. ASSUME NEW k \in 0..m, k \in S, k + 1 \in 0..m
        PROVE  k + 1 \in S
    <3>1. CASE k = 0
      <4>1. v[1] \in Int /\ Sums(v)[1] = 1 * v[1]
        BY <1>1, <1>3, <2>2, <3>1, Element
      <4>2. QED
        BY <2>2, <3>1, <4>1
    <3>2. CASE k # 0
      <4>1. k \in 1..m /\ k + 1 \in 1..m /\ k \in 1..m - 1
        BY <2>2, <3>2
      <4>2. PICK s \in Int, x \in Int, y \in Int :
                s = Sums(v)[k] /\ x = v[k] /\ y = v[k + 1]
        BY <1>2, <4>1
      <4>3. Sums(v)[k + 1] = s + y /\ s >= k * x /\ y <= x
        BY <1>1, <1>2, <1>5, <2>2, <3>2, <4>1, <4>2 DEF Falls
      <4>4. k * x \in Int /\ k * y \in Int /\ k * y <= k * x /\ (k + 1) * y = k * y + y
        BY <4>1, <4>3, TimesKeepsOrder
      <4>5. s + y >= (k + 1) * y
        BY <4>3, <4>4
      <4>6. Sums(v)[k + 1] >= (k + 1) * v[k + 1]
        BY <4>2, <4>3, <4>5
      <4>7. QED
        BY <2>2, <4>6
    <3>3. QED
      BY <3>1, <3>2
  <2> HIDE DEF S
  <2>3. 0..m \subseteq S
    BY <2>1, <2>2, UpToByInduction
  <2>4. QED
    BY <2>3 DEF S
<1>6. QED
  BY <1>1, <1>4, <1>5

(* An average stays on its side of the prices, and of a difference keeps its  *)
(* share.                                                                   *)
LEMMA RollKeepsShare ==
    ASSUME NEW p \in Nat \ {0}, NEW a \in Int, NEW b \in Int, NEW x \in Int,
           Roll(p, a, b, x)
    PROVE  /\ a <= x => b <= x
           /\ x <= a => x <= b
           /\ (p + 1) * (x - b - 1) < (p - 1) * (x - a)
           /\ (p - 1) * (x - a) <= (p + 1) * (x - b)
           /\ (p + 1) * (b - x) <= (p - 1) * (a - x)
           /\ (p - 1) * (a - x) < (p + 1) * (b + 1 - x)
<1>1. (p + 1) * b <= 2 * x + (p - 1) * a /\ 2 * x + (p - 1) * a < (p + 1) * (b + 1)
  BY DEF Roll
<1>2. PICK z \in Int, y \in Int, r \in Int, t \in Int :
          z = (p + 1) * b /\ y = (p - 1) * a /\ r = p * x /\ t = p * a
  OBVIOUS
<1>3. /\ (p + 1) * (b + 1) = z + p + 1 /\ (p - 1) * (x - a) = r - x - y
      /\ (p + 1) * (x - b - 1) = r + x - z - p - 1
      /\ (p + 1) * (x - b) = r + x - z
      /\ (p + 1) * (b - x) = z - r - x
      /\ (p - 1) * (a - x) = y - r + x
      /\ (p + 1) * (b + 1 - x) = z + p + 1 - r - x
  BY <1>2
<1>4. z <= 2 * x + y /\ 2 * x + y < z + p + 1
  BY <1>1, <1>2, <1>3
<1>5. ASSUME a <= x
      PROVE  b <= x
  <2>1. y <= r - x
    <3>1. (p - 1) * a <= (p - 1) * x /\ (p - 1) * x = r - x
      BY <1>2, <1>5, TimesKeepsOrder
    <3>2. QED
      BY <1>2, <3>1
  <2>2. (p + 1) * b <= (p + 1) * x
    <3>1. (p + 1) * x = r + x
      BY <1>2
    <3>2. QED
      BY <1>2, <1>4, <2>1, <3>1
  <2>3. ~(x < b)
    <3>1. ~((p + 1) * x < (p + 1) * b)
      BY <2>2
    <3>2. QED
      BY <3>1, TimesKeepsOrder
  <2>4. QED
    BY <2>3
<1>6. ASSUME x <= a
      PROVE  x <= b
  <2>1. r - x <= y
    <3>1. (p - 1) * x <= (p - 1) * a /\ (p - 1) * x = r - x
      BY <1>2, <1>6, TimesKeepsOrder
    <3>2. QED
      BY <1>2, <3>1
  <2>2. (p + 1) * x < (p + 1) * (b + 1)
    <3>1. (p + 1) * x = r + x
      BY <1>2
    <3>2. QED
      BY <1>2, <1>3, <1>4, <2>1, <3>1
  <2>3. x < b + 1
    BY <2>2, TimesKeepsOrder
  <2>4. QED
    BY <2>3
<1>7. /\ (p + 1) * (x - b - 1) < (p - 1) * (x - a)
      /\ (p - 1) * (x - a) <= (p + 1) * (x - b)
      /\ (p + 1) * (b - x) <= (p - 1) * (a - x)
      /\ (p - 1) * (a - x) < (p + 1) * (b + 1 - x)
  BY <1>3, <1>4
<1>8. QED
  BY <1>5, <1>6, <1>7

(* On a rise an average that is ahead of the mean so far, rounded down, stays *)
(* ahead of it: what the mean is off the price is nothing or, counted in     *)
(* units, much more than the roll may round.                                *)
LEMMA RiseKeepsAhead ==
    ASSUME NEW p \in Nat \ {0}, NEW k \in Nat, p <= k,
           NEW a \in Int, NEW b \in Int, NEW x \in Int, NEW sum \in Int,
           Roll(p, a, b, x), a <= x, sum < k * (a + 1),
           sum = k * x \/ k * k <= k * x - sum
    PROVE  b <= x /\ sum + x < (k + 1) * (b + 1)
<1>1. b <= x /\ (p + 1) * (x - b - 1) < (p - 1) * (x - a)
  BY RollKeepsShare
<1>2. PICK d \in Nat, h \in Int, off \in Int :
          d = x - a /\ h = x - b - 1 /\ off = k * x - sum
  OBVIOUS
<1>3. (k + 1) * h < (k - 1) * d
  BY <1>1, <1>2, LongerKeepsMore
<1>4. k * d < off + k
  <2>1. k * d = k * x - k * a /\ k * (a + 1) = k * a + k
    BY <1>2
  <2>2. PICK r \in Int, t \in Int : r = k * x /\ t = k * a
    OBVIOUS
  <2>3. QED
    BY <1>2, <2>1, <2>2
<1>5. (k - 1) * d = k * d - d
  OBVIOUS
<1>6. (k + 1) * h < off
  <2>1. CASE off = 0
    <3>1. ~(d >= 1)
      <4>1. d >= 1 => k * 1 <= k * d
        BY TimesKeepsOrder
      <4>2. QED
        BY <1>4, <2>1, <4>1
    <3>2. d = 0
      BY <3>1
    <3>3. (k - 1) * d = 0
      BY <3>2
    <3>4. QED
      BY <1>3, <2>1, <3>3
  <2>2. CASE k * k <= off /\ d <= k
    <3>1. k * d <= k * k
      BY <2>2, TimesKeepsOrder
    <3>2. PICK y \in Int, z \in Int, kk \in Int :
              y = k * d /\ z = (k + 1) * h /\ kk = k * k
      OBVIOUS
    <3>3. QED
      BY <1>3, <1>5, <2>2, <3>1, <3>2
  <2>3. CASE d > k
    <3>1. PICK y \in Int, z \in Int : y = k * d /\ z = (k + 1) * h
      OBVIOUS
    <3>2. QED
      BY <1>3, <1>4, <1>5, <2>3, <3>1
  <2>4. off = 0 \/ k * k <= off
    BY <1>2
  <2>5. QED
    BY <2>1, <2>2, <2>3, <2>4
<1>7. (k + 1) * (b + 1) = (k * x + x) - (k + 1) * h
  <2>1. b + 1 = x - h
    BY <1>2
  <2>2. (k + 1) * (x - h) = (k * x + x) - (k + 1) * h
    OBVIOUS
  <2>3. QED
    BY <2>1, <2>2
<1>8. PICK r \in Int, y \in Int : r = k * x /\ y = (k + 1) * h
  OBVIOUS
<1>9. QED
  BY <1>1, <1>2, <1>6, <1>7, <1>8

(* On a fall it stays below, for it is closer to the price than the mean is. *)
LEMMA FallKeepsBehind ==
    ASSUME NEW p \in Nat \ {0}, NEW k \in Nat, p <= k,
           NEW a \in Int, NEW b \in Int, NEW x \in Int, NEW sum \in Int,
           Roll(p, a, b, x), x <= a, k * a <= sum
    PROVE  x <= b /\ (k + 1) * b <= sum + x
<1>1. x <= b /\ (p + 1) * (b - x) <= (p - 1) * (a - x)
  BY RollKeepsShare
<1>2. PICK c \in Nat, e \in Int : c = a - x /\ e = b - x
  OBVIOUS
<1>3. (k + 1) * e <= (k - 1) * c
  BY <1>1, <1>2, LongerKeepsMore
<1>4. PICK r \in Int, t \in Int, y \in Int :
          r = k * x /\ t = k * a /\ y = (k + 1) * e
  OBVIOUS
<1>5. (k - 1) * c = (t - r) - c
  BY <1>2, <1>4
<1>6. (k + 1) * b = y + r + x
  <2>1. b = e + x
    BY <1>2
  <2>2. (k + 1) * (e + x) = (k + 1) * e + k * x + x
    OBVIOUS
  <2>3. QED
    BY <1>4, <2>1, <2>2
<1>7. y <= t - r
  BY <1>3, <1>4, <1>5
<1>8. QED
  BY <1>1, <1>4, <1>6, <1>7

(* Of two averages of the same days the shorter is the closer to the price.  *)
LEMMA RollsKeepOrder ==
    ASSUME NEW p \in Nat \ {0}, NEW q \in Nat \ {0}, p <= q,
           NEW a \in Int, NEW b \in Int, NEW c \in Int, NEW d \in Int, NEW x \in Int,
           Roll(p, a, b, x), Roll(q, c, d, x)
    PROVE  /\ c <= a /\ a <= x => d <= b
           /\ a <= c /\ x <= a => b <= d
<1>1. ASSUME c <= a, a <= x, b < d
      PROVE  FALSE
  <2>1. PICK n \in Nat, e \in Int : n = x - a /\ e = x - d
    BY <1>1
  <2>2. (p + 1) * e < (p - 1) * n
    <3>1. (p + 1) * (x - b - 1) < (p - 1) * n
      BY <2>1, RollKeepsShare
    <3>2. (p + 1) * e <= (p + 1) * (x - b - 1)
      BY <1>1, <2>1, TimesKeepsOrder
    <3>3. QED
      BY <3>1, <3>2
  <2>3. (q + 1) * e < (q - 1) * n
    BY <2>2, LongerKeepsMore
  <2>4. (q - 1) * n <= (q + 1) * e
    <3>1. (q - 1) * (x - c) <= (q + 1) * e
      BY <2>1, RollKeepsShare
    <3>2. (q - 1) * n <= (q - 1) * (x - c)
      BY <1>1, <2>1, TimesKeepsOrder
    <3>3. QED
      BY <3>1, <3>2
  <2>5. QED
    BY <2>3, <2>4
<1>2. ASSUME a <= c, x <= a, d < b
      PROVE  FALSE
  <2>1. PICK n \in Nat, e \in Int : n = a - x /\ e = b - x
    BY <1>2
  <2>2. (p + 1) * e <= (p - 1) * n
    BY <2>1, RollKeepsShare
  <2>3. (q + 1) * e <= (q - 1) * n
    BY <2>2, LongerKeepsMore
  <2>4. (q - 1) * n < (q + 1) * e
    <3>1. (q - 1) * (c - x) < (q + 1) * (d + 1 - x)
      BY RollKeepsShare
    <3>2. (q + 1) * (d + 1 - x) <= (q + 1) * e
      BY <1>2, <2>1, TimesKeepsOrder
    <3>3. (q - 1) * n <= (q - 1) * (c - x)
      BY <1>2, <2>1, TimesKeepsOrder
    <3>4. QED
      BY <3>1, <3>2, <3>3
  <2>5. QED
    BY <2>3, <2>4
<1>3. QED
  BY <1>1, <1>2

(* A trend in units is the same trend.                                      *)
InUnits(w, v, u) == Len(w) = Len(v) /\ \A i \in 1..Len(v) : w[i] = v[i] * u

LEMMA UnitsKeepTrend ==
    ASSUME NEW v \in Seq(Int), NEW w \in Seq(Int), NEW u \in Nat, InUnits(w, v, u)
    PROVE  /\ Rises(v) => Rises(w)
           /\ Falls(v) => Falls(w)
<1>1. PICK m \in Nat : m = Len(v) /\ m = Len(w)
  BY Element DEF InUnits
<1>2. ASSUME NEW i \in 1..m - 1
      PROVE  /\ v[i] <= v[i + 1] => w[i] <= w[i + 1]
             /\ v[i + 1] <= v[i] => w[i + 1] <= w[i]
  <2>1. i \in 1..m /\ i + 1 \in 1..m
    OBVIOUS
  <2>2. PICK x \in Int, y \in Int : /\ x = v[i] /\ y = v[i + 1]
                                    /\ w[i] = x * u /\ w[i + 1] = y * u
    BY <1>1, <2>1, Element DEF InUnits
  <2>3. /\ x <= y => u * x <= u * y
        /\ y <= x => u * y <= u * x
    BY TimesKeepsOrder
  <2>4. u * x = x * u /\ u * y = y * u
    OBVIOUS
  <2>5. QED
    BY <2>2, <2>3, <2>4
<1>3. QED
  BY <1>1, <1>2 DEF Rises, Falls

(* On a rise the mean of the first days is the next price or far below it.   *)
LEMMA MeanIsFar ==
    ASSUME NEW v \in Seq(Int), NEW w \in Seq(Int), NEW u \in Nat, InUnits(w, v, u),
           Rises(v), NEW k \in 1..Len(v) - 1, k * k <= u
    PROVE  Sums(w)[k] = k * w[k + 1] \/ k * k <= k * w[k + 1] - Sums(w)[k]
<1>1. PICK m \in Nat : /\ m = Len(v) /\ m = Len(w) /\ k \in 1..m /\ k + 1 \in 1..m
                       /\ k \in 0..m /\ k \in Nat
  BY Element DEF InUnits
<1>2. PICK x \in Int, y \in Int, s \in Int :
          /\ x = v[k] /\ y = v[k + 1] /\ s = Sums(v)[k]
  BY <1>1, SumsRecursion, Element
<1>3. w[k + 1] = y * u /\ Sums(w)[k] = s * u
  BY <1>1, <1>2, HeadsOfUnits DEF InUnits
<1>4. s <= k * x /\ x <= y
  BY <1>1, <1>2, HeadsOfTrend DEF Rises
<1>5. k * x <= k * y
  BY <1>1, <1>4, TimesKeepsOrder
<1>6. PICK n \in Nat : n = k * y - s
  <2>1. PICK a \in Int, b \in Int : a = k * x /\ b = k * y
    BY <1>1
  <2>2. s <= a /\ a <= b
    BY <1>4, <1>5, <2>1
  <2>3. b - s \in Nat
    BY <2>2
  <2>4. QED
    BY <2>1, <2>3
<1>7. k * (y * u) - s * u = u * n
  BY <1>1, <1>6
<1>8. CASE n = 0
  <2>1. k * (y * u) = s * u
    BY <1>7, <1>8
  <2>2. QED
    BY <1>3, <2>1
<1>9. CASE n # 0
  <2>1. k * k \in Int
    BY <1>1, SquaresGrow
  <2>2. k * k <= u * n
    BY <1>9, <2>1, AtLeastOnce
  <2>3. QED
    BY <1>3, <1>7, <2>2
<1>10. QED
  BY <1>8, <1>9

(* Until the longer average begins, the shorter one is on the trend's side of *)
(* the mean so far.                                                         *)
LEMMA FastBeforeSlow ==
    ASSUME NEW v \in Seq(Int), NEW w \in Seq(Int), NEW u \in Nat, InUnits(w, v, u),
           NEW p \in Nat \ {0}, NEW q \in Nat, p <= q, q <= Len(v), q * q <= u,
           NEW f, Rolls(f, w, p, Len(v))
    PROVE  /\ Rises(v) => f[q] <= w[q] /\ Sums(w)[q] < q * (f[q] + 1)
           /\ Falls(v) => w[q] <= f[q] /\ q * f[q] <= Sums(w)[q]
<1>1. PICK m \in Nat : /\ m = Len(v) /\ m = Len(w) /\ q \in 1..m /\ p \in 1..m
                       /\ p \in p..m
  BY Element DEF InUnits
<1>2. PICK n \in Nat : n = q - p /\ p + n = q
  OBVIOUS
<1>3. /\ \A k \in p..m : f[k] \in Int
      /\ p * f[p] <= Sums(w)[p] /\ Sums(w)[p] < p * (f[p] + 1)
      /\ \A k \in p..m - 1 : Roll(p, f[k], f[k + 1], w[k + 1])
  BY <1>1 DEF Rolls
<1>4. ASSUME NEW k \in p..m
      PROVE  /\ f[k] \in Int /\ w[k] \in Int /\ Sums(w)[k] \in Int
             /\ k \in 1..m /\ k \in Nat /\ p <= k
  <2>1. k \in 1..m /\ k \in 0..m /\ k \in Nat /\ p <= k
    BY <1>1
  <2>2. QED
    BY <1>1, <1>3, <2>1, SumsRecursion, Element
<1>5. ASSUME NEW i \in 0..n, i + 1 \in 0..n
      PROVE  \E k \in Nat :
                /\ k = p + i /\ k + 1 = p + (i + 1) /\ p <= k
                /\ k \in p..m /\ k \in p..m - 1 /\ k \in 1..m - 1 /\ k + 1 \in p..m
                /\ k * k <= u
                /\ Sums(w)[k + 1] = Sums(w)[k] + w[k + 1]
  <2>1. PICK k \in Nat : k = p + i
    OBVIOUS
  <2>2. k < q /\ p <= k /\ k \in p..m /\ k \in p..m - 1 /\ k \in 1..m - 1 /\ k + 1 \in p..m
    BY <1>1, <1>2, <1>5, <2>1
  <2>3. k * k <= u
    <3>1. k <= q /\ k \in Nat /\ q \in Nat
      BY <2>2
    <3>2. k * k \in Int /\ q * q \in Int /\ k * k <= q * q
      BY <3>1, SquaresGrow
    <3>3. QED
      BY <3>2
  <2>4. Sums(w)[k + 1] = Sums(w)[k] + w[k + 1]
    <3>1. k + 1 \in 1..m /\ (k + 1) - 1 = k
      BY <2>2
    <3>2. QED
      BY <1>1, <3>1, SumsRecursion
  <2>5. k + 1 = p + (i + 1)
    BY <2>1
  <2>6. QED
    BY <2>1, <2>2, <2>3, <2>4, <2>5
<1>6. ASSUME Rises(v)
      PROVE  f[q] <= w[q] /\ Sums(w)[q] < q * (f[q] + 1)
  <2> DEFINE Ahead(k) == f[k] <= w[k] /\ Sums(w)[k] < k * (f[k] + 1)
             S == {i \in 0..n : Ahead(p + i)}
  <2>1. Rises(w)
    BY <1>6, UnitsKeepTrend
  <2>2. 0 \in S
    <3>1. Sums(w)[p] <= p * w[p]
      BY <1>1, <2>1, HeadsOfTrend
    <3>2. PICK a \in Int, x \in Int, s \in Int : a = f[p] /\ x = w[p] /\ s = Sums(w)[p]
      BY <1>1, <1>4
    <3>3. p * a <= s /\ s < p * (a + 1) /\ s <= p * x
      BY <1>3, <3>1, <3>2
    <3>4. a <= x
      BY <3>3, BetweenProducts
    <3>5. Ahead(p)
      BY <3>2, <3>3, <3>4
    <3>6. QED
      BY <3>5
  <2>3. ASSUME NEW i \in 0..n, i \in S, i + 1 \in 0..n
        PROVE  i + 1 \in S
    <3>1. PICK k \in Nat :
              /\ k = p + i /\ k + 1 = p + (i + 1) /\ p <= k
              /\ k \in p..m /\ k \in p..m - 1 /\ k \in 1..m - 1 /\ k + 1 \in p..m
              /\ k * k <= u
              /\ Sums(w)[k + 1] = Sums(w)[k] + w[k + 1]
      BY <1>5, <2>3
    <3>2. PICK a \in Int, b \in Int, x \in Int, s \in Int :
              /\ a = f[k] /\ b = f[k + 1] /\ x = w[k + 1] /\ s = Sums(w)[k]
      BY <1>4, <3>1
    <3>3. Roll(p, a, b, x)
      BY <1>3, <3>1, <3>2
    <3>4. a <= x /\ s < k * (a + 1)
      <4>1. a <= w[k] /\ w[k] <= x /\ w[k] \in Int
        BY <1>1, <1>4, <2>1, <2>3, <3>1, <3>2 DEF Rises
      <4>2. s < k * (a + 1)
        BY <2>3, <3>1, <3>2
      <4>3. QED
        BY <4>1, <4>2
    <3>5. s = k * x \/ k * k <= k * x - s
      BY <1>1, <1>6, <3>1, <3>2, MeanIsFar
    <3>6. b <= x /\ s + x < (k + 1) * (b + 1)
      BY <3>1, <3>3, <3>4, <3>5, RiseKeepsAhead
    <3>7. Sums(w)[k + 1] = s + x
      BY <3>1, <3>2
    <3>8. Ahead(k + 1) /\ k + 1 = p + (i + 1)
      BY <3>1, <3>2, <3>6, <3>7
    <3>9. QED
      BY <2>3, <3>8
  <2> HIDE DEF S
  <2>4. 0..n \subseteq S
    BY <2>2, <2>3, UpToByInduction
  <2>5. p + n = q /\ n \in S
    BY <1>2, <2>4
  <2>6. QED
    BY <2>5 DEF S
<1>7. ASSUME Falls(v)
      PROVE  w[q] <= f[q] /\ q * f[q] <= Sums(w)[q]
  <2> DEFINE Behind(k) == w[k] <= f[k] /\ k * f[k] <= Sums(w)[k]
             S == {i \in 0..n : Behind(p + i)}
  <2>1. Falls(w)
    BY <1>7, UnitsKeepTrend
  <2>2. 0 \in S
    <3>1. Sums(w)[p] >= p * w[p]
      BY <1>1, <2>1, HeadsOfTrend
    <3>2. PICK a \in Int, x \in Int, s \in Int : a = f[p] /\ x = w[p] /\ s = Sums(w)[p]
      BY <1>1, <1>4
    <3>3. p * a <= s /\ s < p * (a + 1) /\ p * x <= s
      BY <1>3, <3>1, <3>2
    <3>4. x <= a
      BY <3>3, BetweenProducts
    <3>5. Behind(p)
      BY <3>2, <3>3, <3>4
    <3>6. QED
      BY <3>5
  <2>3. ASSUME NEW i \in 0..n, i \in S, i + 1 \in 0..n
        PROVE  i + 1 \in S
    <3>1. PICK k \in Nat :
              /\ k = p + i /\ k + 1 = p + (i + 1) /\ p <= k
              /\ k \in p..m /\ k \in p..m - 1 /\ k \in 1..m - 1 /\ k + 1 \in p..m
              /\ k * k <= u
              /\ Sums(w)[k + 1] = Sums(w)[k] + w[k + 1]
      BY <1>5, <2>3
    <3>2. PICK a \in Int, b \in Int, x \in Int, s \in Int :
              /\ a = f[k] /\ b = f[k + 1] /\ x = w[k + 1] /\ s = Sums(w)[k]
      BY <1>4, <3>1
    <3>3. Roll(p, a, b, x)
      BY <1>3, <3>1, <3>2
    <3>4. x <= a /\ k * a <= s
      <4>1. w[k] <= a /\ x <= w[k] /\ w[k] \in Int
        BY <1>1, <1>4, <2>1, <2>3, <3>1, <3>2 DEF Falls
      <4>2. k * a <= s
        BY <2>3, <3>1, <3>2
      <4>3. QED
        BY <4>1, <4>2
    <3>5. x <= b /\ (k + 1) * b <= s + x
      BY <3>1, <3>3, <3>4, FallKeepsBehind
    <3>6. Sums(w)[k + 1] = s + x
      BY <3>1, <3>2
    <3>7. Behind(k + 1) /\ k + 1 = p + (i + 1)
      BY <3>1, <3>2, <3>5, <3>6
    <3>8. QED
      BY <2>3, <3>7
  <2> HIDE DEF S
  <2>4. 0..n \subseteq S
    BY <2>2, <2>3, UpToByInduction
  <2>5. p + n = q /\ n \in S
    BY <1>2, <2>4
  <2>6. QED
    BY <2>5 DEF S
<1>8. QED
  BY <1>6, <1>7

(* From then on the shorter average is between the longer one and the price. *)
LEMMA FastStaysAhead ==
    ASSUME NEW v \in Seq(Int), NEW w \in Seq(Int), NEW u \in Nat, InUnits(w, v, u),
           NEW p \in Nat \ {0}, NEW q \in Nat \ {0}, p <= q, q <= Len(v), q * q <= u,
           NEW f, Rolls(f, w, p, Len(v)), NEW s, Rolls(s, w, q, Len(v))
    PROVE  /\ f[Len(v)] \in Int /\ s[Len(v)] \in Int
           /\ Rises(v) => s[Len(v)] <= f[Len(v)]
           /\ Falls(v) => f[Len(v)] <= s[Len(v)]
<1>1. PICK m \in Nat : /\ m = Len(v) /\ m = Len(w) /\ q \in 1..m /\ q \in p..m
                       /\ q \in q..m /\ q <= m
  BY Element DEF InUnits
<1>2. PICK n \in Nat : n = m - q /\ q + n = m
  <2>1. m - q \in Nat /\ q + (m - q) = m
    BY <1>1
  <2>2. QED
    BY <2>1
<1>3. /\ \A k \in q..m : f[k] \in Int /\ s[k] \in Int /\ w[k] \in Int
      /\ \A k \in q..m - 1 : /\ Roll(p, f[k], f[k + 1], w[k + 1])
                             /\ Roll(q, s[k], s[k + 1], w[k + 1])
      /\ q * s[q] <= Sums(w)[q] /\ Sums(w)[q] < q * (s[q] + 1)
  <2>1. \A k \in q..m : k \in p..m /\ k \in 1..m
    BY <1>1
  <2>2. \A k \in q..m - 1 : k \in p..m - 1
    BY <1>1
  <2>3. \A k \in q..m : w[k] \in Int
    BY <1>1, <2>1, Element
  <2>4. /\ \A k \in p..m : f[k] \in Int
        /\ \A k \in p..m - 1 : Roll(p, f[k], f[k + 1], w[k + 1])
    BY <1>1 DEF Rolls
  <2>5. /\ \A k \in q..m : s[k] \in Int
        /\ \A k \in q..m - 1 : Roll(q, s[k], s[k + 1], w[k + 1])
        /\ q * s[q] <= Sums(w)[q] /\ Sums(w)[q] < q * (s[q] + 1)
    BY <1>1 DEF Rolls
  <2>6. QED
    BY <2>1, <2>2, <2>3, <2>4, <2>5
<1>4. PICK a \in Int, c \in Int, x \in Int, sum \in Int :
          a = f[q] /\ c = s[q] /\ x = w[q] /\ sum = Sums(w)[q]
  <2>1. Sums(w)[q] \in Int
    BY <1>1, SumsRecursion
  <2>2. QED
    BY <1>1, <1>3, <2>1
<1>5. q * c <= sum /\ sum < q * (c + 1)
  BY <1>3, <1>4
<1>6. ASSUME NEW i \in 0..n, i + 1 \in 0..n
      PROVE  \E k \in Nat : /\ k = q + i /\ k + 1 = q + (i + 1)
                            /\ k \in q..m - 1 /\ k \in q..m /\ k + 1 \in q..m
                            /\ k \in 1..m - 1
  <2>1. PICK k \in Nat : k = q + i
    OBVIOUS
  <2>2. k < m
    BY <1>2, <1>6, <2>1
  <2>3. QED
    BY <1>1, <2>1, <2>2
<1>7. ASSUME Rises(v)
      PROVE  s[m] <= f[m]
  <2> DEFINE Between(k) == s[k] <= f[k] /\ f[k] <= w[k]
             S == {i \in 0..n : Between(q + i)}
  <2>1. Rises(w)
    BY <1>7, UnitsKeepTrend
  <2>2. 0 \in S
    <3>1. a <= x /\ sum < q * (a + 1)
      BY <1>1, <1>4, <1>7, FastBeforeSlow
    <3>2. c <= a
      BY <1>5, <3>1, BetweenProducts
    <3>3. Between(q)
      BY <1>4, <3>1, <3>2
    <3>4. QED
      BY <3>3
  <2>3. ASSUME NEW i \in 0..n, i \in S, i + 1 \in 0..n
        PROVE  i + 1 \in S
    <3>1. PICK k \in Nat : /\ k = q + i /\ k + 1 = q + (i + 1)
                           /\ k \in q..m - 1 /\ k \in q..m /\ k + 1 \in q..m
                           /\ k \in 1..m - 1
      BY <1>6, <2>3
    <3>2. PICK fk \in Int, sk \in Int, fn \in Int, sn \in Int, price \in Int :
              /\ fk = f[k] /\ sk = s[k] /\ fn = f[k + 1] /\ sn = s[k + 1]
              /\ price = w[k + 1]
      BY <1>3, <3>1
    <3>3. Roll(p, fk, fn, price) /\ Roll(q, sk, sn, price)
      BY <1>3, <3>1, <3>2
    <3>4. sk <= fk /\ fk <= price
      <4>1. fk <= w[k] /\ w[k] <= price /\ w[k] \in Int /\ sk <= fk
        BY <1>1, <1>3, <2>1, <2>3, <3>1, <3>2 DEF Rises
      <4>2. QED
        BY <4>1
    <3>5. sn <= fn /\ fn <= price
      <4>1. sn <= fn
        BY <3>3, <3>4, RollsKeepOrder
      <4>2. fn <= price
        BY <3>3, <3>4, RollKeepsShare
      <4>3. QED
        BY <4>1, <4>2
    <3>6. Between(k + 1)
      BY <3>2, <3>5
    <3>7. QED
      BY <2>3, <3>1, <3>6
  <2> HIDE DEF S
  <2>4. 0..n \subseteq S
    BY <2>2, <2>3, UpToByInduction
  <2>5. q + n = m /\ n \in S
    BY <1>2, <2>4
  <2>6. QED
    BY <2>5 DEF S
<1>8. ASSUME Falls(v)
      PROVE  f[m] <= s[m]
  <2> DEFINE Between(k) == w[k] <= f[k] /\ f[k] <= s[k]
             S == {i \in 0..n : Between(q + i)}
  <2>1. Falls(w)
    BY <1>8, UnitsKeepTrend
  <2>2. 0 \in S
    <3>1. x <= a /\ q * a <= sum
      BY <1>1, <1>4, <1>8, FastBeforeSlow
    <3>2. a <= c
      BY <1>5, <3>1, BetweenProducts
    <3>3. Between(q)
      BY <1>4, <3>1, <3>2
    <3>4. QED
      BY <3>3
  <2>3. ASSUME NEW i \in 0..n, i \in S, i + 1 \in 0..n
        PROVE  i + 1 \in S
    <3>1. PICK k \in Nat : /\ k = q + i /\ k + 1 = q + (i + 1)
                           /\ k \in q..m - 1 /\ k \in q..m /\ k + 1 \in q..m
                           /\ k \in 1..m - 1
      BY <1>6, <2>3
    <3>2. PICK fk \in Int, sk \in Int, fn \in Int, sn \in Int, price \in Int :
              /\ fk = f[k] /\ sk = s[k] /\ fn = f[k + 1] /\ sn = s[k + 1]
              /\ price = w[k + 1]
      BY <1>3, <3>1
    <3>3. Roll(p, fk, fn, price) /\ Roll(q, sk, sn, price)
      BY <1>3, <3>1, <3>2
    <3>4. fk <= sk /\ price <= fk
      <4>1. w[k] <= fk /\ price <= w[k] /\ w[k] \in Int /\ fk <= sk
        BY <1>1, <1>3, <2>1, <2>3, <3>1, <3>2 DEF Falls
      <4>2. QED
        BY <4>1
    <3>5. fn <= sn /\ price <= fn
      <4>1. fn <= sn
        BY <3>3, <3>4, RollsKeepOrder
      <4>2. price <= fn
        BY <3>3, <3>4, RollKeepsShare
      <4>3. QED
        BY <4>1, <4>2
    <3>6. Between(k + 1)
      BY <3>2, <3>5
    <3>7. QED
      BY <2>3, <3>1, <3>6
  <2> HIDE DEF S
  <2>4. 0..n \subseteq S
    BY <2>2, <2>3, UpToByInduction
  <2>5. q + n = m /\ n \in S
    BY <1>2, <2>4
  <2>6. QED
    BY <2>5 DEF S
<1>9. m \in q..m
  BY <1>1
<1>10. QED
  BY <1>1, <1>3, <1>7, <1>8, <1>9

(* indicators.rs:40-60 and its tests at 174: the line is the difference of    *)
(* two averages of the same days, and on a rise the shorter one is not the   *)
(* lower, on a fall not the higher, for series and periods of every length.  *)
THEOREM MacdSeesTheTrend ==
    ASSUME NEW v \in Seq(Int), HasMacd(v)
    PROVE  /\ Rises(v) => Macd(v).line >= 0
           /\ Falls(v) => Macd(v).line <= 0
<1>1. PICK m \in Nat, p \in Nat \ {0}, q \in Nat \ {0}, u \in Nat :
           /\ m = Len(v) /\ p = Fast /\ q = Slow /\ u = Unit
           /\ p <= q /\ q <= m /\ q * q <= u
  <2>1. Len(v) \in Nat /\ Len(v) >= Slow + SignalPeriod - 1
    BY Element DEF HasMacd
  <2>2. /\ Fast \in Nat \ {0} /\ SignalPeriod \in Nat \ {0} /\ Slow \in Nat /\ Slow >= Fast
        /\ Unit \in Nat /\ Unit >= Slow * Slow
    BY PeriodsAssumption
  <2>3. Slow \in Nat \ {0} /\ Slow <= Len(v)
    BY <2>1, <2>2
  <2>4. Slow * Slow <= Unit
    <3>1. Slow * Slow \in Int
      BY <2>2
    <3>2. QED
      BY <2>2, <3>1
  <2>5. QED
    BY <2>1, <2>2, <2>3, <2>4
<1>2. PICK w \in Seq(Int) : w = [i \in DOMAIN v |-> v[i] * Unit] /\ InUnits(w, v, u)
  <2>1. DOMAIN v = 1..m /\ \A i \in 1..m : v[i] * u \in Int
    BY <1>1, Element
  <2>2. [i \in 1..m |-> v[i] * u] \in Seq(Int) /\ Len([i \in 1..m |-> v[i] * u]) = m
    BY <2>1
  <2>3. InUnits([i \in 1..m |-> v[i] * u], v, u)
    BY <1>1, <2>2 DEF InUnits
  <2>4. QED
    BY <1>1, <2>1, <2>2, <2>3
<1>3. Len(w) = m /\ p <= Len(w) /\ q <= Len(w)
  BY <1>1, <1>2 DEF InUnits
<1>4. PICK f : AveragesOf(f, w, p)
  BY <1>1, <1>3, EmaRolls
<1>5. PICK s : AveragesOf(s, w, q)
  BY <1>1, <1>3, EmaRolls
<1>6. /\ Rolls(f, w, p, m) /\ Len(EmaSeries(w, p)) = m - p + 1
      /\ f[m] = EmaSeries(w, p)[m - p + 1]
      /\ Rolls(s, w, q, m) /\ Len(EmaSeries(w, q)) = m - q + 1
      /\ s[m] = EmaSeries(w, q)[m - q + 1]
  <2>1. m \in p..m /\ m \in q..m
    BY <1>1
  <2>2. QED
    BY <1>3, <1>4, <1>5, <2>1 DEF AveragesOf
<1>7. Macd(v).line = f[m] - s[m]
  <2>1. PICK n \in Nat : /\ n = m - q + 1 /\ n \in 1..n
                         /\ n + ((m - p + 1) - n) = m - p + 1
    <3>1. m - q + 1 \in Nat /\ m - q + 1 >= 1
      BY <1>1
    <3>2. PICK n \in Nat : n = m - q + 1 /\ n >= 1
      BY <3>1
    <3>3. n \in 1..n /\ n + ((m - p + 1) - n) = m - p + 1
      BY <3>2
    <3>4. QED
      BY <3>2, <3>3
  <2>2. MacdLine(w) = [i \in 1..n |->
                          EmaSeries(w, p)[i + ((m - p + 1) - n)] - EmaSeries(w, q)[i]]
    BY <1>1, <1>6, <2>1 DEF MacdLine
  <2>3. Len(MacdLine(w)) = n
    BY <2>1, <2>2
  <2>4. Last(MacdLine(w)) = EmaSeries(w, p)[m - p + 1] - EmaSeries(w, q)[m - q + 1]
    BY <2>1, <2>2, <2>3 DEF Last
  <2>5. Macd(v).line = Last(MacdLine(w))
    BY <1>2 DEF Macd
  <2>6. QED
    BY <1>6, <2>4, <2>5
<1>8. /\ f[m] \in Int /\ s[m] \in Int
      /\ Rises(v) => s[m] <= f[m]
      /\ Falls(v) => f[m] <= s[m]
  BY <1>1, <1>2, <1>6, FastStaysAhead
<1>9. QED
  BY <1>7, <1>8

-----------------------------------------------------------------------------
(* Types *)

LEMMA BoundsTyped ==
    /\ MaxTime \in Nat /\ MaxRows \in Nat /\ MaxDays \in Nat /\ MaxImports \in Nat
    /\ Day \in Nat \ {0} /\ Prices \subseteq Nat \ {0} /\ MaxTime \div Day \in Nat
    /\ Dates \subseteq Int /\ Dates = -MaxDays..(MaxTime \div Day)
<1>1. /\ MaxTime \in Nat /\ MaxRows \in Nat /\ MaxDays \in Nat /\ MaxImports \in Nat
      /\ Day \in Nat \ {0} /\ Prices \subseteq Nat \ {0}
  BY HistoryAssumption
<1>2. MaxTime \div Day \in Nat
  BY <1>1
<1>3. QED
  BY <1>1, <1>2 DEF Dates

LEMMA RowTyped ==
    ASSUME NEW row \in Row
    PROVE  /\ row.at \in Int /\ row.nth \in Int /\ row.import \in Nat
           /\ row.price \in Prices
BY BoundsTyped DEF Row

-----------------------------------------------------------------------------
(* A row in its place *)

(* A set of numbers up to n that leaves none out is told by its size.       *)
LEMMA InitialSegment ==
    ASSUME NEW n \in Nat, NEW S \in SUBSET (1..n),
           \A i \in S, j \in 1..n : j < i => j \in S
    PROVE  Cardinality(S) \in 0..n /\ S = 1..Cardinality(S)
<1> DEFINE T == {m \in Nat : m + 1 \notin S}
<1>1. n \in T
  OBVIOUS
<1>2. PICK m \in T : \A k \in T : m <= k
  <2>1. T \subseteq Nat /\ T # {}
    BY <1>1
  <2> HIDE DEF T
  <2>2. QED
    BY <2>1, LeastNat
<1>3. m \in 0..n /\ m + 1 \notin S
  BY <1>1, <1>2
<1>4. S = 1..m
  <2>1. ASSUME NEW i \in 1..m
        PROVE  i \in S
    <3>1. i - 1 \in Nat /\ ~(m <= i - 1) /\ (i - 1) + 1 = i
      BY <1>3
    <3>2. i - 1 \notin T
      BY <1>2, <3>1
    <3>3. QED
      BY <3>1, <3>2
  <2>2. ASSUME NEW i \in S
        PROVE  i \in 1..m
    <3>1. i \in 1..n /\ i # m + 1
      BY <1>3
    <3>2. ~(m + 1 < i)
      <4>1. SUFFICES ASSUME m + 1 < i
                     PROVE  m + 1 \in S
        BY <1>3
      <4>2. m + 1 \in 1..n
        BY <1>3, <3>1, <4>1
      <4>3. QED
        BY <4>1, <4>2
    <3>3. QED
      BY <1>3, <3>1, <3>2
  <2>3. QED
    BY <2>1, <2>2
<1>5. Cardinality(S) = m
  <2>1. Cardinality(1..m) = m
    BY <1>3, FS_Interval
  <2>2. QED
    BY <1>4, <2>1
<1>6. QED
  BY <1>3, <1>4, <1>5

(* How many elements have a property is a place in the sequence.            *)
LEMMA CountIsPlace ==
    ASSUME NEW n \in Nat, NEW S \in SUBSET (1..n)
    PROVE  Cardinality(S) \in 0..n
<1>1. IsFiniteSet(1..n) /\ Cardinality(1..n) = n
  BY FS_Interval
<1>2. Cardinality(S) \in Nat /\ Cardinality(S) <= n
  BY <1>1, FS_Subset, FS_CardinalityType
<1>3. QED
  BY <1>2

(* The table of n rows with the row after its first k.                      *)
RowAfter(t, table, row, n, k) ==
    \A i \in 1..n + 1 :
        t[i] = IF i <= k THEN table[i] ELSE IF i = k + 1 THEN row ELSE table[i - 1]

(* The first k of the n rows are those no later than the time.              *)
EarlierFirst(table, time, n, k) == \A i \in 1..n : i <= k <=> table[i].at <= time

(* InsertAt keeps what is before, and moves what is after by one.           *)
LEMMA InsertAtPlace ==
    ASSUME NEW S, NEW table \in Seq(S), NEW row \in S,
           NEW n \in Nat, n = Len(table), NEW k \in 0..n
    PROVE  /\ InsertAt(table, k + 1, row) \in Seq(S)
           /\ Len(InsertAt(table, k + 1, row)) = n + 1
           /\ RowAfter(InsertAt(table, k + 1, row), table, row, n, k)
<1>1. \A i \in 1..n : table[i] \in S
  BY Element
<1>2. PICK head \in Seq(S) :
        /\ head = SubSeq(table, 1, k) /\ Len(head) = k
        /\ \A i \in 1..k : head[i] = table[i]
  <2>1. \A i \in 1..k : table[i] \in S
    BY <1>1
  <2>2. /\ SubSeq(table, 1, k) \in Seq(S)
        /\ Len(SubSeq(table, 1, k)) = IF 1 <= k THEN k - 1 + 1 ELSE 0
        /\ \A i \in 1..k - 1 + 1 : SubSeq(table, 1, k)[i] = table[1 + i - 1]
    BY <2>1, SubSeqProperties
  <2>3. Len(SubSeq(table, 1, k)) = k
    BY <2>2
  <2>4. ASSUME NEW i \in 1..k
        PROVE  SubSeq(table, 1, k)[i] = table[i]
    <3>1. 1 + i - 1 = i /\ i \in 1..k - 1 + 1
      OBVIOUS
    <3>2. QED
      BY <2>2, <3>1
  <2>5. QED
    BY <2>2, <2>3, <2>4
<1>3. PICK tail \in Seq(S) :
        /\ tail = SubSeq(table, k + 1, n) /\ Len(tail) = n - k
        /\ \A i \in 1..n - k : tail[i] = table[k + i]
  <2>1. \A i \in k + 1..n : table[i] \in S
    BY <1>1
  <2>2. /\ SubSeq(table, k + 1, n) \in Seq(S)
        /\ Len(SubSeq(table, k + 1, n)) = IF k + 1 <= n THEN n - (k + 1) + 1 ELSE 0
        /\ \A i \in 1..n - (k + 1) + 1 :
              SubSeq(table, k + 1, n)[i] = table[(k + 1) + i - 1]
    BY <2>1, SubSeqProperties
  <2>3. Len(SubSeq(table, k + 1, n)) = n - k
    BY <2>2
  <2>4. ASSUME NEW i \in 1..n - k
        PROVE  SubSeq(table, k + 1, n)[i] = table[k + i]
    <3>1. (k + 1) + i - 1 = k + i /\ i \in 1..n - (k + 1) + 1
      OBVIOUS
    <3>2. QED
      BY <2>2, <3>1
  <2>5. QED
    BY <2>2, <2>3, <2>4
<1>4. InsertAt(table, k + 1, row) = (head \o <<row>>) \o tail
  <2>1. (k + 1) - 1 = k
    OBVIOUS
  <2>2. QED
    BY <1>2, <1>3, <2>1 DEF InsertAt
<1>5. /\ head \o <<row>> \in Seq(S) /\ Len(head \o <<row>>) = k + 1
      /\ \A i \in 1..k + 1 : (head \o <<row>>)[i] = IF i <= k THEN table[i] ELSE row
  <2>1. <<row>> \in Seq(S) /\ Len(<<row>>) = 1 /\ <<row>>[1] = row
    OBVIOUS
  <2>2. /\ head \o <<row>> \in Seq(S) /\ Len(head \o <<row>>) = k + 1
        /\ \A i \in 1..k + 1 : (head \o <<row>>)[i]
                = IF i <= k THEN head[i] ELSE <<row>>[i - k]
    BY <1>2, <2>1, ConcatProperties
  <2>3. ASSUME NEW i \in 1..k + 1
        PROVE  (head \o <<row>>)[i] = IF i <= k THEN table[i] ELSE row
    <3>1. CASE i <= k
      BY <1>2, <2>2, <3>1
    <3>2. CASE ~(i <= k)
      <4>1. i - k = 1
        BY <3>2
      <4>2. QED
        BY <2>1, <2>2, <3>2, <4>1
    <3>3. QED
      BY <3>1, <3>2
  <2>4. QED
    BY <2>2, <2>3
<1>6. PICK begun \in Seq(S) : begun = head \o <<row>>
  BY <1>5
<1>7. /\ begun \o tail \in Seq(S) /\ Len(begun \o tail) = n + 1
      /\ \A i \in 1..n + 1 : (begun \o tail)[i]
              = IF i <= k + 1 THEN begun[i] ELSE tail[i - (k + 1)]
  <2>1. (k + 1) + (n - k) = n + 1 /\ Len(begun) = k + 1
    BY <1>5, <1>6
  <2>2. QED
    BY <1>3, <2>1, ConcatProperties
<1>8. ASSUME NEW i \in 1..n + 1
      PROVE  (begun \o tail)[i] = IF i <= k THEN table[i]
                                  ELSE IF i = k + 1 THEN row ELSE table[i - 1]
  <2>1. CASE i <= k + 1
    <3>1. i \in 1..k + 1
      BY <2>1
    <3>2. i <= k \/ i = k + 1
      BY <2>1
    <3>3. QED
      BY <1>5, <1>6, <1>7, <2>1, <3>1, <3>2
  <2>2. CASE ~(i <= k + 1)
    <3>1. i - (k + 1) \in 1..n - k /\ k + (i - (k + 1)) = i - 1
      BY <2>2
    <3>2. ~(i <= k) /\ i # k + 1
      BY <2>2
    <3>3. QED
      BY <1>3, <1>7, <2>2, <3>1, <3>2
  <2>3. QED
    BY <2>1, <2>2
<1>9. QED
  BY <1>4, <1>6, <1>7, <1>8 DEF RowAfter

(* In a table in the order of its times the rows no later than a time come  *)
(* first.                                                                   *)
LEMMA UpToIsPlace ==
    ASSUME NEW table \in Seq(Row), NEW time \in Int,
           Chronological(table)
    PROVE  /\ UpTo(table, time) \in 0..Len(table)
           /\ \A i \in 1..Len(table) : i <= UpTo(table, time) <=> table[i].at <= time
<1>1. PICK n \in Nat : n = Len(table) /\ DOMAIN table = 1..n
                     /\ \A i \in 1..n : table[i] \in Row
  BY Element
<1>2. \A i \in 1..n : table[i].at \in Int
  BY <1>1, RowTyped
<1> DEFINE E == {i \in 1..n : table[i].at <= time}
<1>3. UpTo(table, time) = Cardinality(E)
  BY <1>1 DEF UpTo
<1>4. \A i \in E, j \in 1..n : j < i => j \in E
  <2>1. SUFFICES ASSUME NEW i \in E, NEW j \in 1..n, j < i
                 PROVE  table[j].at <= time
    OBVIOUS
  <2>2. table[j].at <= table[i].at /\ table[i].at <= time /\ i \in 1..n
    BY <1>1, <2>1 DEF Chronological
  <2>3. QED
    BY <1>2, <2>2
<1>5. Cardinality(E) \in 0..n /\ E = 1..Cardinality(E)
  <2>1. E \in SUBSET (1..n)
    OBVIOUS
  <2> HIDE DEF E
  <2>2. QED
    BY <1>4, <2>1, InitialSegment
<1>6. ASSUME NEW i \in 1..n
      PROVE  i <= Cardinality(E) <=> table[i].at <= time
  <2>1. i \in E <=> table[i].at <= time
    OBVIOUS
  <2> HIDE DEF E
  <2>2. QED
    BY <1>5, <2>1
<1>7. QED
  BY <1>1, <1>3, <1>5, <1>6

(* Where a row goes, and what is around it then.                            *)
LEMMA InsertedAt ==
    ASSUME NEW table \in Seq(Row), NEW row \in Row,
           NEW n \in Nat, n = Len(table), Chronological(table)
    PROVE  /\ Inserted(table, row) \in Seq(Row)
           /\ Len(Inserted(table, row)) = n + 1
           /\ \E k \in 0..n : /\ EarlierFirst(table, row.at, n, k)
                              /\ RowAfter(Inserted(table, row), table, row, n, k)
<1>1. row.at \in Int
  BY RowTyped
<1>2. PICK k \in 0..n : k = UpTo(table, row.at) /\ EarlierFirst(table, row.at, n, k)
  BY <1>1, UpToIsPlace DEF EarlierFirst
<1>3. Inserted(table, row) = InsertAt(table, k + 1, row)
  BY <1>2 DEF Inserted
<1>4. /\ InsertAt(table, k + 1, row) \in Seq(Row)
      /\ Len(InsertAt(table, k + 1, row)) = n + 1
      /\ RowAfter(InsertAt(table, k + 1, row), table, row, n, k)
  BY <1>2, InsertAtPlace
<1>5. QED
  BY <1>2, <1>3, <1>4, Zenon

(* What a table has of the row's import is no later than it, and has no     *)
(* higher number.                                                           *)
NoneAfter(table, row) ==
    \A i \in DOMAIN table : table[i].import = row.import =>
        table[i].at <= row.at /\ table[i].nth <= row.nth

OnlyAdds(t, table, row) ==
    \A i \in DOMAIN t : t[i] = row \/ \E j \in DOMAIN table : t[i] = table[j]

(* A row that is put in its place leaves the table in the order of its       *)
(* times, and an import in the order it was given in if what there is of it  *)
(* already is no later and has no higher number.                            *)
LEMMA InsertedKeepsOrder ==
    ASSUME NEW table \in Seq(Row), NEW row \in Row,
           Chronological(table), InOrder(table), NoneAfter(table, row)
    PROVE  /\ Chronological(Inserted(table, row))
           /\ InOrder(Inserted(table, row))
           /\ OnlyAdds(Inserted(table, row), table, row)
<1>1. PICK n \in Nat : n = Len(table) /\ DOMAIN table = 1..n
                     /\ \A i \in 1..n : table[i] \in Row
  BY Element
<1>0. /\ Inserted(table, row) \in Seq(Row) /\ Len(Inserted(table, row)) = n + 1
      /\ \E k \in 0..n : /\ EarlierFirst(table, row.at, n, k)
                         /\ RowAfter(Inserted(table, row), table, row, n, k)
  BY <1>1, InsertedAt
<1>2. PICK t \in Seq(Row) : t = Inserted(table, row) /\ Len(t) = n + 1
  BY <1>0
<1>3. PICK k \in 0..n :
        /\ \A i \in 1..n : i <= k <=> table[i].at <= row.at
        /\ \A i \in 1..n + 1 : t[i] = IF i <= k THEN table[i]
                                     ELSE IF i = k + 1 THEN row ELSE table[i - 1]
  BY <1>0, <1>2 DEF EarlierFirst, RowAfter
<1>4. DOMAIN t = 1..n + 1
  BY <1>2, Element
<1>5. \A i \in 1..n : table[i].at \in Int
  BY <1>1, RowTyped
<1>6. row.at \in Int
  BY RowTyped
<1>7. ASSUME NEW i \in 1..n + 1
      PROVE  \/ i \in 1..n /\ i <= k /\ t[i] = table[i]
             \/ i = k + 1 /\ t[i] = row
             \/ i - 1 \in 1..n /\ i > k + 1 /\ t[i] = table[i - 1]
  <2>1. CASE i <= k
    BY <1>3, <2>1
  <2>2. CASE i = k + 1
    BY <1>3, <2>2
  <2>3. CASE i > k + 1
    <3>1. i - 1 \in 1..n /\ ~(i <= k) /\ i # k + 1
      BY <2>3
    <3>2. QED
      BY <1>3, <2>3, <3>1
  <2>4. QED
    BY <2>1, <2>2, <2>3
<1>8. ASSUME NEW i \in 1..n + 1, NEW j \in 1..n + 1, i < j
      PROVE  /\ t[i].at <= t[j].at
             /\ t[i].import = t[j].import => t[i].nth <= t[j].nth
  <2>1. CASE i = k + 1
    <3>1. j - 1 \in 1..n /\ j > k + 1 /\ t[j] = table[j - 1] /\ t[i] = row
      BY <1>7, <1>8, <2>1
    <3>2. ~(j - 1 <= k)
      BY <3>1
    <3>3. ~(table[j - 1].at <= row.at) /\ table[j - 1].at \in Int
      BY <1>3, <1>5, <3>1, <3>2
    <3>4. row.at <= table[j - 1].at /\ table[j - 1].import # row.import
      <4>1. row.at <= table[j - 1].at
        BY <1>6, <3>3
      <4>2. j - 1 \in DOMAIN table
        BY <1>1, <3>1
      <4>3. QED
        BY <3>3, <4>1, <4>2 DEF NoneAfter
    <3>5. QED
      BY <3>1, <3>4
  <2>2. CASE j = k + 1
    <3>1. i \in 1..n /\ i <= k /\ t[i] = table[i] /\ t[j] = row
      BY <1>7, <1>8, <2>2
    <3>2. table[i].at <= row.at
      BY <1>3, <3>1
    <3>3. QED
      BY <1>1, <3>1, <3>2 DEF NoneAfter
  <2>3. CASE i # k + 1 /\ j # k + 1
    <3>1. PICK x \in 1..n, y \in 1..n : x < y /\ t[i] = table[x] /\ t[j] = table[y]
      <4>1. PICK x \in 1..n : /\ t[i] = table[x]
                              /\ (i <= k /\ x = i) \/ (i > k + 1 /\ x = i - 1)
        BY <1>7, <2>3
      <4>2. PICK y \in 1..n : /\ t[j] = table[y]
                              /\ (j <= k /\ y = j) \/ (j > k + 1 /\ y = j - 1)
        BY <1>7, <2>3
      <4>3. x < y
        BY <1>8, <4>1, <4>2
      <4>4. QED
        BY <4>1, <4>2, <4>3
    <3>2. QED
      BY <1>1, <3>1 DEF Chronological, InOrder
  <2>4. QED
    BY <2>1, <2>2, <2>3
<1>9. ASSUME NEW i \in 1..n + 1
      PROVE  t[i] = row \/ \E j \in 1..n : t[i] = table[j]
  BY <1>7
<1>10. QED
  BY <1>1, <1>2, <1>4, <1>8, <1>9 DEF Chronological, InOrder, OnlyAdds

(* A row that is earlier than the last one leaves it the last.              *)
LEMMA InsertedBeforeLast ==
    ASSUME NEW table \in Seq(Row), NEW row \in Row,
           Chronological(table), table # <<>>
    PROVE  /\ Inserted(table, row) # <<>>
           /\ row.at < Last(table).at => Last(Inserted(table, row)) = Last(table)
           /\ row.at >= Last(table).at => Last(Inserted(table, row)) = row
<1>1. PICK n \in Nat : n = Len(table) /\ DOMAIN table = 1..n /\ n # 0
                     /\ \A i \in 1..n : table[i] \in Row
  BY Element
<1>0. /\ Inserted(table, row) \in Seq(Row) /\ Len(Inserted(table, row)) = n + 1
      /\ \E k \in 0..n : /\ EarlierFirst(table, row.at, n, k)
                         /\ RowAfter(Inserted(table, row), table, row, n, k)
  BY <1>1, InsertedAt
<1>2. PICK t \in Seq(Row) : t = Inserted(table, row) /\ Len(t) = n + 1
  BY <1>0
<1>3. PICK k \in 0..n :
        /\ \A i \in 1..n : i <= k <=> table[i].at <= row.at
        /\ \A i \in 1..n + 1 : t[i] = IF i <= k THEN table[i]
                                     ELSE IF i = k + 1 THEN row ELSE table[i - 1]
  BY <1>0, <1>2 DEF EarlierFirst, RowAfter
<1>4. Last(table) = table[n] /\ Last(t) = t[n + 1] /\ n \in 1..n /\ n + 1 \in 1..n + 1
  BY <1>1, <1>2 DEF Last
<1>5. table[n].at \in Int /\ row.at \in Int
  BY <1>1, <1>4, RowTyped
<1>6. t # <<>>
  BY <1>2
<1>7. ASSUME row.at < table[n].at
      PROVE  t[n + 1] = table[n]
  <2>1. ~(table[n].at <= row.at)
    BY <1>5, <1>7
  <2>2. ~(n <= k)
    BY <1>3, <1>4, <2>1
  <2>3. ~(n + 1 <= k) /\ n + 1 # k + 1 /\ (n + 1) - 1 = n
    BY <2>2
  <2>4. QED
    BY <1>3, <1>4, <2>3
<1>8. ASSUME row.at >= table[n].at
      PROVE  t[n + 1] = row
  <2>1. table[n].at <= row.at
    BY <1>5, <1>8
  <2>2. n <= k
    BY <1>3, <1>4, <2>1
  <2>3. ~(n + 1 <= k) /\ n + 1 = k + 1
    BY <2>2
  <2>4. QED
    BY <1>3, <1>4, <2>3
<1>9. QED
  BY <1>2, <1>4, <1>6, <1>7, <1>8

-----------------------------------------------------------------------------
(* An import *)

ImportRow(series, i) ==
    [at |-> ImportedAt(Len(series), i), price |-> series[i].price,
     import |-> imports + 1, nth |-> series[i].nth]

(* The tables behind Imported, one after each row.                          *)
ImportStep(series, f) ==
    [i \in 0..Len(series) |->
        IF i = 0 THEN rows ELSE Inserted(f[i - 1], ImportRow(series, i))]

Tables(series) == CHOOSE f : f = ImportStep(series, f)

LEMMA ImportedUnfolds ==
    ASSUME NEW series
    PROVE  Imported(series) = Tables(series)[Len(series)]
BY DEF Imported, Tables, ImportStep, ImportRow

(* What is imported: a series there is room for, in the order of its        *)
(* numbers.                                                                 *)
Entry == [price : Prices, nth : Dates \cup 0..MaxRows]

Importable(series) ==
    /\ series \in Seq(Entry)
    /\ Len(rows) + Len(series) <= MaxRows
    /\ \A i, j \in DOMAIN series : i < j => series[i].nth <= series[j].nth
    /\ imports < MaxImports

LEMMA DaysGrow ==
    ASSUME NEW d \in Nat \ {0}, NEW a \in Nat, NEW b \in Nat, a <= b
    PROVE  /\ d * a \in Nat /\ d * b \in Nat /\ d * a <= d * b
           /\ a >= 1 => d <= d * a
OBVIOUS

(* A made-up row is a day back at least, and none before it is later.        *)
LEMMA ImportRowTyped ==
    ASSUME now \in 0..MaxTime, imports \in 0..MaxImports, rows \in Seq(Row),
           NEW series, Importable(series), NEW n \in Nat, n = Len(series), NEW i \in 1..n
    PROVE  /\ ImportRow(series, i) \in Row
           /\ ImportRow(series, i).at <= now - Day
           /\ ImportRow(series, i).import = imports + 1
           /\ \A k \in 1..i : /\ ImportRow(series, k).at <= ImportRow(series, i).at
                              /\ ImportRow(series, k).nth <= ImportRow(series, i).nth
<1>1. /\ DOMAIN series = 1..n /\ n <= MaxRows
      /\ \A k \in 1..n : series[k] \in Entry
  <2>1. series \in Seq(Entry) /\ Len(rows) + n <= MaxRows /\ Len(rows) \in Nat
    BY Element DEF Importable
  <2>2. QED
    BY <2>1, BoundsTyped, Element
<1>2. \A k \in 1..n : /\ series[k].price \in Prices
                      /\ series[k].nth \in Dates \cup 0..MaxRows
                      /\ series[k].nth \in Int
  BY <1>1, BoundsTyped DEF Entry
<1>3. PICK d \in Nat \ {0}, m \in Nat, t \in Int :
          d = Day /\ m = MaxRows /\ t = now /\ t <= MaxTime /\ t >= 0 /\ n <= m
  BY <1>1, BoundsTyped
<1>4. ASSUME NEW k \in 1..n
      PROVE  /\ ImportRow(series, k).at = t - d * (n - k + 1)
             /\ ImportRow(series, k).price = series[k].price
             /\ ImportRow(series, k).import = imports + 1
             /\ ImportRow(series, k).nth = series[k].nth
  BY <1>3 DEF ImportRow, ImportedAt
<1>5. PICK x \in Nat : x = n - i + 1 /\ x >= 1 /\ x <= m
  BY <1>3
<1>6. d * x \in Nat /\ d <= d * x /\ d * x <= d * m /\ d * m \in Nat
  BY <1>5, DaysGrow
<1>7. /\ t - d * x \in Int /\ -(d * m) <= t - d * x
      /\ t - d * x <= MaxTime /\ t - d * x <= t - d
  BY <1>3, <1>6, BoundsTyped
<1>8. ImportRow(series, i).at \in -Day * MaxRows..MaxTime
  <2>1. -Day * MaxRows = -(d * m)
    BY <1>3
  <2>2. ImportRow(series, i).at = t - d * x
    BY <1>4, <1>5
  <2>3. QED
    BY <1>6, <1>7, <2>1, <2>2, BoundsTyped
<1>9. ImportRow(series, i) \in Row
  <2>1. imports + 1 \in 0..MaxImports
    BY BoundsTyped DEF Importable
  <2>2. /\ ImportedAt(Len(series), i) = ImportRow(series, i).at
        /\ series[i].price \in Prices /\ series[i].nth \in Dates \cup 0..MaxRows
    BY <1>2 DEF ImportRow
  <2>3. ImportedAt(Len(series), i) \in -Day * MaxRows..MaxTime
    BY <1>8, <2>2
  <2>4. QED
    BY <2>1, <2>2, <2>3 DEF ImportRow, Row
<1>10. ASSUME NEW k \in 1..i
       PROVE  /\ ImportRow(series, k).at <= ImportRow(series, i).at
              /\ ImportRow(series, k).nth <= ImportRow(series, i).nth
  <2>1. k \in 1..n
    OBVIOUS
  <2>2. PICK y \in Nat : y = n - k + 1 /\ x <= y
    <3>1. k <= i /\ k \in Nat /\ n - k + 1 \in Nat /\ i \in Nat
      OBVIOUS
    <3>2. n - i + 1 <= n - k + 1
      BY <3>1
    <3>3. QED
      BY <1>5, <3>1, <3>2
  <2>3. d * x <= d * y /\ d * y \in Nat
    BY <2>2, DaysGrow
  <2>4. t - d * y <= t - d * x
    BY <1>6, <2>3
  <2>5. ImportRow(series, k).at <= ImportRow(series, i).at
    BY <1>4, <1>5, <2>1, <2>2, <2>4
  <2>6. series[k].nth <= series[i].nth
    <3>1. CASE k = i
      BY <1>2, <3>1
    <3>2. CASE k # i
      <4>1. k < i /\ k \in DOMAIN series /\ i \in DOMAIN series
        BY <1>1, <2>1, <3>2
      <4>2. QED
        BY <4>1 DEF Importable
    <3>3. QED
      BY <3>1, <3>2
  <2>7. QED
    BY <1>4, <2>1, <2>5, <2>6
<1>11. QED
  BY <1>3, <1>4, <1>5, <1>7, <1>9, <1>10

LEMMA InsertedTyped ==
    ASSUME NEW S, NEW table \in Seq(S), NEW row \in S
    PROVE  Inserted(table, row) \in Seq(S)
<1>1. PICK n \in Nat : n = Len(table) /\ DOMAIN table = 1..n
  BY Element
<1>2. {i \in DOMAIN table : table[i].at <= row.at} \in SUBSET (1..n)
  BY <1>1
<1>3. PICK k \in 0..n : k = UpTo(table, row.at)
  BY <1>2, CountIsPlace DEF UpTo
<1>4. InsertAt(table, k + 1, row) \in Seq(S)
  BY <1>1, InsertAtPlace
<1>5. QED
  BY <1>3, <1>4 DEF Inserted

LEMMA ImportRecursion ==
    ASSUME now \in 0..MaxTime, imports \in 0..MaxImports, rows \in Seq(Row),
           NEW series, Importable(series), NEW n \in Nat, n = Len(series)
    PROVE  /\ Tables(series)[0] = rows
           /\ \A i \in 1..n :
                 Tables(series)[i] = Inserted(Tables(series)[i - 1], ImportRow(series, i))
<1> DEFINE V == Seq(Row)
           g == [p \in (1..n) \X V |-> Inserted(p[2], ImportRow(series, p[1]))]
<1>1. rows \in V
  OBVIOUS
<1>2. \A i \in 1..n, t \in V : /\ Inserted(t, ImportRow(series, i)) \in V
                               /\ g[<<i, t>>] = Inserted(t, ImportRow(series, i))
  <2>1. SUFFICES ASSUME NEW i \in 1..n, NEW t \in V
                 PROVE  /\ Inserted(t, ImportRow(series, i)) \in V
                        /\ g[<<i, t>>] = Inserted(t, ImportRow(series, i))
    OBVIOUS
  <2>2. ImportRow(series, i) \in Row
    BY <2>1, ImportRowTyped
  <2>3. Inserted(t, ImportRow(series, i)) \in V
    BY <2>1, <2>2, InsertedTyped
  <2> HIDE DEF V
  <2>4. <<i, t>> \in (1..n) \X V /\ <<i, t>>[1] = i /\ <<i, t>>[2] = t
    BY <2>1
  <2>5. QED
    BY <2>3, <2>4
<1>3. g \in [(1..n) \X V -> V]
  <2> HIDE DEF V
  <2>1. \A p \in (1..n) \X V : Inserted(p[2], ImportRow(series, p[1])) \in V
    BY <1>2
  <2>2. QED
    BY <2>1
<1> HIDE DEF g, V
<1>4. PICK f : Unfolds(f, n, V, rows, g)
  BY <1>1, <1>3, RecursionUpTo
<1>5. f = ImportStep(series, f)
  <2>1. /\ f \in [0..n -> V] /\ f[0] = rows
        /\ \A i \in 1..n : f[i] = g[<<i, f[i - 1]>>]
    BY <1>4 DEF Unfolds
  <2>2. ASSUME NEW i \in 0..n
        PROVE  f[i] = IF i = 0 THEN rows ELSE Inserted(f[i - 1], ImportRow(series, i))
    <3>1. CASE i = 0
      BY <2>1, <3>1
    <3>2. CASE i # 0
      <4>1. i \in 1..n /\ i - 1 \in 0..n
        BY <3>2
      <4>2. f[i - 1] \in V
        BY <2>1, <4>1
      <4>3. QED
        BY <1>2, <2>1, <3>2, <4>1, <4>2
    <3>3. QED
      BY <3>1, <3>2
  <2>3. QED
    BY <2>1, <2>2 DEF ImportStep
<1>6. Tables(series) = ImportStep(series, Tables(series))
  BY <1>5 DEF Tables
<1>7. QED
  BY <1>6 DEF ImportStep

(* What a table is after i of the rows of an import.                        *)
ImportedSoFar(series, t, i) ==
    /\ t \in Seq(Row) /\ Len(t) = Len(rows) + i
    /\ Chronological(t) /\ InOrder(t)
    /\ \A j \in DOMAIN t : \/ \E r \in DOMAIN rows : t[j] = rows[r]
                           \/ \E k \in 1..i : t[j] = ImportRow(series, k)
    /\ rows # <<>> /\ Last(rows).at > now - Day => t # <<>> /\ Last(t) = Last(rows)

LEMMA ImportStarts ==
    ASSUME HistoryInv, NEW series
    PROVE  ImportedSoFar(series, rows, 0)
<1>1. rows \in Seq(Row) /\ Len(rows) + 0 = Len(rows)
  BY Element DEF HistoryInv, TypeOK
<1>2. Chronological(rows) /\ InOrder(rows)
  BY DEF HistoryInv, ImportsKeepOrder
<1>3. QED
  BY <1>1, <1>2 DEF ImportedSoFar

LEMMA ImportGoesOn ==
    ASSUME HistoryInv, NEW series, Importable(series), NEW n \in Nat, n = Len(series),
           NEW i \in 0..n, i + 1 \in 0..n, NEW t, ImportedSoFar(series, t, i)
    PROVE  ImportedSoFar(series, Inserted(t, ImportRow(series, i + 1)), i + 1)
<1>1. /\ now \in 0..MaxTime /\ imports \in 0..MaxImports /\ rows \in Seq(Row)
      /\ \A r \in DOMAIN rows : rows[r].import <= imports /\ rows[r].import \in Nat
  <2>1. now \in 0..MaxTime /\ imports \in 0..MaxImports /\ rows \in Seq(Row)
    BY DEF HistoryInv, TypeOK
  <2>2. \A r \in DOMAIN rows : rows[r] \in Row
    BY <2>1, Element
  <2>3. QED
    BY <2>1, <2>2, RowTyped DEF HistoryInv, RowsOfImports
<1>2. PICK row \in Row : /\ row = ImportRow(series, i + 1) /\ row.at <= now - Day
                         /\ row.import = imports + 1
                         /\ \A k \in 1..i + 1 : /\ ImportRow(series, k).at <= row.at
                                                /\ ImportRow(series, k).nth <= row.nth
                                                /\ ImportRow(series, k) \in Row
  <2>1. i + 1 \in 1..n /\ \A k \in 1..i + 1 : k \in 1..n
    OBVIOUS
  <2>2. QED
    BY <1>1, <2>1, ImportRowTyped
<1>3. /\ t \in Seq(Row) /\ Len(t) = Len(rows) + i /\ Len(rows) \in Nat
      /\ Chronological(t) /\ InOrder(t)
      /\ \A j \in DOMAIN t : \/ \E r \in DOMAIN rows : t[j] = rows[r]
                             \/ \E k \in 1..i : t[j] = ImportRow(series, k)
  BY <1>1, Element DEF ImportedSoFar
<1>4. \A r \in Row : r.at \in Int
  BY RowTyped
<1>5. ASSUME NEW j \in DOMAIN t, t[j].import = row.import
      PROVE  t[j].at <= row.at /\ t[j].nth <= row.nth
  <2>1. ASSUME NEW r \in DOMAIN rows
        PROVE  t[j] # rows[r]
    <3>1. rows[r].import <= imports /\ rows[r].import \in Nat
      BY <1>1
    <3>2. rows[r].import # imports + 1
      BY <1>1, <3>1
    <3>3. QED
      BY <1>2, <1>5, <3>2
  <2>2. PICK k \in 1..i : t[j] = ImportRow(series, k)
    BY <1>3, <2>1
  <2>3. k \in 1..i + 1
    OBVIOUS
  <2>4. QED
    BY <1>2, <2>2, <2>3
<1>6. PICK u \in Seq(Row) : u = Inserted(t, row)
  BY <1>3, InsertedTyped
<1>7. Len(u) = Len(rows) + (i + 1)
  <2>1. PICK m \in Nat : m = Len(t)
    BY <1>3
  <2>2. Len(Inserted(t, row)) = m + 1
    BY <1>3, <1>4, <2>1, InsertedAt
  <2>3. QED
    BY <1>3, <1>6, <2>1, <2>2
<1>8. /\ Chronological(u) /\ InOrder(u)
      /\ \A j \in DOMAIN u : u[j] = row \/ \E k \in DOMAIN t : u[j] = t[k]
  <2>1. t \in Seq(Row) /\ row \in Row /\ Chronological(t) /\ InOrder(t)
    BY <1>3
  <2>2. NoneAfter(t, row)
    BY <1>5 DEF NoneAfter
  <2>3. /\ Chronological(Inserted(t, row)) /\ InOrder(Inserted(t, row))
        /\ OnlyAdds(Inserted(t, row), t, row)
    BY <2>1, <2>2, InsertedKeepsOrder
  <2>4. QED
    BY <1>6, <2>3 DEF OnlyAdds
<1>9. \A j \in DOMAIN u : \/ \E r \in DOMAIN rows : u[j] = rows[r]
                          \/ \E k \in 1..i + 1 : u[j] = ImportRow(series, k)
  <2>1. SUFFICES ASSUME NEW j \in DOMAIN u
                 PROVE  \/ \E r \in DOMAIN rows : u[j] = rows[r]
                        \/ \E k \in 1..i + 1 : u[j] = ImportRow(series, k)
    OBVIOUS
  <2>2. CASE u[j] = row
    <3>1. i + 1 \in 1..i + 1
      OBVIOUS
    <3>2. QED
      BY <1>2, <2>2, <3>1
  <2>3. ASSUME NEW k \in DOMAIN t, u[j] = t[k]
        PROVE  \/ \E r \in DOMAIN rows : u[j] = rows[r]
               \/ \E l \in 1..i + 1 : u[j] = ImportRow(series, l)
    <3>1. \A l \in 1..i : l \in 1..i + 1
      OBVIOUS
    <3>2. QED
      BY <1>3, <2>3, <3>1
  <2>4. QED
    BY <1>8, <2>1, <2>2, <2>3
<1>10. ASSUME rows # <<>>, Last(rows).at > now - Day
       PROVE  u # <<>> /\ Last(u) = Last(rows)
  <2>1. t # <<>> /\ Last(t) = Last(rows)
    BY <1>10 DEF ImportedSoFar
  <2>2. Last(rows).at \in Int
    <3>1. Last(rows) \in Row
      BY <1>1, <1>10, Element DEF Last
    <3>2. QED
      BY <3>1, RowTyped
  <2>3. row.at < Last(t).at
    <3>1. PICK a \in Int, b \in Int, c \in Int, d \in Int :
              a = row.at /\ b = Last(rows).at /\ c = now /\ d = Day
      BY <1>1, <1>4, <2>2, BoundsTyped
    <3>2. a <= c - d /\ b > c - d
      BY <1>2, <1>10, <3>1
    <3>3. a < b
      BY <3>2
    <3>4. QED
      BY <2>1, <3>1, <3>3
  <2>4. QED
    BY <1>3, <1>4, <1>6, <2>1, <2>3, InsertedBeforeLast
<1>11. ImportedSoFar(series, u, i + 1)
  BY <1>7, <1>8, <1>9, <1>10 DEF ImportedSoFar
<1>12. QED
  BY <1>2, <1>6, <1>11

LEMMA ImportEnds ==
    ASSUME HistoryInv, NEW series, Importable(series)
    PROVE  ImportedSoFar(series, Imported(series), Len(series))
<1>1. PICK n \in Nat : n = Len(series)
  BY Element DEF Importable
<1>2. /\ Tables(series)[0] = rows
      /\ \A i \in 1..n :
            Tables(series)[i] = Inserted(Tables(series)[i - 1], ImportRow(series, i))
  <2>1. now \in 0..MaxTime /\ imports \in 0..MaxImports /\ rows \in Seq(Row)
    BY DEF HistoryInv, TypeOK
  <2>2. QED
    BY <1>1, <2>1, ImportRecursion
<1> DEFINE S == {i \in 0..n : ImportedSoFar(series, Tables(series)[i], i)}
<1>3. 0 \in S
  BY <1>1, <1>2, ImportStarts
<1>4. ASSUME NEW i \in 0..n, i \in S, i + 1 \in 0..n
      PROVE  i + 1 \in S
  <2>1. i + 1 \in 1..n /\ (i + 1) - 1 = i
    BY <1>1, <1>4
  <2>2. Tables(series)[i + 1] = Inserted(Tables(series)[i], ImportRow(series, i + 1))
    BY <1>2, <2>1
  <2>3. ImportedSoFar(series, Tables(series)[i], i)
    BY <1>4
  <2>4. ImportedSoFar(series, Tables(series)[i + 1], i + 1)
    BY <1>1, <1>4, <2>2, <2>3, ImportGoesOn
  <2>5. QED
    BY <1>4, <2>4
<1> HIDE DEF S
<1>5. 0..n \subseteq S
  BY <1>1, <1>3, <1>4, UpToByInduction
<1>6. n \in S
  BY <1>1, <1>5
<1>7. QED
  BY <1>1, <1>6, ImportedUnfolds DEF S

-----------------------------------------------------------------------------
(* The invariant *)

(* What a writer of the price table leaves of the invariant.                *)
TableInv ==
    /\ rows \in Seq(Row) /\ Len(rows) <= MaxRows
    /\ Chronological(rows) /\ RowsInPast /\ RowsOfImports /\ ImportsKeepOrder

LEMMA ImportKeepsTable ==
    ASSUME HistoryInv, NEW series, Importable(series), rows' = Imported(series),
           imports' = imports + 1, now' = now
    PROVE  TableInv'
<1>1. PICK n \in Nat, t \in Seq(Row) :
          n = Len(series) /\ t = rows' /\ ImportedSoFar(series, t, n)
  <2>1. series \in Seq(Entry) /\ Len(series) \in Nat
    BY Element DEF Importable
  <2>2. ImportedSoFar(series, Imported(series), Len(series))
    BY ImportEnds
  <2>3. QED
    BY <2>1, <2>2 DEF ImportedSoFar
<1>2. /\ now \in 0..MaxTime /\ imports \in 0..MaxImports /\ rows \in Seq(Row)
      /\ RowsInPast /\ RowsOfImports
  BY DEF HistoryInv, TypeOK
<1>3. Len(t) <= MaxRows
  <2>1. Len(t) = Len(rows) + n /\ Len(rows) + n <= MaxRows
    BY <1>1 DEF ImportedSoFar, Importable
  <2>2. QED
    BY <2>1
<1>4. Chronological(t) /\ InOrder(t)
  BY <1>1 DEF ImportedSoFar
<1>5. ASSUME NEW j \in DOMAIN t
      PROVE  /\ t[j].at <= now
             /\ t[j].import = Live => t[j].nth = 0
             /\ t[j].import <= imports + 1
  <2>1. CASE \E r \in DOMAIN rows : t[j] = rows[r]
    <3>1. PICK r \in DOMAIN rows : t[j] = rows[r]
      BY <2>1
    <3>2. /\ rows[r].at <= now
          /\ rows[r].import = Live => rows[r].nth = 0
          /\ rows[r].import <= imports
      BY <1>2 DEF RowsInPast, RowsOfImports
    <3>3. rows[r].import \in Nat
      BY <1>2, Element, RowTyped
    <3>4. QED
      BY <1>2, <3>1, <3>2, <3>3
  <2>2. CASE \E k \in 1..n : t[j] = ImportRow(series, k)
    <3>1. PICK k \in 1..n : t[j] = ImportRow(series, k)
      BY <2>2
    <3>2. PICK row \in Row : /\ row = t[j] /\ row.at <= now - Day
                             /\ row.import = imports + 1
      BY <1>1, <1>2, <3>1, ImportRowTyped
    <3>3. row.at \in Int /\ Day \in Nat
      BY RowTyped, BoundsTyped
    <3>4. row.at <= now
      BY <1>2, <3>2, <3>3
    <3>5. QED
      BY <1>2, <3>2, <3>4 DEF Live
  <2>3. QED
    BY <1>1, <2>1, <2>2 DEF ImportedSoFar
<1>6. Chronological(rows') /\ InOrder(rows') /\ rows' \in Seq(Row) /\ Len(rows') <= MaxRows
  BY <1>1, <1>3, <1>4
<1>7. RowsInPast' /\ RowsOfImports'
  BY <1>1, <1>5 DEF RowsInPast, RowsOfImports, Live
<1>8. QED
  BY <1>6, <1>7 DEF TableInv, ImportsKeepOrder, InOrder, Chronological

(* A live price goes to the end of the table.                               *)
LiveRow(price) == [at |-> now, price |-> price, import |-> Live, nth |-> 0]

LEMMA RecordKeepsTable ==
    ASSUME HistoryInv, NEW price \in Prices, Room, rows' = Recorded(price),
           imports' = imports, now' = now
    PROVE  TableInv' /\ rows' # <<>> /\ Last(rows').import = Live
<1>1. /\ now \in 0..MaxTime /\ imports \in 0..MaxImports /\ rows \in Seq(Row)
      /\ Chronological(rows) /\ InOrder(rows) /\ RowsInPast /\ RowsOfImports
      /\ Len(rows) < MaxRows
  BY DEF HistoryInv, TypeOK, ImportsKeepOrder, Room
<1>2. PICK row \in Row : /\ row = LiveRow(price) /\ row.at = now
                         /\ row.import = Live /\ row.nth = 0
  <2>1. now \in -Day * MaxRows..MaxTime
    <3>1. PICK d \in Nat, m \in Nat : d = Day /\ m = MaxRows
      BY BoundsTyped
    <3>2. d * m \in Nat
      OBVIOUS
    <3>3. QED
      BY <1>1, <3>1, <3>2, BoundsTyped
  <2>2. Live \in 0..MaxImports /\ 0 \in Dates \cup 0..MaxRows
    BY BoundsTyped DEF Live
  <2>3. LiveRow(price) \in Row
    BY <2>1, <2>2 DEF LiveRow, Row
  <2>4. QED
    BY <2>3 DEF LiveRow
<1>3. PICK n \in Nat, t \in Seq(Row) : /\ n = Len(rows) /\ DOMAIN rows = 1..n
                                       /\ t = rows' /\ t = Inserted(rows, row)
  <2>1. Inserted(rows, row) \in Seq(Row)
    BY <1>1, InsertedTyped
  <2>2. rows' = Inserted(rows, row)
    BY <1>2 DEF Recorded, LiveRow
  <2>3. QED
    BY <1>1, <2>1, <2>2, Element
<1>4. \A r \in Row : r.at \in Int
  BY RowTyped
<1>5. \A i \in DOMAIN rows : /\ rows[i].at <= now
                             /\ rows[i].import = Live => rows[i].nth = 0
                             /\ rows[i].import <= imports
  BY <1>1 DEF RowsInPast, RowsOfImports
<1>6. /\ Chronological(t) /\ InOrder(t)
      /\ \A j \in DOMAIN t : t[j] = row \/ \E i \in DOMAIN rows : t[j] = rows[i]
  <2>1. NoneAfter(rows, row)
    BY <1>2, <1>5 DEF NoneAfter
  <2>2. /\ Chronological(Inserted(rows, row)) /\ InOrder(Inserted(rows, row))
        /\ OnlyAdds(Inserted(rows, row), rows, row)
    BY <1>1, <1>2, <2>1, InsertedKeepsOrder
  <2>3. QED
    BY <1>3, <2>2 DEF OnlyAdds
<1>7. Len(t) <= MaxRows
  <2>1. Len(Inserted(rows, row)) = n + 1
    BY <1>1, <1>3, <1>4, InsertedAt
  <2>2. QED
    BY <1>1, <1>3, <2>1, BoundsTyped
<1>8. ASSUME NEW j \in DOMAIN t
      PROVE  /\ t[j].at <= now
             /\ t[j].import = Live => t[j].nth = 0
             /\ t[j].import <= imports
  <2>1. CASE t[j] = row
    BY <1>1, <1>2, <2>1 DEF Live
  <2>2. CASE \E i \in DOMAIN rows : t[j] = rows[i]
    BY <1>5, <2>2
  <2>3. QED
    BY <1>6, <2>1, <2>2
<1>9. t # <<>> /\ Last(t) = row
  <2>1. CASE rows = <<>>
    <3>1. n = 0
      BY <1>3, <2>1
    <3>2. /\ Len(Inserted(rows, row)) = 1
          /\ \E k \in 0..0 : RowAfter(Inserted(rows, row), rows, row, 0, k)
      <4>1. 0 \in Nat /\ 0 = Len(rows) /\ 0 + 1 = 1
        BY <1>3, <3>1
      <4>2. /\ Len(Inserted(rows, row)) = 0 + 1
            /\ \E k \in 0..0 : /\ EarlierFirst(rows, row.at, 0, k)
                               /\ RowAfter(Inserted(rows, row), rows, row, 0, k)
        BY <1>1, <4>1, InsertedAt
      <4>3. QED
        BY <4>1, <4>2
    <3>3. t[1] = row /\ Len(t) = 1
      <4>1. PICK k \in 0..0 : RowAfter(t, rows, row, 0, k)
        BY <1>3, <3>2
      <4>2. 1 \in 1..0 + 1 /\ ~(1 <= k) /\ 1 = k + 1
        OBVIOUS
      <4>3. QED
        BY <1>3, <3>2, <4>1, <4>2 DEF RowAfter
    <3>4. t # <<>>
      <4>1. PICK u \in Seq(Row) : u = t /\ Len(u) = 0 + 1
        BY <1>3, <3>3
      <4>2. Len(u) # Len(<<>>)
        BY <4>1
      <4>3. QED
        BY <4>1, <4>2, Zenon
    <3>5. QED
      BY <3>3, <3>4 DEF Last
  <2>2. CASE rows # <<>>
    <3>1. n \in DOMAIN rows /\ Last(rows) = rows[n]
      BY <1>1, <1>3, <2>2 DEF Last
    <3>2. row.at >= Last(rows).at
      <4>1. rows[n].at \in Int
        BY <1>1, <1>3, <3>1, Element, RowTyped
      <4>2. QED
        BY <1>1, <1>2, <1>5, <3>1, <4>1
    <3>3. /\ Inserted(rows, row) # <<>>
          /\ row.at >= Last(rows).at => Last(Inserted(rows, row)) = row
      BY <1>1, <2>2, InsertedBeforeLast
    <3>4. QED
      BY <1>3, <3>2, <3>3
  <2>3. QED
    BY <2>1, <2>2
<1>10. Chronological(rows') /\ InOrder(rows') /\ rows' \in Seq(Row) /\ Len(rows') <= MaxRows
  BY <1>3, <1>6, <1>7
<1>11. RowsInPast' /\ RowsOfImports'
  BY <1>3, <1>8 DEF RowsInPast, RowsOfImports, Live
<1>12. QED
  BY <1>2, <1>3, <1>9, <1>10, <1>11 DEF TableInv, ImportsKeepOrder, InOrder, Chronological

(* The rows of the invariant are the table's, the rest is of the backfill.   *)
LEMMA InvSplit == HistoryInv <=> TypeOK /\ BackfillInOrder /\ TableInv
BY DEF HistoryInv, TableInv, TypeOK

LEMMA TableUndisturbed ==
    ASSUME HistoryInv, rows' = rows, imports' = imports, now' \in Nat, now <= now'
    PROVE  TableInv'
<1>1. /\ rows \in Seq(Row) /\ Len(rows) <= MaxRows /\ Chronological(rows)
      /\ InOrder(rows) /\ RowsInPast /\ RowsOfImports /\ now \in Nat
  BY DEF HistoryInv, TypeOK, ImportsKeepOrder
<1>2. RowsOfImports'
  BY <1>1 DEF RowsOfImports, Live
<1>3. RowsInPast'
  <2>1. ASSUME NEW i \in DOMAIN rows
        PROVE  rows[i].at <= now'
    <3>1. rows[i].at <= now /\ rows[i].at \in Int
      BY <1>1, Element, RowTyped DEF RowsInPast
    <3>2. QED
      BY <1>1, <3>1
  <2>2. QED
    BY <2>1 DEF RowsInPast
<1>4. Chronological(rows') /\ InOrder(rows') /\ rows' \in Seq(Row) /\ Len(rows') <= MaxRows
  BY <1>1
<1>5. QED
  BY <1>2, <1>3, <1>4 DEF TableInv, ImportsKeepOrder, InOrder, Chronological

LEMMA RecentTyped ==
    ASSUME rows \in Seq(Row), NEW limit \in Nat
    PROVE  RecentPrices(limit) \in Seq(Prices)
<1>1. Len(rows) \in Nat
  BY Element
<1>2. (IF Len(rows) > limit THEN Window(rows, limit) ELSE rows) \in Seq(Row)
  BY <1>1, WindowOf
<1>3. PICK v \in Seq(Row) : v = IF Len(rows) > limit THEN Window(rows, limit) ELSE rows
  BY <1>2
<1>4. PICK n \in Nat : n = Len(v) /\ DOMAIN v = 1..n /\ \A i \in 1..n : v[i] \in Row
  BY Element
<1>5. PricesOf(v) = [i \in 1..n |-> v[i].price]
  BY <1>4 DEF PricesOf
<1>6. \A i \in 1..n : v[i].price \in Prices
  BY <1>4, RowTyped
<1>7. PricesOf(v) \in Seq(Prices)
  BY <1>5, <1>6
<1>8. QED
  BY <1>3, <1>7 DEF RecentPrices

LEMMA JudgedTyped ==
    ASSUME TypeOK, NEW v \in Judged
    PROVE  v \in Seq(Prices) /\ v \in Seq(Int)
<1>1. v \in Seq(Prices)
  <2>1. CASE v = ScanSeries /\ scan # NoPrice
    <3>1. RecentPrices(HistoryLimit) \in Seq(Prices) /\ scan \in Prices
      BY <2>1, RecentTyped, HistoryAssumption DEF TypeOK
    <3>2. Append(RecentPrices(HistoryLimit), scan) \in Seq(Prices)
      BY <3>1
    <3>3. QED
      BY <2>1, <3>1, <3>2 DEF ScanSeries
  <2>2. CASE v = request.series
    BY <2>2 DEF TypeOK
  <2>3. QED
    BY <2>1, <2>2 DEF Judged
<1>2. Prices \subseteq Int
  BY BoundsTyped
<1>3. QED
  BY <1>1, <1>2, SeqMonotonic

LEMMA PartTyped ==
    ASSUME NEW S, NEW v \in Seq(S), NEW i \in Nat \ {0}, NEW j \in Int, j <= Len(v)
    PROVE  SubSeq(v, i, j) \in Seq(S)
<1>1. PICK n \in Nat : n = Len(v) /\ \A k \in 1..n : v[k] \in S
  BY Element
<1>2. \A k \in i..j : v[k] \in S
  <2>1. \A k \in i..j : k \in 1..n
    BY <1>1
  <2>2. QED
    BY <1>1, <2>1
<1>3. i \in Int
  OBVIOUS
<1>4. QED
  BY <1>2, <1>3, SubSeqProperties

LEMMA UpsertedTyped ==
    ASSUME bars \in Seq(DatedBar), NEW fresh \in Seq(DatedBar)
    PROVE  Upserted(fresh) \in Seq(DatedBar)
<1> DEFINE before == {i \in DOMAIN bars : bars[i].date < fresh[1].date}
           after  == {i \in DOMAIN bars : bars[i].date > Last(fresh).date}
<1>1. PICK n \in Nat : n = Len(bars) /\ DOMAIN bars = 1..n
  BY Element
<1>2. before \in SUBSET (1..n) /\ after \in SUBSET (1..n)
  BY <1>1
<1>3. Upserted(fresh) = SubSeq(bars, 1, Cardinality(before)) \o fresh
                            \o SubSeq(bars, Len(bars) - Cardinality(after) + 1, Len(bars))
  BY DEF Upserted
<1> HIDE DEF before, after
<1>4. PICK b \in 0..n, a \in 0..n : b = Cardinality(before) /\ a = Cardinality(after)
  BY <1>2, CountIsPlace
<1>5. PICK head \in Seq(DatedBar) : head = SubSeq(bars, 1, b)
  <2>1. b \in Int /\ b <= Len(bars) /\ 1 \in Nat \ {0}
    BY <1>1, <1>4
  <2>2. QED
    BY <2>1, PartTyped
<1>6. PICK tail \in Seq(DatedBar) : tail = SubSeq(bars, n - a + 1, n)
  <2>1. n - a + 1 \in Nat \ {0} /\ n \in Int /\ n <= Len(bars)
    BY <1>1, <1>4
  <2>2. QED
    BY <2>1, PartTyped
<1>7. Upserted(fresh) = (head \o fresh) \o tail
  BY <1>1, <1>3, <1>4, <1>5, <1>6
<1>8. QED
  BY <1>7, ConcatProperties

LEMMA QuotientBounds ==
    ASSUME NEW a \in Nat, NEW d \in Nat \ {0}
    PROVE  a \div d \in Nat /\ d * (a \div d) <= a /\ a < d * (a \div d) + d
OBVIOUS

LEMMA QuotientsGrow ==
    ASSUME NEW a \in Nat, NEW b \in Nat, a <= b, NEW d \in Nat \ {0}
    PROVE  a \div d \in Nat /\ a \div d <= b \div d
<1>1. PICK p \in Nat, q \in Nat : /\ p = a \div d /\ d * p <= a
                                  /\ q = b \div d /\ b < d * q + d
  BY QuotientBounds
<1>2. SUFFICES ASSUME q + 1 <= p
               PROVE  FALSE
  BY <1>1
<1>3. PICK x \in Nat, y \in Nat, z \in Nat :
          /\ x = d * (q + 1) /\ y = d * p /\ z = d * q
          /\ x <= y /\ x = z + d
  <2>1. q + 1 \in Nat /\ d * q \in Nat /\ d * (q + 1) = d * q + d
    OBVIOUS
  <2>2. d * (q + 1) \in Nat /\ d * p \in Nat /\ d * (q + 1) <= d * p
    BY <1>2, <2>1, DaysGrow
  <2>3. QED
    BY <2>1, <2>2
<1>4. QED
  BY <1>1, <1>3

(* The days a backfill is given, newest first, are dated and in order when   *)
(* they are reversed.                                                       *)
LEMMA BackfillTyped ==
    ASSUME now \in 0..MaxTime, NEW n \in 1..MaxDays, NEW reported \in [1..n -> Bars],
           NEW received,
           received = [i \in 1..n |-> [date |-> (now \div Day) - i + 1, bar |-> reported[i]]]
    PROVE  /\ Reverse(received) \in Seq(DatedBar)
           /\ \A i, j \in DOMAIN Reverse(received) :
                 i < j => Reverse(received)[i].date <= Reverse(received)[j].date
<1>1. PICK today \in Nat : today = now \div Day /\ today <= MaxTime \div Day
  <2>1. PICK d \in Nat \ {0}, m \in Nat, t \in Nat :
            d = Day /\ m = MaxTime /\ t = now /\ t <= m
    BY BoundsTyped
  <2>2. t \div d \in Nat /\ t \div d <= m \div d
    BY <2>1, QuotientsGrow
  <2>3. QED
    BY <2>1, <2>2
<1>2. Len(received) = n /\ n \in Nat /\ n <= MaxDays /\ MaxDays \in Nat
  BY BoundsTyped
<1>3. Reverse(received) = [i \in 1..n |-> received[(n - i) + 1]]
  BY <1>2 DEF Reverse
<1>4. ASSUME NEW i \in 1..n
      PROVE  /\ Reverse(received)[i] \in DatedBar
             /\ Reverse(received)[i].date = today - n + i
  <2>1. (n - i) + 1 \in 1..n /\ today - ((n - i) + 1) + 1 = today - n + i
    BY <1>1
  <2>2. Reverse(received)[i]
            = [date |-> today - n + i, bar |-> reported[(n - i) + 1]]
    BY <1>1, <1>3, <2>1
  <2>3. today - n + i \in Dates
    BY <1>1, <1>2, BoundsTyped
  <2>4. reported[(n - i) + 1] \in Bars
    BY <2>1
  <2>5. QED
    BY <2>2, <2>3, <2>4 DEF DatedBar
<1>5. Reverse(received) \in Seq(DatedBar) /\ DOMAIN Reverse(received) = 1..n
  <2>1. DOMAIN Reverse(received) = 1..n
    BY <1>3
  <2>2. Reverse(received) \in [1..n -> DatedBar]
    BY <1>3, <1>4
  <2>3. QED
    BY <1>2, <2>1, <2>2
<1>6. ASSUME NEW i \in 1..n, NEW j \in 1..n, i < j
      PROVE  Reverse(received)[i].date <= Reverse(received)[j].date
  <2>1. today - n + i <= today - n + j
    BY <1>1, <1>6
  <2>2. QED
    BY <1>4, <2>1
<1>7. QED
  BY <1>5, <1>6

LEMMA RequestTyped ==
    ASSUME TypeOK, NEW quote \in Prices
    PROVE  Append(request.series, quote) \in Seq(Prices)
BY DEF TypeOK

LEMMA EmptyTyped ==
    ASSUME NEW S
    PROVE  <<>> \in Seq(S)
OBVIOUS

LEMMA HistoryInvStart == Init => HistoryInv
<1>1. SUFFICES ASSUME Init
               PROVE  HistoryInv
  OBVIOUS
<1>2. /\ now = 0 /\ rows = <<>> /\ bars = <<>> /\ imports = 0 /\ scan = NoPrice
      /\ request = [pc |-> "idle", series |-> <<>>] /\ backfill = <<>>
  BY <1>1 DEF Init
<1>3. DOMAIN <<>> = {} /\ Len(<<>>) = 0
  OBVIOUS
<1>4. TypeOK
  BY <1>2, <1>3, BoundsTyped, EmptyTyped DEF TypeOK
<1>5. /\ Chronological(rows) /\ RowsInPast /\ RowsOfImports /\ BackfillInOrder
      /\ ImportsKeepOrder
  BY <1>2, <1>3
  DEF Chronological, RowsInPast, RowsOfImports, BackfillInOrder, ImportsKeepOrder, InOrder
<1>6. QED
  BY <1>4, <1>5 DEF HistoryInv

(* What is left of the invariant beside the price table.                    *)
RestInv ==
    /\ now \in 0..MaxTime /\ bars \in Seq(DatedBar) /\ imports \in 0..MaxImports
    /\ scan \in {NoPrice} \cup Prices
    /\ request \in [pc : {"idle", "read", "judging"}, series : Seq(Prices)]
    /\ backfill \in Seq(DatedBar) /\ BackfillInOrder

LEMMA InvParts == HistoryInv <=> TableInv /\ RestInv
BY DEF HistoryInv, TableInv, RestInv, TypeOK

LEMMA InvPartsNext == HistoryInv' <=> TableInv' /\ RestInv'
BY InvParts, PTL

(* What an import of the model's actions may be given.                      *)
LEMMA ImportImportable ==
    ASSUME HistoryInv, imports < MaxImports, NEW n \in 1..MaxRows - Len(rows),
           NEW prices \in [1..n -> Prices]
    PROVE  Importable([i \in 1..n |-> [price |-> prices[i], nth |-> i]])
<1> DEFINE series == [i \in 1..n |-> [price |-> prices[i], nth |-> i]]
<1>1. Len(rows) \in Nat /\ MaxRows \in Nat /\ n \in Nat /\ Len(rows) + n <= MaxRows
  <2>1. Len(rows) \in Nat /\ MaxRows \in Nat
    BY BoundsTyped, Element DEF HistoryInv, TypeOK
  <2>2. QED
    BY <2>1
<1>2. \A i \in 1..n : [price |-> prices[i], nth |-> i] \in Entry
  <2>1. \A i \in 1..n : i \in Dates \cup 0..MaxRows
    BY <1>1
  <2>2. QED
    BY <2>1 DEF Entry
<1>3. series \in Seq(Entry) /\ Len(series) = n /\ DOMAIN series = 1..n
  BY <1>1, <1>2
<1>4. \A i, j \in 1..n : i < j => series[i].nth <= series[j].nth
  <2>1. \A i \in 1..n : series[i].nth = i
    OBVIOUS
  <2> HIDE DEF series
  <2>2. QED
    BY <1>1, <2>1
<1> HIDE DEF series
<1>5. Importable(series)
  BY <1>1, <1>3, <1>4 DEF Importable
<1>6. QED
  BY <1>5 DEF series

LEMMA BackfillImportable ==
    ASSUME HistoryInv, imports < MaxImports, Len(rows) + Len(backfill) <= MaxRows
    PROVE  Importable([i \in DOMAIN backfill |->
                         [price |-> backfill[i].bar.close, nth |-> backfill[i].date]])
<1> DEFINE series == [i \in DOMAIN backfill |->
                        [price |-> backfill[i].bar.close, nth |-> backfill[i].date]]
<1>1. PICK n \in Nat : /\ n = Len(backfill) /\ DOMAIN backfill = 1..n
                       /\ \A i \in 1..n : backfill[i] \in DatedBar
  BY Element DEF HistoryInv, TypeOK
<1>2. series = [i \in 1..n |-> [price |-> backfill[i].bar.close, nth |-> backfill[i].date]]
  BY <1>1
<1> HIDE DEF series
<1>3. \A i \in 1..n : /\ backfill[i].bar.close \in Prices
                      /\ backfill[i].date \in Dates \cup 0..MaxRows
  BY <1>1, BarsTyped DEF DatedBar
<1>4. \A i \in 1..n : /\ series[i] \in Entry
                      /\ series[i].nth = backfill[i].date
  BY <1>2, <1>3 DEF Entry
<1>5. series \in Seq(Entry) /\ Len(series) = n /\ DOMAIN series = 1..n
  BY <1>2, <1>4
<1>6. \A i, j \in 1..n : i < j => series[i].nth <= series[j].nth
  <2>1. \A i, j \in 1..n : i < j => backfill[i].date <= backfill[j].date
    BY <1>1 DEF HistoryInv, BackfillInOrder
  <2>2. QED
    BY <1>4, <2>1
<1>7. Importable(series)
  BY <1>1, <1>5, <1>6 DEF Importable
<1>8. QED
  BY <1>7 DEF series

(* No step leaves the invariant.                                            *)
LEMMA HistoryInvStep ==
    ASSUME HistoryInv, [Next]_vars
    PROVE  HistoryInv'
<1>1. /\ TypeOK /\ RestInv /\ now \in 0..MaxTime /\ MaxTime \in Nat
      /\ rows \in Seq(Row) /\ now \in Nat
  BY InvParts, BoundsTyped DEF HistoryInv, TypeOK
<1>2. CASE Tick
  <2>1. now' \in 0..MaxTime /\ now <= now' /\ now' \in Nat
    BY <1>1, <1>2 DEF Tick
  <2>2. TableInv'
    BY <1>2, <2>1, TableUndisturbed DEF Tick
  <2>3. RestInv'
    BY <1>1, <1>2, <2>1 DEF Tick, RestInv, BackfillInOrder
  <2>4. QED
    BY <2>2, <2>3, InvPartsNext
<1>3. CASE ScanRecord
  <2>1. TableInv'
    BY <1>3, RecordKeepsTable DEF ScanRecord
  <2>2. RestInv'
    BY <1>1, <1>3 DEF ScanRecord, RestInv, BackfillInOrder
  <2>3. QED
    BY <2>1, <2>2, InvPartsNext
<1>4. CASE ScanJudge
  <2>1. TableInv'
    BY <1>1, <1>4, TableUndisturbed DEF ScanJudge
  <2>2. RestInv'
    BY <1>1, <1>4 DEF ScanJudge, RestInv, BackfillInOrder
  <2>3. QED
    BY <2>1, <2>2, InvPartsNext
<1>5. CASE RequestRead
  <2>1. TableInv'
    BY <1>1, <1>5, TableUndisturbed DEF RequestRead
  <2>2. RecentPrices(HistoryLimit) \in Seq(Prices) /\ <<>> \in Seq(Prices)
    BY <1>1, RecentTyped, EmptyTyped, HistoryAssumption
  <2>3. request' \in [pc : {"idle", "read", "judging"}, series : Seq(Prices)]
    <3>1. PICK series \in Seq(Prices) : request' = [pc |-> "read", series |-> series]
      BY <1>5, <2>2 DEF RequestRead
    <3>2. QED
      BY <3>1
  <2>4. RestInv'
    BY <1>1, <1>5, <2>3 DEF RequestRead, RestInv, BackfillInOrder
  <2>5. QED
    BY <2>1, <2>4, InvPartsNext
<1>6. CASE RequestQuote
  <2>1. request' \in [pc : {"idle", "read", "judging"}, series : Seq(Prices)]
    <3>1. /\ request \in [pc : {"idle", "read", "judging"}, series : Seq(Prices)]
          /\ request.series \in Seq(Prices)
      BY <1>1 DEF RestInv
    <3>2. CASE request' = [request EXCEPT !.pc = "judging"]
      BY <3>1, <3>2
    <3>3. ASSUME NEW quote \in Prices,
                 request' = [pc |-> "judging", series |-> Append(request.series, quote)]
          PROVE  request' \in [pc : {"idle", "read", "judging"}, series : Seq(Prices)]
      <4>1. PICK series \in Seq(Prices) : series = Append(request.series, quote)
        BY <1>1, RequestTyped
      <4>2. QED
        BY <3>3, <4>1
    <3>4. QED
      BY <1>6, <3>2, <3>3 DEF RequestQuote
  <2>2. RestInv'
    BY <1>1, <1>6, <2>1 DEF RequestQuote, RestInv, BackfillInOrder
  <2>3. TableInv'
    <3>1. CASE rows' = rows
      BY <1>1, <1>6, <3>1, TableUndisturbed DEF RequestQuote
    <3>2. ASSUME NEW quote \in Prices, Room, rows' = Recorded(quote)
          PROVE  TableInv'
      BY <1>6, <3>2, RecordKeepsTable DEF RequestQuote
    <3>3. QED
      BY <1>6, <3>1, <3>2 DEF RequestQuote
  <2>4. QED
    BY <2>2, <2>3, InvPartsNext
<1>7. CASE RequestJudge
  <2>1. TableInv'
    BY <1>1, <1>7, TableUndisturbed DEF RequestJudge
  <2>2. RestInv'
    BY <1>1, <1>7, EmptyTyped DEF RequestJudge, RestInv, BackfillInOrder
  <2>3. QED
    BY <2>1, <2>2, InvPartsNext
<1>8. CASE Import
  <2>1. imports' \in 0..MaxImports
    BY <1>1, <1>8, BoundsTyped DEF Import, RestInv
  <2>2. RestInv'
    BY <1>1, <1>8, <2>1 DEF Import, RestInv, BackfillInOrder
  <2>3. PICK series : Importable(series) /\ rows' = Imported(series)
    BY <1>8, ImportImportable DEF Import
  <2>4. TableInv'
    BY <1>8, <2>3, ImportKeepsTable DEF Import
  <2>5. QED
    BY <2>2, <2>4, InvPartsNext
<1>9. CASE BackfillBars
  <2>0. PICK n \in 1..MaxDays : \E reported \in [1..n -> Bars] :
            LET today == now \div Day
                received == [i \in 1..n |-> [date |-> today - i + 1, bar |-> reported[i]]]
            IN  /\ backfill' = Reverse(received)
                /\ bars' = Upserted(Reverse(received))
    BY <1>9 DEF BackfillBars
  <2>1. PICK reported \in [1..n -> Bars] : \E received :
            /\ received = [i \in 1..n |-> [date |-> (now \div Day) - i + 1,
                                           bar |-> reported[i]]]
            /\ backfill' = Reverse(received) /\ bars' = Upserted(Reverse(received))
    BY <2>0
  <2>2. PICK received :
            /\ received = [i \in 1..n |-> [date |-> (now \div Day) - i + 1,
                                           bar |-> reported[i]]]
            /\ backfill' = Reverse(received) /\ bars' = Upserted(Reverse(received))
    BY <2>1
  <2>3. backfill' \in Seq(DatedBar) /\ BackfillInOrder'
    BY <1>1, <2>2, BackfillTyped DEF BackfillInOrder
  <2>4. bars' \in Seq(DatedBar)
    BY <1>1, <2>2, <2>3, UpsertedTyped DEF RestInv
  <2>5. RestInv'
    BY <1>1, <1>9, <2>3, <2>4 DEF BackfillBars, RestInv
  <2>6. TableInv'
    BY <1>1, <1>9, TableUndisturbed DEF BackfillBars
  <2>7. QED
    BY <2>5, <2>6, InvPartsNext
<1>10. CASE BackfillCloses
  <2>1. imports' \in 0..MaxImports
    BY <1>1, <1>10, BoundsTyped DEF BackfillCloses, RestInv
  <2>2. BackfillInOrder' /\ backfill' \in Seq(DatedBar)
    BY <1>10, EmptyTyped DEF BackfillCloses, BackfillInOrder
  <2>3. RestInv'
    BY <1>1, <1>10, <2>1, <2>2 DEF BackfillCloses, RestInv
  <2>4. TableInv'
    <3>1. CASE UNCHANGED <<rows, imports>>
      BY <1>1, <1>10, <3>1, TableUndisturbed DEF BackfillCloses
    <3>2. CASE ~UNCHANGED <<rows, imports>>
      <4>1. PICK series : Importable(series) /\ rows' = Imported(series)
        BY <1>10, <3>2, BackfillImportable DEF BackfillCloses
      <4>2. QED
        BY <1>10, <3>2, <4>1, ImportKeepsTable DEF BackfillCloses
    <3>3. QED
      BY <3>1, <3>2
  <2>5. QED
    BY <2>3, <2>4, InvPartsNext
<1>11. CASE UNCHANGED vars
  <2>1. TableInv'
    BY <1>1, <1>11, TableUndisturbed DEF vars
  <2>2. RestInv'
    BY <1>1, <1>11 DEF vars, RestInv, BackfillInOrder
  <2>3. QED
    BY <2>1, <2>2, InvPartsNext
<1>12. QED
  BY <1>2, <1>3, <1>4, <1>5, <1>6, <1>7, <1>8, <1>9, <1>10, <1>11 DEF Next

-----------------------------------------------------------------------------
(* Theorems *)

(* Whatever the writers of the two tables do, and however they interleave.  *)
THEOREM HistoryInvariant == Spec => []HistoryInv
<1>1. Init => HistoryInv
  BY HistoryInvStart
<1>2. HistoryInv /\ [Next]_vars => HistoryInv'
  BY HistoryInvStep
<1>3. QED
  BY <1>1, <1>2, PTL DEF Spec

(* Rows, bars and series are what the code's types say, and the tables and  *)
(* the timestamps stay within their bounds.                                 *)
THEOREM TypeCorrect == Spec => []TypeOK
<1>1. HistoryInv => TypeOK
  BY DEF HistoryInv
<1>2. QED
  BY <1>1, HistoryInvariant, PTL

(* db/mod.rs:217, a series stays in the order it was given, between prices   *)
(* of other imports and live ones, for any number of imports.               *)
THEOREM ImportsKeepOrderAlways == Spec => []ImportsKeepOrder
<1>1. HistoryInv => ImportsKeepOrder
  BY DEF HistoryInv
<1>2. QED
  BY <1>1, HistoryInvariant, PTL

(* No import takes the place of a price seen in the last day.               *)
THEOREM LiveStaysLatestAlways == Spec => LiveStaysLatest
<1> DEFINE Stays == rows # <<>> /\ Last(rows).import = Live /\ Last(rows).at > now - Day
                        => Last(rows').import = Live
<1>1. ASSUME HistoryInv, [Next]_vars
      PROVE  [Stays]_vars
  <2>1. CASE rows' = rows
    BY <2>1
  <2>2. ASSUME NEW price \in Prices, Room, rows' = Recorded(price), imports' = imports,
               now' = now
        PROVE  Stays
    BY <1>1, <2>2, RecordKeepsTable
  <2>3. ASSUME NEW series, Importable(series), rows' = Imported(series)
        PROVE  Stays
    <3>1. ImportedSoFar(series, rows', Len(series))
      BY <1>1, <2>3, ImportEnds
    <3>2. rows # <<>> /\ Last(rows).at > now - Day => Last(rows') = Last(rows)
      BY <3>1 DEF ImportedSoFar
    <3>3. QED
      BY <3>2
  <2> HIDE DEF Stays
  <2>4. CASE Tick \/ ScanJudge \/ RequestRead \/ RequestJudge \/ BackfillBars
    BY <2>1, <2>4 DEF Tick, ScanJudge, RequestRead, RequestJudge, BackfillBars
  <2>5. CASE ScanRecord \/ RequestQuote
    BY <2>1, <2>2, <2>5 DEF ScanRecord, RequestQuote
  <2>6. CASE Import
    BY <1>1, <2>3, <2>6, ImportImportable DEF Import
  <2>7. CASE BackfillCloses
    BY <1>1, <2>1, <2>3, <2>7, BackfillImportable DEF BackfillCloses
  <2>8. QED
    BY <1>1, <2>4, <2>5, <2>6, <2>7 DEF Next
<1>2. QED
  BY <1>1, HistoryInvariant, PTL DEF Spec, LiveStaysLatest

(* A weight on the RSI agrees with what the price did over its window, for   *)
(* every series a scan or a request judges.                                 *)
THEOREM RsiFollowsPriceAlways == Spec => []RsiFollowsPrice
<1>1. ASSUME TypeOK
      PROVE  RsiFollowsPrice
  <2>1. SUFFICES ASSUME NEW v \in Judged, Len(v) > RsiPeriod
                 PROVE  /\ RsiWeight(v) = 6 => Last(v) < v[Len(v) - RsiPeriod]
                        /\ RsiWeight(v) = -6 => Last(v) >= v[Len(v) - RsiPeriod]
    BY DEF RsiFollowsPrice
  <2>2. v \in Seq(Int)
    BY <1>1, <2>1, JudgedTyped
  <2>3. /\ RsiWeight(v) = 6 => v[Len(v)] < v[Len(v) - RsiPeriod]
        /\ RsiWeight(v) = -6 => v[Len(v)] >= v[Len(v) - RsiPeriod]
    BY <2>1, <2>2, RsiSeesTheTrend
  <2>4. QED
    BY <2>3 DEF Last
<1>2. TypeOK => RsiFollowsPrice
  BY <1>1
<1>3. QED
  BY <1>2, TypeCorrect, PTL

(* indicators.rs:174, whatever series is judged: the line is not negative on  *)
(* an uptrend and not positive on a downtrend.                              *)
THEOREM MacdFollowsTrendAlways == Spec => []MacdFollowsTrend
<1>1. ASSUME TypeOK
      PROVE  MacdFollowsTrend
  <2>1. SUFFICES ASSUME NEW v \in Judged, HasMacd(v)
                 PROVE  /\ Rises(v) => Macd(v).line >= 0
                        /\ Falls(v) => Macd(v).line <= 0
    BY DEF MacdFollowsTrend, Rises, Falls
  <2>2. v \in Seq(Int)
    BY <1>1, <2>1, JudgedTyped
  <2>3. QED
    BY <2>1, <2>2, MacdSeesTheTrend
<1>2. TypeOK => MacdFollowsTrend
  BY <1>1
<1>3. QED
  BY <1>2, TypeCorrect, PTL

(* pipeline.rs:335-350, no verdict on the indicators alone without the RSI,  *)
(* whatever series a scan or a request judges.                              *)
THEOREM TechnicalsNeedRsiAlways == Spec => []TechnicalsNeedRsi
<1>1. ASSUME TypeOK
      PROVE  TechnicalsNeedRsi
  <2>1. SUFFICES ASSUME NEW v \in Judged, TechnicalScore(v) \notin -Threshold..Threshold
                 PROVE  RsiWeight(v) # 0
    BY DEF TechnicalsNeedRsi
  <2>2. v \in Seq(Int) /\ TechnicalScore(v) \notin -7..7
    BY <1>1, <2>1, JudgedTyped DEF Threshold
  <2>3. QED
    BY <2>2, ScoreNeedsRsi
<1>2. TypeOK => TechnicalsNeedRsi
  BY <1>1
<1>3. QED
  BY <1>2, TypeCorrect, PTL

(* The range of the bars a series of backfills left is at least what their   *)
(* closes alone show.                                                       *)
THEOREM AtrSeesGapsAlways == Spec => []AtrSeesGaps
<1>1. ASSUME TypeOK
      PROVE  AtrSeesGaps
  <2>1. AtrPeriod \in Nat /\ AtrPeriod + Spare \in Nat
    BY HistoryAssumption
  <2>2. PICK recent \in Seq(DatedBar) : recent = RecentBars(AtrPeriod + Spare)
    <3>1. bars \in Seq(DatedBar) /\ Len(bars) \in Nat
      BY <1>1, Element DEF TypeOK
    <3>2. RecentBars(AtrPeriod + Spare) \in Seq(DatedBar)
      BY <2>1, <3>1, WindowOf DEF RecentBars
    <3>3. QED
      BY <3>2
  <2>3. PICK n \in Nat : /\ n = Len(recent) /\ DOMAIN recent = 1..n
                         /\ \A i \in 1..n : recent[i] \in DatedBar
    BY Element
  <2>4. LatestBars = [i \in 1..n |-> recent[i].bar]
    BY <2>2, <2>3 DEF LatestBars
  <2>5. \A i \in 1..n : recent[i].bar \in Bars
    BY <2>3 DEF DatedBar
  <2>6. LatestBars \in Seq(Bars)
    BY <2>4, <2>5
  <2>7. QED
    BY <2>1, <2>6, AtrAtLeastCloses DEF AtrSeesGaps
<1>2. TypeOK => AtrSeesGaps
  BY <1>1
<1>3. QED
  BY <1>2, TypeCorrect, PTL
=============================================================================

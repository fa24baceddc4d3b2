----------------------------- MODULE Indicators -----------------------------
(***************************************************************************)
(* indicators.rs and what run_candidate makes of it.  A series is a        *)
(* sequence of prices, oldest first; prices are integers.  Averages that   *)
(* are rolled forward are fixed-point numbers, in units of 1/Unit; all     *)
(* other ratios are compared by cross-multiplication.  Weights are counted *)
(* in twentieths, as in Pipeline.                                          *)
(***************************************************************************)
EXTENDS Integers, SequencesExt

CONSTANTS
    RsiPeriod,      \* 14
    SmaPeriod,      \* 20, that of the bands too
    Fast, Slow,     \* 12 and 26
    SignalPeriod,   \* 9
    Unit            \* fixed-point ones

ASSUME PeriodsAssumption ==
    /\ RsiPeriod \in Nat \ {0} /\ SmaPeriod \in Nat \ {0}
    /\ Fast \in Nat \ {0} /\ SignalPeriod \in Nat \ {0}
    /\ Slow \in Nat /\ Slow >= Fast
    /\ RsiPeriod < SmaPeriod
    /\ Unit \in Nat \ {0} /\ Unit >= Slow * Slow  \* rounding well below a price

Total(v) ==
    LET sum[i \in 0..Len(v)] == IF i = 0 THEN 0 ELSE sum[i - 1] + v[i]
    IN  sum[Len(v)]

Window(v, n) == SubSeq(v, Len(v) - n + 1, Len(v))

Changes(v) == [i \in 1..Len(v) - 1 |-> v[i + 1] - v[i]]

Gap(x) == IF x < 0 THEN -x ELSE x

-----------------------------------------------------------------------------
(* Rsi: what a window of the last period changes gained and lost.            *)
Rsi(v, period) ==
    LET moves == Changes(Window(v, period + 1))
    IN  [gains  |-> Total([i \in DOMAIN moves |-> IF moves[i] > 0 THEN moves[i] ELSE 0]),
         losses |-> Total([i \in DOMAIN moves |-> IF moves[i] > 0 THEN 0 ELSE -moves[i]])]

(* 100 - 100 / (1 + gains / losses) against a bound, and 100 without losses. *)
Below(r, bound) == r.losses # 0 /\ r.gains * (100 - bound) < bound * r.losses
Above(r, bound) == r.losses = 0 \/ r.gains * (100 - bound) > bound * r.losses

(* ema_series: seeded with the average of the first period values.          *)
EmaSeries(v, period) ==
    LET ema[i \in 0..Len(v) - period] ==
            IF i = 0 THEN Total(SubSeq(v, 1, period)) \div period
                     ELSE (2 * v[period + i] + (period - 1) * ema[i - 1]) \div (period + 1)
    IN  [i \in 1..Len(v) - period + 1 |-> ema[i - 1]]

(* Mutant: the two averages are paired from their heads. *)
MacdLineFromHeads(v) ==
    LET fast == EmaSeries(v, Fast)
        slow == EmaSeries(v, Slow)
    IN  [i \in 1..Len(slow) |-> fast[i] - slow[i]]

(* The difference of a fast and a slow average, for as long as there are both. *)
MacdLine(v) ==
    LET fast == EmaSeries(v, Fast)
        slow == EmaSeries(v, Slow)
        offset == Len(fast) - Len(slow)
    IN  [i \in 1..Len(slow) |-> fast[i + offset] - slow[i]]

HasMacd(v) == Len(v) >= Slow + SignalPeriod - 1

(* macd: the line and its signal.                                           *)
Macd(v) ==
    LET line == MacdLine([i \in DOMAIN v |-> v[i] * Unit])
    IN  [line |-> Last(line), signal |-> Last(EmaSeries(line, SignalPeriod))]

(* sma: above the average of the last period.                               *)
AboveAverage(v, period) == Last(v) * period > Total(Window(v, period))

(* bollinger_bands: more than two standard deviations off the average.       *)
OutsideBands(v, period) ==
    LET window == Window(v, period)
        sum    == Total(window)
        off    == Last(v) * period - sum
    IN  off * off > 4 * (period * Total([i \in DOMAIN window |-> window[i] * window[i]])
                          - sum * sum)

(* atr_from_closes and atr, times the period.                               *)
AtrFromCloses(closes, period) ==
    LET moves == Changes(Window(closes, period + 1))
    IN  Total([i \in DOMAIN moves |-> Gap(moves[i])])

(* Mutant: the day's own range only. *)
TrueRangeWithoutGap(bar, previous) == bar.high - bar.low

TrueRange(bar, previous) ==
    Max({bar.high - bar.low, Gap(bar.high - previous.close), Gap(bar.low - previous.close)})

Atr(bars, period) ==
    LET last == Window(bars, period + 1)
    IN  Total([i \in 1..period |-> TrueRange(last[i + 1], last[i])])

-----------------------------------------------------------------------------
(* The technical score of run_candidate *)

(* Mutant: swapped weights. *)
RsiWeightSwapped(v) ==
    IF Len(v) <= RsiPeriod THEN 0
    ELSE IF Below(Rsi(v, RsiPeriod), 30) THEN -6
    ELSE IF Above(Rsi(v, RsiPeriod), 75) THEN 6 ELSE 0

(* Oversold is a reason to buy, overbought one not to.                      *)
RsiWeight(v) ==
    IF Len(v) <= RsiPeriod THEN 0
    ELSE IF Below(Rsi(v, RsiPeriod), 30) THEN 6
    ELSE IF Above(Rsi(v, RsiPeriod), 75) THEN -6 ELSE 0

(* Mutant: the trend is added up twice. *)
TrendWeightTwice(v) ==
    CASE Len(v) < SmaPeriod -> 0
      [] Len(v) >= SmaPeriod /\ AboveAverage(v, SmaPeriod) -> 6
      [] Len(v) >= SmaPeriod /\ ~AboveAverage(v, SmaPeriod) -> -6

(* Above the average or not.                                                *)
TrendWeight(v) ==
    CASE Len(v) < SmaPeriod -> 0
      [] Len(v) >= SmaPeriod /\ AboveAverage(v, SmaPeriod) -> 3
      [] Len(v) >= SmaPeriod /\ ~AboveAverage(v, SmaPeriod) -> -3

MacdWeight(v) ==
    IF ~HasMacd(v) THEN 0
    ELSE IF Macd(v).line > Macd(v).signal THEN 3 ELSE -3

(* Stretched above the bands, or below them.                                *)
BandsWeight(v) ==
    CASE Len(v) < SmaPeriod -> 0
      [] Len(v) >= SmaPeriod /\ ~OutsideBands(v, SmaPeriod) -> 0
      [] Len(v) >= SmaPeriod /\ OutsideBands(v, SmaPeriod) ->
            IF AboveAverage(v, SmaPeriod) THEN -2 ELSE 2

TechnicalScore(v) == RsiWeight(v) + TrendWeight(v) + MacdWeight(v) + BandsWeight(v)
=============================================================================

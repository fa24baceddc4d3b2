------------------------------ MODULE Backtest ------------------------------
(***************************************************************************)
(* backtest::run: one entry replayed against a series of closes with the   *)
(* rule engine of Strategy.  A step is one price of the series, which may  *)
(* be any; the series may end after any price.  Money is counted in price  *)
(* times parts of the position, so the whole position bought at entry cost *)
(* Whole * entry.  sweep replays each of its configurations like this.     *)
(***************************************************************************)
EXTENDS Strategy

CONSTANTS
    Configs,     \* the configurations a sweep tries
    Prices,      \* closes of the series
    EntryPrice,  \* entry_price
    MaxPrices    \* bound: length of the series

ASSUME ConfigsAssumption == \A cfg \in Configs : IsConfig(cfg)
ASSUME PricesAssumption  == /\ Prices \subseteq Nat \ {0}
                            /\ EntryPrice \in Nat \ {0}
                            /\ MaxPrices \in Nat

VARIABLES
    cfg,         \* the configuration of this run
    pos,         \* entry, peak, and the parts sold (realized_fraction)
    realized,    \* realized_value
    status,      \* replaying, exited (fully_exited), or at the end
    lastPrice,   \* last_price
    peakEquity,  \* peak_equity
    worst,       \* max_drawdown_pct, as a loss of a peak
    events,      \* the events of the result
    curve        \* history: every price and the equity it was marked at

vars == <<cfg, pos, realized, status, lastPrice, peakEquity, worst, events, curve>>

AllPrices == Prices \cup {EntryPrice}

TypeOK ==
    /\ cfg \in Configs
    /\ pos \in [entry : {EntryPrice}, peak : AllPrices, sold : 0..Whole]
    /\ realized \in Nat
    /\ status \in {"replaying", "exited", "ended"}
    /\ lastPrice \in AllPrices
    /\ peakEquity \in Nat \ {0}
    /\ worst \in [loss : Nat, of : Nat \ {0}]
    /\ events \in Seq([action : {"sell_all", "trim_profit"}, parts : 1..Whole,
                       price : Prices])
    /\ curve \in Seq([price : AllPrices, equity : Nat])

Init ==
    /\ cfg \in Configs
    /\ pos = [entry |-> EntryPrice, peak |-> EntryPrice, sold |-> 0]
    /\ realized = 0
    /\ status = "replaying"
    /\ lastPrice = EntryPrice
    /\ peakEquity = Whole * EntryPrice
    /\ worst = [loss |-> 0, of |-> Whole * EntryPrice]
    /\ events = <<>>
    /\ curve = <<[price |-> EntryPrice, equity |-> Whole * EntryPrice]>>

(* max_drawdown_pct.min(dd): the deeper of two drawdowns.                   *)
Deeper(a, b) == IF a.loss * b.of > b.loss * a.of THEN a ELSE b

(* The equity curve is marked at what has been realized and what is held.   *)
MarkEquity(p, price) ==
    LET equity == realized' + (Whole - p.sold) * price
    IN  /\ peakEquity' = Max({peakEquity, equity})
        /\ worst' = Deeper([loss |-> peakEquity' - equity, of |-> peakEquity'], worst)
        /\ curve' = Append(curve, [price |-> price, equity |-> equity])

(* Position::record_price. *)
Record(price) == [pos EXCEPT !.peak = Max({pos.peak, price})]

(* The next price of the series, and the signal it gives; there is no ATR.  *)
Replays(price, signal) ==
    /\ status = "replaying" /\ Len(curve) <= MaxPrices
    /\ \E overbought \in BOOLEAN :
          signal = Evaluate(Record(price), price, cfg, Absent, overbought)
    /\ lastPrice' = price
    /\ UNCHANGED cfg

(* A sale; one of no parts is no event.                                     *)
Sell(price, parts, action) ==
    /\ realized' = realized + parts * price
    /\ pos' = [Record(price) EXCEPT !.sold = @ + parts]
    /\ MarkEquity(pos', price)
    /\ events' = IF parts = 0 THEN events
                 ELSE Append(events, [action |-> action, parts |-> parts,
                                      price |-> price])

(* Mutant: the loop is left before the exit is marked on the curve. *)
SellAllUnmarked(price) ==
    /\ Replays(price, [action |-> "sell_all"])
    /\ realized' = realized + (Whole - pos.sold) * price
    /\ pos' = [Record(price) EXCEPT !.sold = Whole]
    /\ status' = "exited"
    /\ events' = Append(events, [action |-> "sell_all", parts |-> Whole - pos.sold,
                                 price |-> price])
    /\ curve' = Append(curve, [price |-> price, equity |-> realized'])
    /\ UNCHANGED <<peakEquity, worst>>

(* The stop sells what is left, and the replay is over.                     *)
SellAll(price) ==
    /\ Replays(price, [action |-> "sell_all"])
    /\ Sell(price, Whole - pos.sold, "sell_all")
    /\ status' = "exited"

(* Mutant: a rung sells its fraction although less is left. *)
TrimProfitInFull(price, rung) ==
    /\ Replays(price, [action |-> "trim_profit", rung |-> rung])
    /\ Sell(price, cfg.take_profit_ladder[rung].fraction, "trim_profit")
    /\ status' = IF pos'.sold >= Whole THEN "exited" ELSE status

(* sell_fraction: what is left if that is less, and nothing if the fraction *)
(* is not above 0.                                                          *)
Trimmed(rung) ==
    Max({0, Min({cfg.take_profit_ladder[rung].fraction, Whole - pos.sold})})

(* A rung sells its fraction; once nothing is left the replay is over.      *)
TrimProfit(price, rung) ==
    /\ Replays(price, [action |-> "trim_profit", rung |-> rung])
    /\ Sell(price, Trimmed(rung), "trim_profit")
    /\ status' = IF pos'.sold >= Whole THEN "exited" ELSE status

(* Neither: an alert or a hold moves nothing but peak and equity.           *)
CarryOn(price) ==
    /\ \E action \in {"alert", "hold"} : Replays(price, [action |-> action])
    /\ pos' = Record(price) /\ UNCHANGED realized
    /\ MarkEquity(pos', price)
    /\ UNCHANGED <<status, events>>

(* Mutant: what the rungs sold is marked to market a second time. *)
FinishWhole ==
    /\ status = "replaying" /\ status' = "ended"
    /\ realized' = realized + Whole * lastPrice
    /\ UNCHANGED <<cfg, pos, lastPrice, peakEquity, worst, events, curve>>

(* The series is over: what is left is marked to the last price.            *)
Finish ==
    /\ status = "replaying" /\ status' = "ended"
    /\ realized' = realized + (Whole - pos.sold) * lastPrice
    /\ UNCHANGED <<cfg, pos, lastPrice, peakEquity, worst, events, curve>>

Next ==
    \/ \E price \in Prices :
          \/ SellAll(price) \/ CarryOn(price)
          \/ \E rung \in DOMAIN cfg.take_profit_ladder : TrimProfit(price, rung)
    \/ Finish

Spec == Init /\ [][Next]_vars

-----------------------------------------------------------------------------
(* Properties *)

PricesSeen == {curve[k].price : k \in DOMAIN curve}

(* So many parts, each at a price of the series, may have brought value.    *)
Between(parts, value) ==
    \E low, high \in PricesSeen : parts * low <= value /\ value <= parts * high

(* The value captured never leaves the range the series' prices allow: no  *)
(* part of the position is sold twice, and none is lost between trims, the *)
(* stop and the final mark to market.                                      *)
ReturnInRange == status # "replaying" => Between(Whole, realized)

(* A replay that goes on never holds anything past its trailing stop, the  *)
(* ladder cannot get in the stop's way.                                    *)
NeverHeldPastStop ==
    status = "replaying" /\ Len(curve) > 1 =>
        ~StopTriggered(pos, lastPrice, cfg, Absent)

(* The one-pass max_drawdown_pct is the worst peak-to-trough decline of    *)
(* the equity curve, exits included: the deepest fall of a later mark      *)
(* below an earlier one.                                                   *)
WorstIsWorst ==
    /\ \A i, j \in DOMAIN curve : i <= j =>
          (curve[i].equity - curve[j].equity) * worst.of
              <= worst.loss * curve[i].equity
    /\ \E i, j \in DOMAIN curve : i <= j /\
          (curve[i].equity - curve[j].equity) * worst.of
              = worst.loss * curve[i].equity

(* strategy.rs:12-13, "at +30% sell a quarter, at +60% sell another        *)
(* quarter": a ladder of rungs sells no more often than it has rungs.      *)
RungsFireOnce ==
    Cardinality({k \in DOMAIN events : events[k].action = "trim_profit"})
        <= Len(cfg.take_profit_ladder)
=============================================================================

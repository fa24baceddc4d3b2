------------------------------ MODULE Strategy ------------------------------
(***************************************************************************)
(* strategy::evaluate, the rule engine the live scanner and the backtester *)
(* share: a trailing stop first, then the take-profit ladder, then an RSI  *)
(* alert.  Percentages are compared by cross-multiplication, so prices and *)
(* thresholds are integers; the RSI enters as whether it is overbought,    *)
(* and the reasons' texts are left out.                                    *)
(***************************************************************************)
EXTENDS Integers, Sequences, FiniteSetsExt

CONSTANTS
    Whole,   \* parts a position is sold in
    Absent   \* an Option that is None

ASSUME WholeAssumption == Whole \in Nat \ {0}

(* What is left of StrategyConfig: the ladder's rungs are in the order they *)
(* are written, a fraction is in parts of Whole.  Nobody checks a number:   *)
(* it may be negative, and a fraction more than the whole.                  *)
IsConfig(cfg) ==
    /\ cfg.trailing_stop_pct \in Int
    /\ cfg.take_profit_ladder \in Seq([threshold : Int, fraction : Int])
    /\ cfg.atr_stop_multiplier \in Int \cup {Absent}

(* Position::gain_pct and drawdown_from_peak_pct against a percentage.      *)
GainReaches(p, price, pct)     == (price - p.entry) * 100 >= pct * p.entry
DrawdownReaches(p, price, pct) == (p.peak - price) * 100 >= pct * p.peak

(* An ATR-scaled stop needs a multiplier and a real ATR above zero; without *)
(* either the flat percentage stands.                                       *)
UsesAtrStop(cfg, atr) ==
    cfg.atr_stop_multiplier # Absent /\ atr # Absent /\ atr > 0

StopTriggered(p, price, cfg, atr) ==
    IF UsesAtrStop(cfg, atr)
    THEN price <= p.peak - cfg.atr_stop_multiplier * atr
    ELSE DrawdownReaches(p, price, cfg.trailing_stop_pct)

(* The rungs the gain reaches, as long as anything is left to sell.         *)
RungsReached(p, price, cfg) ==
    {k \in DOMAIN cfg.take_profit_ladder :
        /\ GainReaches(p, price, cfg.take_profit_ladder[k].threshold)
        /\ p.sold < Whole}

(* Mutant: the ladder comes before the stop. *)
EvaluateLadderFirst(p, price, cfg, atr, overbought) ==
    LET reached == RungsReached(p, price, cfg)
    IN  CASE reached # {} -> [action |-> "trim_profit", rung |-> Max(reached)]
          [] reached = {} /\ StopTriggered(p, price, cfg, atr) ->
                [action |-> "sell_all"]
          [] OTHER -> [action |-> IF overbought THEN "alert" ELSE "hold"]

(* The signal: the last rung of the ladder that is reached is the one hit.  *)
Evaluate(p, price, cfg, atr, overbought) ==
    LET reached == RungsReached(p, price, cfg)
    IN  CASE StopTriggered(p, price, cfg, atr) -> [action |-> "sell_all"]
          [] ~StopTriggered(p, price, cfg, atr) /\ reached # {} ->
                [action |-> "trim_profit", rung |-> Max(reached)]
          [] OTHER -> [action |-> IF overbought THEN "alert" ELSE "hold"]
=============================================================================

----------------------------- MODULE MCBacktest -----------------------------
(***************************************************************************)
(* Instances of Backtest for TLC.  A position is sold in quarters, as the  *)
(* ladders of the source do.                                               *)
(***************************************************************************)
EXTENDS Backtest

Rung(threshold, fraction) == [threshold |-> threshold, fraction |-> fraction]

Config(stop, ladder) ==
    [trailing_stop_pct |-> stop, take_profit_ladder |-> ladder,
     atr_stop_multiplier |-> Absent]

(* The standard ladder and none, two rungs and one rung that sell more     *)
(* than there is, rungs that are out of order or sell nothing or less, a   *)
(* rung any gain reaches, and a stop so tight it always fires.             *)
SweepConfigs ==
    {Config(15, <<Rung(30, 1), Rung(60, 1), Rung(100, 1)>>),
     Config(40, <<>>),
     Config(40, <<Rung(30, 2), Rung(60, 3)>>),
     Config(25, <<Rung(60, 2), Rung(30, 0)>>),
     Config(40, <<Rung(-25, 1), Rung(30, -1), Rung(60, 5)>>),
     Config(0, <<>>)}

(* The ladder that strategy.rs:13 explains. *)
DocConfigs == {Config(15, <<Rung(30, 1), Rung(60, 1)>>)}
=============================================================================

------------------------------- MODULE Startup --------------------------------
(***************************************************************************)
(* run_orchestrator, which main awaits before it serves: bars from Yahoo,  *)
(* the indicators of the ta crate over them, a sentiment from the local    *)
(* model, and the rules for one hard-coded ticker, whose advice is printed *)
(* and dropped.  What the indicators amount to decides nothing else.       *)
(***************************************************************************)

VARIABLE boot   \* the stage of the orchestrator, then how it ended

(* evaluate_trading_rules, for a ticker that is owned, as main's is.        *)
Advised == {"scale_out", "sell", "strategic_sell", "hold"}

Reports == Advised \cup {"aborted"}

BootTypeOK == boot \in {"bars", "news", "sentiment", "panicked", "dropped"} \cup Reports

BootInit == boot = "bars"

(* What Yahoo may report of a day: a bar, nulls because nothing was traded, *)
(* or numbers that contradict each other (a close above the high).          *)
Reported == {"bar", "null", "contradiction"}

(* The days that become candles: null is skipped, and nothing else.         *)
Candles(days) == days \ {"null"}

(* The loop over the candles.  DataItem's build refuses one that            *)
(* contradicts itself, and unwrap panics.                                   *)
Processed(candles) == IF "contradiction" \in candles THEN "panicked" ELSE "news"

(* fetch_yahoo_market_data, and what comes of it before the next await; an  *)
(* error or no candles end the run.                                         *)
FetchBars ==
    /\ boot = "bars"
    /\ \/ boot' = "aborted"
       \/ \E days \in SUBSET Reported :
            boot' = IF Candles(days) = {} THEN "aborted" ELSE Processed(Candles(days))

(* fetch_ticker_news: any failure is an empty list.                         *)
FetchNews == boot = "news" /\ boot' = "sentiment"

(* The model, within sixty seconds; any failure is a sentiment of zero,     *)
(* and no rule looks at it.                                                 *)
Decide == boot = "sentiment" /\ boot' \in Advised

Boot == FetchBars \/ FetchNews \/ Decide

(* It has returned.                                                         *)
Booted == boot \in Reports
=============================================================================

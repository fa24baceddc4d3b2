---------------------------- MODULE PriceHistory -----------------------------
(***************************************************************************)
(* The price_history and ohlc_bars tables of one symbol, and all that      *)
(* write and read them: the scan of a candidate, an evaluate request, an   *)
(* import and a backfill.  The order of the prices is the order of their   *)
(* timestamps, and an import makes its timestamps up.  A tick is a part of *)
(* a day; rows of one tick are in the order they were written.             *)
(***************************************************************************)
EXTENDS Indicators

CONSTANTS
    Prices,         \* quotes and imported closes
    Bars,           \* what the provider may report of a day
    Day,            \* ticks of a day
    HistoryLimit,   \* 60
    AtrPeriod,      \* 14
    Spare,          \* 5, the bars latest_real_atr asks for beyond the period
    MaxTime,        \* bound: the clock
    MaxRows,        \* bound: rows of the table
    MaxLive,        \* bound: live prices among them
    MaxDays,        \* bound: days of a backfill
    MaxImports      \* bound: imports and backfills

ASSUME HistoryAssumption ==
    /\ Prices \subseteq Nat \ {0} /\ Prices # {}
    /\ Bars \subseteq [high : Nat, low : Nat, close : Prices]
    /\ \A bar \in Bars : bar.low <= bar.close /\ bar.close <= bar.high
    /\ Day \in Nat \ {0} /\ HistoryLimit \in Nat \ {0}
    /\ AtrPeriod \in Nat \ {0} /\ Spare \in Nat \ {0}
    /\ MaxTime \in Nat /\ MaxRows \in Nat /\ MaxLive \in Nat
    /\ MaxDays \in Nat /\ MaxImports \in Nat

VARIABLES
    now,        \* the clock
    rows,       \* price_history, ordered by recorded_at
    bars,       \* ohlc_bars, by date
    imports,    \* how many imports there have been
    scan,       \* the candidate's scan
    request,    \* an evaluate request
    backfill    \* the bars a backfill has still to import

vars == <<now, rows, bars, imports, scan, request, backfill>>

Live == 0       \* the import a live price is of

NoPrice == 0

Dates == -MaxDays..MaxTime \div Day

Row == [at : -Day * MaxRows..MaxTime, price : Prices,
        import : 0..MaxImports, nth : Dates \cup 0..MaxRows]

DatedBar == [date : Dates, bar : Bars]

TypeOK ==
    /\ now \in 0..MaxTime
    /\ rows \in Seq(Row)
    /\ Len(rows) <= MaxRows
    /\ bars \in Seq(DatedBar)
    /\ imports \in 0..MaxImports
    /\ scan \in {NoPrice} \cup Prices
    /\ request \in [pc : {"idle", "read", "judging"}, series : Seq(Prices)]
    /\ backfill \in Seq(DatedBar)

Init ==
    /\ now = 0
    /\ rows = <<>>
    /\ bars = <<>>
    /\ imports = 0
    /\ scan = NoPrice
    /\ request = [pc |-> "idle", series |-> <<>>]
    /\ backfill = <<>>

Tick ==
    /\ now < MaxTime
    /\ now' = now + 1
    /\ UNCHANGED <<rows, bars, imports, scan, request, backfill>>

-----------------------------------------------------------------------------
(* The tables *)

(* How many rows of a table are no later than a time.                       *)
UpTo(table, time) == Cardinality({i \in DOMAIN table : table[i].at <= time})

(* ORDER BY recorded_at.                                                    *)
Inserted(table, row) == InsertAt(table, UpTo(table, row.at) + 1, row)

(* record_price.                                                            *)
Recorded(price) ==
    Inserted(rows, [at |-> now, price |-> price, import |-> Live, nth |-> 0])

Room ==
    /\ Len(rows) < MaxRows
    /\ Cardinality({i \in DOMAIN rows : rows[i].import = Live}) < MaxLive

PricesOf(table) == [i \in DOMAIN table |-> table[i].price]

(* recent_prices: newest first up to the limit, then reversed.              *)
RecentPrices(limit) ==
    PricesOf(IF Len(rows) > limit THEN Window(rows, limit) ELSE rows)

(* Mutant: the last price of a series is stamped now. *)
ImportedAtPresent(n, i) == now - Day * (n - i)

(* Mutant: the days are counted from the wrong end. *)
ImportedAtReversed(n, i) == now - Day * i

(* Mutant: the days are added. *)
ImportedAtAhead(n, i) == now + Day * (n - i + 1)

(* The i-th of n imported prices is as many days back as there are left.    *)
ImportedAt(n, i) == now - Day * (n - i + 1)

(* import_price_series, one transaction: nth is where a price stands in the *)
(* order it was given in, or its date.                                      *)
Imported(series) ==
    LET n == Len(series)
        table[i \in 0..n] ==
            IF i = 0 THEN rows
            ELSE Inserted(table[i - 1],
                    [at |-> ImportedAt(n, i), price |-> series[i].price,
                     import |-> imports + 1, nth |-> series[i].nth])
    IN  table[n]

(* recent_ohlc, and the bars latest_real_atr takes the range of.             *)
RecentBars(limit) == IF Len(bars) > limit THEN Window(bars, limit) ELSE bars

LatestBars == [i \in DOMAIN RecentBars(AtrPeriod + Spare) |->
                 RecentBars(AtrPeriod + Spare)[i].bar]

-----------------------------------------------------------------------------
(* The writers and readers *)

(* scan_candidate: the quote is recorded, and then the series is read with  *)
(* it; NoPrice is no scan.                                                  *)
ScanRecord ==
    /\ scan = NoPrice /\ Room
    /\ \E quote \in Prices : scan' = quote /\ rows' = Recorded(quote)
    /\ UNCHANGED <<now, bars, imports, request, backfill>>

(* What it hands to run_candidate: the quote comes last, unless it is there. *)
ScanSeries ==
    LET history == RecentPrices(HistoryLimit)
    IN  IF Last(history) = scan THEN history ELSE Append(history, scan)

ScanJudge ==
    /\ scan # NoPrice
    /\ scan' = NoPrice
    /\ UNCHANGED <<now, rows, bars, imports, request, backfill>>

(* evaluate_candidates reads first, or fails and goes on with nothing.       *)
RequestRead ==
    /\ request.pc = "idle"
    /\ \E history \in {RecentPrices(HistoryLimit), <<>>} :
          request' = [pc |-> "read", series |-> history]
    /\ UNCHANGED <<now, rows, bars, imports, scan, backfill>>

(* The quote is pushed whether it can be recorded or not; without one the   *)
(* history is judged alone.                                                 *)
RequestQuote ==
    /\ request.pc = "read"
    /\ \/ /\ request' = [request EXCEPT !.pc = "judging"]
          /\ UNCHANGED rows
       \/ \E quote \in Prices :
            /\ request' = [pc |-> "judging", series |-> Append(request.series, quote)]
            /\ \/ UNCHANGED rows
               \/ Room /\ rows' = Recorded(quote)
    /\ UNCHANGED <<now, bars, imports, scan, backfill>>

RequestJudge ==
    /\ request.pc = "judging"
    /\ request' = [pc |-> "idle", series |-> <<>>]
    /\ UNCHANGED <<now, rows, bars, imports, scan, backfill>>

(* import_backtest_prices, for any series.                                  *)
Import ==
    /\ imports < MaxImports
    /\ \E n \in 1..MaxRows - Len(rows) : \E prices \in [1..n -> Prices] :
          rows' = Imported([i \in 1..n |-> [price |-> prices[i], nth |-> i]])
    /\ imports' = imports + 1
    /\ UNCHANGED <<now, bars, scan, request, backfill>>

(* upsert_ohlc_bars: one bar a date, the later report wins.                 *)
Upserted(fresh) ==
    LET before == {i \in DOMAIN bars : bars[i].date < fresh[1].date}
        after  == {i \in DOMAIN bars : bars[i].date > Last(fresh).date}
    IN  SubSeq(bars, 1, Cardinality(before)) \o fresh
            \o SubSeq(bars, Len(bars) - Cardinality(after) + 1, Len(bars))

(* backfill: the days up to today, which the provider sends newest first.   *)
BackfillBars ==
    /\ backfill = <<>> /\ imports < MaxImports
    /\ \E n \in 1..MaxDays : \E reported \in [1..n -> Bars] :
          LET today == now \div Day
              received == [i \in 1..n |-> [date |-> today - i + 1, bar |-> reported[i]]]
          IN  /\ backfill' = Reverse(received)
              /\ bars' = Upserted(Reverse(received))
    /\ UNCHANGED <<now, rows, imports, scan, request>>

(* The closes follow in a transaction of their own, whose error is dropped. *)
BackfillCloses ==
    /\ backfill # <<>>
    /\ \/ UNCHANGED <<rows, imports>>
       \/ /\ Len(rows) + Len(backfill) <= MaxRows /\ imports < MaxImports
          /\ rows' = Imported([i \in DOMAIN backfill |->
                        [price |-> backfill[i].bar.close, nth |-> backfill[i].date]])
          /\ imports' = imports + 1
    /\ backfill' = <<>>
    /\ UNCHANGED <<now, bars, scan, request>>

Next ==
    \/ Tick
    \/ ScanRecord \/ ScanJudge
    \/ RequestRead \/ RequestQuote \/ RequestJudge
    \/ Import \/ BackfillBars \/ BackfillCloses

Spec == Init /\ [][Next]_vars

-----------------------------------------------------------------------------
(* Properties *)

InOrder(table) ==
    \A i, j \in DOMAIN table :
        i < j /\ table[i].import = table[j].import => table[i].nth <= table[j].nth

(* db/mod.rs:217, made-up timestamps keep a series in the order it was given *)
(* and a backfill in the order of its dates, whatever was there before and   *)
(* came in since.                                                           *)
ImportsKeepOrder == InOrder(rows)

(* An import never takes the place of a price seen in the last day: what is *)
(* judged next still ends with the live price.                              *)
LiveStaysLatest ==
    [][rows # <<>> /\ Last(rows).import = Live /\ Last(rows).at > now - Day
        => Last(rows').import = Live]_vars

(* The series somebody is about to judge.                                   *)
Judged ==
    (IF scan = NoPrice THEN {} ELSE {ScanSeries})
    \cup (IF request.pc = "judging" THEN {request.series} ELSE {})

(* A weight on the RSI agrees with what the price did over its window.      *)
RsiFollowsPrice ==
    \A v \in Judged : Len(v) > RsiPeriod =>
        LET start == v[Len(v) - RsiPeriod]
        IN  /\ RsiWeight(v) = 6 => Last(v) < start
            /\ RsiWeight(v) = -6 => Last(v) >= start

(* indicators.rs:174, the line is not negative on an uptrend, and not        *)
(* positive on a downtrend: the two averages are of the same days.          *)
MacdFollowsTrend ==
    \A v \in Judged : HasMacd(v) =>
        /\ (\A i \in 1..Len(v) - 1 : v[i] <= v[i + 1]) => Macd(v).line >= 0
        /\ (\A i \in 1..Len(v) - 1 : v[i] >= v[i + 1]) => Macd(v).line <= 0

Threshold == 7

(* No verdict on the indicators alone without the RSI: the other three do   *)
(* not add up to the threshold, since the bands speak against the trend.  A  *)
(* history too short for an RSI decides nothing.                            *)
TechnicalsNeedRsi ==
    \A v \in Judged : TechnicalScore(v) \notin -Threshold..Threshold => RsiWeight(v) # 0

(* indicators.rs:199, a range that knows the gaps between days is at least   *)
(* what the closes alone show, whatever bars a series of backfills left.    *)
AtrSeesGaps ==
    Len(LatestBars) > AtrPeriod =>
        Atr(LatestBars, AtrPeriod)
            >= AtrFromCloses([i \in DOMAIN LatestBars |-> LatestBars[i].close], AtrPeriod)

-----------------------------------------------------------------------------
(* Inductive invariant *)

(* The table is in the order of its timestamps, ... *)
Chronological(table) ==
    \A i, j \in DOMAIN table : i < j => table[i].at <= table[j].at

(* ... none of which is made up in the future. *)
RowsInPast == \A i \in DOMAIN rows : rows[i].at <= now

(* A live price has no number, and an import's are of an import there was. *)
RowsOfImports ==
    \A i \in DOMAIN rows :
        /\ rows[i].import = Live => rows[i].nth = 0
        /\ rows[i].import <= imports

(* The bars still to import are in the order of their dates. *)
BackfillInOrder ==
    \A i, j \in DOMAIN backfill : i < j => backfill[i].date <= backfill[j].date

HistoryInv ==
    /\ TypeOK
    /\ Chronological(rows)
    /\ RowsInPast
    /\ RowsOfImports
    /\ BackfillInOrder
    /\ ImportsKeepOrder
=============================================================================

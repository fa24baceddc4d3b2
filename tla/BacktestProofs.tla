--------------------------- MODULE BacktestProofs ---------------------------
(***************************************************************************)
(* What a replay brings, for every series of prices, every configuration   *)
(* and every number of parts.                                              *)
(***************************************************************************)
EXTENDS Backtest, TLAPS

Priced == [price : AllPrices, equity : Nat]
Event == [action : {"sell_all", "trim_profit"}, parts : 1..Whole, price : Prices]

(* What the sales so far have brought fits the parts that were sold.        *)
RangeInv ==
    /\ Between(IF status = "ended" THEN Whole ELSE pos.sold, realized)
    /\ status = "exited" => pos.sold = Whole

(* The peak is the highest mark so far, and the worst decline, the bound    *)
(* of all, is one from a mark to a later one.                               *)
WorstInv ==
    /\ \A k \in DOMAIN curve : curve[k].equity <= peakEquity
    /\ \E k \in DOMAIN curve : curve[k].equity = peakEquity
    /\ \A i, j \in DOMAIN curve : i <= j =>
          (curve[i].equity - curve[j].equity) * worst.of
              <= worst.loss * curve[i].equity
    /\ \E i, j \in DOMAIN curve :
          /\ i <= j /\ curve[i].equity = worst.of
          /\ curve[i].equity - curve[j].equity = worst.loss

ReplayInv ==
    /\ TypeOK
    /\ lastPrice \in PricesSeen
    /\ RangeInv
    /\ NeverHeldPastStop

-----------------------------------------------------------------------------
(* Arithmetic *)

LEMMA MaxOfTwo ==
    ASSUME NEW a \in Int, NEW b \in Int
    PROVE  /\ Max({a, b}) \in {a, b}
           /\ Max({a, b}) >= a /\ Max({a, b}) >= b
<1>1. \E x \in {a, b} : \A y \in {a, b} : x >= y
  OBVIOUS
<1>2. Max({a, b}) \in {a, b} /\ \A y \in {a, b} : Max({a, b}) >= y
  BY <1>1 DEF Max
<1>3. QED
  BY <1>2

LEMMA MinOfTwo ==
    ASSUME NEW a \in Int, NEW b \in Int
    PROVE  /\ Min({a, b}) \in {a, b}
           /\ Min({a, b}) <= a /\ Min({a, b}) <= b
<1>1. \E x \in {a, b} : \A y \in {a, b} : x <= y
  OBVIOUS
<1>2. Min({a, b}) \in {a, b} /\ \A y \in {a, b} : Min({a, b}) <= y
  BY <1>1 DEF Min
<1>3. QED
  BY <1>2

LEMMA ProductOrder ==
    ASSUME NEW n \in Nat, NEW a \in Nat, NEW b \in Nat, a <= b
    PROVE  n * a <= n * b
OBVIOUS

LEMMA ProductOrderInt ==
    ASSUME NEW n \in Nat, NEW a \in Int, NEW b \in Int, a <= b
    PROVE  n * a <= n * b
OBVIOUS

LEMMA ProductNat ==
    ASSUME NEW n \in Nat, NEW a \in Nat
    PROVE  n * a \in Nat
OBVIOUS

LEMMA ProductSum ==
    ASSUME NEW m \in Nat, NEW n \in Nat, NEW a \in Nat
    PROVE  (m + n) * a = m * a + n * a
OBVIOUS

LEMMA Element ==
    ASSUME NEW S, NEW seq \in Seq(S), NEW k \in DOMAIN seq
    PROVE  seq[k] \in S
OBVIOUS

Within(seen, parts, value) ==
    \E low, high \in seen : parts * low <= value /\ value <= parts * high

(* A sale at a price of the series keeps what sales brought in range.       *)
LEMMA SaleWithin ==
    ASSUME NEW seen \in SUBSET Nat, NEW price \in Nat,
           NEW m \in Nat, NEW n \in Nat, NEW value \in Nat,
           Within(seen, m, value)
    PROVE  Within(seen \cup {price}, m + n, value + n * price)
<1>1. PICK low \in seen, high \in seen : m * low <= value /\ value <= m * high
  BY DEF Within
<1>2. low \in Nat /\ high \in Nat
  OBVIOUS
<1>3. PICK l \in seen \cup {price} : l \in Nat /\ l <= low /\ l <= price
  <2>1. CASE low <= price
    BY <1>2, <2>1
  <2>2. CASE price <= low
    BY <1>2, <2>2
  <2>3. QED
    BY <1>2, <2>1, <2>2
<1>4. PICK h \in seen \cup {price} : h \in Nat /\ high <= h /\ price <= h
  <2>1. CASE high <= price
    BY <1>2, <2>1
  <2>2. CASE price <= high
    BY <1>2, <2>2
  <2>3. QED
    BY <1>2, <2>1, <2>2
<1>5. (m + n) * l <= value + n * price
  <2>1. m * l <= m * low /\ n * l <= n * price
    BY <1>2, <1>3, ProductOrder
  <2>2. (m + n) * l = m * l + n * l
    BY <1>3, ProductSum
  <2>3. m * l \in Nat /\ m * low \in Nat /\ n * l \in Nat /\ n * price \in Nat
    BY <1>2, <1>3, ProductNat
  <2>4. QED
    BY <1>1, <2>1, <2>2, <2>3
<1>6. value + n * price <= (m + n) * h
  <2>1. m * high <= m * h /\ n * price <= n * h
    BY <1>2, <1>4, ProductOrder
  <2>2. (m + n) * h = m * h + n * h
    BY <1>4, ProductSum
  <2>3. m * h \in Nat /\ m * high \in Nat /\ n * h \in Nat /\ n * price \in Nat
    BY <1>2, <1>4, ProductNat
  <2>4. QED
    BY <1>1, <2>1, <2>2, <2>3
<1>7. QED
  BY <1>5, <1>6 DEF Within

-----------------------------------------------------------------------------
(* Signals *)

LEMMA SignalOfStop ==
    ASSUME NEW p, NEW price, NEW c, NEW atr, NEW overbought,
           StopTriggered(p, price, c, atr)
    PROVE  Evaluate(p, price, c, atr, overbought) = [action |-> "sell_all"]
BY DEF Evaluate

(* A signal that is not the stop's comes when the stop is not reached.      *)
LEMMA OtherSignals ==
    ASSUME NEW price, NEW signal, signal.action # "sell_all", Replays(price, signal)
    PROVE  ~StopTriggered(Record(price), price, cfg, Absent)
BY SignalOfStop DEF Replays

LEMMA StopLooksAtPeak ==
    ASSUME NEW p, NEW q, NEW price, NEW c, NEW atr,
           q.peak = p.peak, ~StopTriggered(p, price, c, atr)
    PROVE  ~StopTriggered(q, price, c, atr)
BY DEF StopTriggered, DrawdownReaches

-----------------------------------------------------------------------------
(* Steps *)

Held == [entry : {EntryPrice}, peak : AllPrices, sold : 0..Whole]

LEMMA PricesAreNat == \A price \in AllPrices : price \in Nat \ {0}
BY PricesAssumption DEF AllPrices

LEMMA SeenAreNat ==
    ASSUME TypeOK
    PROVE  PricesSeen \in SUBSET Nat
<1>1. curve \in Seq(Priced)
  BY DEF TypeOK, Priced
<1>2. \A k \in DOMAIN curve : curve[k] \in Priced
  BY <1>1, Element
<1>3. QED
  BY <1>2, PricesAreNat DEF Priced, PricesSeen

LEMMA RecordTyped ==
    ASSUME TypeOK, NEW price \in Prices
    PROVE  Record(price) \in Held /\ Record(price).sold = pos.sold
<1>1. pos \in Held /\ price \in AllPrices
  BY DEF TypeOK, Held, AllPrices
<1>2. Max({pos.peak, price}) \in {pos.peak, price}
  <2>1. pos.peak \in AllPrices
    BY <1>1 DEF Held
  <2>2. pos.peak \in Nat /\ price \in Nat
    BY <1>1, <2>1, PricesAreNat
  <2>3. PICK peak \in Nat, new \in Nat : peak = pos.peak /\ new = price
    BY <2>2
  <2>4. Max({peak, new}) \in {peak, new}
    BY MaxOfTwo
  <2>5. QED
    BY <2>3, <2>4
<1>3. QED
  BY <1>1, <1>2 DEF Record, Held

(* A mark keeps the types of the curve and what is computed along with it.  *)
LEMMA MarkStep ==
    ASSUME TypeOK, NEW price \in Prices, pos' \in Held, realized' \in Nat,
           MarkEquity(pos', price)
    PROVE  /\ peakEquity' \in Nat \ {0}
           /\ worst' \in [loss : Nat, of : Nat \ {0}]
           /\ curve' \in Seq(Priced)
           /\ PricesSeen' = PricesSeen \cup {price}
<1>1. price \in Nat /\ Whole - pos'.sold \in Nat
  BY PricesAreNat, WholeAssumption DEF Held, AllPrices
<1>2. (Whole - pos'.sold) * price \in Nat
  BY <1>1, ProductNat
<1>3. PICK equity \in Nat : equity = realized' + (Whole - pos'.sold) * price
  BY <1>2
<1> DEFINE mark == [price |-> price, equity |-> equity]
<1>4. /\ peakEquity' = Max({peakEquity, equity})
      /\ worst' = Deeper([loss |-> peakEquity' - equity, of |-> peakEquity'], worst)
      /\ curve' = Append(curve, mark)
  BY <1>3 DEF MarkEquity
<1>5. mark \in Priced /\ mark.price = price
  BY DEF Priced, AllPrices
<1> HIDE DEF mark
<1>6. peakEquity \in Nat \ {0} /\ worst \in [loss : Nat, of : Nat \ {0}]
        /\ curve \in Seq(Priced)
  BY DEF TypeOK, Priced
<1>7. PICK peak \in Nat \ {0} : peak = peakEquity' /\ peak >= equity
  <2>1. peakEquity \in Int /\ equity \in Int
    BY <1>6
  <2>2. /\ peakEquity' \in {peakEquity, equity}
        /\ peakEquity' >= peakEquity /\ peakEquity' >= equity
    BY <1>4, <2>1, MaxOfTwo
  <2>3. QED
    BY <1>6, <2>2
<1>8. worst' \in [loss : Nat, of : Nat \ {0}]
  <2>1. peak - equity \in Nat
    BY <1>3, <1>7
  <2>2. worst' = Deeper([loss |-> peak - equity, of |-> peak], worst)
    BY <1>4, <1>7
  <2>3. QED
    BY <1>6, <2>1, <2>2 DEF Deeper
<1>9. curve' \in Seq(Priced)
  BY <1>4, <1>5, <1>6
<1>10. PricesSeen' = PricesSeen \cup {price}
  <2>1. /\ Len(curve') = Len(curve) + 1 /\ Len(curve) \in Nat
        /\ curve'[Len(curve) + 1] = mark
        /\ \A k \in 1..Len(curve) : curve'[k] = curve[k]
        /\ DOMAIN curve = 1..Len(curve) /\ DOMAIN curve' = 1..Len(curve')
    BY <1>4, <1>5, <1>6
  <2>2. DOMAIN curve' = DOMAIN curve \cup {Len(curve) + 1}
    BY <2>1
  <2>3. QED
    BY <1>5, <2>1, <2>2 DEF PricesSeen
<1>11. QED
  BY <1>7, <1>8, <1>9, <1>10

(* Every price, whatever it makes the replay sell: n parts, or none.        *)
LEMMA PriceStep ==
    ASSUME ReplayInv, NEW price \in Prices, NEW n \in 0..(Whole - pos.sold),
           status = "replaying", realized' = realized + n * price,
           pos' = [Record(price) EXCEPT !.sold = @ + n], MarkEquity(pos', price),
           lastPrice' = price, cfg' = cfg,
           events' \in Seq(Event), status' \in {"replaying", "exited"},
           status' = "exited" => pos'.sold = Whole,
           status' = "replaying" =>
                ~StopTriggered(Record(price), price, cfg, Absent)
    PROVE  ReplayInv'
<1>1. TypeOK /\ pos \in Held /\ realized \in Nat /\ price \in Nat
  BY PricesAreNat DEF ReplayInv, TypeOK, Held, AllPrices
<1>2. n \in Nat /\ n * price \in Nat
  BY <1>1, WholeAssumption, ProductNat DEF Held
<1>3. Record(price) \in Held /\ Record(price).sold = pos.sold
  BY <1>1, RecordTyped
<1>4. /\ pos' \in Held /\ pos'.sold = pos.sold + n
      /\ pos'.peak = Record(price).peak
  <2>1. pos.sold + n \in 0..Whole
    BY <1>1, <1>2, WholeAssumption DEF Held
  <2>2. pos' = [Record(price) EXCEPT !.sold = pos.sold + n]
    BY <1>3
  <2>3. QED
    BY <1>3, <2>1, <2>2 DEF Held
<1>5. realized' \in Nat
  BY <1>1, <1>2
<1>6. /\ peakEquity' \in Nat \ {0}
      /\ worst' \in [loss : Nat, of : Nat \ {0}]
      /\ curve' \in Seq(Priced)
      /\ PricesSeen' = PricesSeen \cup {price}
  BY <1>1, <1>4, <1>5, MarkStep
<1>7. TypeOK'
  BY <1>1, <1>4, <1>5, <1>6 DEF TypeOK, Held, Priced, Event, AllPrices
<1>8. lastPrice' \in PricesSeen'
  BY <1>6
<1>9. RangeInv'
  <2>1. PricesSeen \in SUBSET Nat
    BY <1>1, SeenAreNat
  <2>2. Within(PricesSeen, pos.sold, realized)
    BY DEF ReplayInv, RangeInv, Between, Within
  <2>3. pos.sold \in Nat
    BY <1>1 DEF Held
  <2>4. Within(PricesSeen \cup {price}, pos.sold + n, realized + n * price)
    BY <1>1, <1>2, <2>1, <2>2, <2>3, SaleWithin
  <2>5. Within(PricesSeen', pos'.sold, realized')
    BY <1>4, <1>6, <2>4
  <2>6. QED
    BY <2>5 DEF RangeInv, Between, Within
<1>10. NeverHeldPastStop'
  <2>1. ASSUME status' = "replaying"
        PROVE  ~StopTriggered(pos', lastPrice', cfg', Absent)
    BY <1>4, <2>1, StopLooksAtPeak
  <2>2. QED
    BY <2>1 DEF NeverHeldPastStop
<1>11. QED
  BY <1>7, <1>8, <1>9, <1>10 DEF ReplayInv

(* A sale is an event, unless it is of no parts.                            *)
LEMMA SaleTyped ==
    ASSUME TypeOK, NEW price \in Prices, NEW n \in 0..(Whole - pos.sold),
           NEW action \in {"sell_all", "trim_profit"}, Sell(price, n, action)
    PROVE  events' \in Seq(Event)
<1>1. events \in Seq(Event)
  BY DEF TypeOK, Event
<1>2. CASE n = 0
  BY <1>1, <1>2 DEF Sell
<1>3. CASE n # 0
  <2>1. pos.sold \in 0..Whole
    BY DEF TypeOK
  <2>2. n \in 1..Whole
    BY <1>3, <2>1, WholeAssumption
  <2>3. [action |-> action, parts |-> n, price |-> price] \in Event
    BY <2>2 DEF Event
  <2>4. events' = Append(events, [action |-> action, parts |-> n, price |-> price])
    BY <1>3 DEF Sell
  <2>5. QED
    BY <1>1, <2>3, <2>4
<1>4. QED
  BY <1>2, <1>3

LEMMA SellAllStep ==
    ASSUME ReplayInv, NEW price \in Prices, SellAll(price)
    PROVE  ReplayInv'
<1>1. TypeOK /\ pos \in Held
  BY DEF ReplayInv, TypeOK, Held
<1>2. PICK n \in 0..(Whole - pos.sold) : n = Whole - pos.sold
  BY <1>1, WholeAssumption DEF Held
<1>3. /\ Sell(price, n, "sell_all") /\ status' = "exited"
      /\ status = "replaying" /\ lastPrice' = price /\ cfg' = cfg
  BY <1>2 DEF SellAll, Replays
<1>4. pos'.sold = Whole
  <2>1. Record(price) \in Held /\ Record(price).sold = pos.sold
    BY <1>1, RecordTyped
  <2>2. pos' = [Record(price) EXCEPT !.sold = @ + n]
    BY <1>3 DEF Sell
  <2>3. QED
    BY <1>1, <1>2, <2>1, <2>2, WholeAssumption DEF Held
<1>5. events' \in Seq(Event)
  BY <1>1, <1>3, SaleTyped
<1>6. /\ realized' = realized + n * price
      /\ pos' = [Record(price) EXCEPT !.sold = @ + n]
      /\ MarkEquity(pos', price)
  BY <1>3 DEF Sell
<1>7. QED
  BY <1>3, <1>4, <1>5, <1>6, PriceStep

LEMMA TrimProfitStep ==
    ASSUME ReplayInv, NEW price \in Prices,
           NEW rung \in DOMAIN cfg.take_profit_ladder, TrimProfit(price, rung)
    PROVE  ReplayInv'
<1>1. TypeOK /\ pos \in Held
  BY DEF ReplayInv, TypeOK, Held
<1>2. PICK n \in 0..(Whole - pos.sold) :
         n = Trimmed(rung)
  <2>1. IsConfig(cfg)
    BY <1>1, ConfigsAssumption DEF TypeOK
  <2>2. cfg.take_profit_ladder[rung] \in [threshold : Int, fraction : Int]
    <3>1. cfg.take_profit_ladder \in Seq([threshold : Int, fraction : Int])
      BY <2>1 DEF IsConfig
    <3>2. QED
      BY <3>1, Element
  <2>3. PICK fraction \in Int : fraction = cfg.take_profit_ladder[rung].fraction
    BY <2>2
  <2>4. PICK left \in 0..Whole : left = Whole - pos.sold
    BY <1>1, WholeAssumption DEF Held
  <2>5. fraction \in Int /\ left \in Int
    BY WholeAssumption
  <2>6. PICK least \in Int : least = Min({fraction, left}) /\ least <= left
    BY <2>5, MinOfTwo
  <2>7. Max({0, least}) \in {0, least} /\ Max({0, least}) >= 0
    BY <2>6, MaxOfTwo
  <2>8. Max({0, least}) \in 0..left
    BY <2>4, <2>6, <2>7, WholeAssumption
  <2>9. QED
    BY <2>3, <2>4, <2>6, <2>8 DEF Trimmed
<1>3. /\ Sell(price, n, "trim_profit")
      /\ Replays(price, [action |-> "trim_profit", rung |-> rung])
      /\ status' = IF pos'.sold >= Whole THEN "exited" ELSE status
  BY <1>2 DEF TrimProfit
<1>4. status = "replaying" /\ lastPrice' = price /\ cfg' = cfg
  BY <1>3 DEF Replays
<1>5. ~StopTriggered(Record(price), price, cfg, Absent)
  BY <1>3, OtherSignals
<1>6. status' = "exited" => pos'.sold = Whole
  <2>1. Record(price) \in Held /\ Record(price).sold = pos.sold
    BY <1>1, RecordTyped
  <2>2. pos' = [Record(price) EXCEPT !.sold = @ + n]
    BY <1>3 DEF Sell
  <2>3. pos'.sold \in 0..Whole
    BY <1>1, <2>1, <2>2, WholeAssumption DEF Held
  <2>4. QED
    BY <1>3, <1>4, <2>3, WholeAssumption
<1>7. events' \in Seq(Event)
  BY <1>1, <1>3, SaleTyped
<1>8. /\ realized' = realized + n * price
      /\ pos' = [Record(price) EXCEPT !.sold = @ + n]
      /\ MarkEquity(pos', price)
  BY <1>3 DEF Sell
<1>9. status' \in {"replaying", "exited"}
  BY <1>3, <1>4
<1>10. QED
  BY <1>4, <1>5, <1>6, <1>7, <1>8, <1>9, PriceStep

LEMMA CarryOnStep ==
    ASSUME ReplayInv, NEW price \in Prices, CarryOn(price)
    PROVE  ReplayInv'
<1>1. TypeOK /\ pos \in Held /\ realized \in Nat
  BY DEF ReplayInv, TypeOK, Held
<1>2. PICK action \in {"alert", "hold"} : Replays(price, [action |-> action])
  BY DEF CarryOn
<1>3. ~StopTriggered(Record(price), price, cfg, Absent)
  BY <1>2, OtherSignals
<1>4. /\ status = "replaying" /\ lastPrice' = price /\ cfg' = cfg
      /\ status' = status /\ events' = events
      /\ pos' = Record(price) /\ realized' = realized /\ MarkEquity(pos', price)
  BY <1>2 DEF Replays, CarryOn
<1>5. 0 \in 0..(Whole - pos.sold) /\ realized' = realized + 0 * price
  BY <1>1, <1>4, PricesAssumption, WholeAssumption DEF Held
<1>6. pos' = [Record(price) EXCEPT !.sold = @ + 0]
  <2>1. Record(price) \in Held
    BY <1>1, RecordTyped
  <2>2. QED
    BY <1>4, <2>1, WholeAssumption DEF Held
<1>7. events' \in Seq(Event)
  BY <1>1, <1>4 DEF TypeOK, Event
<1>8. QED
  BY <1>3, <1>4, <1>5, <1>6, <1>7, PriceStep

(* What is left is sold in thought at the last price, one of the series.    *)
LEMMA FinishStep ==
    ASSUME ReplayInv, Finish
    PROVE  ReplayInv'
<1>1. TypeOK /\ pos \in Held /\ realized \in Nat /\ lastPrice \in Nat
  BY PricesAreNat DEF ReplayInv, TypeOK, Held
<1>2. /\ status = "replaying" /\ status' = "ended"
      /\ realized' = realized + (Whole - pos.sold) * lastPrice
      /\ UNCHANGED <<cfg, pos, lastPrice, peakEquity, worst, events, curve>>
  BY DEF Finish
<1>3. PICK n \in Nat : n = Whole - pos.sold
  BY <1>1, WholeAssumption DEF Held
<1>4. n * lastPrice \in Nat
  BY <1>1, ProductNat
<1>5. TypeOK'
  BY <1>1, <1>2, <1>3, <1>4 DEF TypeOK, AllPrices
<1>6. PricesSeen' = PricesSeen
  BY <1>2 DEF PricesSeen
<1>7. RangeInv'
  <2>1. PricesSeen \in SUBSET Nat
    BY <1>1, SeenAreNat
  <2>2. Within(PricesSeen, pos.sold, realized)
    BY <1>2 DEF ReplayInv, RangeInv, Between, Within
  <2>3. pos.sold \in Nat
    BY <1>1 DEF Held
  <2>4. Within(PricesSeen \cup {lastPrice}, pos.sold + n, realized + n * lastPrice)
    BY <1>1, <2>1, <2>2, <2>3, SaleWithin
  <2>5. PricesSeen \cup {lastPrice} = PricesSeen
    BY DEF ReplayInv
  <2>6. pos.sold + n = Whole
    BY <1>3, <2>3, WholeAssumption
  <2>7. Within(PricesSeen', Whole, realized')
    BY <1>2, <1>3, <1>6, <2>4, <2>5, <2>6
  <2>8. QED
    BY <1>2, <2>7 DEF RangeInv, Between, Within
<1>8. lastPrice' \in PricesSeen' /\ NeverHeldPastStop'
  BY <1>2, <1>6 DEF ReplayInv, NeverHeldPastStop
<1>9. QED
  BY <1>5, <1>7, <1>8 DEF ReplayInv

LEMMA ReplayStep ==
    ASSUME ReplayInv, [Next]_vars
    PROVE  ReplayInv'
<1>1. ASSUME NEW price \in Prices, SellAll(price)
      PROVE  ReplayInv'
  BY <1>1, SellAllStep
<1>2. ASSUME NEW price \in Prices, CarryOn(price)
      PROVE  ReplayInv'
  BY <1>2, CarryOnStep
<1>3. ASSUME NEW price \in Prices, NEW rung \in DOMAIN cfg.take_profit_ladder,
             TrimProfit(price, rung)
      PROVE  ReplayInv'
  BY <1>3, TrimProfitStep
<1>4. CASE Finish
  BY <1>4, FinishStep
<1>5. CASE UNCHANGED vars
  <2>1. TypeOK' /\ (lastPrice \in PricesSeen)'
    BY <1>5 DEF vars, ReplayInv, TypeOK, PricesSeen
  <2>2. RangeInv' /\ NeverHeldPastStop'
    BY <1>5 DEF vars, ReplayInv, RangeInv, Between, PricesSeen, NeverHeldPastStop
  <2>3. QED
    BY <2>1, <2>2 DEF ReplayInv
<1>6. QED
  BY <1>1, <1>2, <1>3, <1>4, <1>5 DEF Next

LEMMA ReplayStart ==
    ASSUME Init
    PROVE  ReplayInv
<1>1. EntryPrice \in Nat \ {0} /\ EntryPrice \in AllPrices
  BY PricesAssumption DEF AllPrices
<1>2. Whole * EntryPrice \in Nat \ {0}
  BY <1>1, WholeAssumption
<1>3. curve = <<[price |-> EntryPrice, equity |-> Whole * EntryPrice]>>
  BY DEF Init
<1>4. [price |-> EntryPrice, equity |-> Whole * EntryPrice] \in Priced
  BY <1>1, <1>2 DEF Priced
<1>5. curve \in Seq(Priced)
  BY <1>3, <1>4
<1>6. TypeOK
  BY <1>1, <1>2, <1>5, WholeAssumption DEF Init, TypeOK, Priced
<1>7. EntryPrice \in PricesSeen /\ Len(curve) = 1
  BY <1>3 DEF PricesSeen
<1>8. Between(0, 0)
  <2>1. 0 * EntryPrice = 0
    BY <1>1
  <2>2. QED
    BY <1>7, <2>1 DEF Between
<1>9. RangeInv /\ lastPrice \in PricesSeen
  BY <1>7, <1>8 DEF Init, RangeInv
<1>10. NeverHeldPastStop
  BY <1>7 DEF NeverHeldPastStop
<1>11. QED
  BY <1>6, <1>9, <1>10 DEF ReplayInv

-----------------------------------------------------------------------------
(* Drawdown *)

(* A product by a positive number orders as what is multiplied.             *)
LEMMA ProductCancels ==
    ASSUME NEW n \in Nat \ {0}, NEW a \in Int, NEW b \in Int, n * a <= n * b
    PROVE  a <= b
<1>1. SUFFICES ASSUME a > b
               PROVE  FALSE
  OBVIOUS
<1>2. PICK d \in Nat \ {0} : a = b + d
  <2>1. a - b \in Nat \ {0} /\ a = b + (a - b)
    BY <1>1
  <2>2. QED
    BY <2>1
<1>3. n * a = n * b + n * d /\ n * d > 0 /\ n * b \in Int /\ n * d \in Int
  BY <1>2
<1>4. QED
  BY <1>3

(* A fraction below another that is below a third.                          *)
LEMMA FractionsOrdered ==
    ASSUME NEW d \in Int, NEW c \in Nat, NEW a \in Nat, NEW b \in Nat,
           NEW v \in Nat \ {0}, NEW w \in Nat \ {0},
           d * v <= a * c, a * w <= b * v
    PROVE  d * w <= b * c
<1>1. w * (d * v) <= w * (a * c)
  BY ProductOrderInt
<1>2. c * (a * w) <= c * (b * v)
  BY ProductOrder, ProductNat
<1>3. /\ w * (d * v) = v * (d * w) /\ w * (a * c) = c * (a * w)
      /\ c * (b * v) = v * (b * c)
  OBVIOUS
<1>4. v * (d * w) <= v * (b * c)
  BY <1>1, <1>2, <1>3
<1>5. d * w \in Int /\ b * c \in Int
  OBVIOUS
<1>6. QED
  BY <1>4, <1>5, ProductCancels

(* What falls from a lower peak to the same mark falls less.                *)
LEMMA LowerPeakFallsLess ==
    ASSUME NEW c \in Nat, NEW e \in Nat, NEW peak \in Nat, c <= peak
    PROVE  (c - e) * peak <= (peak - e) * c
<1>1. e * c <= e * peak
  BY ProductOrder
<1>2. (c - e) * peak = c * peak - e * peak /\ (peak - e) * c = c * peak - e * c
  OBVIOUS
<1>3. c * peak \in Int /\ e * peak \in Int /\ e * c \in Int
  OBVIOUS
<1>4. QED
  BY <1>1, <1>2, <1>3

Drawdown == [loss : Nat, of : Nat \ {0}]

(* The deeper of two drawdowns is one of them and bounds both.              *)
LEMMA DeeperOfTwo ==
    ASSUME NEW a \in Drawdown, NEW b \in Drawdown
    PROVE  /\ Deeper(a, b) \in {a, b}
           /\ a.loss * Deeper(a, b).of <= Deeper(a, b).loss * a.of
           /\ b.loss * Deeper(a, b).of <= Deeper(a, b).loss * b.of
<1>1. a.loss * b.of \in Int /\ b.loss * a.of \in Int
  BY DEF Drawdown
<1>2. a.loss * a.of \in Int /\ b.loss * b.of \in Int
  BY DEF Drawdown
<1>3. CASE a.loss * b.of > b.loss * a.of
  BY <1>1, <1>2, <1>3 DEF Deeper
<1>4. CASE ~(a.loss * b.of > b.loss * a.of)
  BY <1>1, <1>2, <1>4 DEF Deeper
<1>5. QED
  BY <1>3, <1>4

(* What a sequence holds once an element is appended.                       *)
LEMMA Extended ==
    ASSUME NEW S, NEW seq \in Seq(S), NEW e
    PROVE  /\ Len(seq) \in Nat
           /\ DOMAIN seq = 1..Len(seq)
           /\ DOMAIN Append(seq, e) = 1..(Len(seq) + 1)
           /\ Append(seq, e)[Len(seq) + 1] = e
           /\ \A k \in 1..Len(seq) : Append(seq, e)[k] = seq[k]
<1>1. seq \in Seq(S \cup {e}) /\ e \in S \cup {e}
  OBVIOUS
<1>2. QED
  BY <1>1

(* Every mark keeps peak and worst decline what they are.                   *)
LEMMA WorstStep ==
    ASSUME TypeOK, TypeOK', WorstInv, NEW price \in Prices, MarkEquity(pos', price)
    PROVE  WorstInv'
<1> DEFINE n == Len(curve)
<1>1. /\ curve \in Seq(Priced) /\ peakEquity \in Nat \ {0} /\ worst \in Drawdown
      /\ curve' \in Seq(Priced) /\ peakEquity' \in Nat \ {0} /\ worst' \in Drawdown
      /\ n \in Nat
  BY DEF TypeOK, Priced, Drawdown
<1>2. PICK e : /\ peakEquity' = Max({peakEquity, e})
               /\ worst' = Deeper([loss |-> peakEquity' - e, of |-> peakEquity'], worst)
               /\ curve' = Append(curve, [price |-> price, equity |-> e])
  BY DEF MarkEquity
<1>3. /\ DOMAIN curve = 1..n /\ DOMAIN curve' = 1..(n + 1)
      /\ curve'[n + 1].equity = e
      /\ \A k \in 1..n : curve'[k] = curve[k]
  BY <1>1, <1>2, Extended
<1>4. \A k \in 1..(n + 1) : curve'[k].equity \in Nat
  <2>1. \A k \in DOMAIN curve' : curve'[k] \in Priced
    BY <1>1, Element
  <2>2. QED
    BY <1>3, <2>1 DEF Priced
<1> HIDE DEF n
<1>5. e \in Nat
  BY <1>1, <1>3, <1>4
<1>6. PICK peak \in Nat \ {0} : /\ peak = peakEquity' /\ peak \in {peakEquity, e}
                               /\ peak >= peakEquity /\ peak >= e
  <2>1. peakEquity \in Int /\ e \in Int
    BY <1>1, <1>5
  <2>2. /\ peakEquity' \in {peakEquity, e}
        /\ peakEquity' >= peakEquity /\ peakEquity' >= e
    BY <1>2, <2>1, MaxOfTwo
  <2>3. QED
    BY <1>1, <2>2
<1> DEFINE fall == [loss |-> peak - e, of |-> peak]
<1>7. fall \in Drawdown
  <2>1. peak - e \in Nat
    <3>1. peak \in Int /\ e \in Int /\ peak >= e
      BY <1>5, <1>6
    <3>2. QED
      BY <3>1
  <2>2. QED
    BY <2>1 DEF Drawdown
<1>8. /\ worst' \in {fall, worst}
      /\ fall.loss * worst'.of <= worst'.loss * fall.of
      /\ worst.loss * worst'.of <= worst'.loss * worst.of
  BY <1>1, <1>2, <1>6, <1>7, DeeperOfTwo
<1>9. fall.loss = peak - e /\ fall.of = peak
  OBVIOUS
<1>10. ASSUME NEW k \in 1..(n + 1)
       PROVE  curve'[k].equity <= peak
  <2>1. CASE k = n + 1
    BY <1>3, <1>6, <2>1
  <2>2. CASE k \in 1..n
    <3>1. curve'[k].equity <= peakEquity
      BY <1>3, <2>2 DEF WorstInv
    <3>2. QED
      BY <1>1, <1>4, <1>6, <3>1
  <2>3. QED
    BY <1>1, <2>1, <2>2
<1>11. \E k \in 1..(n + 1) : curve'[k].equity = peak
  <2>1. CASE peak = e
    BY <1>1, <1>3, <2>1
  <2>2. CASE peak = peakEquity
    BY <1>1, <1>3, <2>2 DEF WorstInv
  <2>3. QED
    BY <1>6, <2>1, <2>2
<1> HIDE DEF fall
<1>12. ASSUME NEW i \in 1..(n + 1), NEW j \in 1..(n + 1), i <= j
       PROVE  (curve'[i].equity - curve'[j].equity) * worst'.of
                  <= worst'.loss * curve'[i].equity
  <2>1. PICK c \in Nat, d \in Int :
            c = curve'[i].equity /\ d = c - curve'[j].equity
    BY <1>4
  <2>2. PICK b \in Nat, w \in Nat \ {0} : b = worst'.loss /\ w = worst'.of
    BY <1>1 DEF Drawdown
  <2>3. \E a \in Nat, v \in Nat \ {0} : d * v <= a * c /\ a * w <= b * v
    <3>1. CASE j = n + 1
      <4>1. PICK a \in Nat, v \in Nat \ {0} : a = peak - e /\ v = peak
        BY <1>7, <1>9 DEF Drawdown
      <4>2. d = c - e /\ c <= peak
        BY <1>3, <1>10, <2>1, <3>1
      <4>3. (c - e) * v <= (v - e) * c
        BY <1>5, <4>1, <4>2, LowerPeakFallsLess
      <4>4. a * w <= b * v
        BY <1>8, <1>9, <2>2, <4>1
      <4>5. QED
        BY <4>1, <4>2, <4>3, <4>4
    <3>2. CASE j \in 1..n
      <4>1. i \in 1..n
        BY <1>1, <1>12, <3>2
      <4>2. PICK a \in Nat, v \in Nat \ {0} : a = worst.loss /\ v = worst.of
        BY <1>1 DEF Drawdown
      <4>3. d * v <= a * c
        BY <1>3, <1>12, <2>1, <3>2, <4>1, <4>2 DEF WorstInv
      <4>4. a * w <= b * v
        BY <1>8, <2>2, <4>2
      <4>5. QED
        BY <4>3, <4>4
    <3>3. QED
      BY <1>1, <3>1, <3>2
  <2>4. d * w <= b * c
    BY <2>3, FractionsOrdered
  <2>5. QED
    BY <2>1, <2>2, <2>4
<1>13. \E i, j \in 1..(n + 1) :
          /\ i <= j /\ curve'[i].equity = worst'.of
          /\ curve'[i].equity - curve'[j].equity = worst'.loss
  <2>1. CASE worst' = worst
    <3>1. PICK i \in 1..n, j \in 1..n :
              /\ i <= j /\ curve[i].equity = worst.of
              /\ curve[i].equity - curve[j].equity = worst.loss
      BY <1>3 DEF WorstInv
    <3>2. i \in 1..(n + 1) /\ j \in 1..(n + 1)
      BY <1>1
    <3>3. QED
      BY <1>3, <2>1, <3>1, <3>2
  <2>2. CASE worst' = fall
    <3>1. PICK i \in 1..(n + 1) : curve'[i].equity = peak
      BY <1>11
    <3>2. n + 1 \in 1..(n + 1) /\ i <= n + 1
      BY <1>1
    <3>3. QED
      BY <1>3, <1>9, <2>2, <3>1, <3>2
  <2>3. QED
    BY <1>8, <2>1, <2>2
<1>14. QED
  BY <1>3, <1>10, <1>11, <1>12, <1>13, <1>6 DEF WorstInv

-----------------------------------------------------------------------------
(* Theorems *)

LEMMA ReplayInvAlways == Spec => []ReplayInv
<1>1. Init => ReplayInv
  BY ReplayStart
<1>2. ReplayInv /\ [Next]_vars => ReplayInv'
  BY ReplayStep
<1>3. QED
  BY <1>1, <1>2, PTL DEF Spec

(* No replay sells more than it holds, and no drawdown is below zero or of  *)
(* nothing (backtest::run).                                                 *)
THEOREM ReplayTypeCorrect == Spec => []TypeOK
<1>1. ReplayInv => TypeOK
  BY DEF ReplayInv
<1>2. QED
  BY <1>1, ReplayInvAlways, PTL

(* What a replay captures lies between the worst and the best price of its  *)
(* series, whatever ladder and stop sold, and in however many trims: no     *)
(* part is sold twice or lost.                                              *)
THEOREM ReturnInRangeAlways == Spec => []ReturnInRange
<1>1. ReplayInv => ReturnInRange
  BY DEF ReplayInv, TypeOK, RangeInv, ReturnInRange
<1>2. QED
  BY <1>1, ReplayInvAlways, PTL

(* The order of strategy::evaluate keeps the ladder from the stop: a replay *)
(* that goes on is above its stop.                                          *)
THEOREM NeverHeldPastStopAlways == Spec => []NeverHeldPastStop
<1>1. ReplayInv => NeverHeldPastStop
  BY DEF ReplayInv
<1>2. QED
  BY <1>1, ReplayInvAlways, PTL

LEMMA WorstInvStart ==
    ASSUME Init
    PROVE  WorstInv
<1>1. PICK e \in Nat \ {0} : e = Whole * EntryPrice
  BY WholeAssumption, PricesAssumption
<1>2. DOMAIN curve = {1} /\ curve[1].equity = e
  BY <1>1 DEF Init
<1>3. peakEquity = e /\ worst.loss = 0 /\ worst.of = e
  BY <1>1 DEF Init
<1>4. (e - e) * e <= 0 * e
  BY <1>1
<1>5. QED
  BY <1>1, <1>2, <1>3, <1>4 DEF WorstInv

LEMMA WorstInvStep ==
    ASSUME TypeOK, TypeOK', WorstInv, [Next]_vars
    PROVE  WorstInv'
<1>1. ASSUME NEW price \in Prices, SellAll(price) \/ CarryOn(price)
      PROVE  WorstInv'
  BY <1>1, WorstStep DEF SellAll, Sell, CarryOn
<1>2. ASSUME NEW price \in Prices, NEW rung \in DOMAIN cfg.take_profit_ladder,
             TrimProfit(price, rung)
      PROVE  WorstInv'
  BY <1>2, WorstStep DEF TrimProfit, Sell
<1>3. CASE UNCHANGED <<peakEquity, worst, curve>>
  BY <1>3 DEF WorstInv
<1>4. QED
  BY <1>1, <1>2, <1>3 DEF Next, Finish, vars

(* max_drawdown_pct, computed in one pass with a running peak, is the worst *)
(* decline of the equity curve from any mark to any later one: none is      *)
(* deeper, and one is as deep.                                              *)
THEOREM WorstIsWorstAlways == Spec => []WorstIsWorst
<1>1. Init => WorstInv
  BY WorstInvStart
<1>2. TypeOK /\ TypeOK' /\ WorstInv /\ [Next]_vars => WorstInv'
  BY WorstInvStep
<1>3. TypeOK /\ WorstInv => WorstIsWorst
  <2>1. SUFFICES ASSUME TypeOK, WorstInv
                 PROVE  \E i, j \in DOMAIN curve : i <= j /\
                           (curve[i].equity - curve[j].equity) * worst.of
                               = worst.loss * curve[i].equity
    BY DEF WorstIsWorst, WorstInv
  <2>2. PICK i \in DOMAIN curve, j \in DOMAIN curve :
            /\ i <= j /\ curve[i].equity = worst.of
            /\ curve[i].equity - curve[j].equity = worst.loss
    BY <2>1 DEF WorstInv
  <2>3. (curve[i].equity - curve[j].equity) * worst.of = worst.loss * curve[i].equity
    BY <2>2
  <2>4. QED
    BY <2>2, <2>3
<1>4. QED
  BY <1>1, <1>2, <1>3, ReplayTypeCorrect, PTL DEF Spec
=============================================================================

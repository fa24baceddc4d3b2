------------------------------- MODULE Sizing --------------------------------
(***************************************************************************)
(* risk::calculate, fixed-fractional position sizing, and what it promises *)
(* whoever buys that many shares.  Money is in whole units: the budget is  *)
(* risk_amount, rounded by the caller's choice of units.                   *)
(***************************************************************************)
EXTENDS Integers, TLAPS

PerShare(entry, stop) == IF entry >= stop THEN entry - stop ELSE stop - entry

(* As many shares as the budget can lose down to the stop, and no more than *)
(* the account can pay.                                                     *)
Shares(equity, budget, entry, stop) ==
    IF entry = stop THEN 0
    ELSE LET raw == budget \div PerShare(entry, stop)
         IN  IF raw * entry > equity THEN equity \div entry ELSE raw

-----------------------------------------------------------------------------
(* A floor of a quotient, multiplied back, is not more than what was        *)
(* divided, and grows with it.                                              *)
LEMMA FloorBelow ==
    ASSUME NEW x \in Nat, NEW d \in Nat \ {0}
    PROVE  x \div d \in Nat /\ (x \div d) * d <= x
OBVIOUS

LEMMA FloorLeast ==
    ASSUME NEW x \in Nat, NEW d \in Nat \ {0}, NEW n \in Nat, n * d > x
    PROVE  x \div d <= n
<1>1. x \div d \in Nat /\ (x \div d) * d <= x
  BY FloorBelow
<1> SUFFICES ASSUME x \div d > n
             PROVE  FALSE
  BY <1>1
<1>2. (x \div d) * d >= n * d
  BY <1>1
<1>3. QED
  BY <1>1, <1>2

LEMMA ProductMonotone ==
    ASSUME NEW m \in Nat, NEW n \in Nat, NEW d \in Nat, m <= n
    PROVE  m * d <= n * d
OBVIOUS

(* risk.rs:3-7: down to its stop the position loses no more than the budget, *)
(* and it costs no more than the account holds, whichever of the two bounds  *)
(* cut it down.                                                              *)
THEOREM RiskIsBounded ==
    ASSUME NEW equity \in Nat, NEW budget \in Nat,
           NEW entry \in Nat \ {0}, NEW stop \in Nat
    PROVE  LET n == Shares(equity, budget, entry, stop)
           IN  /\ n \in Nat
               /\ n * PerShare(entry, stop) <= budget
               /\ n * entry <= equity
<1> DEFINE n == Shares(equity, budget, entry, stop)
           d == PerShare(entry, stop)
           raw == budget \div d
<1>1. d \in Nat
  BY DEF PerShare
<1>2. CASE entry = stop
  <2>1. n = 0
    BY <1>2 DEF Shares
  <2>2. QED
    BY <1>1, <2>1
<1>3. CASE entry # stop
  <2>1. d \in Nat \ {0}
    BY <1>3 DEF PerShare
  <2> HIDE DEF d
  <2>2. raw \in Nat /\ raw * d <= budget
    BY <2>1, FloorBelow
  <2>3. n = IF raw * entry > equity THEN equity \div entry ELSE raw
    BY <1>3 DEF Shares, d
  <2> HIDE DEF n, raw
  <2>4. CASE raw * entry > equity
    <3>1. n = equity \div entry
      BY <2>3, <2>4
    <3>2. n \in Nat /\ n * entry <= equity
      BY <3>1, FloorBelow
    <3>3. n <= raw
      BY <3>1, <2>2, <2>4, FloorLeast
    <3>4. n * d <= raw * d
      BY <3>2, <3>3, <2>2, <1>1, ProductMonotone
    <3>5. n * d <= budget
      BY <3>2, <3>4, <2>1, <2>2
    <3>6. QED
      BY <3>2, <3>5 DEF n, d
  <2>5. CASE ~(raw * entry > equity)
    <3>1. n = raw
      BY <2>3, <2>5
    <3>2. n * entry <= equity
      BY <3>1, <2>2, <2>5
    <3>3. QED
      BY <2>2, <3>1, <3>2 DEF n, d
  <2>6. QED
    BY <2>4, <2>5
<1>4. QED
  BY <1>2, <1>3
=============================================================================

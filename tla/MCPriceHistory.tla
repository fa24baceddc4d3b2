--------------------------- MODULE MCPriceHistory ----------------------------
(***************************************************************************)
(* Instances of PriceHistory for TLC: a quiet day and one that gaps up.    *)
(***************************************************************************)
EXTENDS PriceHistory

QuietAndGap ==
    {[high |-> 2, low |-> 1, close |-> 1], [high |-> 5, low |-> 3, close |-> 4]}
=============================================================================

------------------------------- MODULE Advice --------------------------------
(***************************************************************************)
(* What the decision pipeline promises, told on the advice alone and       *)
(* without its stages, calls and permits.  A case is opened on a held      *)
(* position or on a candidate, news may or may not be heard of it, and it  *)
(* is closed with one piece of advice, or with none.  Hard rules are       *)
(* authoritative; a risk flag asks for a look at a position and rules a    *)
(* candidate out; no Buy leaves while the circuit breaker is tripped.      *)
(***************************************************************************)
CONSTANT Jobs       \* whatever runs the pipeline

VARIABLES
    case,           \* the case each job has open
    tripped         \* the portfolio circuit breaker

Rules == {"sell_all", "trim_profit"}

Closed == [stage |-> "closed"]

Opened(kind, rule) ==
    [stage |-> "open", kind |-> kind, rule |-> rule, news |-> "unread"]

Init == case = [j \in Jobs |-> Closed] /\ tripped = FALSE

Open(j) ==
    /\ case[j].stage # "open"
    /\ \/ \E rule \in Rules \cup {"none"} :
            case' = [case EXCEPT ![j] = Opened("position", rule)]
       \/ case' = [case EXCEPT ![j] = Opened("candidate", "none")]
    /\ UNCHANGED tripped

Hear(j) ==
    /\ case[j].stage = "open" /\ case[j].news = "unread"
    /\ \E news \in {"clean", "flagged"} : case' = [case EXCEPT ![j].news = news]
    /\ UNCHANGED tripped

(* What a case may be closed with.                                          *)
Allows(c, advice) ==
    CASE c.kind = "position" /\ c.rule # "none"    -> advice = c.rule
      [] c.kind = "position" /\ c.rule = "none"    ->
            advice = IF c.news = "flagged" THEN "watch" ELSE "hold"
      [] c.kind = "candidate" /\ c.news = "flagged" -> advice = "avoid"
      [] c.kind = "candidate" /\ c.news # "flagged" ->
            advice \in {"watch", "avoid"} \cup (IF tripped THEN {} ELSE {"buy"})

Advise(j) ==
    /\ case[j].stage = "open"
    /\ \E advice \in Rules \cup {"hold", "watch", "buy", "avoid"} :
          /\ Allows(case[j], advice)
          /\ case' = [case EXCEPT ![j] = [stage |-> "advised", advice |-> advice]]
    /\ UNCHANGED tripped

(* Read, or given up by whoever asked.                                       *)
Close(j) ==
    /\ case[j].stage # "closed"
    /\ case' = [case EXCEPT ![j] = Closed]
    /\ UNCHANGED tripped

SetBreaker == tripped' \in BOOLEAN /\ UNCHANGED case

Next ==
    \/ SetBreaker
    \/ \E j \in Jobs : Open(j) \/ Hear(j) \/ Advise(j) \/ Close(j)

Spec == Init /\ [][Next]_<<case, tripped>>
=============================================================================

---------------------------- MODULE FinnhubClient ----------------------------
(***************************************************************************)
(* What the program sends to Finnhub (and, over a limiter of its own, to   *)
(* Twelve Data).  FinnhubProvider::quote tries three times and takes a     *)
(* permit of the shared limiter for each attempt; the calls of             *)
(* FinnhubExtras and daily_history take one permit and try once.  Between  *)
(* the permit and the request on the wire any time may pass.               *)
(***************************************************************************)
EXTENDS RateLimiter, FiniteSets

CONSTANTS
    Attempts,   \* attempts of quote: 3
    MaxOps      \* bound: calls of quote and of the single-attempt methods

ASSUME AttemptsAssumption == Attempts \in Nat \ {0} /\ MaxOps \in Nat

ASSUME CallersAssumption == IsFiniteSet(Callers)

(* The bound on acquire is never the one that bites.                        *)
ASSUME EnoughAcquires == MaxAcquires >= Attempts * MaxOps

VARIABLES
    client,     \* where each caller is, and how many attempts it has left
    ops,        \* operations begun so far
    sent        \* history: when each request left, oldest first

clientVars == <<vars, client, ops, sent>>

Client ==
    [pc : {"idle"}]
        \cup [pc : {"permit", "send", "backoff"},
              left : 0..(Attempts - 1)]

ClientTypeOK ==
    /\ TypeOK
    /\ client \in [Callers -> Client]
    /\ ops \in 0..MaxOps
    /\ sent \in Seq(Nat)

At(c, pc) == client[c].pc = pc

Goes(c, pc, left) == client' = [client EXCEPT ![c] = [pc |-> pc, left |-> left]]

ClientInit ==
    /\ Init
    /\ client = [c \in Callers |-> [pc |-> "idle"]]
    /\ ops = 0
    /\ sent = <<>>

Begin(c, left) ==
    /\ At(c, "idle") /\ ops < MaxOps
    /\ ops' = ops + 1
    /\ Goes(c, "permit", left)
    /\ Acquire(c)
    /\ UNCHANGED sent

(* quote: the first of its attempts.                                        *)
Quote(c) == Begin(c, Attempts - 1)

(* company_news, basic_financials, next_earnings, recommendation_trend and  *)
(* peers.                                                                   *)
Extra(c) == Begin(c, 0)

(* acquire returns: the request may go out.                                 *)
Permit(c) ==
    /\ At(c, "permit")
    /\ Pass(c)
    /\ Goes(c, "send", client[c].left)
    /\ UNCHANGED <<ops, sent>>

(* The request leaves; nobody sees the caller between that and the answer.  *)
Sends(c) ==
    /\ At(c, "send")
    /\ sent' = Append(sent, now)
    /\ UNCHANGED <<vars, ops>>

Returns(c) == client' = [client EXCEPT ![c] = [pc |-> "idle"]]

(* A 2xx status ends the call, whether or not its body can be read.         *)
Answered(c) == Sends(c) /\ Returns(c)

(* Another status, a transport error or the client's timeout: back off,     *)
(* unless this was the last attempt.                                        *)
Failed(c) ==
    /\ Sends(c)
    /\ IF client[c].left > 0
         THEN Goes(c, "backoff", client[c].left - 1)
         ELSE Returns(c)

(* Mutant: one permit pays for all attempts. *)
RetryUnpaid(c) ==
    /\ At(c, "backoff")
    /\ Goes(c, "send", client[c].left)
    /\ UNCHANGED <<vars, ops, sent>>

(* The pause, much shorter than a tick, is over: take the next permit.      *)
Retry(c) ==
    /\ At(c, "backoff")
    /\ Goes(c, "permit", client[c].left)
    /\ Acquire(c)
    /\ UNCHANGED <<ops, sent>>

Await(c) == (Wait(c) \/ WakeUp(c)) /\ UNCHANGED <<client, ops, sent>>

Clock == Tick /\ UNCHANGED <<client, ops, sent>>

Steps(c) == Permit(c) \/ Await(c) \/ Answered(c) \/ Failed(c) \/ Retry(c)

ClientNext == Clock \/ \E c \in Callers : Quote(c) \/ Extra(c) \/ Steps(c)

ClientSpec == ClientInit /\ [][ClientNext]_clientVars

(* Time goes on, the runtime polls a caller whose timer has fired or whose  *)
(* mutex is free, and a request is answered or runs into the ten seconds of *)
(* its client.                                                              *)
ClientFairness ==
    /\ WF_clientVars(Clock)
    /\ \A c \in Callers : WF_clientVars(Steps(c))

ClientFairSpec == ClientSpec /\ ClientFairness

-----------------------------------------------------------------------------
(* Properties *)

(* main.rs:75, the cap is kept "across all Finnhub traffic", as the API     *)
(* counts it: permits are rationed, not requests, and a request that dawdles *)
(* between the two leaves with those of a later window.  No more than one   *)
(* per caller can: a window sees at most MaxCalls requests and that many.   *)
SendsBounded ==
    LET most == MaxCalls + Cardinality(Callers)
    IN  \A i \in DOMAIN sent :
            i + most \in DOMAIN sent => sent[i + most] - sent[i] > Window

(* Every request that leaves was paid for by a permit of its own.           *)
Sending == {c \in Callers : At(c, "send")}

SendsPaid == Len(sent) + Cardinality(Sending) = Len(granted)

(* A call comes back, however often it fails and whoever competes for the   *)
(* permits of its attempts.                                                 *)
QuoteReturns == \A c \in Callers : ~At(c, "idle") ~> At(c, "idle")

-----------------------------------------------------------------------------
(* Inductive invariant *)

(* The k-th request leaves after the k-th permit, whoever holds it, and     *)
(* before the permit that many calls later as there are callers.            *)
SendsInv ==
    \A k \in DOMAIN sent :
        /\ granted[k] <= sent[k] /\ sent[k] <= now
        /\ k + Cardinality(Callers) \in DOMAIN granted
              => sent[k] <= granted[k + Cardinality(Callers)]
=============================================================================

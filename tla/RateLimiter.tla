----------------------------- MODULE RateLimiter -----------------------------
(***************************************************************************)
(* RateLimiter::acquire, shared by every Finnhub call of the scanner and   *)
(* of the HTTP handlers.  The body of its loop runs under the mutex and    *)
(* awaits nothing, so it is one step; between two rounds a caller sleeps,  *)
(* and other callers may take the slot it was waiting for.                 *)
(***************************************************************************)
EXTENDS Integers, Sequences

CONSTANTS
    Callers,    \* tasks that use the limiter
    MaxCalls,   \* max_calls
    Window,     \* window, in ticks of the clock
    MaxAcquires \* bound: calls of acquire in a behaviour

ASSUME LimitAssumption == MaxCalls \in Nat \ {0} /\ Window \in Nat
ASSUME AcquiresAssumption == MaxAcquires \in Nat

VARIABLES
    now,        \* Instant::now()
    timestamps, \* the VecDeque: calls that may still lie in the window
    caller,     \* where each caller is
    granted,    \* history: when each acquire returned, oldest first
    acquires    \* number of calls of acquire so far

vars == <<now, timestamps, caller, granted, acquires>>

Caller == [pc : {"idle", "acquire"}] \cup [pc : {"sleep"}, wake : Nat]

TypeOK ==
    /\ now \in Nat
    /\ timestamps \in Seq(Nat)
    /\ caller \in [Callers -> Caller]
    /\ granted \in Seq(Nat)
    /\ acquires \in Nat

Init ==
    /\ now = 0
    /\ timestamps = <<>>
    /\ caller = [c \in Callers |-> [pc |-> "idle"]]
    /\ granted = <<>>
    /\ acquires = 0

(* Time passes.  Once every timestamp has expired and nobody sleeps, more  *)
(* of it makes no difference, and the clock stands still.                  *)
Tick ==
    /\ \/ \E i \in DOMAIN granted : now - granted[i] <= Window
       \/ \E c \in Callers : caller[c].pc = "sleep" /\ now < caller[c].wake
    /\ now' = now + 1
    /\ UNCHANGED <<timestamps, caller, granted, acquires>>

Acquire(c) ==
    /\ caller[c].pc = "idle" /\ acquires < MaxAcquires
    /\ acquires' = acquires + 1
    /\ caller' = [caller EXCEPT ![c] = [pc |-> "acquire"]]
    /\ UNCHANGED <<now, timestamps, granted>>

(* Mutant: a call exactly one window old no longer counts. *)
ExpiredAtEdge(t) == now - t >= Window

(* The inner loop drops k timestamps: from the front, while they expired.   *)
Expired(t) == now - t > Window

(* Mutant: nothing is dropped. *)
DropsNothing(k) == k = 0

Drops(k) ==
    /\ \A j \in 1..k : Expired(timestamps[j])
    /\ k < Len(timestamps) => ~Expired(timestamps[k + 1])

Left(k) == SubSeq(timestamps, k + 1, Len(timestamps))

(* Mutant: room for one call too many. *)
PassWhenFull(c) ==
    /\ caller[c].pc = "acquire"
    /\ \E k \in 0..Len(timestamps) :
          /\ Drops(k)
          /\ Len(Left(k)) <= MaxCalls
          /\ timestamps' = Append(Left(k), now)
    /\ granted' = Append(granted, now)
    /\ caller' = [caller EXCEPT ![c] = [pc |-> "idle"]]
    /\ UNCHANGED <<now, acquires>>

(* Mutant: a call that goes through is not stamped. *)
PassUnstamped(c) ==
    /\ caller[c].pc = "acquire"
    /\ \E k \in 0..Len(timestamps) :
          /\ Drops(k)
          /\ Len(Left(k)) < MaxCalls
          /\ timestamps' = Left(k)
    /\ granted' = Append(granted, now)
    /\ caller' = [caller EXCEPT ![c] = [pc |-> "idle"]]
    /\ UNCHANGED <<now, acquires>>

(* There is room: acquire stamps the call and returns.                      *)
Pass(c) ==
    /\ caller[c].pc = "acquire"
    /\ \E k \in 0..Len(timestamps) :
          /\ Drops(k)
          /\ Len(Left(k)) < MaxCalls
          /\ timestamps' = Append(Left(k), now)
    /\ granted' = Append(granted, now)
    /\ caller' = [caller EXCEPT ![c] = [pc |-> "idle"]]
    /\ UNCHANGED <<now, acquires>>

(* Mutant: the operands of the subtraction are swapped, and do not saturate. *)
WaitBackwards(c) ==
    /\ caller[c].pc = "acquire"
    /\ \E k \in 0..Len(timestamps) :
          /\ Drops(k)
          /\ Len(Left(k)) >= MaxCalls
          /\ timestamps' = Left(k)
          /\ caller' = [caller EXCEPT ![c] =
                [pc |-> "sleep", wake |-> now + (now - Left(k)[1]) - Window]]
    /\ UNCHANGED <<now, granted, acquires>>

(* There is none: sleep until the oldest call leaves the window.            *)
Wait(c) ==
    /\ caller[c].pc = "acquire"
    /\ \E k \in 0..Len(timestamps) :
          /\ Drops(k)
          /\ Len(Left(k)) >= MaxCalls
          /\ timestamps' = Left(k)
          /\ caller' = [caller EXCEPT ![c] =
                          [pc |-> "sleep", wake |-> Left(k)[1] + Window]]
    /\ UNCHANGED <<now, granted, acquires>>

(* The sleep ends, at the earliest when it should, and the loop goes round. *)
WakeUp(c) ==
    /\ caller[c].pc = "sleep" /\ now >= caller[c].wake
    /\ caller' = [caller EXCEPT ![c] = [pc |-> "acquire"]]
    /\ UNCHANGED <<now, timestamps, granted, acquires>>

Next ==
    \/ Tick
    \/ \E c \in Callers : Acquire(c) \/ Pass(c) \/ Wait(c) \/ WakeUp(c)

Spec == Init /\ [][Next]_vars

-----------------------------------------------------------------------------
(* Properties *)

Limit == INSTANCE SlidingWindow
             WITH MaxCalls <- MaxCalls, Window <- Window,
                  now <- now, granted <- granted

(* ratelimit.rs:5, "at most max_calls calls within any rolling window",    *)
(* whoever calls, in whatever order sleepers wake and however late.        *)
WindowBound == Limit!WindowBound

(* The queue and its sleepers implement the limit told on the calls alone. *)
ImplementsLimit == Limit!Spec

(* The queue holds no more than the limiter was created for: a call that   *)
(* passes is stamped only into a queue with room.                          *)
QueueBounded == Len(timestamps) <= MaxCalls

-----------------------------------------------------------------------------
(* Inductive invariant *)

(* The queue is the tail of the history, and what was dropped from its     *)
(* front has left the window for good.                                     *)
Dropped == Len(granted) - Len(timestamps)

QueueInv ==
    /\ Dropped >= 0
    /\ \A i \in DOMAIN timestamps : timestamps[i] = granted[Dropped + i]
    /\ \A i \in 1..Dropped : Expired(granted[i])
    /\ \A i \in DOMAIN granted : granted[i] <= now
    /\ QueueBounded
    /\ WindowBound
=============================================================================

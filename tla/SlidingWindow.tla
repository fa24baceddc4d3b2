---------------------------- MODULE SlidingWindow ----------------------------
(***************************************************************************)
(* What a rate limiter promises its callers, told on the calls it let      *)
(* through and nothing else: a call may pass when the call MaxCalls before *)
(* it lies more than a window back.                                        *)
(***************************************************************************)
EXTENDS Integers, Sequences

CONSTANTS
    MaxCalls,   \* calls allowed within a window
    Window      \* length of the window, in ticks

VARIABLES
    now,        \* the monotonic clock
    granted     \* when each call was let through, oldest first

Init == now = 0 /\ granted = <<>>

Tick == now' = now + 1 /\ UNCHANGED granted

HasRoom ==
    Len(granted) >= MaxCalls
        => now - granted[Len(granted) - MaxCalls + 1] > Window

Grant == HasRoom /\ granted' = Append(granted, now) /\ UNCHANGED now

Next == Tick \/ Grant

Spec == Init /\ [][Next]_<<now, granted>>

(* ratelimit.rs:5, "at most max_calls calls within any rolling window": of *)
(* MaxCalls + 1 calls in a row, the last comes more than a window after    *)
(* the first.                                                              *)
WindowBound ==
    \A i \in DOMAIN granted :
        i + MaxCalls \in DOMAIN granted
            => granted[i + MaxCalls] - granted[i] > Window
=============================================================================

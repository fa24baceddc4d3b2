------------------------- MODULE FinnhubClientProofs -------------------------
(***************************************************************************)
(* The limiter lets no more calls through than it says, however many race  *)
(* for a slot; the client keeps that promise whatever it calls and however *)
(* often it retries, pays for every request it sends, and sends no more of *)
(* them in a window than the limit and one per caller.                     *)
(***************************************************************************)
EXTENDS FinnhubClient, SequenceTheorems, FiniteSetTheorems, TLAPS

-----------------------------------------------------------------------------
(* Dropping expired calls *)

(* What is left of the queue is a queue.                                    *)
LEMMA LeftIsQueue ==
    ASSUME TypeOK, NEW k \in 0..Len(timestamps)
    PROVE  /\ Left(k) \in Seq(Nat)
           /\ Len(Left(k)) = Len(timestamps) - k
           /\ \A i \in 1..(Len(timestamps) - k) : Left(k)[i] = timestamps[k + i]
  <1>1. Len(timestamps) \in Nat /\ k \in Nat /\ k <= Len(timestamps)
    BY DEF TypeOK
  <1>2. \A i \in (k + 1)..Len(timestamps) : timestamps[i] \in Nat
    BY <1>1 DEF TypeOK
  <1>. DEFINE m == k + 1
              n == Len(timestamps)
  <1>3. m \in Int /\ n \in Int
    BY <1>1
  <1>4. /\ SubSeq(timestamps, m, n) \in Seq(Nat)
        /\ Len(SubSeq(timestamps, m, n)) = IF m <= n THEN n - m + 1 ELSE 0
        /\ \A i \in 1..(n - m + 1) :
              SubSeq(timestamps, m, n)[i] = timestamps[m + i - 1]
    <2>. HIDE DEF m, n
    <2>1. \A i \in m..n : timestamps[i] \in Nat
      BY <1>2 DEF m, n
    <2>. QED
      BY <1>3, <2>1, SubSeqProperties
  <1>. QED
    BY <1>1, <1>4 DEF Left

(* ... and again the tail of the history, the calls before it expired.      *)
LEMMA LeftIsTail ==
    ASSUME TypeOK, QueueInv, NEW k \in 0..Len(timestamps), Drops(k)
    PROVE  /\ Len(Left(k)) = Len(granted) - (Dropped + k)
           /\ Dropped + k \in 0..Len(granted)
           /\ \A i \in 1..Len(Left(k)) : Left(k)[i] = granted[Dropped + k + i]
           /\ \A i \in 1..(Dropped + k) : Expired(granted[i])
  <1>1. /\ Len(timestamps) \in Nat /\ Len(granted) \in Nat
        /\ k \in Nat /\ k <= Len(timestamps)
        /\ Dropped \in Nat /\ Dropped = Len(granted) - Len(timestamps)
    BY DEF TypeOK, QueueInv, Dropped
  <1>2. \A i \in 1..(Len(timestamps) - k) : Left(k)[i] = timestamps[k + i]
    BY LeftIsQueue
  <1>3. Len(Left(k)) = Len(timestamps) - k
    BY LeftIsQueue
  <1>4. \A i \in 1..Len(timestamps) : timestamps[i] = granted[Dropped + i]
    <2>1. DOMAIN timestamps = 1..Len(timestamps)
      BY DEF TypeOK
    <2>. QED
      BY <2>1 DEF QueueInv
  <1>5. ASSUME NEW i \in 1..Len(Left(k))
        PROVE  Left(k)[i] = granted[Dropped + k + i]
    <2>1. i \in 1..(Len(timestamps) - k) /\ k + i \in 1..Len(timestamps)
      BY <1>1, <1>3
    <2>2. Left(k)[i] = granted[Dropped + (k + i)]
      BY <1>2, <1>4, <2>1
    <2>3. Dropped + (k + i) = Dropped + k + i
      BY <1>1, <2>1
    <2>. QED
      BY <2>2, <2>3
  <1>6. ASSUME NEW i \in 1..(Dropped + k)
        PROVE  Expired(granted[i])
    <2>1. CASE i <= Dropped
      BY <1>1, <2>1 DEF QueueInv
    <2>2. CASE i > Dropped
      <3>1. PICK j \in 1..k : i = Dropped + j
        BY <1>1, <2>2
      <3>2. timestamps[j] = granted[i]
        BY <1>1, <1>4, <3>1
      <3>. QED
        BY <3>1, <3>2 DEF Drops
    <2>. QED
      BY <1>1, <2>1, <2>2
  <1>. QED
    BY <1>1, <1>3, <1>5, <1>6

-----------------------------------------------------------------------------
(* Types of the limiter *)

(* Every step keeps the types. *)
LEMMA TypeStep ==
    ASSUME TypeOK, QueueInv, [Next]_vars
    PROVE  TypeOK'
  <1>1. CASE Tick
    BY <1>1 DEF Tick, TypeOK
  <1>2. ASSUME NEW c \in Callers, Acquire(c)
        PROVE  TypeOK'
    BY <1>2 DEF Acquire, TypeOK, Caller
  <1>3. ASSUME NEW c \in Callers, Pass(c)
        PROVE  TypeOK'
    <2>1. PICK k \in 0..Len(timestamps) : timestamps' = Append(Left(k), now)
      BY <1>3 DEF Pass
    <2>2. timestamps' \in Seq(Nat)
      BY <2>1, LeftIsQueue, AppendProperties DEF TypeOK
    <2>3. granted' \in Seq(Nat)
      BY <1>3, AppendProperties DEF Pass, TypeOK
    <2>4. caller' \in [Callers -> Caller]
      BY <1>3 DEF Pass, TypeOK, Caller
    <2>. QED
      BY <1>3, <2>2, <2>3, <2>4 DEF Pass, TypeOK
  <1>4. ASSUME NEW c \in Callers, Wait(c)
        PROVE  TypeOK'
    <2>1. PICK k \in 0..Len(timestamps) :
             /\ Len(Left(k)) >= MaxCalls
             /\ timestamps' = Left(k)
             /\ caller' = [caller EXCEPT ![c] =
                             [pc |-> "sleep", wake |-> Left(k)[1] + Window]]
      BY <1>4 DEF Wait
    <2>2. Left(k) \in Seq(Nat) /\ Len(Left(k)) \in Nat
      BY LeftIsQueue
    <2>3. Left(k)[1] \in Nat
      BY <2>1, <2>2, LimitAssumption
    <2>4. [pc |-> "sleep", wake |-> Left(k)[1] + Window] \in Caller
      BY <2>3, LimitAssumption DEF Caller
    <2>. QED
      BY <1>4, <2>1, <2>2, <2>4 DEF Wait, TypeOK
  <1>5. ASSUME NEW c \in Callers, WakeUp(c)
        PROVE  TypeOK'
    BY <1>5 DEF WakeUp, TypeOK, Caller
  <1>6. CASE UNCHANGED vars
    BY <1>6 DEF vars, TypeOK
  <1>. QED
    BY <1>1, <1>2, <1>3, <1>4, <1>5, <1>6 DEF Next

-----------------------------------------------------------------------------
(* The limit *)

(* A call passes only when the abstract limiter would let it through.       *)
LEMMA PassGrants ==
    ASSUME TypeOK, QueueInv, NEW c \in Callers, Pass(c)
    PROVE  Limit!Grant /\ QueueInv'
  <1>1. PICK k \in 0..Len(timestamps) :
           /\ Drops(k)
           /\ Len(Left(k)) < MaxCalls
           /\ timestamps' = Append(Left(k), now)
    BY DEF Pass
  <1>. DEFINE n == Len(granted)
              d == Dropped + k
  <1>2. granted' = Append(granted, now) /\ now' = now
    BY DEF Pass
  <1>3. /\ n \in Nat /\ d \in 0..n /\ now \in Nat
        /\ Left(k) \in Seq(Nat)
        /\ Len(Left(k)) = n - d
        /\ \A i \in 1..(n - d) : Left(k)[i] = granted[d + i]
        /\ \A i \in 1..d : Expired(granted[i])
    <2>1. n \in Nat /\ now \in Nat
      BY DEF TypeOK
    <2>2. Left(k) \in Seq(Nat)
      BY LeftIsQueue
    <2>3. /\ Len(Left(k)) = n - d /\ d \in 0..n
          /\ \A i \in 1..Len(Left(k)) : Left(k)[i] = granted[d + i]
          /\ \A i \in 1..d : Expired(granted[i])
      BY <1>1, LeftIsTail
    <2>. HIDE DEF n, d
    <2>. QED
      BY <2>1, <2>2, <2>3
  <1>n. n \in Nat /\ d \in Nat /\ d <= n /\ MaxCalls \in Nat \ {0}
    BY <1>3, LimitAssumption
  <1>4. /\ Len(granted') = n + 1
        /\ DOMAIN granted' = 1..(n + 1)
        /\ \A i \in 1..n : granted'[i] = granted[i]
        /\ granted'[n + 1] = now
    BY <1>2, AppendProperties DEF TypeOK
  <1>5. /\ Len(timestamps') = n - d + 1
        /\ DOMAIN timestamps' = 1..(n - d + 1)
        /\ \A i \in 1..(n - d) : timestamps'[i] = granted[d + i]
        /\ timestamps'[n - d + 1] = now
    <2>1. /\ timestamps' \in Seq(Nat)
          /\ Len(timestamps') = Len(Left(k)) + 1
          /\ \A i \in 1..Len(Left(k)) : timestamps'[i] = Left(k)[i]
          /\ timestamps'[Len(Left(k)) + 1] = now
      BY <1>1, <1>3, AppendProperties
    <2>2. DOMAIN timestamps' = 1..Len(timestamps')
      BY <2>1
    <2>. HIDE DEF n, d
    <2>. QED
      BY <1>3, <2>1, <2>2
  <1>6. Dropped' = d
    <2>1. Dropped' = Len(granted') - Len(timestamps')
      BY DEF Dropped
    <2>. HIDE DEF n, d
    <2>. QED
      BY <1>3, <1>4, <1>5, <2>1
  <1>7. n - d < MaxCalls
    BY <1>1, <1>3
  <1>8. DOMAIN granted = 1..n
    BY DEF TypeOK
  <1>. HIDE DEF n, d
  <1>9. Limit!HasRoom
    <2>1. ASSUME n >= MaxCalls
          PROVE  now - granted[n - MaxCalls + 1] > Window
      <3>1. n - MaxCalls + 1 \in 1..d
        BY <1>3, <1>7, <2>1, LimitAssumption
      <3>. QED
        BY <1>3, <3>1 DEF Expired
    <2>. QED
      BY <2>1 DEF Limit!HasRoom, n
  <1>10. Limit!Grant
    BY <1>2, <1>9 DEF Limit!Grant
  <1>11. \A i \in DOMAIN timestamps' : timestamps'[i] = granted'[d + i]
    <2>. SUFFICES ASSUME NEW i \in 1..(n - d + 1)
                  PROVE  timestamps'[i] = granted'[d + i]
      BY <1>5
    <2>1. CASE i = n - d + 1
      BY <1>3, <1>4, <1>5, <2>1
    <2>2. CASE i # n - d + 1
      <3>1. i \in 1..(n - d) /\ d + i \in 1..n
        BY <1>3, <2>2
      <3>. QED
        BY <1>4, <1>5, <3>1
    <2>. QED
      BY <2>1, <2>2
  <1>12. \A i \in 1..d : now - granted'[i] > Window
    <2>1. \A i \in 1..d : i \in 1..n
      BY <1>3
    <2>. QED
      BY <1>3, <1>4, <2>1 DEF Expired
  <1>13. \A i \in DOMAIN granted' : granted'[i] <= now
    <2>1. \A i \in 1..n : granted[i] <= now
      BY <1>8 DEF QueueInv
    <2>2. \A i \in 1..(n + 1) : i \in 1..n \/ i = n + 1
      BY <1>3
    <2>. QED
      BY <1>3, <1>4, <2>1, <2>2
  <1>14. Len(timestamps') <= MaxCalls
    BY <1>3, <1>5, <1>7, LimitAssumption
  <1>15. ASSUME NEW i \in DOMAIN granted', i + MaxCalls \in DOMAIN granted'
         PROVE  granted'[i + MaxCalls] - granted'[i] > Window
    <2>1. i \in 1..(n + 1) /\ i + MaxCalls \in 1..(n + 1)
      BY <1>4, <1>15
    <2>2. CASE i + MaxCalls = n + 1
      <3>1. i \in 1..d
        BY <1>3, <1>7, <2>1, <2>2, LimitAssumption
      <3>. QED
        BY <1>4, <1>12, <2>2, <3>1
    <2>3. CASE i + MaxCalls # n + 1
      <3>1. i \in 1..n /\ i + MaxCalls \in 1..n
        BY <1>n, <2>1, <2>3
      <3>2. granted[i + MaxCalls] - granted[i] > Window
        BY <1>8, <3>1 DEF QueueInv, WindowBound, Limit!WindowBound
      <3>. QED
        BY <1>4, <3>1, <3>2
    <2>. QED
      BY <2>2, <2>3
  <1>16. WindowBound'
    BY <1>15 DEF WindowBound, Limit!WindowBound
  <1>17. QueueInv'
    <2>1. Dropped' >= 0
      BY <1>n, <1>6
    <2>2. \A i \in 1..Dropped' : Expired(granted[i])'
      BY <1>2, <1>6, <1>12 DEF Expired
    <2>. QED
      BY <1>2, <1>6, <1>11, <1>13, <1>14, <1>16, <2>1, <2>2
      DEF QueueInv, QueueBounded
  <1>. QED
    BY <1>10, <1>17

(* The other steps only let time pass or shorten the queue.                 *)
LEMMA QueueStep ==
    ASSUME TypeOK, QueueInv, [Next]_vars
    PROVE  QueueInv' /\ [Limit!Next]_<<now, granted>>
  <1>1. CASE Tick
    <2>1. now' = now + 1 /\ UNCHANGED <<timestamps, granted>> /\ now \in Nat
      BY <1>1 DEF Tick, TypeOK
    <2>2. \A i \in DOMAIN granted : granted[i] \in Nat
      BY DEF TypeOK
    <2>3. Dropped' = Dropped /\ WindowBound' /\ QueueBounded'
      BY <2>1 DEF Dropped, QueueInv, WindowBound, Limit!WindowBound, QueueBounded
    <2>4. \A i \in 1..Dropped : Expired(granted[i])'
      <3>1. \A i \in 1..Dropped : i \in DOMAIN granted
        BY DEF QueueInv, Dropped, TypeOK
      <3>. QED
        BY <2>1, <2>2, <3>1, LimitAssumption DEF QueueInv, Expired
    <2>5. \A i \in DOMAIN granted : granted[i] <= now'
      BY <2>1, <2>2 DEF QueueInv
    <2>6. QueueInv'
      BY <2>1, <2>3, <2>4, <2>5 DEF QueueInv
    <2>. QED
      BY <2>1, <2>6 DEF Limit!Next, Limit!Tick
  <1>2. ASSUME NEW c \in Callers, Acquire(c) \/ WakeUp(c)
        PROVE  UNCHANGED <<now, timestamps, granted>>
    BY <1>2 DEF Acquire, WakeUp
  <1>3. ASSUME NEW c \in Callers, Pass(c)
        PROVE  QueueInv' /\ [Limit!Next]_<<now, granted>>
    BY <1>3, PassGrants DEF Limit!Next
  <1>4. ASSUME NEW c \in Callers, Wait(c)
        PROVE  QueueInv' /\ [Limit!Next]_<<now, granted>>
    <2>1. PICK k \in 0..Len(timestamps) : Drops(k) /\ timestamps' = Left(k)
      BY <1>4 DEF Wait
    <2>2. UNCHANGED <<now, granted>>
      BY <1>4 DEF Wait
    <2>3. /\ Len(Left(k)) = Len(granted) - (Dropped + k)
          /\ Dropped + k \in 0..Len(granted) /\ Len(granted) \in Nat
          /\ \A i \in 1..Len(Left(k)) : Left(k)[i] = granted[Dropped + k + i]
          /\ \A i \in 1..(Dropped + k) : Expired(granted[i])
          /\ DOMAIN Left(k) = 1..Len(Left(k))
      <3>1. Left(k) \in Seq(Nat)
        BY LeftIsQueue
      <3>2. Len(granted) \in Nat
        BY DEF TypeOK
      <3>. QED
        BY <2>1, <3>1, <3>2, LeftIsTail
    <2>4. Dropped' = Dropped + k
      <3>1. Dropped' = Len(granted) - Len(Left(k))
        BY <2>1, <2>2 DEF Dropped
      <3>. QED
        BY <2>3, <3>1
    <2>5. QueueBounded'
      <3>1. Len(Left(k)) = Len(timestamps) - k /\ Len(timestamps) \in Nat
        BY LeftIsQueue DEF TypeOK
      <3>. QED
        BY <2>1, <3>1, LimitAssumption DEF QueueBounded, QueueInv
    <2>6. WindowBound'
      BY <2>2 DEF QueueInv, WindowBound, Limit!WindowBound
    <2>7. \A i \in 1..(Dropped + k) : Expired(granted[i])'
      BY <2>2, <2>3 DEF Expired
    <2>8. QueueInv'
      BY <2>1, <2>2, <2>3, <2>4, <2>5, <2>6, <2>7 DEF QueueInv
    <2>. QED
      BY <2>2, <2>8
  <1>5. ASSUME UNCHANGED <<now, timestamps, granted>>
        PROVE  QueueInv' /\ [Limit!Next]_<<now, granted>>
    BY <1>5 DEF QueueInv, Dropped, Expired, QueueBounded, WindowBound,
                Limit!WindowBound
  <1>. QED
    BY <1>1, <1>2, <1>3, <1>4, <1>5 DEF Next, vars

-----------------------------------------------------------------------------
(* The limiter's theorems *)

(* The limiter's state stays what its types say and the queue stays the    *)
(* unexpired tail of the calls let through.                                *)
THEOREM QueueCorrect == Spec => [](TypeOK /\ QueueInv)
  <1>1. Init => TypeOK /\ QueueInv
    <2>1. Init => TypeOK
      BY DEF Init, TypeOK, Caller
    <2>2. Init => QueueInv
      BY LimitAssumption
      DEF Init, QueueInv, Dropped, QueueBounded, WindowBound, Limit!WindowBound
    <2>. QED
      BY <2>1, <2>2
  <1>2. TypeOK /\ QueueInv /\ [Next]_vars => TypeOK' /\ QueueInv'
    BY TypeStep, QueueStep
  <1>. QED
    BY <1>1, <1>2, PTL DEF Spec

(* ratelimit.rs:5: at most MaxCalls calls pass within any rolling window,  *)
(* for every limit and window, however many callers race for a slot.       *)
THEOREM WindowBoundAlways == Spec => []WindowBound
  <1>1. QueueInv => WindowBound
    BY DEF QueueInv
  <1>. QED
    BY <1>1, QueueCorrect, PTL

(* The queue never holds more timestamps than the limiter was sized for.   *)
THEOREM QueueBoundedAlways == Spec => []QueueBounded
  <1>1. QueueInv => QueueBounded
    BY DEF QueueInv
  <1>. QED
    BY <1>1, QueueCorrect, PTL

(* The queue, its sleepers and their timers implement the limiter told on  *)
(* the calls alone.                                                        *)
THEOREM LimitImplemented == Spec => ImplementsLimit
  <1>1. Init => Limit!Init
    BY DEF Init, Limit!Init
  <1>2. TypeOK /\ QueueInv /\ [Next]_vars => [Limit!Next]_<<now, granted>>
    BY QueueStep
  <1>. QED
    BY <1>1, <1>2, QueueCorrect, PTL DEF Spec, ImplementsLimit, Limit!Spec

-----------------------------------------------------------------------------
(* The client *)

(* The client uses the limiter by its own steps only.                       *)
LEMMA ClientUsesLimiter == [ClientNext]_clientVars => [Next]_vars
  <1>. SUFFICES ASSUME [ClientNext]_clientVars
                PROVE  [Next]_vars
    OBVIOUS
  <1>1. CASE Clock
    BY <1>1 DEF Clock, Next
  <1>2. ASSUME NEW c \in Callers, Quote(c) \/ Extra(c) \/ Retry(c)
        PROVE  Next
    BY <1>2 DEF Quote, Extra, Begin, Retry, Next
  <1>3. ASSUME NEW c \in Callers, Permit(c) \/ Await(c)
        PROVE  Next
    BY <1>3 DEF Permit, Await, Next
  <1>4. ASSUME NEW c \in Callers, Answered(c) \/ Failed(c)
        PROVE  UNCHANGED vars
    BY <1>4 DEF Answered, Failed, Sends
  <1>5. CASE UNCHANGED clientVars
    BY <1>5 DEF clientVars
  <1>. QED
    BY <1>1, <1>2, <1>3, <1>4, <1>5 DEF ClientNext, Steps

(* The limiter inside the client behaves as the limiter alone.              *)
THEOREM ClientRefinesLimiter == ClientSpec => Spec
  <1>1. ClientInit => Init
    BY DEF ClientInit
  <1>. QED
    BY <1>1, ClientUsesLimiter, PTL DEF ClientSpec, Spec

(* Whatever the client calls and however often it tries again, no window    *)
(* has more than MaxCalls permits.                                          *)
THEOREM ClientKeepsWindow == ClientSpec => []WindowBound
  BY ClientRefinesLimiter, WindowBoundAlways, PTL

(* ... and the queue keeps to its limit.                                    *)
THEOREM ClientKeepsQueue == ClientSpec => []QueueBounded
  BY ClientRefinesLimiter, QueueBoundedAlways, PTL

(* Seen through quote and the extras, the limiter is still the abstract one. *)
THEOREM ClientImplementsLimit == ClientSpec => ImplementsLimit
  BY ClientRefinesLimiter, LimitImplemented, PTL

-----------------------------------------------------------------------------
(* Types of the client *)

(* A caller is moved to a place it can be in.                               *)
LEMMA GoesTyped ==
    ASSUME client \in [Callers -> Client], NEW c \in Callers,
           NEW pc \in {"permit", "send", "backoff"},
           NEW left \in 0..(Attempts - 1), Goes(c, pc, left)
    PROVE  client' \in [Callers -> Client]
  <1>1. [pc |-> pc, left |-> left] \in Client
    BY DEF Client
  <1>. QED
    BY <1>1 DEF Goes

(* The number of attempts left, where there is one.                         *)
LEMMA LeftTyped ==
    ASSUME client \in [Callers -> Client], NEW c \in Callers, ~At(c, "idle")
    PROVE  client[c].left \in 0..(Attempts - 1)
  BY DEF Client, At

(* Steps of the client keep the types of its own variables.                 *)
LEMMA ClientTypeStep ==
    ASSUME ClientTypeOK, [ClientNext]_clientVars
    PROVE  /\ client' \in [Callers -> Client]
           /\ ops' \in 0..MaxOps
           /\ sent' \in Seq(Nat)
  <1>. USE AttemptsAssumption
  <1>1. CASE Clock
    BY <1>1 DEF Clock, ClientTypeOK
  <1>2. ASSUME NEW c \in Callers, Quote(c) \/ Extra(c)
        PROVE  /\ client' \in [Callers -> Client]
               /\ ops' \in 0..MaxOps /\ sent' \in Seq(Nat)
    <2>1. PICK left \in {Attempts - 1, 0} : Begin(c, left)
      BY <1>2 DEF Quote, Extra
    <2>2. left \in 0..(Attempts - 1)
      BY <2>1
    <2>3. client' \in [Callers -> Client]
      BY <2>1, <2>2, GoesTyped DEF Begin, ClientTypeOK
    <2>. QED
      BY <2>1, <2>3 DEF Begin, ClientTypeOK
  <1>3. ASSUME NEW c \in Callers, Permit(c) \/ Retry(c)
        PROVE  /\ client' \in [Callers -> Client]
               /\ ops' \in 0..MaxOps /\ sent' \in Seq(Nat)
    <2>1. client[c].left \in 0..(Attempts - 1)
      BY <1>3, LeftTyped DEF Permit, Retry, At, ClientTypeOK
    <2>2. client' \in [Callers -> Client]
      BY <1>3, <2>1, GoesTyped DEF Permit, Retry, ClientTypeOK
    <2>. QED
      BY <1>3, <2>2 DEF Permit, Retry, ClientTypeOK
  <1>4. ASSUME NEW c \in Callers, Await(c)
        PROVE  /\ client' \in [Callers -> Client]
               /\ ops' \in 0..MaxOps /\ sent' \in Seq(Nat)
    BY <1>4 DEF Await, ClientTypeOK
  <1>5. ASSUME NEW c \in Callers, Answered(c) \/ Failed(c)
        PROVE  /\ client' \in [Callers -> Client]
               /\ ops' \in 0..MaxOps /\ sent' \in Seq(Nat)
    <2>1. client[c].left \in 0..(Attempts - 1)
      BY <1>5, LeftTyped DEF Answered, Failed, Sends, At, ClientTypeOK
    <2>2. Returns(c) => client' \in [Callers -> Client]
      BY DEF Returns, Client, ClientTypeOK
    <2>3. client[c].left > 0 => client[c].left - 1 \in 0..(Attempts - 1)
      BY <2>1
    <2>4. client' \in [Callers -> Client]
      BY <1>5, <2>2, <2>3, GoesTyped DEF Answered, Failed, ClientTypeOK
    <2>5. sent' = Append(sent, now) /\ ops' = ops
      BY <1>5 DEF Answered, Failed, Sends
    <2>6. sent \in Seq(Nat) /\ now \in Nat /\ ops \in 0..MaxOps
      BY DEF ClientTypeOK, TypeOK
    <2>. QED
      BY <2>4, <2>5, <2>6
  <1>6. CASE UNCHANGED clientVars
    BY <1>6 DEF clientVars, ClientTypeOK
  <1>. QED
    BY <1>1, <1>2, <1>3, <1>4, <1>5, <1>6 DEF ClientNext, Steps

(* Every variable of client and limiter keeps its type.                     *)
THEOREM ClientTypeCorrect == ClientSpec => []ClientTypeOK
  <1>1. ClientInit => ClientTypeOK
    BY AttemptsAssumption
    DEF ClientInit, ClientTypeOK, Client, Init, TypeOK, Caller
  <1>2. ClientTypeOK /\ TypeOK' /\ [ClientNext]_clientVars => ClientTypeOK'
    BY ClientTypeStep DEF ClientTypeOK
  <1>3. ClientSpec => []TypeOK
    BY ClientRefinesLimiter, QueueCorrect, PTL
  <1>. QED
    BY <1>1, <1>2, <1>3, PTL DEF ClientSpec

-----------------------------------------------------------------------------
(* Permits and requests *)

LEMMA SendingFinite == IsFiniteSet(Sending) /\ Cardinality(Sending) \in Nat
  <1>1. Sending \in SUBSET Callers
    BY DEF Sending
  <1>. QED
    BY <1>1, CallersAssumption, FS_Subset, FS_CardinalityType

(* Who is about to send, after a step that moves one caller.                *)
LEMMA OthersSend ==
    ASSUME client \in [Callers -> Client], NEW c \in Callers,
           \E to \in Client : client' = [client EXCEPT ![c] = to]
    PROVE  /\ client'[c].pc = "send" => Sending' = Sending \cup {c}
           /\ client'[c].pc # "send" => Sending' = Sending \ {c}
  BY DEF Sending, At

(* Every step keeps requests and permits paired.                            *)
LEMMA SendsPaidStep ==
    ASSUME ClientTypeOK, SendsPaid, [ClientNext]_clientVars
    PROVE  SendsPaid'
  <1>. DEFINE Moved(c) == \E to \in Client : client' = [client EXCEPT ![c] = to]
  <1>0. /\ client \in [Callers -> Client] /\ client' \in [Callers -> Client]
        /\ sent \in Seq(Nat) /\ granted \in Seq(Nat) /\ now \in Nat
    BY ClientTypeStep DEF ClientTypeOK, TypeOK
  <1>1. /\ IsFiniteSet(Sending) /\ Cardinality(Sending) \in Nat
        /\ Len(sent) \in Nat /\ Len(granted) \in Nat
    BY <1>0, SendingFinite
  <1>2. CASE UNCHANGED <<client, sent, granted>>
    BY <1>2 DEF SendsPaid, Sending, At
  <1>3. ASSUME NEW c \in Callers, Quote(c) \/ Extra(c) \/ Retry(c)
        PROVE  SendsPaid'
    <2>1. /\ ~At(c, "send") /\ UNCHANGED <<sent, granted>>
          /\ \E left : Goes(c, "permit", left)
      BY <1>3 DEF Quote, Extra, Begin, Retry, Acquire, At
    <2>2. client'[c].pc = "permit"
      BY <1>0, <2>1 DEF Goes
    <2>3. Moved(c)
      BY <1>0, <2>1 DEF Goes
    <2>4. Sending' = Sending \ {c}
      BY <1>0, <2>2, <2>3, OthersSend
    <2>5. Sending' = Sending
      BY <2>1, <2>4 DEF Sending
    <2>. QED
      BY <2>1, <2>5 DEF SendsPaid
  <1>4. ASSUME NEW c \in Callers, Permit(c)
        PROVE  SendsPaid'
    <2>1. c \notin Sending /\ sent' = sent /\ granted' = Append(granted, now)
      BY <1>4 DEF Permit, Pass, At, Sending
    <2>2. client'[c].pc = "send"
      BY <1>0, <1>4 DEF Permit, Goes
    <2>3. Moved(c)
      BY <1>0, <1>4 DEF Permit, Goes
    <2>4. Sending' = Sending \cup {c}
      BY <1>0, <2>2, <2>3, OthersSend
    <2>5. Cardinality(Sending') = Cardinality(Sending) + 1
      BY <1>1, <2>1, <2>4, FS_AddElement
    <2>6. Len(granted') = Len(granted) + 1
      BY <1>0, <2>1
    <2>. QED
      BY <1>1, <2>1, <2>5, <2>6 DEF SendsPaid
  <1>5. ASSUME NEW c \in Callers, Answered(c) \/ Failed(c)
        PROVE  SendsPaid'
    <2>1. c \in Sending /\ sent' = Append(sent, now) /\ granted' = granted
      BY <1>5 DEF Answered, Failed, Sends, Sending, vars
    <2>2. /\ client'[c].pc # "send"
          /\ \E to : client' = [client EXCEPT ![c] = to]
      BY <1>0, <1>5 DEF Answered, Failed, Returns, Goes
    <2>3. Moved(c)
      BY <1>0, <2>2
    <2>4. Sending' = Sending \ {c}
      BY <1>0, <2>2, <2>3, OthersSend
    <2>5. Cardinality(Sending') = Cardinality(Sending) - 1
      BY <1>1, <2>1, <2>4, FS_RemoveElement
    <2>6. Len(sent') = Len(sent) + 1
      BY <1>0, <2>1
    <2>. QED
      BY <1>1, <2>1, <2>5, <2>6 DEF SendsPaid
  <1>6. CASE Clock
    BY <1>2, <1>6 DEF Clock, Tick
  <1>7. ASSUME NEW c \in Callers, Await(c)
        PROVE  SendsPaid'
    BY <1>2, <1>7 DEF Await, Wait, WakeUp
  <1>8. CASE UNCHANGED clientVars
    BY <1>2, <1>8 DEF clientVars, vars
  <1>. QED
    BY <1>3, <1>4, <1>5, <1>6, <1>7, <1>8 DEF ClientNext, Steps

(* No request without a permit of its own: retries included, and at no      *)
(* moment a permit more than a caller about to send.                        *)
THEOREM SendsPaidAlways == ClientSpec => []SendsPaid
  <1>1. ClientInit => SendsPaid
    <2>1. ClientInit => Sending = {} /\ Len(sent) = 0 /\ Len(granted) = 0
      BY DEF ClientInit, Init, Sending, At
    <2>. QED
      BY <2>1, FS_EmptySet DEF SendsPaid
  <1>2. ClientTypeOK /\ SendsPaid /\ [ClientNext]_clientVars => SendsPaid'
    BY SendsPaidStep
  <1>. QED
    BY <1>1, <1>2, ClientTypeCorrect, PTL DEF ClientSpec

-----------------------------------------------------------------------------
(* Requests in a window *)

(* No more callers are about to send than there are.                        *)
LEMMA FewSend ==
    /\ Cardinality(Callers) \in Nat
    /\ Cardinality(Sending) <= Cardinality(Callers)
  <1>1. Sending \in SUBSET Callers
    BY DEF Sending
  <1>. QED
    BY <1>1, CallersAssumption, FS_Subset, FS_CardinalityType

(* An element of a sequence is one of what it is a sequence of.             *)
LEMMA Entry ==
    ASSUME NEW seq \in Seq(Nat), NEW k \in DOMAIN seq
    PROVE  seq[k] \in Nat /\ k \in 1..Len(seq) /\ Len(seq) \in Nat
  OBVIOUS

(* What a sequence holds once an element is appended.                       *)
LEMMA Appended ==
    ASSUME NEW seq \in Seq(Nat), NEW e \in Nat
    PROVE  /\ Append(seq, e) \in Seq(Nat)
           /\ Len(Append(seq, e)) = Len(seq) + 1
           /\ DOMAIN Append(seq, e) = 1..(Len(seq) + 1)
           /\ \A k \in DOMAIN seq : Append(seq, e)[k] = seq[k]
           /\ Append(seq, e)[Len(seq) + 1] = e
  OBVIOUS

(* A step that neither sends nor grants only lets time pass.                *)
LEMMA SendsInvClock ==
    ASSUME ClientTypeOK, SendsInv, UNCHANGED <<sent, granted>>,
           now' = now \/ now' = now + 1
    PROVE  SendsInv'
  <1>. DEFINE C == Cardinality(Callers)
  <1>1. sent \in Seq(Nat) /\ now \in Nat
    BY DEF ClientTypeOK, TypeOK
  <1>2. SUFFICES ASSUME NEW k \in DOMAIN sent
                 PROVE  /\ granted[k] <= sent[k] /\ sent[k] <= now'
                        /\ k + C \in DOMAIN granted => sent[k] <= granted[k + C]
    BY DEF SendsInv
  <1>3. sent[k] \in Nat
    BY <1>1, Entry
  <1>4. /\ granted[k] <= sent[k] /\ sent[k] <= now
        /\ k + C \in DOMAIN granted => sent[k] <= granted[k + C]
    BY DEF SendsInv
  <1>. QED
    BY <1>1, <1>3, <1>4

(* A new permit is granted now, and every request so far left before.       *)
LEMMA SendsInvPermit ==
    ASSUME ClientTypeOK, SendsPaid, SendsInv, NEW c \in Callers, Permit(c)
    PROVE  SendsInv'
  <1>. DEFINE C == Cardinality(Callers)
              n == Len(granted)
  <1>1. sent \in Seq(Nat) /\ granted \in Seq(Nat) /\ now \in Nat
    BY DEF ClientTypeOK, TypeOK
  <1>2. sent' = sent /\ granted' = Append(granted, now) /\ now' = now
    BY DEF Permit, Pass
  <1>3. C \in Nat /\ n \in Nat /\ Len(sent) \in Nat
    BY <1>1, FewSend
  <1>4. Len(sent) <= n
    <2>1. Cardinality(Sending) \in Nat /\ Len(sent) + Cardinality(Sending) = n
      BY SendingFinite DEF SendsPaid
    <2>. QED
      BY <1>3, <2>1
  <1>5. SUFFICES ASSUME NEW k \in DOMAIN sent
                 PROVE  /\ granted'[k] <= sent[k] /\ sent[k] <= now
                        /\ k + C \in DOMAIN granted' => sent[k] <= granted'[k + C]
    BY <1>2 DEF SendsInv
  <1>6. sent[k] \in Nat /\ k \in 1..Len(sent)
    BY <1>1, Entry
  <1>7. /\ granted[k] <= sent[k] /\ sent[k] <= now
        /\ k + C \in DOMAIN granted => sent[k] <= granted[k + C]
    BY DEF SendsInv
  <1>8. DOMAIN granted = 1..n
    BY <1>1
  <1>9. /\ DOMAIN granted' = 1..(n + 1) /\ granted'[n + 1] = now
        /\ \A j \in 1..n : granted'[j] = granted[j]
    BY <1>1, <1>2, <1>8, Appended
  <1>. HIDE DEF C, n
  <1>10. k \in 1..n
    BY <1>3, <1>4, <1>6
  <1>11. ASSUME k + C \in DOMAIN granted'
         PROVE  sent[k] <= granted'[k + C]
    <2>1. k + C \in 1..n \/ k + C = n + 1
      BY <1>3, <1>6, <1>9, <1>11
    <2>. QED
      BY <1>7, <1>8, <1>9, <2>1
  <1>. QED
    BY <1>7, <1>9, <1>10, <1>11

(* A request leaves now, on a permit granted before, and no caller holds a  *)
(* permit that many calls after its own.                                    *)
LEMMA SendsInvSend ==
    ASSUME ClientTypeOK, SendsPaid, SendsInv,
           \A k \in DOMAIN granted : granted[k] <= now,
           NEW c \in Callers, Answered(c) \/ Failed(c)
    PROVE  SendsInv'
  <1>. DEFINE C == Cardinality(Callers)
              m == Len(sent)
              n == Len(granted)
  <1>1. sent \in Seq(Nat) /\ granted \in Seq(Nat) /\ now \in Nat
    BY DEF ClientTypeOK, TypeOK
  <1>2. sent' = Append(sent, now) /\ granted' = granted /\ now' = now
    BY DEF Answered, Failed, Sends, vars
  <1>3. C \in Nat /\ n \in Nat /\ m \in Nat
    BY <1>1, FewSend
  <1>4. m + 1 <= n /\ n <= m + C
    <2>1. c \in Sending
      BY DEF Answered, Failed, Sends, Sending
    <2>2. Cardinality(Sending) # 0 /\ Cardinality(Sending) \in Nat
      BY <2>1, SendingFinite, FS_EmptySet
    <2>3. Cardinality(Sending) <= C /\ m + Cardinality(Sending) = n
      BY FewSend DEF SendsPaid
    <2>. QED
      BY <1>3, <2>2, <2>3
  <1>5. SUFFICES ASSUME NEW k \in DOMAIN sent'
                 PROVE  /\ granted[k] <= sent'[k] /\ sent'[k] <= now
                        /\ k + C \in DOMAIN granted => sent'[k] <= granted[k + C]
    BY <1>2 DEF SendsInv
  <1>6. DOMAIN sent = 1..m /\ DOMAIN granted = 1..n
    BY <1>1
  <1>7. /\ k \in 1..(m + 1) /\ sent'[m + 1] = now
        /\ \A j \in 1..m : sent'[j] = sent[j]
    BY <1>1, <1>2, <1>6, Appended
  <1>8. CASE k \in 1..m
    BY <1>6, <1>7, <1>8 DEF SendsInv
  <1>9. CASE k = m + 1
    <2>. HIDE DEF C, m, n
    <2>1. k \in DOMAIN granted /\ k + C \notin DOMAIN granted
      BY <1>3, <1>4, <1>6, <1>9
    <2>. QED
      BY <1>1, <1>7, <1>9, <2>1
  <1>. QED
    <2>. HIDE DEF C, m, n
    <2>. QED
      BY <1>3, <1>7, <1>8, <1>9

LEMMA SendsInvStep ==
    ASSUME ClientTypeOK, QueueInv, SendsPaid, SendsInv, [ClientNext]_clientVars
    PROVE  SendsInv'
  <1>1. CASE Clock
    BY <1>1, SendsInvClock DEF Clock, Tick
  <1>2. ASSUME NEW c \in Callers, Quote(c) \/ Extra(c) \/ Retry(c)
        PROVE  SendsInv'
    BY <1>2, SendsInvClock DEF Quote, Extra, Begin, Retry, Acquire
  <1>3. ASSUME NEW c \in Callers, Await(c)
        PROVE  SendsInv'
    BY <1>3, SendsInvClock DEF Await, Wait, WakeUp
  <1>4. ASSUME NEW c \in Callers, Permit(c)
        PROVE  SendsInv'
    BY <1>4, SendsInvPermit
  <1>5. ASSUME NEW c \in Callers, Answered(c) \/ Failed(c)
        PROVE  SendsInv'
    BY <1>5, SendsInvSend DEF QueueInv
  <1>6. CASE UNCHANGED clientVars
    BY <1>6, SendsInvClock DEF clientVars, vars
  <1>. QED
    BY <1>1, <1>2, <1>3, <1>4, <1>5, <1>6 DEF ClientNext, Steps

(* A request leaves between two permits that are as many calls apart as     *)
(* there are callers, and permits keep to the window.                       *)
LEMMA BoundedByPermits ==
    ASSUME ClientTypeOK, QueueInv, SendsPaid, SendsInv
    PROVE  SendsBounded
  <1>. DEFINE C == Cardinality(Callers)
              m == Len(sent)
              n == Len(granted)
  <1>1. SUFFICES ASSUME NEW i \in DOMAIN sent, i + (MaxCalls + C) \in DOMAIN sent
                 PROVE  sent[i + (MaxCalls + C)] - sent[i] > Window
    BY DEF SendsBounded
  <1>2. sent \in Seq(Nat) /\ granted \in Seq(Nat)
    BY DEF ClientTypeOK, TypeOK
  <1>3. C \in Nat /\ m \in Nat /\ n \in Nat /\ m <= n
    <2>1. m + Cardinality(Sending) = n /\ Cardinality(Sending) \in Nat
      BY SendingFinite DEF SendsPaid
    <2>. QED
      BY <1>2, <2>1, FewSend
  <1>4. DOMAIN sent = 1..m /\ DOMAIN granted = 1..n
    BY <1>2
  <1>. DEFINE j == i + C
              l == j + MaxCalls
  <1>. HIDE DEF C, m, n
  <1>5. /\ l = i + (MaxCalls + C) /\ l \in 1..m
        /\ j \in DOMAIN granted /\ l \in DOMAIN granted
    BY <1>1, <1>3, <1>4, LimitAssumption
  <1>6. sent[i] <= granted[j] /\ granted[l] <= sent[l]
    BY <1>4, <1>5 DEF SendsInv, C
  <1>7. granted[l] - granted[j] > Window
    BY <1>5 DEF QueueInv, WindowBound, Limit!WindowBound
  <1>8. sent[i] \in Nat /\ sent[l] \in Nat /\ granted[j] \in Nat /\ granted[l] \in Nat
    BY <1>2, <1>4, <1>5, Entry
  <1>. QED
    <2>. HIDE DEF j, l
    <2>1. sent[l] - sent[i] > Window
      BY <1>6, <1>7, <1>8, LimitAssumption
    <2>. QED
      BY <1>5, <2>1

(* However long a request dawdles between its permit and the wire, and      *)
(* whoever else calls meanwhile, Finnhub sees no more than MaxCalls         *)
(* requests and one per caller in any window.                               *)
THEOREM SendsBoundedAlways == ClientSpec => []SendsBounded
  <1>1. ClientInit => SendsInv
    BY DEF ClientInit, SendsInv
  <1>2. /\ ClientTypeOK /\ QueueInv /\ SendsPaid /\ SendsInv
        /\ [ClientNext]_clientVars
        => SendsInv'
    BY SendsInvStep
  <1>3. ClientTypeOK /\ QueueInv /\ SendsPaid /\ SendsInv => SendsBounded
    BY BoundedByPermits
  <1>4. ClientSpec => []QueueInv
    BY ClientRefinesLimiter, QueueCorrect, PTL
  <1>. QED
    BY <1>1, <1>2, <1>3, <1>4, ClientTypeCorrect, SendsPaidAlways, PTL DEF ClientSpec
=============================================================================

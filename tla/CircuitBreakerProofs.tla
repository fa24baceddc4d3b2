------------------------ MODULE CircuitBreakerProofs ------------------------
(***************************************************************************)
(* What the breaker guarantees inside a running process, for every set of  *)
(* positions, watchlist, limit and number of permits, through every failed *)
(* call and every crash.                                                   *)
(***************************************************************************)
EXTENDS CircuitBreaker, Induction

-----------------------------------------------------------------------------
(* Types *)

LEMMA MaxOfTwo ==
    ASSUME NEW m \in Nat, NEW n \in Nat
    PROVE  Max({m, n}) \in Nat
  <1>1. \E x \in {m, n} : \A y \in {m, n} : x >= y
    OBVIOUS
  <1>2. (CHOOSE x \in {m, n} : \A y \in {m, n} : x >= y) \in {m, n}
    BY <1>1
  <1>. QED
    BY <1>2 DEF Max

LEMMA GateTyped ==
    ASSUME NEW v \in Verdicts
    PROVE  Gate(v) \in Verdicts
  BY DEF Gate, Verdicts

LEMMA UnjudgedTyped ==
    ASSUME NEW pc \in {"idle", "queued", "running", "log", "alert", "done"}
    PROVE  Unjudged(pc) \in Candidate
  BY DEF Unjudged, Candidate

(* Filling the candidate map, or one entry of it. *)
LEMMA AllUnjudged ==
    ASSUME NEW pc \in {"idle", "queued", "running", "log", "alert", "done"}
    PROVE  [c \in Watchlist |-> Unjudged(pc)] \in [Watchlist -> Candidate]
  BY UnjudgedTyped

LEMMA TypeInit == Init => TypeOK
  <1>1. /\ IdleTask \in Task
        /\ [c \in Watchlist |-> Unjudged("idle")] \in [Watchlist -> Candidate]
    BY AllUnjudged DEF IdleTask, Task
  <1>. SUFFICES ASSUME Init PROVE TypeOK
    OBVIOUS
  <1>2. up \in BOOLEAN /\ tripped \in BOOLEAN /\ decided \in BOOLEAN
    BY Zenon DEF Init
  <1>3. /\ task \in [Symbols -> Task]
        /\ candidate \in [Watchlist -> Candidate]
        /\ answer \in [Requests -> {"idle", "pipeline"} \cup Verdicts]
    BY <1>1 DEF Init
  <1>. QED
    BY <1>2, <1>3 DEF Init, TypeOK, Phases

LEMMA StartCandidatesTyped ==
    ASSUME TypeOK, StartCandidates
    PROVE  phase' \in Phases /\ candidate' \in [Watchlist -> Candidate]
  BY AllUnjudged DEF StartCandidates, Phases

LEMMA TypeStep == TypeOK /\ [Next]_vars => TypeOK'
  <1>. SUFFICES ASSUME TypeOK, [Next]_vars PROVE TypeOK'
    OBVIOUS
  <1>0. IdleTask \in Task
    BY DEF IdleTask, Task
  <1>f. Fault \/ NoFault => faults' \in Nat
    BY DEF Fault, NoFault, TypeOK
  <1>1. CASE StartCycle
    <2>1. [s \in Symbols |-> [pc |-> "queued", value |-> 0]] \in [Symbols -> Task]
      BY DEF Task
    <2>2. task' \in [Symbols -> Task]
      BY <1>1, <2>1 DEF StartCycle, TypeOK
    <2>3. decided' \in BOOLEAN
      BY <1>1, Zenon DEF StartCycle, TypeOK
    <2>4. phase' \in Phases /\ total' \in Nat
      BY <1>1 DEF StartCycle, TypeOK, Phases
    <2>. QED
      BY <1>1, <1>f, <2>2, <2>3, <2>4 DEF StartCycle, TypeOK
  <1>2. ASSUME NEW s \in Symbols, StartTask(s) PROVE TypeOK'
    BY <1>2 DEF StartTask, TypeOK, Task
  <1>3. ASSUME NEW s \in Symbols, NEW v \in Values, ScanReturns(s, v)
        PROVE  TypeOK'
    <2>1. v \in Nat
      BY ValuesAssumption
    <2>. QED
      BY <1>3, <1>f, <2>1 DEF ScanReturns, TypeOK, Task
  <1>4. ASSUME NEW s \in Symbols, AddValue(s) PROVE TypeOK'
    <2>1. task[s].value \in Nat
      BY DEF TypeOK, Task
    <2>. QED
      BY <1>4, <2>1 DEF AddValue, TypeOK, Task
  <1>5. CASE JoinPositions
    BY <1>5, StartCandidatesTyped DEF JoinPositions, TypeOK, Phases
  <1>6. CASE RecordEquity
    <2>1. equity # None => Max({total, equity.peak}) \in Nat
      <3>1. equity # None => equity.peak \in Nat
        BY DEF TypeOK
      <3>. QED
        BY <3>1, MaxOfTwo DEF TypeOK
    <2>2. (IF equity = None THEN total ELSE Max({total, equity.peak})) \in Nat
      BY <2>1 DEF TypeOK
    <2>3. equity' \in [current : Nat, peak : Nat] \cup {None}
      BY <1>6, <2>2 DEF RecordEquity, TypeOK
    <2>4. phase' \in Phases /\ candidate' \in [Watchlist -> Candidate]
      BY <1>6, StartCandidatesTyped DEF RecordEquity, Phases, TypeOK
    <2>. QED
      BY <1>6, <1>f, <2>3, <2>4 DEF RecordEquity, TypeOK
  <1>7. CASE SetBreaker
    <2>1. Breached \in BOOLEAN
      BY DEF Breached
    <2>2. tripped' \in BOOLEAN /\ decided' \in BOOLEAN
      BY <1>7, <2>1, Zenon DEF SetBreaker, TypeOK
    <2>3. phase' \in Phases /\ candidate' \in [Watchlist -> Candidate]
      BY <1>7, StartCandidatesTyped DEF SetBreaker, Phases, TypeOK
    <2>. QED
      BY <1>7, <1>f, <2>2, <2>3 DEF SetBreaker, TypeOK
  <1>8. CASE SendAlert
    BY <1>8, StartCandidatesTyped DEF SendAlert, AlertKind, TypeOK
  <1>9. ASSUME NEW c \in Watchlist, StartCandidate(c) PROVE TypeOK'
    BY <1>9, <1>f, UnjudgedTyped DEF StartCandidate, SetCandidate, TypeOK
  <1>10. ASSUME NEW c \in Watchlist, NEW v \in Verdicts, JudgeCandidate(c, v)
         PROVE  TypeOK'
    <2>1. [pc |-> "log", verdict |-> Gate(v)] \in Candidate
      BY GateTyped DEF Candidate
    <2>. QED
      BY <1>10, <1>f, <2>1, UnjudgedTyped DEF JudgeCandidate, SetCandidate, TypeOK
  <1>11. ASSUME NEW c \in Watchlist, LogCandidate(c) PROVE TypeOK'
    <2>1. [candidate[c] EXCEPT !.pc = "alert"] \in Candidate
      BY DEF TypeOK, Candidate
    <2>. QED
      BY <1>11, <1>f, <2>1, UnjudgedTyped DEF LogCandidate, SetCandidate, TypeOK
  <1>12. ASSUME NEW c \in Watchlist, AlertCandidate(c) PROVE TypeOK'
    BY <1>12, <1>f, UnjudgedTyped DEF AlertCandidate, SetCandidate, TypeOK
  <1>13. CASE EndCycle
    BY <1>13, <1>0, AllUnjudged DEF EndCycle, TypeOK, Phases, IdleTask, Task
  <1>14. ASSUME NEW r \in Requests, Evaluate(r) PROVE TypeOK'
    BY <1>14 DEF Evaluate, TypeOK, scanner
  <1>15. ASSUME NEW r \in Requests, NEW v \in Verdicts, Judge(r, v)
         PROVE  TypeOK'
    BY <1>15, GateTyped DEF Judge, TypeOK, scanner
  <1>16. CASE Crash
    <2>1. up' \in BOOLEAN /\ tripped' \in BOOLEAN /\ decided' \in BOOLEAN
      BY <1>16, Zenon DEF Crash
    <2>2. /\ task' \in [Symbols -> Task]
          /\ candidate' \in [Watchlist -> Candidate]
          /\ answer' \in [Requests -> {"idle", "pipeline"} \cup Verdicts]
      BY <1>16, <1>0, AllUnjudged DEF Crash
    <2>. QED
      BY <1>16, <2>1, <2>2 DEF Crash, TypeOK, Phases
  <1>17. CASE Restart
    BY <1>17 DEF Restart, TypeOK, scanner
  <1>18. CASE UNCHANGED vars
    BY <1>18 DEF vars, scanner, TypeOK
  <1>. QED
    BY <1>1, <1>2, <1>3, <1>4, <1>5, <1>6, <1>7, <1>8, <1>9, <1>10, <1>11,
       <1>12, <1>13, <1>14, <1>15, <1>16, <1>17, <1>18
    DEF Next, CycleStep, TaskStep, CandidateStep

(* Every variable keeps its type, whatever fails and whenever it stops. *)
THEOREM TypeCorrect == Spec => []TypeOK
  BY TypeInit, TypeStep, PTL DEF Spec

-----------------------------------------------------------------------------
(* The breaker *)

LEMMA InitBreaker == Init => BreakerInv
  <1>. SUFFICES ASSUME Init PROVE BreakerInv
    OBVIOUS
  <1>1. TypeOK
    BY TypeInit
  <1>2. CandidatesInPhase /\ VerdictsGated
    BY DEF Init, CandidatesInPhase, VerdictsGated, Unjudged
  <1>3. UndecidedBefore /\ BreakerIsCurrent
    BY DEF Init, UndecidedBefore, BreakerIsCurrent
  <1>4. AlertInv
    BY DEF Init, AlertInv, LastKind, AlertKind
  <1>. QED
    BY <1>1, <1>2, <1>3, <1>4 DEF BreakerInv

(* A step that leaves the breaker, its inputs and the candidates alone. *)
LEMMA BreakerUndisturbed ==
    ASSUME BreakerInv, TypeOK',
           UNCHANGED <<phase, equity, tripped, decided, lastAlert, candidate>>
    PROVE  BreakerInv'
  <1>1. CandidatesInPhase' /\ VerdictsGated'
    BY DEF BreakerInv, CandidatesInPhase, VerdictsGated
  <1>2. UndecidedBefore' /\ BreakerIsCurrent'
    BY DEF BreakerInv, UndecidedBefore, BreakerIsCurrent, Breached
  <1>3. AlertInv'
    BY DEF BreakerInv, AlertInv, LastKind, AlertKind
  <1>. QED
    BY <1>1, <1>2, <1>3 DEF BreakerInv

(* A step of one candidate's task, from one of its working states. *)
LEMMA CandidateMoves ==
    ASSUME BreakerInv, TypeOK', NEW c \in Watchlist,
           candidate[c].pc \notin {"idle", "done"},
           NEW x, SetCandidate(c, x),
           x.pc \in {"log", "alert"} /\ x.verdict = "Buy" => ~tripped
    PROVE  BreakerInv'
  <1>1. candidate' = [candidate EXCEPT ![c] = x]
        /\ UNCHANGED <<phase, equity, tripped, decided, lastAlert>>
    BY DEF SetCandidate
  <1>2. candidate \in [Watchlist -> Candidate]
    BY DEF BreakerInv, TypeOK
  <1>3. phase = "candidates"
    BY DEF BreakerInv, CandidatesInPhase
  <1>4. CandidatesInPhase'
    BY <1>1, <1>3 DEF CandidatesInPhase
  <1>5. VerdictsGated'
    BY <1>1, <1>2 DEF BreakerInv, VerdictsGated
  <1>6. UndecidedBefore' /\ BreakerIsCurrent'
    BY <1>1 DEF BreakerInv, UndecidedBefore, BreakerIsCurrent, Breached
  <1>7. AlertInv'
    BY <1>1 DEF BreakerInv, AlertInv, LastKind, AlertKind
  <1>. QED
    BY <1>4, <1>5, <1>6, <1>7 DEF BreakerInv

(* A step that leaves the candidates at rest, or starts them all. *)
LEMMA CandidatesRest ==
    ASSUME BreakerInv, phase # "candidates",
           UNCHANGED candidate \/ StartCandidates
    PROVE  CandidatesInPhase' /\ VerdictsGated'
  <1>1. CASE UNCHANGED candidate
    BY <1>1 DEF BreakerInv, CandidatesInPhase, VerdictsGated
  <1>2. CASE StartCandidates
    BY <1>2 DEF StartCandidates, Unjudged, CandidatesInPhase, VerdictsGated
  <1>. QED
    BY <1>1, <1>2

LEMMA StepBreaker == BreakerInv /\ [Next]_vars => BreakerInv'
  <1>. SUFFICES ASSUME BreakerInv, [Next]_vars PROVE BreakerInv'
    OBVIOUS
  <1>0. TypeOK /\ TypeOK'
    BY TypeStep DEF BreakerInv
  <1>1. CASE StartCycle
    <2>1. CandidatesInPhase' /\ VerdictsGated'
      BY <1>1, CandidatesRest DEF StartCycle
    <2>2. UndecidedBefore' /\ BreakerIsCurrent'
      <3>1. CASE decided' = FALSE
        BY <3>1 DEF UndecidedBefore, BreakerIsCurrent
      <3>2. CASE UNCHANGED <<phase, decided>>
        BY <1>1, <3>2 DEF StartCycle, BreakerInv, UndecidedBefore,
                          BreakerIsCurrent, Breached
      <3>. QED
        BY <1>1, <3>1, <3>2 DEF StartCycle
    <2>3. AlertInv'
      BY <1>1 DEF StartCycle, BreakerInv, AlertInv, LastKind, AlertKind
    <2>. QED
      BY <1>0, <2>1, <2>2, <2>3 DEF BreakerInv
  <1>2. ASSUME NEW s \in Symbols, TaskStep(s) PROVE BreakerInv'
    BY <1>0, <1>2, BreakerUndisturbed
    DEF TaskStep, StartTask, ScanReturns, AddValue
  <1>3. CASE JoinPositions
    <2>1. CandidatesInPhase' /\ VerdictsGated'
      BY <1>3, CandidatesRest DEF JoinPositions
    <2>2. UndecidedBefore' /\ BreakerIsCurrent'
      BY <1>3 DEF JoinPositions, StartCandidates, BreakerInv, UndecidedBefore,
                  BreakerIsCurrent, Breached
    <2>3. AlertInv'
      BY <1>3 DEF JoinPositions, StartCandidates, BreakerInv, AlertInv,
                  LastKind, AlertKind
    <2>. QED
      BY <1>0, <2>1, <2>2, <2>3 DEF BreakerInv
  <1>4. CASE RecordEquity
    <2>1. CandidatesInPhase' /\ VerdictsGated'
      BY <1>4, CandidatesRest DEF RecordEquity
    <2>2. UndecidedBefore' /\ BreakerIsCurrent'
      BY <1>4 DEF RecordEquity, StartCandidates, BreakerInv, UndecidedBefore,
                  BreakerIsCurrent
    <2>3. AlertInv'
      BY <1>4 DEF RecordEquity, StartCandidates, BreakerInv, AlertInv,
                  LastKind, AlertKind
    <2>. QED
      BY <1>0, <2>1, <2>2, <2>3 DEF BreakerInv
  <1>5. CASE SetBreaker
    <2>1. CandidatesInPhase' /\ VerdictsGated'
      BY <1>5, CandidatesRest DEF SetBreaker
    <2>2. UndecidedBefore'
      BY <1>5 DEF SetBreaker, StartCandidates, UndecidedBefore
    <2>3. BreakerIsCurrent'
      BY <1>5 DEF SetBreaker, BreakerInv, BreakerIsCurrent, Breached
    <2>4. AlertInv'
      BY <1>0, <1>5 DEF SetBreaker, StartCandidates, BreakerInv, AlertInv,
                  LastKind, AlertKind, TypeOK
    <2>. QED
      BY <1>0, <2>1, <2>2, <2>3, <2>4 DEF BreakerInv
  <1>6. CASE SendAlert
    <2>1. CandidatesInPhase' /\ VerdictsGated'
      BY <1>6, CandidatesRest DEF SendAlert
    <2>2. UndecidedBefore' /\ BreakerIsCurrent'
      BY <1>6 DEF SendAlert, StartCandidates, BreakerInv, UndecidedBefore,
                  BreakerIsCurrent, Breached
    <2>3. AlertInv'
      BY <1>6, NoneAssumption DEF SendAlert, StartCandidates, AlertInv,
                  LastKind, AlertKind
    <2>. QED
      BY <1>0, <2>1, <2>2, <2>3 DEF BreakerInv
  <1>7. ASSUME NEW c \in Watchlist, CandidateStep(c) PROVE BreakerInv'
    <2>1. CASE StartCandidate(c)
      BY <1>0, <2>1, CandidateMoves DEF StartCandidate, Unjudged
    <2>2. ASSUME NEW v \in Verdicts, JudgeCandidate(c, v) PROVE BreakerInv'
      <3>1. Gate(v) = "Buy" => ~tripped
        BY DEF Gate
      <3>. QED
        BY <1>0, <2>2, <3>1, CandidateMoves DEF JudgeCandidate, Unjudged
    <2>3. CASE LogCandidate(c)
      <3>1. candidate[c].verdict = "Buy" => ~tripped
        BY <2>3 DEF LogCandidate, BreakerInv, VerdictsGated
      <3>2. candidate[c] \in Candidate
        BY <1>0 DEF TypeOK
      <3>3. [candidate[c] EXCEPT !.pc = "alert"].verdict = candidate[c].verdict
        BY <3>2 DEF Candidate
      <3>. QED
        BY <1>0, <2>3, <3>1, <3>3, CandidateMoves DEF LogCandidate, Unjudged
    <2>4. CASE AlertCandidate(c)
      BY <1>0, <2>4, CandidateMoves DEF AlertCandidate, Unjudged
    <2>. QED
      BY <1>7, <2>1, <2>2, <2>3, <2>4 DEF CandidateStep
  <1>8. CASE EndCycle
    <2>1. CandidatesInPhase' /\ VerdictsGated'
      BY <1>8 DEF EndCycle, Unjudged, CandidatesInPhase, VerdictsGated
    <2>2. UndecidedBefore' /\ BreakerIsCurrent'
      BY <1>8 DEF EndCycle, BreakerInv, UndecidedBefore, BreakerIsCurrent,
                  Breached
    <2>3. AlertInv'
      BY <1>8 DEF EndCycle, BreakerInv, AlertInv, LastKind, AlertKind
    <2>. QED
      BY <1>0, <2>1, <2>2, <2>3 DEF BreakerInv
  <1>9. ASSUME NEW r \in Requests,
               Evaluate(r) \/ \E v \in Verdicts : Judge(r, v)
        PROVE  BreakerInv'
    BY <1>0, <1>9, BreakerUndisturbed DEF Evaluate, Judge, scanner
  <1>10. CASE Crash
    <2>1. CandidatesInPhase' /\ VerdictsGated'
      BY <1>10 DEF Crash, Unjudged, CandidatesInPhase, VerdictsGated
    <2>2. UndecidedBefore' /\ BreakerIsCurrent'
      BY <1>10 DEF Crash, UndecidedBefore, BreakerIsCurrent
    <2>3. AlertInv'
      BY <1>10 DEF Crash, AlertInv, LastKind, AlertKind
    <2>. QED
      BY <1>0, <2>1, <2>2, <2>3 DEF BreakerInv
  <1>11. CASE Restart
    BY <1>0, <1>11, BreakerUndisturbed DEF Restart, scanner
  <1>12. CASE UNCHANGED vars
    BY <1>0, <1>12, BreakerUndisturbed DEF vars, scanner
  <1>. QED
    BY <1>1, <1>2, <1>3, <1>4, <1>5, <1>6, <1>7, <1>8, <1>9, <1>10, <1>11,
       <1>12
    DEF Next, CycleStep

LEMMA BreakerInvariant == Spec => []BreakerInv
  BY InitBreaker, StepBreaker, PTL DEF Spec

(* From the cycle that sets it to the next one, the breaker agrees with    *)
(* the drawdown in the table.                                              *)
THEOREM BreakerIsCurrentAlways == Spec => []BreakerIsCurrent
  <1>1. BreakerInv => BreakerIsCurrent
    BY DEF BreakerInv
  <1>. QED
    BY <1>1, BreakerInvariant, PTL

(* Whatever is judged, logged and alerted at the same time, the scanner    *)
(* alerts no Buy while the breaker is tripped.                             *)
THEOREM ScannerBuysGatedAlways == Spec => []ScannerBuysGated
  <1>1. BreakerInv => ScannerBuysGated
    BY DEF BreakerInv, VerdictsGated, ScannerBuysGated
  <1>. QED
    BY <1>1, BreakerInvariant, PTL

(* Trips and clearances are alerted in turn, one alert per transition.     *)
THEOREM AlertsAlternateAlways == Spec => []AlertsAlternate
  <1>1. BreakerInv => AlertsAlternate
    BY DEF BreakerInv, AlertInv, AlertsAlternate
  <1>. QED
    BY <1>1, BreakerInvariant, PTL

-----------------------------------------------------------------------------
(* Sums of task values *)

(* The element a sum takes out of a set next.                             *)
Pick(s) == CHOOSE x \in s : TRUE

(* What it unfolds to, over all subsets of D, if f is what it unfolds to.   *)
SumStep(t, D, f) ==
    [s \in SUBSET D |-> IF s = {} THEN 0 ELSE t[Pick(s)].value + f[s \ {Pick(s)}]]

SumsTo(t, D) == CHOOSE f : f = SumStep(t, D, f)

Tasks == [Symbols -> Task]

LEMMA SumUnfolds ==
    ASSUME NEW t, NEW D
    PROVE  Sum(t, D) = SumsTo(t, D)[D]
  BY DEF Sum, SumsTo, SumStep, Pick, MapThenSumSet, MapThenFoldSet

LEMMA PickTyped ==
    ASSUME NEW s, s # {}
    PROVE  Pick(s) \in s
  BY DEF Pick

LEMMA ValueTyped ==
    ASSUME NEW t \in Tasks, NEW s \in Symbols
    PROVE  t[s].value \in Nat
  BY DEF Tasks, Task

(* The function the sum is defined by satisfies its equation.               *)
LEMMA SumEquation ==
    ASSUME NEW t \in Tasks, NEW D \in SUBSET Symbols
    PROVE  SumsTo(t, D) = SumStep(t, D, SumsTo(t, D))
  <1>. DEFINE g == [p \in D \X Nat |-> t[p[1]].value + p[2]]
              pick == [s \in SUBSET D |-> Pick(s)]
  <1>1. IsFiniteSet(D) /\ 0 \in Nat
    BY ValuesAssumption, FS_Subset
  <1>2. g \in [D \X Nat -> Nat]
    BY ValueTyped
  <1>3. \A s \in SUBSET D : s # {} => pick[s] \in s
    BY PickTyped
  <1>4. \A s \in SUBSET D : pick[s] = Pick(s)
    OBVIOUS
  <1>5. \A x \in D, n \in Nat : g[<<x, n>>] = t[x].value + n
    OBVIOUS
  <1>. HIDE DEF g, pick
  <1>6. PICK f : Folds(f, D, Nat, 0, g, pick)
    BY <1>1, <1>2, <1>3, FoldExists
  <1>7. f = SumStep(t, D, f)
    <2>1. f \in [SUBSET D -> Nat]
      BY <1>6 DEF Folds
    <2>2. ASSUME NEW s \in SUBSET D
          PROVE  f[s] = IF s = {} THEN 0 ELSE t[Pick(s)].value + f[s \ {Pick(s)}]
      <3>1. f[s] = IF s = {} THEN 0 ELSE g[<<Pick(s), f[s \ {Pick(s)}]>>]
        BY <1>4, <1>6 DEF Folds
      <3>2. CASE s # {}
        <4>1. Pick(s) \in D /\ f[s \ {Pick(s)}] \in Nat
          BY <2>1, <3>2, PickTyped
        <4>. QED
          BY <1>5, <3>1, <4>1
      <3>. QED
        BY <3>1, <3>2
    <2>. QED
      BY <2>1, <2>2 DEF SumStep
  <1>. QED
    BY <1>7 DEF SumsTo

LEMMA SumAt ==
    ASSUME NEW t \in Tasks, NEW D \in SUBSET Symbols, NEW s \in SUBSET D
    PROVE  /\ s = {} => SumsTo(t, D)[s] = 0
           /\ s # {} => SumsTo(t, D)[s]
                           = t[Pick(s)].value + SumsTo(t, D)[s \ {Pick(s)}]
  <1>1. SumsTo(t, D)[s] = SumStep(t, D, SumsTo(t, D))[s]
    BY SumEquation
  <1>. QED
    BY <1>1 DEF SumStep

(* The sum of a set is the same seen from any larger set, for tasks that    *)
(* agree on it.                                                             *)
LEMMA SumAgrees ==
    ASSUME NEW t \in Tasks, NEW u \in Tasks,
           NEW D \in SUBSET Symbols, NEW E \in SUBSET D,
           \A s \in E : t[s].value = u[s].value
    PROVE  SumsTo(t, D)[E] = SumsTo(u, E)[E]
  <1>. DEFINE S == {s \in SUBSET E : SumsTo(t, D)[s] = SumsTo(u, E)[s]}
  <1>1. IsFiniteSet(E)
    BY ValuesAssumption, FS_Subset
  <1>2. ASSUME NEW s \in SUBSET E, \A r \in SUBSET s : r # s => r \in S
        PROVE  s \in S
    <2>1. s \in SUBSET D /\ E \in SUBSET Symbols
      OBVIOUS
    <2>2. CASE s = {}
      <3>1. SumsTo(t, D)[s] = 0 /\ SumsTo(u, E)[s] = 0
        BY <2>1, <2>2, SumAt
      <3>. QED
        BY <3>1
    <2>3. CASE s # {}
      <3>1. Pick(s) \in s
        BY <2>3, PickTyped
      <3>2. s \ {Pick(s)} \in S
        BY <1>2, <3>1
      <3>3. /\ SumsTo(t, D)[s] = t[Pick(s)].value + SumsTo(t, D)[s \ {Pick(s)}]
            /\ SumsTo(u, E)[s] = u[Pick(s)].value + SumsTo(u, E)[s \ {Pick(s)}]
        BY <2>1, <2>3, SumAt
      <3>. QED
        BY <3>1, <3>2, <3>3
    <2>. QED
      BY <2>2, <2>3
  <1>. HIDE DEF S
  <1>3. SUBSET E \subseteq S
    BY <1>1, <1>2, SubsetsByInduction
  <1>. QED
    BY <1>3 DEF S

(* Nothing adds up to 0, and a sum is what the element taken out next adds  *)
(* to the sum of the others.                                                *)
LEMMA SumNext ==
    ASSUME NEW t \in Tasks, NEW D \in SUBSET Symbols
    PROVE  /\ D = {} => Sum(t, D) = 0
           /\ D # {} => Sum(t, D) = t[Pick(D)].value + Sum(t, D \ {Pick(D)})
  <1>1. CASE D = {}
    BY <1>1, SumUnfolds, SumAt
  <1>2. CASE D # {}
    <2>1. D \ {Pick(D)} \in SUBSET D /\ D \in SUBSET D
      OBVIOUS
    <2>2. SumsTo(t, D)[D] = t[Pick(D)].value + SumsTo(t, D)[D \ {Pick(D)}]
      BY <1>2, <2>1, SumAt
    <2>3. SumsTo(t, D)[D \ {Pick(D)}]
              = SumsTo(t, D \ {Pick(D)})[D \ {Pick(D)}]
      BY <2>1, SumAgrees
    <2>. QED
      BY <1>2, <2>2, <2>3, SumUnfolds
  <1>. QED
    BY <1>1, <1>2

(* Tasks with the same values add up to the same.                           *)
LEMMA SumSame ==
    ASSUME NEW t \in Tasks, NEW u \in Tasks, NEW D \in SUBSET Symbols,
           \A s \in D : t[s].value = u[s].value
    PROVE  Sum(t, D) = Sum(u, D)
  BY SumAgrees, SumUnfolds

LEMMA SumTyped ==
    ASSUME NEW t \in Tasks, NEW D \in SUBSET Symbols
    PROVE  Sum(t, D) \in Nat
  <1>. DEFINE S == {s \in SUBSET D : Sum(t, s) \in Nat}
  <1>1. IsFiniteSet(D)
    BY ValuesAssumption, FS_Subset
  <1>2. ASSUME NEW s \in SUBSET D, \A r \in SUBSET s : r # s => r \in S
        PROVE  s \in S
    <2>0. s \in SUBSET Symbols
      OBVIOUS
    <2>1. CASE s = {}
      BY <2>0, <2>1, SumNext
    <2>2. CASE s # {}
      <3>1. Pick(s) \in s /\ t[Pick(s)].value \in Nat
        BY <2>0, <2>2, PickTyped, ValueTyped
      <3>2. s \ {Pick(s)} \in S
        BY <1>2, <3>1
      <3>3. Sum(t, s) = t[Pick(s)].value + Sum(t, s \ {Pick(s)})
        BY <2>0, <2>2, SumNext
      <3>. QED
        BY <3>1, <3>2, <3>3
    <2>. QED
      BY <2>1, <2>2
  <1>. HIDE DEF S
  <1>3. SUBSET D \subseteq S
    BY <1>1, <1>2, SubsetsByInduction
  <1>. QED
    BY <1>3 DEF S

(* Whichever element is taken out first, a sum is its value and the sum of  *)
(* the others.                                                              *)
LEMMA SumOfAny ==
    ASSUME NEW t \in Tasks, NEW D \in SUBSET Symbols, NEW y \in D
    PROVE  Sum(t, D) = t[y].value + Sum(t, D \ {y})
  <1>. DEFINE S == {s \in SUBSET D :
                      \A x \in s : Sum(t, s) = t[x].value + Sum(t, s \ {x})}
  <1>1. IsFiniteSet(D)
    BY ValuesAssumption, FS_Subset
  <1>2. ASSUME NEW s \in SUBSET D, \A r \in SUBSET s : r # s => r \in S
        PROVE  s \in S
    <2>1. SUFFICES ASSUME NEW x \in s
                   PROVE  Sum(t, s) = t[x].value + Sum(t, s \ {x})
      OBVIOUS
    <2>. DEFINE c == Pick(s)
                rest == (s \ {c}) \ {x}
    <2>2. c \in s /\ s \in SUBSET Symbols
      BY <2>1, PickTyped
    <2>3. Sum(t, s) = t[c].value + Sum(t, s \ {c})
      BY <2>1, <2>2, SumNext
    <2>4. CASE x = c
      BY <2>3, <2>4
    <2>5. CASE x # c
      <3>1. s \ {c} \in S /\ s \ {x} \in S /\ x \in s \ {c} /\ c \in s \ {x}
        BY <1>2, <2>1, <2>2, <2>5
      <3>2. (s \ {x}) \ {c} = rest
        OBVIOUS
      <3>3. Sum(t, s \ {c}) = t[x].value + Sum(t, rest)
        BY <3>1
      <3>4. Sum(t, s \ {x}) = t[c].value + Sum(t, rest)
        BY <3>1, <3>2
      <3>5. t[c].value \in Nat /\ t[x].value \in Nat /\ Sum(t, rest) \in Nat
        <4>1. c \in Symbols /\ x \in Symbols /\ rest \in SUBSET Symbols
          BY <2>1, <2>2
        <4>. HIDE DEF c, rest
        <4>. QED
          BY <4>1, ValueTyped, SumTyped
      <3>. HIDE DEF c, rest
      <3>. QED
        BY <2>3, <3>3, <3>4, <3>5
    <2>. QED
      BY <2>4, <2>5
  <1>. HIDE DEF S
  <1>3. SUBSET D \subseteq S
    BY <1>1, <1>2, SubsetsByInduction
  <1>. QED
    BY <1>3 DEF S

-----------------------------------------------------------------------------
(* The recorded total *)

LEMMA TotalIsSum == TotalAddsUp <=> total = Sum(task, Done) \/ phase = "idle"
  BY DEF TotalAddsUp

LEMMA TotalIsSumNext ==
    TotalAddsUp' <=> total' = Sum(task', Done') \/ phase' = "idle"
  BY DEF TotalAddsUp

(* A step that moves no task and no total, and starts no cycle.             *)
LEMMA TotalUndisturbed ==
    ASSUME TotalAddsUp, NotValuedYet, UNCHANGED <<task, total>>,
           phase = "idle" => phase' = "idle"
    PROVE  TotalAddsUp' /\ NotValuedYet'
  <1>1. Done' = Done
    BY DEF Done
  <1>. QED
    BY <1>1, TotalIsSum, TotalIsSumNext DEF NotValuedYet

(* A cycle begins, or ends, with nothing valued.                            *)
LEMMA TotalRestarts ==
    ASSUME NEW pc \in {"idle", "queued"},
           task' = [s \in Symbols |-> [pc |-> pc, value |-> 0]],
           total' = 0 \/ phase' = "idle"
    PROVE  TotalAddsUp' /\ NotValuedYet'
  <1>1. Done' = {}
    BY DEF Done
  <1>2. task' \in Tasks
    BY DEF Tasks, Task
  <1>3. Sum(task', {}) = 0
    BY <1>2, SumNext
  <1>. QED
    BY <1>1, <1>3, TotalIsSumNext DEF NotValuedYet

(* A task that moves without being done adds nothing yet.                   *)
LEMMA TotalUnmoved ==
    ASSUME task \in Tasks, task' \in Tasks, TotalAddsUp, NEW s \in Symbols,
           task[s].pc # "done", task'[s].pc # "done",
           \A r \in Symbols \ {s} : task'[r] = task[r],
           total' = total, phase' = phase
    PROVE  TotalAddsUp'
  <1>1. Done' = Done /\ Done \in SUBSET Symbols /\ s \notin Done
    BY DEF Done
  <1>2. \A r \in Done : task[r].value = task'[r].value
    BY <1>1
  <1>3. Sum(task', Done) = Sum(task, Done)
    BY <1>1, <1>2, SumSame
  <1>. QED
    BY <1>1, <1>3, TotalIsSum, TotalIsSumNext

(* A task that gets done adds its value, as the total grows by it.          *)
LEMMA TotalGrows ==
    ASSUME task \in Tasks, task' \in Tasks, total \in Nat, TotalAddsUp,
           NEW s \in Symbols, task[s].pc # "done",
           task' = [task EXCEPT ![s].pc = "done"],
           total' = total + task[s].value, phase' = phase
    PROVE  TotalAddsUp'
  <1>1. /\ task'[s].pc = "done" /\ task'[s].value = task[s].value
        /\ \A r \in Symbols \ {s} : task'[r] = task[r]
    BY DEF Tasks, Task
  <1>2. /\ Done' = Done \cup {s} /\ s \in Done' /\ Done' \in SUBSET Symbols
        /\ Done' \ {s} = Done /\ Done \in SUBSET Symbols
    BY <1>1 DEF Done
  <1>3. Sum(task', Done') = task'[s].value + Sum(task', Done)
    <2>1. PICK t \in Tasks, D \in SUBSET Symbols : t = task' /\ D = Done'
      BY <1>2
    <2>2. Sum(t, D) = t[s].value + Sum(t, D \ {s})
      BY <1>2, <2>1, SumOfAny
    <2>. QED
      BY <1>2, <2>1, <2>2
  <1>4. \A r \in Done : task[r].value = task'[r].value
    BY <1>1, <1>2 DEF Done
  <1>5. Sum(task', Done) = Sum(task, Done) /\ Sum(task, Done) \in Nat
    BY <1>2, <1>4, SumSame, SumTyped
  <1>6. task[s].value \in Nat
    BY ValueTyped
  <1>. QED
    BY <1>1, <1>3, <1>5, <1>6, TotalIsSum, TotalIsSumNext

LEMMA TotalStep ==
    ASSUME TypeOK, TypeOK', TotalAddsUp, NotValuedYet, [Next]_vars
    PROVE  TotalAddsUp' /\ NotValuedYet'
  <1>0. task \in Tasks /\ task' \in Tasks /\ total \in Nat
    BY DEF TypeOK, Tasks
  <1>1. CASE StartCycle
    <2>1. CASE task' = [s \in Symbols |-> [pc |-> "queued", value |-> 0]] /\ total' = 0
      BY <2>1, TotalRestarts
    <2>2. CASE UNCHANGED <<phase, task, total>>
      BY <2>2, TotalUndisturbed
    <2>. QED
      BY <1>1, <2>1, <2>2 DEF StartCycle
  <1>2. CASE EndCycle \/ Crash
    BY <1>2, TotalRestarts DEF EndCycle, Crash, IdleTask
  <1>3. CASE JoinPositions \/ RecordEquity \/ SetBreaker \/ SendAlert
    BY <1>3, TotalUndisturbed
    DEF JoinPositions, RecordEquity, SetBreaker, SendAlert
  <1>4. ASSUME NEW c \in Watchlist, CandidateStep(c)
        PROVE  TotalAddsUp' /\ NotValuedYet'
    BY <1>4, TotalUndisturbed
    DEF CandidateStep, StartCandidate, JudgeCandidate, LogCandidate,
        AlertCandidate, SetCandidate
  <1>5. ASSUME NEW r \in Requests, Evaluate(r) \/ \E v \in Verdicts : Judge(r, v)
        PROVE  TotalAddsUp' /\ NotValuedYet'
    BY <1>5, TotalUndisturbed DEF Evaluate, Judge, scanner
  <1>6. CASE Restart \/ UNCHANGED vars
    BY <1>6, TotalUndisturbed DEF Restart, vars, scanner
  <1>7. ASSUME NEW s \in Symbols, StartTask(s)
        PROVE  TotalAddsUp' /\ NotValuedYet'
    <2>1. /\ task' = [task EXCEPT ![s].pc = "running"] /\ task[s].pc = "queued"
          /\ total' = total /\ phase' = phase
      BY <1>7 DEF StartTask
    <2>2. /\ task'[s].pc = "running" /\ task'[s].value = task[s].value
          /\ \A r \in Symbols \ {s} : task'[r] = task[r]
      BY <1>0, <2>1 DEF Tasks, Task
    <2>3. TotalAddsUp'
      BY <1>0, <2>1, <2>2, TotalUnmoved
    <2>4. NotValuedYet'
      BY <2>1, <2>2 DEF NotValuedYet
    <2>. QED
      BY <2>3, <2>4
  <1>8. ASSUME NEW s \in Symbols, NEW value \in Values, ScanReturns(s, value)
        PROVE  TotalAddsUp' /\ NotValuedYet'
    <2>1. task[s].pc = "running" /\ total' = total /\ phase' = phase
      BY <1>8 DEF ScanReturns
    <2>2. CASE task' = [task EXCEPT ![s] = [pc |-> "adding", value |-> value]]
      <3>1. /\ task'[s].pc = "adding"
            /\ \A r \in Symbols \ {s} : task'[r] = task[r]
        BY <1>0, <2>2 DEF Tasks
      <3>2. TotalAddsUp'
        BY <1>0, <2>1, <3>1, TotalUnmoved
      <3>3. NotValuedYet'
        BY <3>1 DEF NotValuedYet
      <3>. QED
        BY <3>2, <3>3
    <2>3. CASE task' = [task EXCEPT ![s].pc = "done"]
      <3>1. task[s].value = 0
        BY <2>1 DEF NotValuedYet
      <3>2. total' = total + task[s].value
        BY <1>0, <2>1, <3>1
      <3>3. TotalAddsUp'
        BY <1>0, <2>1, <2>3, <3>2, TotalGrows
      <3>4. NotValuedYet'
        BY <1>0, <2>3 DEF NotValuedYet, Tasks, Task
      <3>. QED
        BY <3>3, <3>4
    <2>. QED
      BY <1>8, <2>2, <2>3 DEF ScanReturns
  <1>9. ASSUME NEW s \in Symbols, AddValue(s)
        PROVE  TotalAddsUp' /\ NotValuedYet'
    <2>1. /\ task' = [task EXCEPT ![s].pc = "done"] /\ task[s].pc = "adding"
          /\ total' = total + task[s].value /\ phase' = phase
      BY <1>9 DEF AddValue
    <2>2. TotalAddsUp'
      BY <1>0, <2>1, TotalGrows
    <2>3. NotValuedYet'
      BY <1>0, <2>1 DEF NotValuedYet, Tasks, Task
    <2>. QED
      BY <2>2, <2>3
  <1>. QED
    BY <1>1, <1>2, <1>3, <1>4, <1>5, <1>6, <1>7, <1>8, <1>9
    DEF Next, CycleStep, TaskStep

(* Whatever the order in which the tasks of a cycle take the mutex, and     *)
(* whichever of them fail, the total is the sum of what the finished ones   *)
(* returned: none is lost, and none is counted twice.                       *)
THEOREM TotalAddsUpAlways == Spec => []TotalAddsUp
  <1>1. Init => TotalAddsUp /\ NotValuedYet
    BY DEF Init, TotalAddsUp, NotValuedYet, IdleTask
  <1>2. /\ TypeOK /\ TypeOK' /\ TotalAddsUp /\ NotValuedYet /\ [Next]_vars
        => TotalAddsUp' /\ NotValuedYet'
    BY TotalStep
  <1>. QED
    BY <1>1, <1>2, TypeCorrect, PTL DEF Spec
=============================================================================

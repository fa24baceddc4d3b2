--------------------------- MODULE CircuitBreaker ---------------------------
(***************************************************************************)
(* One scan cycle (scan_once) and the portfolio circuit breaker it drives. *)
(* The cycle values every held position in a task of its own, waits for    *)
(* all of them, records the sum as the portfolio's equity, and sets the    *)
(* breaker from the drawdown SQLite computes; only then it evaluates the   *)
(* watchlist, whose Buy verdicts the breaker turns into Avoid.  Requests   *)
(* to /candidates/evaluate read the breaker at any time.  The breaker is   *)
(* an AtomicBool that starts false with the process; the equity table      *)
(* survives it.                                                            *)
(***************************************************************************)
EXTENDS Integers, FiniteSets, FiniteSetsExt

CONSTANTS
    Symbols,       \* positions held (one at least, held throughout)
    Watchlist,     \* candidate symbols of the watchlist
    Requests,      \* /candidates/evaluate requests in flight at once
    Values,        \* market values a position can have
    LimitPct,      \* portfolio_drawdown_limit_pct
    MaxConcurrent, \* permits of the scan semaphore
    None,          \* no equity recorded, no alert sent
    MaxFaults,     \* bound: failed calls, and positions found removed
    MaxCrashes     \* bound: times the process stops

ASSUME ValuesAssumption == Values \subseteq Nat \ {0} /\ IsFiniteSet(Symbols)
ASSUME NoneAssumption   == /\ None \notin {"tripped", "cleared"}
                           /\ None \notin [current : Nat, peak : Nat]
ASSUME LimitAssumption  == LimitPct \in Nat \ {0} /\ MaxConcurrent \in Nat \ {0}

VARIABLES
    up,         \* is the process running?
    phase,      \* how far the cycle is
    task,       \* the position tasks of the cycle, and what each returned
    total,      \* portfolio_value, the sum behind the mutex
    equity,     \* the table portfolio_equity: latest row and maximum
    tripped,    \* AppState.circuit_breaker
    decided,    \* history: did this cycle set the breaker?
    lastAlert,  \* history: the last breaker alert this process sent
    candidate,  \* the candidate tasks of the cycle
    answer,     \* the symbol an on-demand request has in hand, or its verdict
    faults, crashes

scanner == <<phase, task, total, tripped, decided, lastAlert, candidate>>
vars == <<up, scanner, equity, answer, faults, crashes>>

Verdicts == {"Buy", "Avoid", "Watch"}
Task == [pc : {"idle", "queued", "running", "adding", "done"}, value : Nat]
Candidate == [pc : {"idle", "queued", "running", "log", "alert", "done"},
              verdict : Verdicts \cup {None}]
Phases == {"idle", "positions", "record", "drawdown", "alert", "candidates"}

TypeOK ==
    /\ up \in BOOLEAN
    /\ phase \in Phases
    /\ task \in [Symbols -> Task]
    /\ total \in Nat
    /\ equity \in [current : Nat, peak : Nat] \cup {None}
    /\ tripped \in BOOLEAN /\ decided \in BOOLEAN
    /\ lastAlert \in {"tripped", "cleared", None}
    /\ candidate \in [Watchlist -> Candidate]
    /\ answer \in [Requests -> {"idle", "pipeline"} \cup Verdicts]
    /\ faults \in Nat /\ crashes \in Nat

IdleTask == [pc |-> "idle", value |-> 0]
Unjudged(pc) == [pc |-> pc, verdict |-> None]

Init ==
    /\ up = TRUE
    /\ phase = "idle"
    /\ task = [s \in Symbols |-> IdleTask]
    /\ total = 0
    /\ equity = None
    /\ tripped = FALSE /\ decided = FALSE
    /\ lastAlert = None
    /\ candidate = [c \in Watchlist |-> Unjudged("idle")]
    /\ answer = [r \in Requests |-> "idle"]
    /\ faults = 0 /\ crashes = 0

Fault   == faults < MaxFaults /\ faults' = faults + 1
NoFault == UNCHANGED faults

(* portfolio_drawdown's result, compared as update_circuit_breaker does:    *)
(* (current - peak) / peak * 100 <= -limit, with a peak above zero.         *)
Breached ==
    /\ equity # None
    /\ (equity.peak - equity.current) * 100 >= LimitPct * equity.peak

(* apply_circuit_breaker: a Buy becomes an Avoid.                           *)
Gate(verdict) == IF tripped /\ verdict = "Buy" THEN "Avoid" ELSE verdict

(* Permits of the semaphore that the running tasks of both phases hold.     *)
PermitsHeld ==
    Cardinality({s \in Symbols : task[s].pc \in {"running", "adding"}})
  + Cardinality({c \in Watchlist : candidate[c].pc \in {"running", "log", "alert"}})

-----------------------------------------------------------------------------
(* Phase 1: positions *)

(* A tick: the watchlist is read (a failure ends the cycle at once) and a   *)
(* task is spawned for every position.                                      *)
StartCycle ==
    /\ up /\ phase = "idle"
    /\ \/ /\ NoFault
          /\ phase' = "positions" /\ total' = 0 /\ decided' = FALSE
          /\ task' = [s \in Symbols |-> [pc |-> "queued", value |-> 0]]
       \/ Fault /\ UNCHANGED <<phase, task, total, decided>>
    /\ UNCHANGED <<up, equity, tripped, lastAlert, candidate, answer, crashes>>

(* A task gets a permit.                                                    *)
StartTask(s) ==
    /\ up /\ task[s].pc = "queued" /\ PermitsHeld < MaxConcurrent
    /\ task' = [task EXCEPT ![s].pc = "running"]
    /\ UNCHANGED <<up, phase, total, equity, tripped, decided, lastAlert,
                   candidate, answer, faults, crashes>>

(* scan_position returns the position's value; or an error, from any of its *)
(* calls, or 0 for a position removed meanwhile, and adds nothing.          *)
ScanReturns(s, value) ==
    /\ up /\ task[s].pc = "running"
    /\ \/ NoFault /\ task' = [task EXCEPT ![s] = [pc |-> "adding", value |-> value]]
       \/ Fault   /\ task' = [task EXCEPT ![s].pc = "done"]
    /\ UNCHANGED <<up, phase, total, equity, tripped, decided, lastAlert,
                   candidate, answer, crashes>>

(* Mutant: the last task to finish overwrites the sum. *)
AddValueOverwrites(s) ==
    /\ up /\ task[s].pc = "adding"
    /\ total' = task[s].value
    /\ task' = [task EXCEPT ![s].pc = "done"]
    /\ UNCHANGED <<up, phase, equity, tripped, decided, lastAlert, candidate,
                   answer, faults, crashes>>

(* Mutant: the value is taken off the sum. *)
AddValueNegated(s) ==
    /\ up /\ task[s].pc = "adding"
    /\ total' = total - task[s].value
    /\ task' = [task EXCEPT ![s].pc = "done"]
    /\ UNCHANGED <<up, phase, equity, tripped, decided, lastAlert, candidate,
                   answer, faults, crashes>>

(* The task takes the mutex, adds its value and gives its permit back.      *)
AddValue(s) ==
    /\ up /\ task[s].pc = "adding"
    /\ total' = total + task[s].value
    /\ task' = [task EXCEPT ![s].pc = "done"]
    /\ UNCHANGED <<up, phase, equity, tripped, decided, lastAlert, candidate,
                   answer, faults, crashes>>

-----------------------------------------------------------------------------
(* update_circuit_breaker *)

StartCandidates ==
    /\ phase' = "candidates"
    /\ candidate' = [c \in Watchlist |-> Unjudged("queued")]

(* Mutant: the candidates start without waiting for the breaker. *)
JoinPositionsEarly ==
    /\ up /\ phase = "positions"
    /\ \A s \in Symbols : task[s].pc = "done"
    /\ IF total > 0
       THEN /\ phase' = "record"
            /\ candidate' = [c \in Watchlist |-> Unjudged("queued")]
       ELSE StartCandidates
    /\ UNCHANGED <<up, task, total, equity, tripped, decided, lastAlert,
                   answer, faults, crashes>>

(* Every task is joined.  Nothing held, or nothing valued: return early.    *)
JoinPositions ==
    /\ up /\ phase = "positions"
    /\ \A s \in Symbols : task[s].pc = "done"
    /\ IF total > 0 THEN phase' = "record" /\ UNCHANGED candidate
                    ELSE StartCandidates
    /\ UNCHANGED <<up, task, total, equity, tripped, decided, lastAlert,
                   answer, faults, crashes>>

(* record_portfolio_equity; an error returns and leaves the breaker.        *)
RecordEquity ==
    /\ up /\ phase = "record"
    /\ \/ /\ NoFault
          /\ equity' = [current |-> total,
                        peak |-> IF equity = None THEN total
                                 ELSE Max({total, equity.peak})]
          /\ phase' = "drawdown" /\ UNCHANGED candidate
       \/ Fault /\ StartCandidates /\ UNCHANGED equity
    /\ UNCHANGED <<up, task, total, tripped, decided, lastAlert, answer, crashes>>

(* Mutant: the breaker never clears. *)
SetBreakerLatched ==
    /\ up /\ phase = "drawdown"
    /\ \/ /\ NoFault
          /\ tripped' = (tripped \/ Breached) /\ decided' = TRUE
          /\ IF tripped' # tripped THEN phase' = "alert" /\ UNCHANGED candidate
                                   ELSE StartCandidates
       \/ Fault /\ StartCandidates /\ UNCHANGED <<tripped, decided>>
    /\ UNCHANGED <<up, task, total, equity, lastAlert, answer, crashes>>

(* Mutant: a drawdown exactly at the limit does not trip. *)
SetBreakerStrict ==
    /\ up /\ phase = "drawdown"
    /\ \/ /\ NoFault
          /\ tripped' = ((equity.peak - equity.current) * 100 > LimitPct * equity.peak)
          /\ decided' = TRUE
          /\ IF tripped' # tripped THEN phase' = "alert" /\ UNCHANGED candidate
                                   ELSE StartCandidates
       \/ Fault /\ StartCandidates /\ UNCHANGED <<tripped, decided>>
    /\ UNCHANGED <<up, task, total, equity, lastAlert, answer, crashes>>

(* Mutant: a tripped breaker is alerted in every cycle. *)
SetBreakerRepeats ==
    /\ up /\ phase = "drawdown"
    /\ \/ /\ NoFault
          /\ tripped' = Breached /\ decided' = TRUE
          /\ IF tripped' \/ tripped THEN phase' = "alert" /\ UNCHANGED candidate
                                    ELSE StartCandidates
       \/ Fault /\ StartCandidates /\ UNCHANGED <<tripped, decided>>
    /\ UNCHANGED <<up, task, total, equity, lastAlert, answer, crashes>>

(* portfolio_drawdown and the swap; an error returns and leaves the breaker *)
(* where an earlier cycle, or the start of the process, put it.             *)
SetBreaker ==
    /\ up /\ phase = "drawdown"
    /\ \/ /\ NoFault
          /\ tripped' = Breached /\ decided' = TRUE
          /\ IF tripped' # tripped THEN phase' = "alert" /\ UNCHANGED candidate
                                   ELSE StartCandidates
       \/ Fault /\ StartCandidates /\ UNCHANGED <<tripped, decided>>
    /\ UNCHANGED <<up, task, total, equity, lastAlert, answer, crashes>>

AlertKind == IF tripped THEN "tripped" ELSE "cleared"
LastKind  == IF lastAlert = None THEN "cleared" ELSE lastAlert

(* The transition is sent to the notifier, which may or may not deliver it. *)
SendAlert ==
    /\ up /\ phase = "alert"
    /\ lastAlert' = AlertKind
    /\ StartCandidates
    /\ UNCHANGED <<up, task, total, equity, tripped, decided, answer, faults, crashes>>

-----------------------------------------------------------------------------
(* Phase 2: candidates, and on-demand requests *)

SetCandidate(c, value) ==
    /\ candidate' = [candidate EXCEPT ![c] = value]
    /\ UNCHANGED <<up, phase, task, total, equity, tripped, decided, lastAlert,
                   answer, crashes>>

StartCandidate(c) ==
    /\ up /\ candidate[c].pc = "queued" /\ PermitsHeld < MaxConcurrent
    /\ SetCandidate(c, Unjudged("running")) /\ NoFault

(* The pipeline's verdict, gated by the breaker as it is by then; or an     *)
(* error from the quote or the price history.                               *)
JudgeCandidate(c, verdict) ==
    /\ up /\ candidate[c].pc = "running"
    /\ \/ NoFault /\ SetCandidate(c, [pc |-> "log", verdict |-> Gate(verdict)])
       \/ Fault   /\ SetCandidate(c, Unjudged("done"))

(* The verdict is logged; an error keeps it from being alerted.             *)
LogCandidate(c) ==
    /\ up /\ candidate[c].pc = "log"
    /\ \/ NoFault /\ SetCandidate(c, [candidate[c] EXCEPT !.pc = "alert"])
       \/ Fault   /\ SetCandidate(c, Unjudged("done"))

AlertCandidate(c) ==
    /\ up /\ candidate[c].pc = "alert"
    /\ SetCandidate(c, Unjudged("done")) /\ NoFault

(* Every candidate is joined, and the cycle is over.                        *)
EndCycle ==
    /\ up /\ phase = "candidates"
    /\ \A c \in Watchlist : candidate[c].pc = "done"
    /\ phase' = "idle"
    /\ task' = [s \in Symbols |-> IdleTask]
    /\ candidate' = [c \in Watchlist |-> Unjudged("idle")]
    /\ UNCHANGED <<up, total, equity, tripped, decided, lastAlert, answer,
                   faults, crashes>>

(* evaluate_candidates runs the pipeline on one symbol after another ...    *)
Evaluate(r) ==
    /\ up /\ answer[r] # "pipeline"
    /\ answer' = [answer EXCEPT ![r] = "pipeline"]
    /\ UNCHANGED <<up, scanner, equity, faults, crashes>>

(* ... and gates each verdict by the breaker as it is when it has it.       *)
Judge(r, verdict) ==
    /\ up /\ answer[r] = "pipeline"
    /\ answer' = [answer EXCEPT ![r] = Gate(verdict)]
    /\ UNCHANGED <<up, scanner, equity, faults, crashes>>

-----------------------------------------------------------------------------
(* The process stops; what it starts again with is the table alone.         *)
Crash ==
    /\ up /\ crashes < MaxCrashes
    /\ up' = FALSE /\ crashes' = crashes + 1
    /\ phase' = "idle" /\ total' = 0
    /\ tripped' = FALSE /\ decided' = FALSE /\ lastAlert' = None
    /\ task' = [s \in Symbols |-> IdleTask]
    /\ candidate' = [c \in Watchlist |-> Unjudged("idle")]
    /\ answer' = [r \in Requests |-> "idle"]
    /\ UNCHANGED <<equity, faults>>

Restart ==
    /\ ~up /\ up' = TRUE
    /\ UNCHANGED <<scanner, equity, answer, faults, crashes>>

TaskStep(s) ==
    StartTask(s) \/ (\E v \in Values : ScanReturns(s, v)) \/ AddValue(s)

CandidateStep(c) ==
    \/ StartCandidate(c)
    \/ \E v \in Verdicts : JudgeCandidate(c, v)
    \/ LogCandidate(c) \/ AlertCandidate(c)

CycleStep ==
    StartCycle \/ JoinPositions \/ RecordEquity \/ SetBreaker \/ SendAlert \/ EndCycle

Next ==
    \/ CycleStep
    \/ \E s \in Symbols : TaskStep(s)
    \/ \E c \in Watchlist : CandidateStep(c)
    \/ \E r \in Requests : Evaluate(r) \/ \E v \in Verdicts : Judge(r, v)
    \/ Crash \/ Restart

Spec == Init /\ [][Next]_vars

(* The interval keeps ticking, the runtime polls every woken task, and      *)
(* every external call returns.                                             *)
Fairness ==
    /\ WF_vars(CycleStep) /\ WF_vars(Restart)
    /\ \A s \in Symbols : WF_vars(TaskStep(s))
    /\ \A c \in Watchlist : WF_vars(CandidateStep(c))

FairSpec == Spec /\ Fairness

-----------------------------------------------------------------------------
(* Properties *)

Sum(t, S) == MapThenSumSet(LAMBDA s : t[s].value, S)

Done == {s \in Symbols : task[s].pc = "done"}

(* No task's value is lost or counted twice on its way into the total,     *)
(* whatever the order in which tasks take the mutex.                       *)
TotalAddsUp == total = Sum(task, Done) \/ phase = "idle"

(* The scanner never alerts a Buy while the breaker is tripped, although a *)
(* log write lies between reading the breaker and alerting: the breaker    *)
(* only changes while no candidate is being scanned.                       *)
ScannerBuysGated ==
    \A c \in Watchlist :
        candidate[c] = [pc |-> "alert", verdict |-> "Buy"] => ~tripped

(* Once a cycle has set the breaker it agrees with the recorded drawdown   *)
(* until the next cycle, in particular for every candidate of the cycle.   *)
BreakerIsCurrent == decided => tripped = Breached

(* scanner.rs:139-142, alerts come once on each transition: an alert about *)
(* to be sent never repeats the last one, and the first is a trip.         *)
AlertsAlternate ==
    phase = "alert" => AlertKind # LastKind

(* A recorded drawdown past the limit trips the breaker sooner or later,   *)
(* also after a restart that forgot it and after failed cycles, unless a   *)
(* later cycle records a recovery first.                                   *)
BreakerCatchesUp == Breached ~> (tripped \/ ~Breached)

(* README.md:80-85, the breaker suppresses Buy verdicts from on-demand     *)
(* calls until the drawdown recovers: between cycles, no Buy is answered   *)
(* while the recorded drawdown is past the limit.                          *)
NoBuyInDrawdown ==
    [][\A r \in Requests :
          answer[r] = "pipeline" /\ answer'[r] = "Buy"
              => ~(phase = "idle" /\ Breached)]_vars

-----------------------------------------------------------------------------
(* Inductive invariant *)

(* Candidates are only at work in the phase of their own. *)
CandidatesInPhase ==
    phase # "candidates" =>
        \A c \in Watchlist : candidate[c].pc \in {"idle", "done"}

(* A verdict on its way to its alert was judged by the breaker as it is. *)
VerdictsGated ==
    \A c \in Watchlist :
        candidate[c].pc \in {"log", "alert"} /\ candidate[c].verdict = "Buy"
            => ~tripped

(* A cycle that has not set the breaker yet has not decided. *)
UndecidedBefore ==
    phase \in {"positions", "record", "drawdown"} => ~decided

(* The last alert tells how the breaker is, but between swap and alert. *)
AlertInv == phase = "alert" <=> LastKind # AlertKind

(* A task that has not returned has no value, and one that failed has none. *)
NotValuedYet ==
    \A s \in Symbols : task[s].pc \in {"idle", "queued", "running"} => task[s].value = 0

BreakerInv ==
    /\ TypeOK
    /\ CandidatesInPhase
    /\ VerdictsGated
    /\ UndecidedBefore
    /\ BreakerIsCurrent
    /\ AlertInv
=============================================================================

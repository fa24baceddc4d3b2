------------------------------- MODULE Server --------------------------------
(***************************************************************************)
(* The life of the process around the decision pipeline: main, the scanner *)
(* loop with its two phases and its themes, the handlers that run the      *)
(* pipeline on request, and the way all of them come to an end.  What a    *)
(* scan stores and how the breaker decides are PositionStore's and         *)
(* CircuitBreaker's; here a cycle may list any symbols and set the breaker *)
(* either way.                                                             *)
(***************************************************************************)
EXTENDS Pipeline, Startup

CONSTANT MaxScans   \* MAX_CONCURRENT_SCANS

ASSUME ScansAssumption == MaxScans \in Nat \ {0}

VARIABLES
    main,       \* where main is
    loop,       \* where run_scanner_loop is
    todo        \* themes this cycle has still to check

serverVars == <<pipelineVars, boot, main, loop, todo>>

Scans == Positions \cup Candidates

ServerTypeOK ==
    /\ PipelineTypeOK /\ BootTypeOK
    /\ main \in {"starting", "serving", "draining", "joining", "exited", "crashed"}
    /\ loop \in {"none", "priming", "waiting", "positions", "breaker",
                 "candidates", "themes", "stopped"}
    /\ todo \subseteq Themes

ServerInit ==
    /\ PipelineInit /\ BootInit
    /\ main = "starting"
    /\ loop = "none"
    /\ todo = {}

AllIdle(jobs) == \A j \in jobs : At(j, "idle")

Queue(symbols) ==
    job' = [j \in Jobs |-> IF j \in symbols THEN [Idle EXCEPT !.pc = "queued"]
                                            ELSE job[j]]

-----------------------------------------------------------------------------
(* Jobs *)

(* scan_semaphore: the tasks of a phase that hold a permit.                 *)
ScanSlot ==
    Cardinality({j \in Scans : ~At(j, "idle") /\ ~At(j, "queued")}) < MaxScans

StartScan(j) ==
    /\ At(j, "queued") /\ ScanSlot
    /\ Goes(j, "ingest")
    /\ UNCHANGED <<free, tripped>>

(* Up to the pipeline: quote, price, snapshot, row.  Any of them may fail   *)
(* and the position may be gone; the task ends.                             *)
Ingest(j) ==
    /\ At(j, "ingest")
    /\ \/ job' = [job EXCEPT ![j] = Idle]
       \/ j \in Positions /\ RunPosition(j)
       \/ j \in Candidates /\ RunCandidate(j, 0)
    /\ UNCHANGED <<free, tripped>>

(* format_alert: routine outcomes are not sent.                             *)
WorthAnAlert(verdict) ==
    verdict \in HardVerdicts \cup {"watch", "buy", "relevant"}

(* log_evaluation and log_theme_event.  A scan whose verdict cannot be      *)
(* logged sends no alert; a theme's takes the rest of the themes with it.   *)
(* Requests log, or not, and answer.                                        *)
Log(j) ==
    /\ At(j, "verdict")
    /\ \/ /\ j \notin Requests /\ WorthAnAlert(job[j].verdict)
          /\ Goes(j, "alert")
          /\ UNCHANGED todo
       \/ /\ IF j \in Requests THEN job[j].left = 0
                              ELSE ~WorthAnAlert(job[j].verdict)
          /\ job' = [job EXCEPT ![j] = Idle]
          /\ UNCHANGED todo
       \/ /\ j \notin Requests
          /\ job' = [job EXCEPT ![j] = Idle]
          /\ todo' = IF j \in Themes THEN {} ELSE todo
    /\ UNCHANGED <<free, tripped>>

(* Every configured notifier is tried; an error is logged and no more.      *)
Alert(j) ==
    /\ At(j, "alert")
    /\ job' = [job EXCEPT ![j] = Idle]
    /\ UNCHANGED <<free, tripped>>

(* get_full_signal and evaluate_candidates, past what may send them away.   *)
Ask(r) ==
    /\ main = "serving" /\ At(r, "idle")
    /\ \/ RunPosition(r)
       \/ \E n \in 1..MaxList : RunCandidate(r, n - 1)
    /\ UNCHANGED <<free, tripped>>

(* evaluate_candidates goes on to the next symbol of its list.              *)
AskNext(r) ==
    /\ r \in Requests /\ At(r, "verdict") /\ job[r].left > 0
    /\ RunCandidate(r, job[r].left - 1)
    /\ UNCHANGED <<free, tripped>>

(* A client that disconnects takes its handler with it, at whatever await it *)
(* is; what it held goes back.                                              *)
HangUp(r) ==
    /\ ~At(r, "idle")
    /\ free' = IF At(r, "llm") THEN free + 1 ELSE free
    /\ job' = [job EXCEPT ![r] = Idle]
    /\ UNCHANGED tripped

-----------------------------------------------------------------------------
(* The scanner loop *)

(* The tick before the loop takes the interval's immediate one.             *)
Prime ==
    /\ loop = "priming"
    /\ loop' = "waiting"
    /\ UNCHANGED <<pipelineVars, todo>>

(* A tick: the next of the interval or, after a long cycle, one of those it  *)
(* missed.  scan_once lists what is held; without the watchlist it ends at   *)
(* once, and the themes are scanned all the same: those tracked by then, or  *)
(* none if the table cannot be read.                                        *)
StartCycle ==
    /\ loop = "waiting"
    /\ \/ /\ \E held \in SUBSET Positions : Queue(held)
          /\ loop' = "positions"
          /\ UNCHANGED todo
       \/ loop' = "themes" /\ todo' \in SUBSET Themes /\ UNCHANGED job
    /\ UNCHANGED <<free, tripped>>

(* Mutant: the tasks are spawned and not joined. *)
JoinNobody ==
    /\ loop = "positions"
    /\ loop' = "breaker"
    /\ UNCHANGED <<pipelineVars, todo>>

JoinPositions ==
    /\ loop = "positions" /\ AllIdle(Positions)
    /\ loop' = "breaker"
    /\ UNCHANGED <<pipelineVars, todo>>

(* update_circuit_breaker, and the candidates that come after it.           *)
UpdateBreaker ==
    /\ loop = "breaker"
    /\ tripped' \in BOOLEAN
    /\ \E listed \in SUBSET Candidates : Queue(listed)
    /\ loop' = "candidates"
    /\ UNCHANGED <<free, todo>>

JoinCandidates ==
    /\ loop = "candidates" /\ AllIdle(Candidates)
    /\ loop' = "themes"
    /\ todo' \in SUBSET Themes
    /\ UNCHANGED pipelineVars

(* Mutant: a theme stays on the list. *)
NextThemeAgain ==
    /\ loop = "themes" /\ AllIdle(Themes)
    /\ \E t \in todo : CheckTheme(t)
    /\ UNCHANGED <<free, tripped, loop, todo>>

(* One theme after the other.                                               *)
NextTheme ==
    /\ loop = "themes" /\ AllIdle(Themes)
    /\ \E t \in todo : CheckTheme(t) /\ todo' = todo \ {t}
    /\ UNCHANGED <<free, tripped, loop>>

EndCycle ==
    /\ loop = "themes" /\ AllIdle(Themes) /\ todo = {}
    /\ loop' = "waiting"
    /\ UNCHANGED <<pipelineVars, todo>>

(* select sees the shutdown; with a tick due as well it draws one.          *)
StopLoop ==
    /\ loop = "waiting" /\ main = "joining"
    /\ loop' = "stopped"
    /\ UNCHANGED <<pipelineVars, todo>>

-----------------------------------------------------------------------------
(* main *)

(* Mutant: without data for the demonstration the process gives up. *)
ServeOrExit ==
    /\ main = "starting" /\ Booted
    /\ IF boot = "aborted"
       THEN main' = "crashed" /\ UNCHANGED <<boot, loop>>
       ELSE main' = "serving" /\ loop' = "priming" /\ boot' = "dropped"
    /\ UNCHANGED <<pipelineVars, todo>>

(* The orchestrator has returned: state, scanner, server.                   *)
Serve ==
    /\ main = "starting" /\ Booted
    /\ main' = "serving"
    /\ loop' = "priming"
    /\ boot' = "dropped"
    /\ UNCHANGED <<pipelineVars, todo>>

(* A panic of the orchestrator is main's: the process ends before it serves. *)
(* So it does if the database cannot be opened or the address is taken; the  *)
(* scanner spawned before that is gone with it, its first tick still to come. *)
Panic ==
    /\ main = "starting" /\ (Booted \/ boot = "panicked")
    /\ main' = "crashed"
    /\ UNCHANGED <<pipelineVars, boot, loop, todo>>

(* SIGTERM or Ctrl+C: no new requests, those in flight go on.               *)
Signal ==
    /\ main = "serving"
    /\ main' = "draining"
    /\ UNCHANGED <<pipelineVars, boot, loop, todo>>

(* axum::serve returns once the last request is answered, and only then is  *)
(* the scanner told.                                                        *)
Drained ==
    /\ main = "draining" /\ AllIdle(Requests)
    /\ main' = "joining"
    /\ UNCHANGED <<pipelineVars, boot, loop, todo>>

(* Mutant: main returns without the scanner. *)
ExitAtOnce ==
    /\ main = "joining"
    /\ main' = "exited"
    /\ UNCHANGED <<pipelineVars, boot, loop, todo>>

Exit ==
    /\ main = "joining" /\ loop = "stopped"
    /\ main' = "exited"
    /\ UNCHANGED <<pipelineVars, boot, loop, todo>>

(* The platform starts the next process.                                    *)
Redeploy ==
    /\ main \in {"exited", "crashed"}
    /\ main' = "starting" /\ boot' = "bars"
    /\ loop' = "none" /\ todo' = {}
    /\ tripped' = FALSE
    /\ UNCHANGED <<job, free>>

-----------------------------------------------------------------------------
(* Neither feed, model nor notifiers bound the wait for their answer.       *)
Answers(j) == (Untimed(j) \/ Alert(j)) /\ UNCHANGED <<boot, main, loop, todo>>

(* What happens to a job that is under way, otherwise.                      *)
Proceeds(j) ==
    /\ \/ Log(j)
       \/ /\ StartScan(j) \/ Ingest(j) \/ Timed(j) \/ TakePermit(j) \/ AskNext(j)
          /\ UNCHANGED todo
    /\ UNCHANGED <<boot, main, loop>>

Asks ==
    /\ \E r \in Requests : Ask(r) \/ HangUp(r)
    /\ UNCHANGED <<boot, main, loop, todo>>

LoopGoesOn ==
    /\ \/ JoinPositions \/ UpdateBreaker \/ JoinCandidates
       \/ NextTheme \/ EndCycle \/ Prime
    /\ UNCHANGED <<boot, main>>

Stops == StopLoop /\ UNCHANGED <<boot, main>>

Boots == Boot /\ UNCHANGED <<pipelineVars, main, loop, todo>>

MainGoesOn == Serve \/ Panic \/ Drained \/ Exit

ServerNext ==
    \/ \E j \in Jobs : Answers(j) \/ Proceeds(j)
    \/ Asks
    \/ LoopGoesOn
    \/ Stops
    \/ StartCycle /\ UNCHANGED <<boot, main>>
    \/ Boots
    \/ MainGoesOn
    \/ Signal
    \/ Redeploy

ServerSpec == ServerInit /\ [][ServerNext]_serverVars

(* The runtime polls what is ready, and tokio's semaphore hands its permits  *)
(* out in turn: strong fairness, which is weak for all other steps of a job *)
(* since nobody else disables them.  select draws among the arms that are   *)
(* ready, and draws the shutdown sooner or later.  No tick, request, signal *)
(* or redeployment need come.                                               *)
SharedFairness ==
    /\ WF_serverVars(LoopGoesOn)
    /\ SF_serverVars(Stops)
    /\ WF_serverVars(MainGoesOn)

(* Yahoo, feed, model and notifiers need not answer.                        *)
ServerFairSpec ==
    /\ ServerSpec /\ SharedFairness
    /\ \A j \in Jobs : SF_serverVars(Proceeds(j))

(* They answer or fail.                                                     *)
AnsweredSpec ==
    /\ ServerSpec /\ SharedFairness
    /\ WF_serverVars(Boots)
    /\ \A j \in Jobs : SF_serverVars(Proceeds(j) \/ Answers(j))

(* Besides, a process that crashed is started again (docker-compose.yml:24), *)
(* and one that gets past the orchestrator time and again finds its database *)
(* and its address in the end.                                              *)
RestartedSpec ==
    /\ AnsweredSpec
    /\ WF_serverVars(main = "crashed" /\ Redeploy)
    /\ SF_serverVars(Serve)

-----------------------------------------------------------------------------
(* Properties *)

(* What the promise sees of a job: it is closed until the pipeline runs, and *)
(* open until there is a verdict.                                           *)
Case(k) ==
    CASE k.pc \in {"idle", "queued", "ingest"} -> [stage |-> "closed"]
      [] k.pc \in {"verdict", "alert"} -> [stage |-> "advised", advice |-> k.verdict]
      [] OTHER -> [stage |-> "open", kind |-> k.kind, rule |-> k.rule,
                   news |-> k.news]

Promise == INSTANCE Advice WITH
    Jobs <- Evaluations,
    case <- [j \in Evaluations |-> Case(job[j])],
    tripped <- tripped

(* README.md:175-188, the hard rules are authoritative, a flag escalates to *)
(* Watch or forces Avoid, and nothing is bought against the breaker: with   *)
(* any number of jobs between their stages, the breaker changing under them *)
(* and every call failing, no verdict is another than the promise allows.   *)
ImplementsAdvice == Promise!Spec

(* The phases of a cycle do not overlap, nor do two cycles: whatever runs    *)
(* of the scanner belongs to the phase the loop is in.                      *)
PhasesApart ==
    /\ loop # "positions" => AllIdle(Positions)
    /\ loop # "candidates" => AllIdle(Candidates)
    /\ loop # "themes" => AllIdle(Themes)

(* main.rs:294, nothing is cut off: when the process ends by itself no       *)
(* request, scan or theme is under way and every permit is back.            *)
ExitIsQuiet ==
    main = "exited" => AllIdle(Jobs) /\ free = LlmPermits /\ loop = "stopped"

(* Semaphore inside semaphore, requests competing with scans for the model:  *)
(* whatever a cycle starts comes to its end, and so does the cycle.         *)
CyclesEnd == loop = "positions" ~> loop = "waiting"

(* Once the process is told to stop it does, whatever ticks are due.        *)
ShutdownEnds == main = "draining" ~> main = "exited"

(* The server does not depend on the demonstration it starts with: without   *)
(* Yahoo, news or model it comes up all the same, at the latest with a later *)
(* start.  The one thing in the demonstration's way that is in the server's  *)
(* is a candle ta refuses.                                                  *)
ServesWithoutDemo ==
    main = "starting" ~> (main = "serving" \/ boot = "panicked")

(* README.md:176-178, "it never gets to veto or delay the sell": a rule that *)
(* fires is acted on, whether feed and model answer or not.                 *)
SellNotDelayed ==
    \A p \in Positions : job[p].rule # "none" ~> job[p].rule = "none"
=============================================================================

------------------------------ MODULE Pipeline -------------------------------
(***************************************************************************)
(* Pipeline::run_position and run_candidate and ThemeWatcher::check, as    *)
(* jobs that run at the same time and meet at the semaphore before the     *)
(* local model.  Every await is a step of its own: company news, the RSS   *)
(* fallback, the permit, the model, the Finnhub context.  Weights are      *)
(* counted in twentieths (0.35 is 7).                                      *)
(***************************************************************************)
EXTENDS Integers, FiniteSets

CONSTANTS
    Positions,      \* symbols held
    Candidates,     \* symbols of the watchlist
    Requests,       \* full-signal and evaluate requests in flight at once
    Themes,         \* tracked themes
    LlmPermits,     \* LLM_CONCURRENCY
    MaxList,        \* bound: symbols of one evaluate request
    TechScores,     \* what RSI, trend, MACD and bands may add up to
    NewsScores,     \* sentiment * confidence * 0.5
    ConsensusScores \* consensus * 0.15

ASSUME PermitsAssumption == LlmPermits \in Nat \ {0} /\ MaxList \in Nat \ {0}
ASSUME ScoresAssumption ==
    TechScores \cup NewsScores \cup ConsensusScores \subseteq Int
ASSUME JobsAssumption ==
    /\ Positions \cap Candidates = {} /\ Positions \cap Requests = {}
    /\ Positions \cap Themes = {} /\ Candidates \cap Requests = {}
    /\ Candidates \cap Themes = {} /\ Requests \cap Themes = {}

VARIABLES
    job,        \* where each job is, and what it knows
    free,       \* permits left in llm_semaphore
    tripped     \* AppState.circuit_breaker

pipelineVars == <<job, free, tripped>>

Evaluations == Positions \cup Candidates \cup Requests
Jobs == Evaluations \cup Themes

HardVerdicts == {"sell_all", "trim_profit"}
Verdicts == HardVerdicts \cup {"hold", "watch", "buy", "avoid"}

Idle == [pc |-> "idle", kind |-> "none", rule |-> "none",
         heads |-> FALSE, news |-> "unread", verdict |-> "none", left |-> 0]

(* What a run keeps between its awaits.                                     *)
Job ==
    [pc : {"idle", "queued", "ingest", "company", "rss", "permit", "llm",
           "context", "verdict", "alert"},
     kind : {"none", "position", "candidate", "theme"},
     rule : {"none"} \cup HardVerdicts,
     heads : BOOLEAN,
     news : {"unread", "clean", "flagged"},
     verdict : {"none", "quiet", "relevant"} \cup Verdicts,
     left : 0..MaxList]

PipelineTypeOK ==
    /\ job \in [Jobs -> Job]
    /\ free \in 0..LlmPermits
    /\ tripped \in BOOLEAN

PipelineInit ==
    /\ job = [j \in Jobs |-> Idle]
    /\ free = LlmPermits
    /\ tripped = FALSE

At(j, pc) == job[j].pc = pc

Goes(j, pc) == job' = [job EXCEPT ![j].pc = pc]

(* evaluate_technical comes first, and a hard rule fixes the verdict.       *)
RunPosition(j) ==
    \E rule \in {"none"} \cup HardVerdicts :
        job' = [job EXCEPT ![j] = [Idle EXCEPT !.pc = "company",
                                       !.kind = "position", !.rule = rule]]

(* left is how many symbols the caller goes through afterwards.             *)
RunCandidate(j, left) ==
    job' = [job EXCEPT ![j] = [Idle EXCEPT !.pc = "company",
                                   !.kind = "candidate", !.left = left]]

(* A theme's headlines come from the feed, keyword by keyword.              *)
CheckTheme(j) ==
    job' = [job EXCEPT ![j] = [Idle EXCEPT !.pc = "rss", !.kind = "theme"]]

(* A hard verdict asks the model only about headlines there are; the other  *)
(* paths take a permit even to be told that there is nothing to read.       *)
Headlines(j, found) ==
    job' = [job EXCEPT ![j].heads = found,
                       ![j].pc = IF job[j].rule # "none" /\ ~found
                                   THEN "context" ELSE "permit"]

(* gather_headlines: Finnhub's company news, if a key is set, and the feed   *)
(* if that fails or has none.                                               *)
CompanyNews(j) ==
    /\ At(j, "company")
    /\ Headlines(j, TRUE) \/ Goes(j, "rss")
    /\ UNCHANGED <<free, tripped>>

(* The feed.  Its client has no timeout; its errors count as no headlines.  *)
Rss(j) ==
    /\ At(j, "rss")
    /\ \E found \in BOOLEAN : Headlines(j, found)
    /\ UNCHANGED <<free, tripped>>

(* Mutant: a permit is taken whether there is one or not. *)
TakePermitUnchecked(j) ==
    /\ At(j, "permit")
    /\ free' = free - 1
    /\ Goes(j, "llm")
    /\ UNCHANGED tripped

(* analyze: wait for a permit of llm_semaphore, and hold it while asking.    *)
TakePermit(j) ==
    /\ At(j, "permit") /\ free > 0
    /\ free' = free - 1
    /\ Goes(j, "llm")
    /\ UNCHANGED tripped

(* Mutant: the permit is not given back when the model fails. *)
ModelFailsLeaking(j) ==
    /\ At(j, "llm") /\ job[j].kind # "theme" /\ job[j].heads
    /\ UNCHANGED free
    /\ job' = [job EXCEPT ![j].pc = "context", ![j].heads = FALSE]
    /\ UNCHANGED tripped

(* analyze_headlines: unreachable, or an answer that is not the JSON asked  *)
(* for.                                                                     *)
ModelFails(j) ==
    /\ At(j, "llm") /\ job[j].kind # "theme" /\ job[j].heads
    /\ free' = free + 1
    /\ job' = [job EXCEPT ![j].pc = "context", ![j].heads = FALSE]
    /\ UNCHANGED tripped

(* ... an answer; or, without headlines, a blank one without asking.        *)
ModelAnswers(j) ==
    /\ At(j, "llm") /\ job[j].kind # "theme"
    /\ free' = free + 1
    /\ \E news \in {"clean"} \cup (IF job[j].heads THEN {"flagged"} ELSE {}) :
          job' = [job EXCEPT ![j].pc = "context", ![j].news = news,
                   ![j].heads = @ /\ job[j].kind = "candidate" /\ news = "clean"]
    /\ UNCHANGED tripped

(* analyze_theme: an error leaves the theme for this cycle.                 *)
ModelReadsTheme(j) ==
    /\ At(j, "llm") /\ job[j].kind = "theme"
    /\ free' = free + 1
    /\ \/ job[j].heads /\ job' = [job EXCEPT ![j] = Idle]
       \/ \E verdict \in {"quiet"} \cup (IF job[j].heads THEN {"relevant"} ELSE {}) :
            job' = [job EXCEPT ![j] =
                      [Idle EXCEPT !.pc = "verdict", !.kind = "theme",
                                   !.verdict = verdict]]
    /\ UNCHANGED tripped

Model(j) == ModelFails(j) \/ ModelAnswers(j) \/ ModelReadsTheme(j)

Threshold == 7

(* Mutant: news may overrule the rules. *)
PositionVerdictByNews(k) ==
    IF k.news = "flagged" THEN "watch"
    ELSE IF k.rule # "none" THEN k.rule ELSE "hold"

(* How run_position ends.                                                   *)
PositionVerdict(k) ==
    IF k.rule # "none" THEN k.rule
    ELSE IF k.news = "flagged" THEN "watch" ELSE "hold"

(* The news weigh in only if the model read some.                           *)
NewsWeights(k) == IF k.heads THEN NewsScores ELSE {0}

(* How run_candidate ends: a flag returns before the score is looked at.    *)
CandidateVerdict(k, score) ==
    IF k.news = "flagged" THEN "avoid"
    ELSE IF score > Threshold THEN "buy"
    ELSE IF score < -Threshold THEN "avoid" ELSE "watch"

(* apply_circuit_breaker, between run_candidate and its callers' next await. *)
Gated(verdict) == IF tripped /\ verdict = "buy" THEN "avoid" ELSE verdict

(* gather_finnhub_context: earnings and analysts, both optional; then the   *)
(* verdict is out.  The indicators were read at the start, but nobody sees  *)
(* the score before it is summed up here.                                   *)
Context(j) ==
    /\ At(j, "context")
    /\ \E tech \in TechScores, news \in NewsWeights(job[j]),
          consensus \in {0} \cup ConsensusScores :
          LET k == job[j]
              verdict == IF k.kind = "position"
                           THEN PositionVerdict(k)
                           ELSE Gated(CandidateVerdict(k, tech + news + consensus))
          IN  job' = [job EXCEPT ![j] = [Idle EXCEPT
                        !.pc = "verdict", !.kind = k.kind, !.verdict = verdict,
                        !.left = k.left]]
    /\ UNCHANGED <<free, tripped>>

(* The steps that wait for someone who may keep them waiting: neither the    *)
(* feed's client nor the model's has a timeout.                             *)
Untimed(j) == Rss(j) \/ Model(j)

(* Those that end by themselves.                                            *)
Timed(j) == CompanyNews(j) \/ Context(j)
=============================================================================

---------------------------- MODULE ServerProofs ----------------------------
(***************************************************************************)
(* The pipeline keeps its promise, the phases stay apart and the process   *)
(* ends quietly, for any number of symbols, requests, themes and permits.  *)
(***************************************************************************)
EXTENDS Server, FiniteSetTheorems, TLAPS

Before == {"company", "rss", "permit", "llm"}

(* What a job knows fits where it is.                                       *)
Sound(j, k) ==
    /\ k.pc \in Before => k.news = "unread"
    /\ j \in Evaluations => k.kind # "theme"
    /\ j \in Evaluations /\ k.pc \in Before \cup {"context"} =>
            k.kind \in {"position", "candidate"}

Asking == {j \in Jobs : At(j, "llm")}

JobsInv ==
    /\ job \in [Jobs -> Job]
    /\ \A j \in Jobs : Sound(j, job[j])

PermitsInv ==
    /\ free \in Nat
    /\ IsFiniteSet(Asking)
    /\ free + Cardinality(Asking) = LlmPermits

(* Who is where, and whom that keeps quiet.                                 *)
MainInv ==
    /\ main \in {"starting", "joining", "exited", "crashed"} => AllIdle(Requests)
    /\ main = "exited" => loop = "stopped"
    /\ main \in {"starting", "crashed"} => loop = "none"

RestTyped ==
    /\ tripped \in BOOLEAN
    /\ BootTypeOK
    /\ main \in {"starting", "serving", "draining", "joining", "exited", "crashed"}
    /\ loop \in {"none", "priming", "waiting", "positions", "breaker",
                 "candidates", "themes", "stopped"}
    /\ todo \subseteq Themes

ServerInv == JobsInv /\ PermitsInv /\ PhasesApart /\ MainInv /\ RestTyped

-----------------------------------------------------------------------------
(* Jobs *)

(* Only j moves, to a sound place.                                          *)
Moves(j) ==
    /\ job' \in [Jobs -> Job]
    /\ \A i \in Jobs : i # j => job'[i] = job[i]
    /\ Sound(j, job'[j])

LEMMA IdleTyped == Idle \in Job
BY PermitsAssumption DEF Idle, Job

LEMMA Set ==
    ASSUME JobsInv, NEW j \in Jobs, NEW k \in Job, Sound(j, k),
           job' = [job EXCEPT ![j] = k]
    PROVE  Moves(j) /\ job'[j] = k
BY DEF JobsInv, Moves

(* The start of a run. *)
LEMMA RunPositionMoves ==
    ASSUME JobsInv, NEW j \in Evaluations, RunPosition(j)
    PROVE  /\ Moves(j) /\ job'[j].pc = "company"
           /\ job'[j].kind = "position" /\ job'[j].rule \in {"none"} \cup HardVerdicts
           /\ job'[j].news = "unread"
<1>1. PICK rule \in {"none"} \cup HardVerdicts :
         job' = [job EXCEPT ![j] = [Idle EXCEPT !.pc = "company",
                                       !.kind = "position", !.rule = rule]]
  BY DEF RunPosition
<1> DEFINE k == [Idle EXCEPT !.pc = "company", !.kind = "position", !.rule = rule]
<1>2. k \in Job /\ k.pc = "company" /\ k.kind = "position" /\ k.rule = rule
        /\ k.news = "unread"
  BY IdleTyped DEF Idle, Job
<1>3. Sound(j, k)
  BY <1>2 DEF Sound
<1> HIDE DEF k
<1>4. j \in Jobs
  BY DEF Jobs
<1>5. Moves(j) /\ job'[j] = k
  BY <1>1, <1>2, <1>3, <1>4, Set DEF k
<1>6. QED
  BY <1>2, <1>5

LEMMA RunCandidateMoves ==
    ASSUME JobsInv, NEW j \in Evaluations, NEW left \in 0..MaxList,
           RunCandidate(j, left)
    PROVE  /\ Moves(j) /\ job'[j].pc = "company"
           /\ job'[j].kind = "candidate" /\ job'[j].rule = "none"
           /\ job'[j].news = "unread"
<1> DEFINE k == [Idle EXCEPT !.pc = "company", !.kind = "candidate", !.left = left]
<1>1. job' = [job EXCEPT ![j] = k]
  BY DEF RunCandidate
<1>2. k \in Job /\ k.pc = "company" /\ k.kind = "candidate" /\ k.rule = "none"
        /\ k.news = "unread"
  BY IdleTyped DEF Idle, Job
<1>3. Sound(j, k)
  BY <1>2 DEF Sound
<1> HIDE DEF k
<1>4. j \in Jobs
  BY DEF Jobs
<1>5. Moves(j) /\ job'[j] = k
  BY <1>1, <1>2, <1>3, <1>4, Set
<1>6. QED
  BY <1>2, <1>5

(* A job that is put back.                                                  *)
LEMMA ResetMoves ==
    ASSUME JobsInv, NEW j \in Jobs, job' = [job EXCEPT ![j] = Idle]
    PROVE  Moves(j) /\ job'[j].pc = "idle"
<1>1. Sound(j, Idle) /\ Idle.pc = "idle"
  BY DEF Sound, Idle, Before
<1>2. QED
  BY <1>1, IdleTyped, Set

(* A job that goes on with what it knows.                                   *)
LEMMA GoesMoves ==
    ASSUME JobsInv, NEW j \in Jobs,
           NEW pc \in {"ingest", "rss", "permit", "llm", "alert"}, Goes(j, pc),
           pc \in Before => job[j].pc \in Before
    PROVE  Moves(j) /\ job'[j] = [job[j] EXCEPT !.pc = pc]
<1> DEFINE k == [job[j] EXCEPT !.pc = pc]
<1>1. job[j] \in Job /\ Sound(j, job[j])
  BY DEF JobsInv
<1>2. k \in Job /\ k.pc = pc /\ k.news = job[j].news /\ k.kind = job[j].kind
  BY <1>1 DEF Job
<1>3. Sound(j, k)
  BY <1>1, <1>2 DEF Sound, Before
<1>4. job' = [job EXCEPT ![j] = k]
  BY DEF Goes
<1> HIDE DEF k
<1>5. QED
  BY <1>2, <1>3, <1>4, Set DEF k

(* Headlines after news or feed, found or not. *)
LEMMA HeadlinesMoves ==
    ASSUME JobsInv, NEW j \in Jobs, job[j].pc \in {"company", "rss"},
           NEW found \in BOOLEAN, Headlines(j, found)
    PROVE  /\ Moves(j) /\ job'[j].pc \in {"context", "permit"}
           /\ job'[j].kind = job[j].kind /\ job'[j].rule = job[j].rule
           /\ job'[j].news = job[j].news
<1> DEFINE pc == IF job[j].rule # "none" /\ ~found THEN "context" ELSE "permit"
           k == [[job[j] EXCEPT !.heads = found] EXCEPT !.pc = pc]
<1>1. job[j] \in Job /\ Sound(j, job[j])
  BY DEF JobsInv
<1>2. pc \in {"context", "permit"}
  OBVIOUS
<1>3. job' = [job EXCEPT ![j] = k]
  BY DEF Headlines, JobsInv
<1> HIDE DEF pc
<1>4. k \in Job /\ k.pc = pc /\ k.news = job[j].news /\ k.kind = job[j].kind
        /\ k.rule = job[j].rule
  BY <1>1, <1>2 DEF Job
<1> HIDE DEF k
<1>5. Sound(j, k)
  BY <1>1, <1>2, <1>4 DEF Sound, Before
<1>6. Moves(j) /\ job'[j] = k
  BY <1>3, <1>4, <1>5, Set
<1>7. QED
  BY <1>2, <1>4, <1>6

-----------------------------------------------------------------------------
(* What a step of one job is to the promise and to the permits *)

Cases == [j \in Evaluations |-> Case(job[j])]

CaseStep(j) ==
    LET c == Case(job[j])
        d == Case(job'[j])
    IN  \/ d = c
        \/ /\ c.stage # "open"
           /\ \/ \E rule \in {"none", "sell_all", "trim_profit"} :
                    d = Promise!Opened("position", rule)
              \/ d = Promise!Opened("candidate", "none")
        \/ /\ c.stage = "open" /\ c.news = "unread"
           /\ \E news \in {"clean", "flagged"} : d = [c EXCEPT !.news = news]
        \/ /\ c.stage = "open"
           /\ \E advice \in Verdicts :
                /\ Promise!Allows(c, advice)
                /\ d = [stage |-> "advised", advice |-> advice]
        \/ c.stage # "closed" /\ d = Promise!Closed

PermitStep(j) ==
    \/ job[j].pc # "llm" /\ job'[j].pc # "llm" /\ free' = free
    \/ job[j].pc # "llm" /\ job'[j].pc = "llm" /\ free > 0 /\ free' = free - 1
    \/ job[j].pc = "llm" /\ job'[j].pc # "llm" /\ free' = free + 1

JobStep(j) ==
    /\ Moves(j)
    /\ j \in Evaluations => CaseStep(j)
    /\ PermitStep(j)
    /\ tripped' = tripped

LEMMA PromiseStep ==
    ASSUME JobsInv, NEW j \in Jobs, JobStep(j)
    PROVE  [Promise!Next]_<<Cases, tripped>>
<1>1. CASE j \notin Evaluations
  <2>1. Cases' = Cases
    BY <1>1 DEF Cases, JobStep, Moves, Jobs
  <2>2. QED
    BY <2>1 DEF JobStep
<1>2. CASE j \in Evaluations
  <2> DEFINE c == Case(job[j])
             d == Case(job'[j])
  <2>1. Cases' = [Cases EXCEPT ![j] = d] /\ Cases[j] = c
    BY <1>2 DEF Cases, JobStep, Moves, Jobs
  <2>2. tripped' = tripped
    BY DEF JobStep
  <2>3. CASE d = c
    <3>1. Cases' = Cases
      BY <2>1, <2>3 DEF Cases
    <3>2. QED
      BY <3>1, <2>2
  <2>4. CASE /\ c.stage # "open"
             /\ \/ \E rule \in {"none", "sell_all", "trim_profit"} :
                      d = Promise!Opened("position", rule)
                \/ d = Promise!Opened("candidate", "none")
    <3> HIDE DEF c, d
    <3>1. Promise!Open(j)
      BY <2>1, <2>2, <2>4 DEF Promise!Open, Promise!Rules, Cases
    <3>2. QED
      BY <1>2, <3>1 DEF Promise!Next
  <2>5. CASE /\ c.stage = "open" /\ c.news = "unread"
             /\ \E news \in {"clean", "flagged"} : d = [c EXCEPT !.news = news]
    <3> HIDE DEF c, d
    <3>1. Promise!Hear(j)
      BY <2>1, <2>2, <2>5 DEF Promise!Hear, Cases
    <3>2. QED
      BY <1>2, <3>1 DEF Promise!Next
  <2>6. CASE /\ c.stage = "open"
             /\ \E advice \in Verdicts :
                  /\ Promise!Allows(c, advice)
                  /\ d = [stage |-> "advised", advice |-> advice]
    <3> HIDE DEF c, d
    <3>1. Promise!Advise(j)
      BY <2>1, <2>2, <2>6 DEF Promise!Advise, Promise!Rules, Cases, Verdicts, HardVerdicts
    <3>2. QED
      BY <1>2, <3>1 DEF Promise!Next
  <2>7. CASE c.stage # "closed" /\ d = Promise!Closed
    <3> HIDE DEF c, d
    <3>1. Promise!Close(j)
      BY <2>1, <2>2, <2>7 DEF Promise!Close, Cases
    <3>2. QED
      BY <1>2, <3>1 DEF Promise!Next
  <2>8. QED
    BY <1>2, <2>3, <2>4, <2>5, <2>6, <2>7 DEF JobStep, CaseStep
<1>3. QED
  BY <1>1, <1>2

LEMMA PermitsStep ==
    ASSUME PermitsInv, NEW j \in Jobs, Moves(j), PermitStep(j)
    PROVE  PermitsInv'
<1>1. CASE job[j].pc # "llm" /\ job'[j].pc # "llm" /\ free' = free
  <2>1. Asking' = Asking
    BY <1>1 DEF Asking, At, Moves
  <2>2. QED
    BY <1>1, <2>1 DEF PermitsInv
<1>2. CASE job[j].pc # "llm" /\ job'[j].pc = "llm" /\ free > 0 /\ free' = free - 1
  <2>1. Asking' = Asking \cup {j} /\ j \notin Asking
    BY <1>2 DEF Asking, At, Moves
  <2>2. IsFiniteSet(Asking') /\ Cardinality(Asking') = Cardinality(Asking) + 1
    BY <2>1, FS_AddElement DEF PermitsInv
  <2>3. Cardinality(Asking) \in Nat
    BY FS_CardinalityType DEF PermitsInv
  <2>4. QED
    BY <1>2, <2>2, <2>3, PermitsAssumption DEF PermitsInv
<1>3. CASE job[j].pc = "llm" /\ job'[j].pc # "llm" /\ free' = free + 1
  <2>1. Asking' = Asking \ {j} /\ j \in Asking
    BY <1>3 DEF Asking, At, Moves
  <2>2. IsFiniteSet(Asking') /\ Cardinality(Asking') = Cardinality(Asking) - 1
    BY <2>1, FS_RemoveElement DEF PermitsInv
  <2>3. Cardinality(Asking) \in Nat
    BY FS_CardinalityType DEF PermitsInv
  <2>4. QED
    BY <1>3, <2>2, <2>3, PermitsAssumption DEF PermitsInv
<1>4. QED
  BY <1>1, <1>2, <1>3 DEF PermitStep

-----------------------------------------------------------------------------
(* The steps of a job *)

LEMMA Typed ==
    ASSUME JobsInv, NEW j \in Jobs
    PROVE  job[j] \in Job /\ Sound(j, job[j])
BY DEF JobsInv

(* What the promise sees of a job that stays open, or closed.               *)
LEMMA SameCase ==
    ASSUME NEW k, NEW l,
           \/ /\ k.pc \in Before \cup {"context"} /\ l.pc \in Before \cup {"context"}
              /\ l.kind = k.kind /\ l.rule = k.rule /\ l.news = k.news
           \/ /\ k.pc \in {"idle", "queued", "ingest"}
              /\ l.pc \in {"idle", "queued", "ingest"}
           \/ /\ k.pc \in {"verdict", "alert"} /\ l.pc \in {"verdict", "alert"}
              /\ l.verdict = k.verdict
    PROVE  Case(l) = Case(k)
BY DEF Case, Before

LEMMA OpenCase ==
    ASSUME NEW k, k.pc \in Before \cup {"context"}
    PROVE  Case(k) = [stage |-> "open", kind |-> k.kind, rule |-> k.rule,
                      news |-> k.news]
BY DEF Case, Before

LEMMA CompanyNewsStep ==
    ASSUME JobsInv, NEW j \in Jobs, CompanyNews(j)
    PROVE  JobStep(j) /\ job[j].pc # "idle"
<1>1. job[j].pc = "company" /\ free' = free /\ tripped' = tripped
  BY DEF CompanyNews, At
<1>2. /\ Moves(j) /\ job'[j].pc \in {"rss", "context", "permit"}
      /\ job'[j].kind = job[j].kind /\ job'[j].rule = job[j].rule
      /\ job'[j].news = job[j].news
  <2>1. CASE Headlines(j, TRUE)
    BY <1>1, <2>1, HeadlinesMoves
  <2>2. CASE Goes(j, "rss")
    <3>1. Moves(j) /\ job'[j] = [job[j] EXCEPT !.pc = "rss"]
      BY <1>1, <2>2, GoesMoves DEF Before
    <3>2. job[j] \in Job
      BY Typed
    <3>3. QED
      BY <3>1, <3>2 DEF Job
  <2>3. QED
    BY <2>1, <2>2 DEF CompanyNews
<1>3. Case(job'[j]) = Case(job[j])
  BY <1>1, <1>2, SameCase DEF Before
<1>4. QED
  BY <1>1, <1>2, <1>3 DEF JobStep, CaseStep, PermitStep

LEMMA RssStep ==
    ASSUME JobsInv, NEW j \in Jobs, Rss(j)
    PROVE  JobStep(j) /\ job[j].pc # "idle"
<1>1. job[j].pc = "rss" /\ free' = free /\ tripped' = tripped
  BY DEF Rss, At
<1>2. /\ Moves(j) /\ job'[j].pc \in {"context", "permit"}
      /\ job'[j].kind = job[j].kind /\ job'[j].rule = job[j].rule
      /\ job'[j].news = job[j].news
  <2>1. PICK found \in BOOLEAN : Headlines(j, found)
    BY DEF Rss
  <2>2. QED
    BY <1>1, <2>1, HeadlinesMoves
<1>3. Case(job'[j]) = Case(job[j])
  BY <1>1, <1>2, SameCase DEF Before
<1>4. QED
  BY <1>1, <1>2, <1>3 DEF JobStep, CaseStep, PermitStep

LEMMA TakePermitStep ==
    ASSUME JobsInv, NEW j \in Jobs, TakePermit(j)
    PROVE  JobStep(j) /\ job[j].pc # "idle"
<1>1. job[j].pc = "permit" /\ free > 0 /\ free' = free - 1 /\ tripped' = tripped
        /\ Goes(j, "llm")
  BY DEF TakePermit, At
<1>2. Moves(j) /\ job'[j] = [job[j] EXCEPT !.pc = "llm"]
  BY <1>1, GoesMoves DEF Before
<1>3. job'[j].pc = "llm" /\ job'[j].kind = job[j].kind /\ job'[j].rule = job[j].rule
        /\ job'[j].news = job[j].news
  BY <1>2, Typed DEF Job
<1>4. Case(job'[j]) = Case(job[j])
  BY <1>1, <1>3, SameCase DEF Before
<1>5. QED
  BY <1>1, <1>2, <1>3, <1>4 DEF JobStep, CaseStep, PermitStep

LEMMA ModelFailsStep ==
    ASSUME JobsInv, NEW j \in Jobs, ModelFails(j)
    PROVE  JobStep(j) /\ job[j].pc # "idle"
<1> DEFINE k == [[job[j] EXCEPT !.pc = "context"] EXCEPT !.heads = FALSE]
<1>1. job[j].pc = "llm" /\ free' = free + 1 /\ tripped' = tripped
  BY DEF ModelFails, At
<1>2. job' = [job EXCEPT ![j] = k]
  BY DEF ModelFails, JobsInv
<1>3. /\ k \in Job /\ k.pc = "context" /\ k.kind = job[j].kind
      /\ k.rule = job[j].rule /\ k.news = job[j].news
  BY Typed DEF Job
<1> HIDE DEF k
<1>4. Sound(j, k)
  BY <1>1, <1>3, Typed DEF Sound, Before
<1>5. Moves(j) /\ job'[j] = k
  BY <1>2, <1>3, <1>4, Set
<1>6. Case(job'[j]) = Case(job[j])
  BY <1>1, <1>3, <1>5, SameCase DEF Before
<1>7. QED
  BY <1>1, <1>3, <1>5, <1>6 DEF JobStep, CaseStep, PermitStep

(* The model's answer is the news the promise hears of. *)
LEMMA ModelAnswersStep ==
    ASSUME JobsInv, NEW j \in Jobs, ModelAnswers(j)
    PROVE  JobStep(j) /\ job[j].pc # "idle"
<1>1. job[j].pc = "llm" /\ free' = free + 1 /\ tripped' = tripped
  BY DEF ModelAnswers, At
<1>2. PICK news \in {"clean", "flagged"} :
         job' = [job EXCEPT ![j].pc = "context", ![j].news = news,
                   ![j].heads = @ /\ job[j].kind = "candidate" /\ news = "clean"]
  BY DEF ModelAnswers
<1> DEFINE heads == job[j].heads /\ job[j].kind = "candidate" /\ news = "clean"
           k == [[[job[j] EXCEPT !.pc = "context"] EXCEPT !.news = news]
                    EXCEPT !.heads = heads]
<1>3. job' = [job EXCEPT ![j] = k]
  <2>1. job[j] \in Job
    BY Typed
  <2>2. [[job[j] EXCEPT !.pc = "context"] EXCEPT !.news = news].heads = job[j].heads
    BY <2>1 DEF Job
  <2>3. QED
    BY <1>2, <2>2 DEF JobsInv
<1>4. heads \in BOOLEAN
  OBVIOUS
<1> HIDE DEF heads
<1>5. /\ k \in Job /\ k.pc = "context" /\ k.kind = job[j].kind
      /\ k.rule = job[j].rule /\ k.news = news
  BY <1>4, Typed DEF Job
<1> HIDE DEF k
<1>6. Sound(j, k)
  BY <1>1, <1>5, Typed DEF Sound, Before
<1>7. Moves(j) /\ job'[j] = k
  BY <1>3, <1>5, <1>6, Set
<1>8. ASSUME j \in Evaluations
      PROVE  CaseStep(j)
  <2>1. job[j].news = "unread"
    BY <1>1, Typed DEF Sound, Before
  <2>2. /\ Case(job[j]) = [stage |-> "open", kind |-> job[j].kind,
                           rule |-> job[j].rule, news |-> "unread"]
        /\ Case(k) = [stage |-> "open", kind |-> job[j].kind,
                      rule |-> job[j].rule, news |-> news]
    BY <1>1, <1>5, <2>1, OpenCase DEF Before
  <2>3. Case(k) = [Case(job[j]) EXCEPT !.news = news]
    BY <2>2
  <2>4. Case(job[j]).stage = "open" /\ Case(job[j]).news = "unread"
    BY <2>2
  <2>5. QED
    BY <1>7, <2>3, <2>4 DEF CaseStep
<1>9. QED
  BY <1>1, <1>5, <1>7, <1>8 DEF JobStep, PermitStep

(* Only themes are read as themes, and the promise is not about them.       *)
LEMMA ModelReadsThemeStep ==
    ASSUME JobsInv, NEW j \in Jobs, ModelReadsTheme(j)
    PROVE  JobStep(j) /\ job[j].pc # "idle"
<1>1. job[j].pc = "llm" /\ free' = free + 1 /\ tripped' = tripped
        /\ j \notin Evaluations
  BY Typed DEF ModelReadsTheme, At, Sound
<1>2. CASE job' = [job EXCEPT ![j] = Idle]
  BY <1>1, <1>2, ResetMoves DEF JobStep, PermitStep
<1>3. CASE \E verdict \in {"quiet", "relevant"} :
             job' = [job EXCEPT ![j] =
                       [Idle EXCEPT !.pc = "verdict", !.kind = "theme",
                                    !.verdict = verdict]]
  <2>1. PICK verdict \in {"quiet", "relevant"} :
             job' = [job EXCEPT ![j] =
                       [Idle EXCEPT !.pc = "verdict", !.kind = "theme",
                                    !.verdict = verdict]]
    BY <1>3
  <2> DEFINE k == [Idle EXCEPT !.pc = "verdict", !.kind = "theme", !.verdict = verdict]
  <2>2. k \in Job /\ k.pc = "verdict"
    BY IdleTyped DEF Idle, Job
  <2>3. Sound(j, k)
    BY <1>1, <2>2 DEF Sound, Before
  <2> HIDE DEF k
  <2>4. Moves(j) /\ job'[j] = k
    BY <2>1, <2>2, <2>3, Set DEF k
  <2>5. QED
    BY <1>1, <2>2, <2>4 DEF JobStep, PermitStep
<1>4. QED
  BY <1>2, <1>3 DEF ModelReadsTheme

(* The verdict is one the promise allows. *)
LEMMA ContextStep ==
    ASSUME JobsInv, NEW j \in Jobs, Context(j)
    PROVE  JobStep(j) /\ job[j].pc # "idle"
<1>1. job[j].pc = "context" /\ free' = free /\ tripped' = tripped
  BY DEF Context, At
<1> DEFINE k == job[j]
           Verdict(score) == IF k.kind = "position" THEN PositionVerdict(k)
                             ELSE Gated(CandidateVerdict(k, score))
           Next(score) == [Idle EXCEPT !.pc = "verdict", !.kind = k.kind,
                                       !.verdict = Verdict(score), !.left = k.left]
<1>2. \E score : job' = [job EXCEPT ![j] = Next(score)]
  BY DEF Context
<1>3. PICK score : job' = [job EXCEPT ![j] = Next(score)]
  BY <1>2
<1> DEFINE v == Verdict(score)
           l == [Idle EXCEPT !.pc = "verdict", !.kind = k.kind,
                             !.verdict = v, !.left = k.left]
<1>4. job' = [job EXCEPT ![j] = l]
  BY <1>3
<1>5. k \in Job /\ Sound(j, k)
  BY Typed
<1>6. CandidateVerdict(k, score) \in {"avoid", "buy", "watch"}
  BY DEF CandidateVerdict
<1>7. v \in Verdicts
  BY <1>5, <1>6 DEF PositionVerdict, Gated, Verdicts, HardVerdicts, Job
<1>8. ASSUME k.kind = "position" \/ k.kind = "candidate"
      PROVE  Promise!Allows([stage |-> "open", kind |-> k.kind, rule |-> k.rule,
                             news |-> k.news], v)
  <2>1. CASE k.kind = "position"
    <3>1. v = PositionVerdict(k)
      BY <2>1
    <3>2. QED
      BY <2>1, <3>1 DEF PositionVerdict, Promise!Allows
  <2>2. CASE k.kind = "candidate" /\ k.news = "flagged"
    <3>1. CandidateVerdict(k, score) = "avoid"
      BY <2>2 DEF CandidateVerdict
    <3>2. v = "avoid"
      BY <2>2, <3>1 DEF Gated
    <3>3. QED
      BY <2>2, <3>2 DEF Promise!Allows
  <2>3. CASE k.kind = "candidate" /\ k.news # "flagged"
    <3>1. v \in {"watch", "avoid"} \cup (IF tripped THEN {} ELSE {"buy"})
      BY <1>6, <2>3 DEF Gated
    <3>2. QED
      BY <2>3, <3>1 DEF Promise!Allows
  <2>4. QED
    BY <1>8, <2>1, <2>2, <2>3
<1> HIDE DEF v
<1>9. l \in Job /\ l.pc = "verdict" /\ l.verdict = v /\ l.kind = k.kind
  BY <1>5, <1>7, IdleTyped DEF Idle, Job
<1> HIDE DEF l
<1>10. Sound(j, l)
  BY <1>5, <1>9 DEF Sound, Before
<1>11. Moves(j) /\ job'[j] = l
  BY <1>4, <1>9, <1>10, Set
<1>12. ASSUME j \in Evaluations
       PROVE  CaseStep(j)
  <2>1. k.kind = "position" \/ k.kind = "candidate"
    BY <1>1, <1>5, <1>12 DEF Sound
  <2>2. Case(k) = [stage |-> "open", kind |-> k.kind, rule |-> k.rule,
                   news |-> k.news]
    BY <1>1, OpenCase
  <2>3. Case(l) = [stage |-> "advised", advice |-> v]
    BY <1>9 DEF Case
  <2>4. Promise!Allows(Case(k), v) /\ Case(k).stage = "open"
    BY <1>8, <2>1, <2>2
  <2>5. QED
    BY <1>7, <1>11, <2>3, <2>4 DEF CaseStep
<1>13. QED
  BY <1>1, <1>9, <1>11, <1>12 DEF JobStep, PermitStep

(* A case that is opened, and one that is closed.                           *)
LEMMA OpensCase ==
    ASSUME NEW j \in Evaluations, job[j].pc \in {"idle", "ingest", "verdict"},
           job'[j].pc = "company", job'[j].news = "unread",
           \/ job'[j].kind = "position" /\ job'[j].rule \in {"none"} \cup HardVerdicts
           \/ job'[j].kind = "candidate" /\ job'[j].rule = "none"
    PROVE  CaseStep(j)
<1>1. Case(job[j]).stage # "open"
  BY DEF Case
<1>2. Case(job'[j]) = Promise!Opened(job'[j].kind, job'[j].rule)
  BY OpenCase DEF Before, Promise!Opened
<1>3. QED
  BY <1>1, <1>2 DEF CaseStep, HardVerdicts

LEMMA ClosesCase ==
    ASSUME NEW j \in Evaluations, job'[j].pc = "idle"
    PROVE  CaseStep(j)
<1>1. Case(job'[j]) = Promise!Closed
  BY DEF Case, Promise!Closed
<1>2. CASE Case(job[j]).stage = "closed"
  <2>1. Case(job[j]) = Promise!Closed
    BY <1>2 DEF Case, Promise!Closed
  <2>2. QED
    BY <1>1, <2>1 DEF CaseStep
<1>3. QED
  BY <1>1, <1>2 DEF CaseStep

LEMMA StartScanStep ==
    ASSUME JobsInv, NEW j \in Jobs, StartScan(j)
    PROVE  JobStep(j) /\ job[j].pc # "idle"
<1>1. job[j].pc = "queued" /\ free' = free /\ tripped' = tripped /\ Goes(j, "ingest")
  BY DEF StartScan, At
<1>2. Moves(j) /\ job'[j] = [job[j] EXCEPT !.pc = "ingest"]
  BY <1>1, GoesMoves DEF Before
<1>3. job'[j].pc = "ingest"
  BY <1>2, Typed DEF Job
<1>4. Case(job'[j]) = Case(job[j])
  BY <1>1, <1>3, SameCase
<1>5. QED
  BY <1>1, <1>2, <1>3, <1>4 DEF JobStep, CaseStep, PermitStep

LEMMA IngestStep ==
    ASSUME JobsInv, NEW j \in Jobs, Ingest(j)
    PROVE  JobStep(j) /\ job[j].pc # "idle"
<1>1. job[j].pc = "ingest" /\ free' = free /\ tripped' = tripped
  BY DEF Ingest, At
<1>2. CASE job' = [job EXCEPT ![j] = Idle]
  BY <1>1, <1>2, ResetMoves, ClosesCase DEF JobStep, PermitStep
<1>3. CASE j \in Positions /\ RunPosition(j)
  <2>1. j \in Evaluations
    BY <1>3 DEF Evaluations
  <2>2. /\ Moves(j) /\ job'[j].pc = "company" /\ job'[j].news = "unread"
        /\ job'[j].kind = "position" /\ job'[j].rule \in {"none"} \cup HardVerdicts
    BY <1>3, <2>1, RunPositionMoves
  <2>3. CaseStep(j)
    BY <1>1, <2>1, <2>2, OpensCase
  <2>4. QED
    BY <1>1, <2>2, <2>3 DEF JobStep, PermitStep
<1>4. CASE j \in Candidates /\ RunCandidate(j, 0)
  <2>1. j \in Evaluations /\ 0 \in 0..MaxList
    BY <1>4, PermitsAssumption DEF Evaluations
  <2>2. /\ Moves(j) /\ job'[j].pc = "company" /\ job'[j].news = "unread"
        /\ job'[j].kind = "candidate" /\ job'[j].rule = "none"
    BY <1>4, <2>1, RunCandidateMoves
  <2>3. CaseStep(j)
    BY <1>1, <2>1, <2>2, OpensCase
  <2>4. QED
    BY <1>1, <2>2, <2>3 DEF JobStep, PermitStep
<1>5. QED
  BY <1>2, <1>3, <1>4 DEF Ingest

LEMMA LogStep ==
    ASSUME JobsInv, NEW j \in Jobs, Log(j)
    PROVE  JobStep(j) /\ job[j].pc # "idle"
<1>1. job[j].pc = "verdict" /\ free' = free /\ tripped' = tripped
  BY DEF Log, At
<1>2. CASE job' = [job EXCEPT ![j] = Idle]
  BY <1>1, <1>2, ResetMoves, ClosesCase DEF JobStep, PermitStep
<1>3. CASE Goes(j, "alert")
  <2>1. Moves(j) /\ job'[j] = [job[j] EXCEPT !.pc = "alert"]
    BY <1>1, <1>3, GoesMoves DEF Before
  <2>2. job'[j].pc = "alert" /\ job'[j].verdict = job[j].verdict
    BY <2>1, Typed DEF Job
  <2>3. Case(job'[j]) = Case(job[j])
    BY <1>1, <2>2, SameCase
  <2>4. QED
    BY <1>1, <2>1, <2>2, <2>3 DEF JobStep, CaseStep, PermitStep
<1>4. QED
  BY <1>2, <1>3 DEF Log

LEMMA AlertStep ==
    ASSUME JobsInv, NEW j \in Jobs, Alert(j)
    PROVE  JobStep(j) /\ job[j].pc # "idle"
<1>1. job[j].pc = "alert" /\ free' = free /\ tripped' = tripped
        /\ job' = [job EXCEPT ![j] = Idle]
  BY DEF Alert, At
<1>2. QED
  BY <1>1, ResetMoves, ClosesCase DEF JobStep, PermitStep

LEMMA AskStep ==
    ASSUME JobsInv, NEW r \in Requests, Ask(r)
    PROVE  JobStep(r) /\ main = "serving"
<1>1. job[r].pc = "idle" /\ free' = free /\ tripped' = tripped /\ main = "serving"
  BY DEF Ask, At
<1>2. r \in Evaluations /\ r \in Jobs
  BY DEF Evaluations, Jobs
<1>3. /\ Moves(r) /\ job'[r].pc = "company" /\ job'[r].news = "unread"
      /\ \/ job'[r].kind = "position" /\ job'[r].rule \in {"none"} \cup HardVerdicts
         \/ job'[r].kind = "candidate" /\ job'[r].rule = "none"
  <2>1. CASE RunPosition(r)
    BY <1>2, <2>1, RunPositionMoves
  <2>2. ASSUME NEW n \in 1..MaxList, RunCandidate(r, n - 1)
        PROVE  /\ Moves(r) /\ job'[r].pc = "company" /\ job'[r].news = "unread"
               /\ job'[r].kind = "candidate" /\ job'[r].rule = "none"
    <3>1. n - 1 \in 0..MaxList
      BY PermitsAssumption
    <3>2. QED
      BY <1>2, <2>2, <3>1, RunCandidateMoves
  <2>3. QED
    BY <2>1, <2>2 DEF Ask
<1>4. CaseStep(r)
  BY <1>1, <1>2, <1>3, OpensCase
<1>5. QED
  BY <1>1, <1>2, <1>3, <1>4 DEF JobStep, PermitStep

LEMMA AskNextStep ==
    ASSUME JobsInv, NEW j \in Jobs, AskNext(j)
    PROVE  JobStep(j) /\ job[j].pc # "idle"
<1>1. job[j].pc = "verdict" /\ free' = free /\ tripped' = tripped
        /\ RunCandidate(j, job[j].left - 1) /\ job[j].left > 0
  BY DEF AskNext, At
<1>2. j \in Evaluations
  BY DEF AskNext, Evaluations
<1>3. job[j].left - 1 \in 0..MaxList
  <2>1. job[j].left \in 0..MaxList
    BY Typed DEF Job
  <2>2. QED
    BY <1>1, <2>1, PermitsAssumption
<1>4. /\ Moves(j) /\ job'[j].pc = "company" /\ job'[j].news = "unread"
      /\ job'[j].kind = "candidate" /\ job'[j].rule = "none"
  BY <1>1, <1>2, <1>3, RunCandidateMoves
<1>5. CaseStep(j)
  BY <1>1, <1>2, <1>4, OpensCase
<1>6. QED
  BY <1>1, <1>4, <1>5 DEF JobStep, PermitStep

LEMMA HangUpStep ==
    ASSUME JobsInv, NEW r \in Requests, HangUp(r)
    PROVE  JobStep(r) /\ job[r].pc # "idle" /\ job'[r].pc = "idle"
<1>1. job[r].pc # "idle" /\ tripped' = tripped /\ job' = [job EXCEPT ![r] = Idle]
        /\ free' = IF job[r].pc = "llm" THEN free + 1 ELSE free
  BY DEF HangUp, At
<1>2. r \in Evaluations /\ r \in Jobs
  BY DEF Evaluations, Jobs
<1>3. QED
  BY <1>1, <1>2, ResetMoves, ClosesCase DEF JobStep, PermitStep

LEMMA CheckThemeStep ==
    ASSUME JobsInv, NEW t \in Themes, At(t, "idle"), CheckTheme(t),
           free' = free, tripped' = tripped
    PROVE  JobStep(t)
<1> DEFINE k == [Idle EXCEPT !.pc = "rss", !.kind = "theme"]
<1>1. t \in Jobs /\ t \notin Evaluations
  BY JobsAssumption DEF Jobs, Evaluations
<1>2. k \in Job /\ k.pc = "rss" /\ k.news = "unread"
  BY IdleTyped DEF Idle, Job
<1>3. Sound(t, k)
  BY <1>1, <1>2 DEF Sound
<1>4. job' = [job EXCEPT ![t] = k]
  BY DEF CheckTheme
<1> HIDE DEF k
<1>5. Moves(t) /\ job'[t] = k
  BY <1>1, <1>2, <1>3, <1>4, Set
<1>6. QED
  BY <1>1, <1>2, <1>5 DEF JobStep, PermitStep, At

-----------------------------------------------------------------------------
(* The steps of loop and main *)

(* Whoever is moved without being woken belongs to the phase that runs.     *)
LEMMA BusyStep ==
    ASSUME ServerInv, NEW j \in Jobs, JobStep(j), job[j].pc # "idle",
           boot' = boot, main' = main, loop' = loop, todo' \subseteq Themes
    PROVE  ServerInv'
<1> USE DEF ServerInv
<1>1. JobsInv'
  BY DEF JobsInv, JobStep, Moves
<1>2. PermitsInv'
  BY PermitsStep DEF JobStep
<1>3. ASSUME NEW S, S \subseteq Jobs, AllIdle(S)
      PROVE  AllIdle(S)'
  BY <1>3 DEF AllIdle, At, JobStep, Moves
<1>4. PhasesApart'
  BY <1>3 DEF PhasesApart, Jobs, Evaluations
<1>5. MainInv'
  BY <1>3 DEF MainInv, Jobs, Evaluations
<1>6. RestTyped'
  BY DEF RestTyped, JobStep, BootTypeOK
<1>7. QED
  BY <1>1, <1>2, <1>4, <1>5, <1>6

(* No job moves, the breaker may be set. *)
LEMMA StillStep ==
    ASSUME ServerInv, job' = job, free' = free, tripped' \in BOOLEAN
    PROVE  JobsInv' /\ PermitsInv' /\ [Promise!Next]_<<Cases, tripped>>
<1>1. JobsInv'
  BY DEF ServerInv, JobsInv
<1>2. PermitsInv'
  <2>1. Asking' = Asking
    BY DEF Asking, At
  <2>2. QED
    BY <2>1 DEF ServerInv, PermitsInv
<1>3. Cases' = Cases
  BY DEF Cases
<1>4. Promise!Next
  BY <1>3 DEF Promise!Next, Promise!SetBreaker, Cases
<1>5. QED
  BY <1>1, <1>2, <1>4

(* A phase is queued while none of its jobs is under way; the promise sees  *)
(* nothing of it.                                                           *)
LEMMA QueueStep ==
    ASSUME ServerInv, NEW symbols, symbols \subseteq Evaluations, AllIdle(symbols),
           Queue(symbols), free' = free, tripped' \in BOOLEAN
    PROVE  /\ JobsInv' /\ PermitsInv' /\ [Promise!Next]_<<Cases, tripped>>
           /\ \A j \in Jobs \ symbols : job'[j] = job[j]
<1> DEFINE k == [Idle EXCEPT !.pc = "queued"]
<1>1. k \in Job /\ k.pc = "queued"
  BY IdleTyped DEF Idle, Job
<1>2. \A j \in Jobs : job'[j] = IF j \in symbols THEN k ELSE job[j]
  BY DEF Queue
<1> HIDE DEF k
<1>3. JobsInv'
  <2>1. job' \in [Jobs -> Job]
    BY <1>1 DEF ServerInv, JobsInv, Queue, k
  <2>2. ASSUME NEW j \in symbols
        PROVE  Sound(j, job'[j])
    <3>1. k.kind = "none"
      BY IdleTyped DEF k, Idle, Job
    <3>2. QED
      BY <1>1, <1>2, <3>1 DEF Sound, Before, Jobs
  <2>3. QED
    BY <1>2, <2>1, <2>2 DEF ServerInv, JobsInv
<1>4. PermitsInv'
  <2>1. Asking' = Asking
    BY <1>1, <1>2 DEF Asking, At, AllIdle
  <2>2. QED
    BY <2>1 DEF ServerInv, PermitsInv
<1>5. Cases' = Cases
  <2>1. ASSUME NEW j \in symbols
        PROVE  Case(job'[j]) = Case(job[j])
    <3>1. job[j].pc = "idle" /\ job'[j] = k
      BY <1>2 DEF AllIdle, At, Jobs
    <3>2. QED
      BY <1>1, <3>1, SameCase
  <2>2. QED
    BY <1>2, <2>1 DEF Cases, Jobs
<1>6. Promise!Next
  BY <1>5 DEF Promise!Next, Promise!SetBreaker, Cases
<1>7. QED
  BY <1>2, <1>3, <1>4, <1>6

Good == ServerInv' /\ [Promise!Next]_<<Cases, tripped>>

LEMMA JobsStep ==
    ASSUME ServerInv, NEW j \in Jobs, Answers(j) \/ Proceeds(j)
    PROVE  Good
<1>1. JobsInv
  BY DEF ServerInv
<1>2. boot' = boot /\ main' = main /\ loop' = loop /\ todo' \subseteq Themes
  <2>1. todo' \in {todo, {}}
    BY DEF Answers, Proceeds, Log
  <2>2. QED
    BY <2>1 DEF Answers, Proceeds, ServerInv, RestTyped
<1>3. JobStep(j) /\ job[j].pc # "idle"
  <2>1. CASE Answers(j)
    BY <1>1, <2>1, RssStep, ModelFailsStep, ModelAnswersStep, ModelReadsThemeStep,
       AlertStep DEF Answers, Untimed, Model
  <2>2. CASE Proceeds(j)
    BY <1>1, <2>2, LogStep, StartScanStep, IngestStep, CompanyNewsStep, ContextStep,
       TakePermitStep, AskNextStep DEF Proceeds, Timed
  <2>3. QED
    BY <2>1, <2>2
<1>4. QED
  BY <1>1, <1>2, <1>3, BusyStep, PromiseStep DEF Good

LEMMA AsksStep ==
    ASSUME ServerInv, Asks
    PROVE  Good
<1>1. PICK r \in Requests : Ask(r) \/ HangUp(r)
  BY DEF Asks
<1>2. boot' = boot /\ main' = main /\ loop' = loop /\ todo' = todo
  BY DEF Asks
<1>3. JobsInv /\ r \in Jobs
  BY DEF ServerInv, Jobs, Evaluations
<1>4. CASE HangUp(r)
  <2>1. JobStep(r) /\ job[r].pc # "idle"
    BY <1>3, <1>4, HangUpStep
  <2>2. todo' \subseteq Themes
    BY <1>2 DEF ServerInv, RestTyped
  <2>3. QED
    BY <1>2, <1>3, <2>1, <2>2, BusyStep, PromiseStep DEF Good
<1>5. CASE Ask(r)
  <2>1. JobStep(r) /\ main = "serving"
    BY <1>3, <1>5, AskStep
  <2>2. JobsInv'
    BY <2>1 DEF ServerInv, JobsInv, JobStep, Moves
  <2>3. PermitsInv'
    BY <1>3, <2>1, PermitsStep DEF ServerInv, JobStep
  <2>4. PhasesApart'
    BY <1>2, <2>1, JobsAssumption
    DEF ServerInv, PhasesApart, AllIdle, At, JobStep, Moves, Jobs, Evaluations
  <2>5. MainInv'
    BY <1>2, <2>1 DEF ServerInv, MainInv
  <2>6. RestTyped'
    BY <1>2, <2>1 DEF ServerInv, RestTyped, JobStep, BootTypeOK
  <2>7. QED
    BY <1>3, <2>1, <2>2, <2>3, <2>4, <2>5, <2>6, PromiseStep DEF Good, ServerInv
<1>6. QED
  BY <1>1, <1>4, <1>5

LEMMA StartCycleStep ==
    ASSUME ServerInv, StartCycle, boot' = boot, main' = main
    PROVE  Good
<1>1. loop = "waiting" /\ free' = free /\ tripped' = tripped /\ tripped \in BOOLEAN
  BY DEF StartCycle, ServerInv, RestTyped
<1>2. CASE /\ \E held \in SUBSET Positions : Queue(held)
           /\ loop' = "positions" /\ todo' = todo
  <2>1. PICK held \in SUBSET Positions : Queue(held)
    BY <1>2
  <2>2. AllIdle(held) /\ held \subseteq Evaluations
    BY <1>1 DEF ServerInv, PhasesApart, AllIdle, Evaluations
  <2>3. /\ JobsInv' /\ PermitsInv' /\ [Promise!Next]_<<Cases, tripped>>
        /\ \A j \in Jobs \ held : job'[j] = job[j]
    BY <1>1, <2>1, <2>2, QueueStep
  <2>4. PhasesApart'
    BY <1>1, <1>2, <2>3, JobsAssumption
    DEF ServerInv, PhasesApart, AllIdle, At, Jobs, Evaluations
  <2>5. MainInv'
    BY <1>1, <1>2, <2>3, JobsAssumption
    DEF ServerInv, MainInv, AllIdle, At, Jobs, Evaluations
  <2>6. RestTyped'
    BY <1>1, <1>2 DEF ServerInv, RestTyped, BootTypeOK
  <2>7. QED
    BY <2>3, <2>4, <2>5, <2>6 DEF Good, ServerInv
<1>3. CASE loop' = "themes" /\ todo' \in SUBSET Themes /\ job' = job
  <2>1. JobsInv' /\ PermitsInv' /\ [Promise!Next]_<<Cases, tripped>>
    BY <1>1, <1>3, StillStep
  <2>2. PhasesApart' /\ MainInv' /\ RestTyped'
    BY <1>1, <1>3
    DEF ServerInv, PhasesApart, MainInv, RestTyped, BootTypeOK, AllIdle, At
  <2>3. QED
    BY <2>1, <2>2 DEF Good, ServerInv
<1>4. QED
  BY <1>2, <1>3 DEF StartCycle

LEMMA LoopStep ==
    ASSUME ServerInv, LoopGoesOn
    PROVE  Good
<1>1. boot' = boot /\ main' = main
  BY DEF LoopGoesOn
<1>2. CASE Prime \/ JoinPositions \/ JoinCandidates \/ EndCycle
  <2>1. job' = job /\ free' = free /\ tripped' = tripped /\ tripped' \in BOOLEAN
    BY <1>2 DEF Prime, JoinPositions, JoinCandidates, EndCycle, pipelineVars,
                ServerInv, RestTyped
  <2>2. JobsInv' /\ PermitsInv' /\ [Promise!Next]_<<Cases, tripped>>
    BY <2>1, StillStep
  <2>3. PhasesApart' /\ MainInv' /\ RestTyped'
    BY <1>1, <1>2, <2>1
    DEF Prime, JoinPositions, JoinCandidates, EndCycle, ServerInv, PhasesApart,
        MainInv, RestTyped, BootTypeOK, AllIdle, At
  <2>4. QED
    BY <2>2, <2>3 DEF Good, ServerInv
<1>3. CASE UpdateBreaker
  <2>1. loop = "breaker" /\ loop' = "candidates" /\ free' = free /\ todo' = todo
          /\ tripped' \in BOOLEAN
    BY <1>3 DEF UpdateBreaker
  <2>2. PICK listed \in SUBSET Candidates : Queue(listed)
    BY <1>3 DEF UpdateBreaker
  <2>3. AllIdle(listed) /\ listed \subseteq Evaluations
    BY <2>1 DEF ServerInv, PhasesApart, AllIdle, Evaluations
  <2>4. /\ JobsInv' /\ PermitsInv' /\ [Promise!Next]_<<Cases, tripped>>
        /\ \A j \in Jobs \ listed : job'[j] = job[j]
    BY <2>1, <2>2, <2>3, QueueStep
  <2>5. PhasesApart'
    BY <2>1, <2>4, JobsAssumption
    DEF ServerInv, PhasesApart, AllIdle, At, Jobs, Evaluations
  <2>6. MainInv'
    BY <1>1, <2>1, <2>4, JobsAssumption
    DEF ServerInv, MainInv, AllIdle, At, Jobs, Evaluations
  <2>7. RestTyped'
    BY <1>1, <2>1 DEF ServerInv, RestTyped, BootTypeOK
  <2>8. QED
    BY <2>4, <2>5, <2>6, <2>7 DEF Good, ServerInv
<1>4. CASE NextTheme
  <2>1. /\ loop = "themes" /\ loop' = loop /\ AllIdle(Themes)
        /\ free' = free /\ tripped' = tripped
    BY <1>4 DEF NextTheme
  <2>2. PICK t \in todo : CheckTheme(t) /\ todo' = todo \ {t}
    BY <1>4 DEF NextTheme
  <2>3. t \in Themes /\ t \in Jobs /\ At(t, "idle") /\ todo' \subseteq Themes
    BY <2>1, <2>2 DEF ServerInv, RestTyped, AllIdle, Jobs
  <2>4. JobStep(t)
    BY <2>1, <2>2, <2>3, CheckThemeStep DEF ServerInv
  <2>5. JobsInv'
    BY <2>4 DEF ServerInv, JobsInv, JobStep, Moves
  <2>6. PermitsInv'
    BY <2>3, <2>4, PermitsStep DEF ServerInv, JobStep
  <2>7. PhasesApart'
    BY <2>1, <2>3, <2>4, JobsAssumption
    DEF ServerInv, PhasesApart, AllIdle, At, JobStep, Moves, Jobs, Evaluations
  <2>8. MainInv'
    BY <1>1, <2>1, <2>3, <2>4, JobsAssumption
    DEF ServerInv, MainInv, AllIdle, At, JobStep, Moves, Jobs, Evaluations
  <2>9. RestTyped'
    BY <1>1, <2>1, <2>3 DEF ServerInv, RestTyped, BootTypeOK
  <2>10. QED
    BY <2>3, <2>4, <2>5, <2>6, <2>7, <2>8, <2>9, PromiseStep DEF Good, ServerInv
<1>5. QED
  BY <1>2, <1>3, <1>4 DEF LoopGoesOn

LEMMA MainStep ==
    ASSUME ServerInv, Stops \/ Boots \/ MainGoesOn \/ Signal \/ Redeploy
    PROVE  Good
<1>1. job' = job /\ free' = free /\ tripped' \in BOOLEAN
  BY DEF Stops, StopLoop, Boots, MainGoesOn, Serve, Panic, Drained, Exit, Signal,
         Redeploy, pipelineVars, ServerInv, RestTyped
<1>2. JobsInv' /\ PermitsInv' /\ [Promise!Next]_<<Cases, tripped>>
  BY <1>1, StillStep
<1>3. ASSUME NEW S
      PROVE  AllIdle(S)' = AllIdle(S)
  BY <1>1 DEF AllIdle, At
<1>4. BootTypeOK'
  <2>1. CASE FetchBars
    BY <2>1 DEF FetchBars, Processed, BootTypeOK, Reports
  <2>2. CASE FetchNews
    BY <2>2 DEF FetchNews, BootTypeOK
  <2>3. CASE Decide
    BY <2>3 DEF Decide, BootTypeOK, Reports
  <2>4. CASE Serve \/ Redeploy
    BY <2>4 DEF Serve, Redeploy, BootTypeOK
  <2>5. CASE Stops \/ Panic \/ Drained \/ Exit \/ Signal
    <3>1. boot' = boot /\ BootTypeOK
      BY <2>5 DEF Stops, Panic, Drained, Exit, Signal, ServerInv, RestTyped
    <3>2. QED
      BY <3>1 DEF BootTypeOK
  <2>6. QED
    BY <2>1, <2>2, <2>3, <2>4, <2>5 DEF Boots, Boot, MainGoesOn
<1>5. RestTyped'
  BY <1>1, <1>4
  DEF Stops, StopLoop, Boots, MainGoesOn, Serve, Panic, Drained, Exit, Signal,
      Redeploy, ServerInv, RestTyped
<1>6. /\ AllIdle(Positions)' = AllIdle(Positions)
      /\ AllIdle(Candidates)' = AllIdle(Candidates)
      /\ AllIdle(Themes)' = AllIdle(Themes)
      /\ AllIdle(Requests)' = AllIdle(Requests)
  BY <1>3
<1>7. PhasesApart'
  <2>1. CASE Stops
    BY <1>6, <2>1 DEF Stops, StopLoop, ServerInv, PhasesApart
  <2>2. CASE Boots \/ Panic \/ Drained \/ Exit \/ Signal
    BY <1>6, <2>2 DEF Boots, Panic, Drained, Exit, Signal, ServerInv, PhasesApart
  <2>3. CASE Serve \/ Redeploy
    BY <1>6, <2>3 DEF Serve, Redeploy, ServerInv, PhasesApart, MainInv
  <2>4. QED
    BY <2>1, <2>2, <2>3 DEF MainGoesOn
<1>8. MainInv'
  <2>1. CASE Stops \/ Boots \/ Serve
    BY <1>6, <2>1 DEF Stops, StopLoop, Boots, Serve, ServerInv, MainInv
  <2>2. CASE Panic \/ Drained \/ Exit
    BY <1>6, <2>2 DEF Panic, Drained, Exit, ServerInv, MainInv
  <2>3. CASE Signal \/ Redeploy
    BY <1>6, <2>3 DEF Signal, Redeploy, ServerInv, MainInv
  <2>4. QED
    BY <2>1, <2>2, <2>3 DEF MainGoesOn
<1>9. QED
  BY <1>2, <1>5, <1>7, <1>8 DEF Good, ServerInv

LEMMA ServerStep ==
    ASSUME ServerInv, [ServerNext]_serverVars
    PROVE  Good
<1>1. CASE \E j \in Jobs : Answers(j) \/ Proceeds(j)
  BY <1>1, JobsStep
<1>2. CASE Asks
  BY <1>2, AsksStep
<1>3. CASE LoopGoesOn
  BY <1>3, LoopStep
<1>4. CASE StartCycle /\ UNCHANGED <<boot, main>>
  BY <1>4, StartCycleStep
<1>5. CASE Stops \/ Boots \/ MainGoesOn \/ Signal \/ Redeploy
  BY <1>5, MainStep
<1>6. CASE UNCHANGED serverVars
  <2>1. /\ job' = job /\ free' = free /\ tripped' = tripped
        /\ boot' = boot /\ main' = main /\ loop' = loop /\ todo' = todo
    BY <1>6 DEF serverVars, pipelineVars
  <2>2. tripped' \in BOOLEAN
    BY <2>1 DEF ServerInv, RestTyped
  <2>3. JobsInv' /\ PermitsInv' /\ [Promise!Next]_<<Cases, tripped>>
    BY <2>1, <2>2, StillStep
  <2>4. PhasesApart' /\ MainInv' /\ RestTyped'
    BY <2>1
    DEF ServerInv, PhasesApart, MainInv, RestTyped, BootTypeOK, AllIdle, At
  <2>5. QED
    BY <2>3, <2>4 DEF Good, ServerInv
<1>7. QED
  BY <1>1, <1>2, <1>3, <1>4, <1>5, <1>6 DEF ServerNext

LEMMA ServerStart ==
    ASSUME ServerInit
    PROVE  ServerInv /\ Promise!Init
<1>1. /\ job = [j \in Jobs |-> Idle] /\ free = LlmPermits /\ tripped = FALSE
      /\ boot = "bars" /\ main = "starting" /\ loop = "none" /\ todo = {}
  BY DEF ServerInit, PipelineInit, BootInit
<1>2. Idle.pc = "idle" /\ Idle.kind = "none"
  BY DEF Idle
<1>3. \A j \in Jobs : job[j] = Idle /\ Sound(j, job[j])
  BY <1>1, <1>2 DEF Sound, Before
<1>4. JobsInv
  BY <1>1, <1>3, IdleTyped DEF JobsInv
<1>5. PermitsInv
  <2>1. Asking = {}
    BY <1>2, <1>3 DEF Asking, At
  <2>2. QED
    BY <1>1, <2>1, FS_EmptySet, PermitsAssumption DEF PermitsInv
<1>6. AllIdle(Jobs)
  BY <1>2, <1>3 DEF AllIdle, At
<1>7. PhasesApart /\ MainInv
  BY <1>1, <1>6 DEF PhasesApart, MainInv, AllIdle, Jobs, Evaluations
<1>8. RestTyped
  BY <1>1 DEF RestTyped, BootTypeOK
<1>9. Promise!Init
  <2>1. Case(Idle) = Promise!Closed
    BY <1>2 DEF Case, Promise!Closed
  <2>2. Cases = [j \in Evaluations |-> Promise!Closed]
    BY <1>3, <2>1 DEF Cases, Jobs
  <2>3. QED
    BY <1>1, <2>2 DEF Promise!Init, Cases
<1>10. QED
  BY <1>4, <1>5, <1>7, <1>8, <1>9 DEF ServerInv

-----------------------------------------------------------------------------
(* Theorems *)

(* In every reachable state jobs are sound, permits add up and the phases   *)
(* are apart (Server.tla: pipeline, scanner loop and main together).        *)
THEOREM ServerInvAlways == ServerSpec => []ServerInv
<1>1. ServerInit => ServerInv
  BY ServerStart
<1>2. ServerInv /\ [ServerNext]_serverVars => ServerInv'
  BY ServerStep DEF Good
<1>3. QED
  BY <1>1, <1>2, PTL DEF ServerSpec

(* Every variable keeps its type; the semaphore before the local model      *)
(* never counts below zero nor above LLM_CONCURRENCY.                       *)
THEOREM ServerTypeCorrect == ServerSpec => []ServerTypeOK
<1>1. ServerInv => ServerTypeOK
  <2> SUFFICES ASSUME ServerInv
               PROVE  ServerTypeOK
    OBVIOUS
  <2>1. free \in 0..LlmPermits
    <3>1. Cardinality(Asking) \in Nat
      BY FS_CardinalityType DEF ServerInv, PermitsInv
    <3>2. QED
      BY <3>1, PermitsAssumption DEF ServerInv, PermitsInv
  <2>2. QED
    BY <2>1 DEF ServerInv, JobsInv, RestTyped, ServerTypeOK, PipelineTypeOK
<1>2. QED
  BY <1>1, ServerInvAlways, PTL

(* scan_once joins one phase before it starts the next, and the loop one    *)
(* cycle before the next: nothing of the scanner runs outside its phase.    *)
THEOREM PhasesApartAlways == ServerSpec => []PhasesApart
<1>1. ServerInv => PhasesApart
  BY DEF ServerInv
<1>2. QED
  BY <1>1, ServerInvAlways, PTL

(* main joins the server, then the scanner: when the process exits nothing   *)
(* is under way and every permit of the model is back.                      *)
THEOREM ExitIsQuietAlways == ServerSpec => []ExitIsQuiet
<1>1. ServerInv => ExitIsQuiet
  <2> SUFFICES ASSUME ServerInv, main = "exited"
               PROVE  AllIdle(Jobs) /\ free = LlmPermits /\ loop = "stopped"
    BY DEF ExitIsQuiet
  <2>1. loop = "stopped"
    BY DEF ServerInv, MainInv
  <2>2. AllIdle(Jobs)
    BY <2>1 DEF ServerInv, PhasesApart, MainInv, AllIdle, Jobs, Evaluations
  <2>3. Asking = {}
    BY <2>2 DEF Asking, AllIdle, At
  <2>4. free = LlmPermits
    BY <2>3, FS_EmptySet DEF ServerInv, PermitsInv
  <2>5. QED
    BY <2>1, <2>2, <2>4
<1>2. QED
  BY <1>1, ServerInvAlways, PTL

(* run_position, run_candidate and apply_circuit_breaker, interleaved at     *)
(* every await with one another and with the breaker, implement the promise *)
(* of Advice: rules are authoritative, a flag escalates or rules out, no    *)
(* Buy leaves against the breaker.                                          *)
THEOREM AdviceImplemented == ServerSpec => ImplementsAdvice
<1>1. ServerInit => Promise!Init
  BY ServerStart
<1>2. ServerInv /\ [ServerNext]_serverVars => [Promise!Next]_<<Cases, tripped>>
  BY ServerStep DEF Good
<1>3. QED
  BY <1>1, <1>2, ServerInvAlways, PTL
  DEF ServerSpec, ImplementsAdvice, Promise!Spec, Cases
=============================================================================

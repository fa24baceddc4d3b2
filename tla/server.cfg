SPECIFICATION RestartedSpec
CONSTANTS
    Positions = {p1, p2}
    Candidates = {c1}
    Requests = {r1}
    Themes = {t1, t2}
    LlmPermits = 1
    MaxScans = 1
    MaxList = 2
    TechScores <- Technical
    NewsScores <- News
    ConsensusScores <- Consensus
INVARIANTS
    ServerTypeOK
    PhasesApart
    ExitIsQuiet
PROPERTIES
    ImplementsAdvice
    CyclesEnd
    ShutdownEnds
    ServesWithoutDemo

SPECIFICATION ServerFairSpec
CONSTANTS
    Positions = {p1}
    Candidates = {c1}
    Requests = {r1}
    Themes = {}
    LlmPermits = 1
    MaxScans = 1
    MaxList = 1
    TechScores <- Technical
    NewsScores <- News
    ConsensusScores <- Consensus
PROPERTIES
    SellNotDelayed

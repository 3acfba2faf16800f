SPECIFICATION Spec
CONSTANTS
    NumEnvs = 2
    Target = 2
    MaxDecisions = 3
    Masks <- MCMasks
    Holes = {"pair", "other"}
    Rewards <- MCRewards
    Anchors <- MCAnchors
INVARIANTS
    LegalWhenPlayed SeatsBalanced HistogramIsPlayed
PROPERTIES CreditFollowsTheSeat

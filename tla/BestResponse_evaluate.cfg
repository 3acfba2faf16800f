SPECIFICATION Spec
CONSTANTS
    NumEnvs = 1
    Target = 2
    MaxDecisions = 4
    Masks <- MCMasks
    Holes = {"any"}
    Rewards <- MCRewards
    Configs <- MCConfigs
    NumSteps = 3
    UpdatesPerEval = 2
    Critic <- MCCritic
    Gamma = 1
    Lambda = 1
    MaxCalls = 2
INVARIANTS
    LearnsFromItsOwn TargetsAreHandResults SeedsIndependent BestIsReported

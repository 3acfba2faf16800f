SPECIFICATION RunSpec
CONSTANTS
    Envs = {e1}
    NumSteps = 5
    MaxUpdates = 3
    MaxSize = 1
    SnapshotEvery = 1
    WarmupUpdates = 1
    MaxUniquePerRollout = 1
    NumMinibatches = 2
    MagnetEvery = 1
    LeagueEvery = 2
    BestResponseEvery = 3
    Gamma = 2
    Lambda = 3
    Rewards <- MCRewards
    Critic <- MCCritic
INVARIANTS
    IInv EveryDecisionStored OnlyLiveActionsStored AdvantagesStayInTheHand

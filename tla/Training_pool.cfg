SPECIFICATION RunSpec
CONSTANTS
    Envs = {e1, e2}
    NumSteps = 2
    MaxUpdates = 5
    MaxSize = 2
    SnapshotEvery = 1
    WarmupUpdates = 1
    MaxUniquePerRollout = 1
    NumMinibatches = 2
    MagnetEvery = 1
    LeagueEvery = 2
    BestResponseEvery = 3
    Gamma = 1
    Lambda = 1
    Rewards <- MCOneReward
    Critic <- MCCritic
SYMMETRY Symmetry
INVARIANTS
    FreshHandsMeetFewSnapshots EverySampleOncePerEpoch
    SnapshotsArePastSelves FilesTellOneRun

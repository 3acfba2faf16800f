SPECIFICATION FairSpec
CONSTANTS
    Hands = 2
    Masks <- MCMasks
    Utilities <- MCUtilities
    MaxDecisions = 3
INVARIANTS
    AnswersInStep StepsAreLegal SessionIsRecorded
PROPERTIES NobodyIsLeftWaiting

SPECIFICATION EnvSpec
CONSTANTS
    InitialStack = 480
    SmallBlind = 30
    BigBlind = 60
    MinBet = 60
    MaxRaises = 3
    Percents = {40, 41, 100}
    AllInSlot = TRUE
    LostInProduct <- MCLostInProduct
    FoundInSum <- MCFoundInSum
    NegativeCast = {"wrap"}
    CardSlots = 9
    Hole <- MCHole
    Community <- MCCommunity
    Lengths = {3, 16}
INVARIANTS
    IInv ChipsConserved Level TableIsTheMenu HistoryTellsTheHand
    LastActionsReachTheNetwork InputTellsOneHand
PROPERTIES ImplementsHandView BothActed HandMakesProgress

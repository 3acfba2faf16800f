SPECIFICATION Spec
CONSTANTS
    InitialStack = 20
    SmallBlind = 1
    BigBlind = 2
    MinBet = 2
    MaxRaises = 2
    Percents = {50, 100}
    AllInSlot = TRUE
    LostInProduct = {}
    FoundInSum = {}
    NegativeCast = {"wrap"}
INVARIANT TieReturnsContributions

SPECIFICATION DealSpec
CONSTANTS
    RANKS = 7
    SUITS = 4
    CardsPerRound <- MCCardsPerRound
    Shuffles <- MCShuffles
INVARIANTS
    NumbersAreCanonical NothingHiddenShows FeaturesTellTheHand

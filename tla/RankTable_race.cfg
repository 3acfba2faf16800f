SPECIFICATION Spec
CONSTANTS
    Threads = {t1, t2}
    Ranks = {1, 2}
    MaxShowdowns = 2
INVARIANTS HigherRankPicked

SPECIFICATION FairSpec
CONSTANTS
    Workers = {w1, w2}
    MaxJobs = 2
    MaxCalls = 2
PROPERTY ParallelForReturns

SPECIFICATION FairSpec
CONSTANTS
    Workers = {w1, w2, w3}
    MaxJobs = 3
    MaxCalls = 3
INVARIANTS
    IInv
PROPERTIES ImplementsBatch EveryJobRuns CleanCallReturns DestructorReturns

\* Three calls of three threads, batches of two, and a writer of its own.
CONSTANTS
    Thread = {t1, t2, t3}
    MaxBatch = 2
    MaxCalls = 3
    MaxOther = 0
    NoOne = NoOne
    Other = Other
SPECIFICATION FairSpec
PROPERTY EveryCallReturns

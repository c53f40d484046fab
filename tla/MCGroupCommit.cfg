\* Three threads and batches of two: a backlog larger than a batch, a leader
\* whose own node is left behind, retries, and threads that call again.
CONSTANTS
    Thread = {t1, t2, t3}
    MaxBatch = 2
    MaxCalls = 4
    MaxOther = 1
    NoOne = NoOne
    Other = Other
SPECIFICATION Spec
SYMMETRY Symmetry
INVARIANTS
    NodesAccounted
    SleepersHaveLeader
    CommitsSound
PROPERTY
    WriteImplementsService

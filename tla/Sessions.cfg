SPECIFICATION SessionsSpec
CONSTANTS
    DB = {db1, db2}
    Parallel = {db1}
    MaxDeaths = 1
    MaxVersion = 3
    OpenReads = FALSE
    MaxEntries = 3
    InitEntries = 1
    Word = 8
INVARIANTS
    CountsExact
    VersionsKept
PROPERTY
    ImplementsSnapshots

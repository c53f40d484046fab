\* Two readers, so that one can join the other on an old version; four
\* versions, so that one above the oldest is purged and back-dating happens.
\* A journal of a few words.  Record sizes are odd, as in the code, where a record
\* of n arrays has 11 + 2n words.  One participant; power failures, or errors and process deaths.
CONSTANTS
    Pieces = {"reuse", "journal"}
    b1 = b1
    b2 = b2
    b3 = b3
    b4 = b4
    Block <- MCBlock
    Reader = {r1, r2}
    FirstUsed <- MCFirstUsed
    FirstFree <- MCFirstFree
    MaxVersion = 4
    Participant = {p1}
    Capacity = 6
    Limit = 4
    Sizes = {1, 3}
    MaxCommits = 4
    FaultSets = {{"power"}, {"kill", "io"}}
SPECIFICATION DurabilitySpec
SYMMETRY Symmetry
INVARIANTS
    SnapshotsIntact
    FreeListsSound
    IntactUnlessBackdated
    AcknowledgedSurvive
    RecoveredComplete

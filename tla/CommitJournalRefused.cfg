\* The journal of MCDurability.cfg, with two commits more and nothing that goes wrong: three
\* short records end where a long one ended before the last checkpoint.
CONSTANTS
    Participant = {p1}
    Capacity = 6
    Limit = 4
    Sizes = {1, 3}
    MaxCommits = 6
    FaultSets = {{}}
SPECIFICATION CJSpec
INVARIANT
    RecoveryAccepts

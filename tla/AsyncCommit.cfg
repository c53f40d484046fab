\* Two transactions where the mutex belongs to the thread that locked it; one where
\* any thread may unlock it.  A lock of promote_to_write(nonblocking) that is handed
\* to the helper is never released: then everybody may wait for good.
SPECIFICATION AsyncSpec
CONSTANTS
    Txn = {t1, t2}
    Unconfined = {t1}
    MaxVersion = 2
INVARIANTS
    WriteMutexKept
    PinnedUnlessOutdated
PROPERTY
    NobodyStarves
CHECK_DEADLOCK FALSE

SPECIFICATION Spec
CONSTANTS
    Pieces = {"file lock", "mutex", "condvar", "write lock"}
    f1 = f1  f2 = f2  f3 = f3
    t1 = t1  t2 = t2  t3 = t3  i1 = i1  i2 = i2  i3 = i3
    w1 = w1  w2 = w2  w3 = w3
    Files = {f1, f2, f3}
    LockKills = 1
    Users = {t1, t2, t3}
    MutexKills = 1
    MutexSetups <- MCMutexSetups
    Waiters = {t1, t2, t3}
    Instances = {i1, i2, i3}
    CVSetups <- MCCVSetups
    Writer = {w1, w2, w3}
    Rough = {w1, w2}
    Wrap = 9
INVARIANTS
    ServedIsOldest
    ExclusiveAlone
    OneInside
    NobodyOverlooked
PROPERTY
    CallsComeBack
CHECK_DEADLOCK FALSE

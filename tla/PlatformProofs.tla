--------------------------- MODULE PlatformProofs ---------------------------
(***************************************************************************)
(* What every number of threads and processes can rely on in the locks of  *)
(* the modules FileLock, ProcessMutex and ProcessCondVar: the safety       *)
(* properties of the run platform, each from an inductive invariant of its *)
(* own.                                                                    *)
(***************************************************************************)
EXTENDS FileLock, ProcessMutex, ProcessCondVar, FiniteSetTheorems, TLAPS

-----------------------------------------------------------------------------
(* The lock of a file, emulated with flock and a pipe *)

\* Whoever is between taking the flock and giving it back has it; a shared lock
\* is an open pipe; and nobody has the pipe open beside an exclusive lock.
FLInv ==
    /\ flock \in Files \cup {"none"} /\ pipes \subseteq Files
    /\ lockPc \in [Files -> {"unlocked", "flock", "open", "opened", "exclusive",
                             "shared", "reflock", "closing"}]
    /\ \A f \in Files :
        /\ lockPc[f] \in {"open", "opened", "exclusive", "closing"} => flock = f
        /\ lockPc[f] \in {"opened", "shared", "reflock"} => f \in pipes
        /\ lockPc[f] = "exclusive" => pipes = {}
    /\ pipes # {} => fifo

\* Every step of a lock that is taken, refused, released or lost with its process
\* keeps what the file locks rest on.
LEMMA FileLockStep == FLInv /\ [FLNext]_flVars => FLInv'
<1> SUFFICES ASSUME FLInv, [FLNext]_flVars PROVE FLInv'
    BY Zenon
<1>1. ASSUME NEW f \in Files, NEW x, NEW n, RwLock(f, x, n) PROVE FLInv'
    BY <1>1, Zenon DEF FLInv, RwLock, Moved
<1>2. ASSUME NEW f \in Files, TakeFlock(f) PROVE FLInv'
    BY <1>2, FileLockAssumption DEF FLInv, TakeFlock, Moved, FileLockAssumption
<1>3. ASSUME NEW f \in Files, WouldBlock(f) PROVE FLInv'
    BY <1>3, Zenon DEF FLInv, WouldBlock, Moved
<1>4. ASSUME NEW f \in Files, GetExclusive(f) PROVE FLInv'
    BY <1>4 DEF FLInv, GetExclusive, NoReader, Moved
<1>5. ASSUME NEW f \in Files, RefuseExclusive(f) PROVE FLInv'
    BY <1>5 DEF FLInv, RefuseExclusive, Moved
<1>6. ASSUME NEW f \in Files, MakeFifo(f) PROVE FLInv'
    BY <1>6, Zenon DEF FLInv, MakeFifo
<1>7. ASSUME NEW f \in Files, GetShared(f) PROVE FLInv'
    BY <1>7 DEF FLInv, GetShared, Moved
<1>8. ASSUME NEW f \in Files, RwUnlock(f) PROVE FLInv'
    BY <1>8 DEF FLInv, RwUnlock, Moved
<1>9. ASSUME NEW f \in Files, Reflock(f) PROVE FLInv'
    BY <1>9, FileLockAssumption DEF FLInv, Reflock, Moved, FileLockAssumption
<1>10. ASSUME NEW f \in Files, ClosePipe(f) PROVE FLInv'
    BY <1>10 DEF FLInv, ClosePipe, Moved
<1>11. ASSUME NEW f \in Files, Die(f) PROVE FLInv'
    BY <1>11 DEF FLInv, Die, Moved
<1>12. CASE UNCHANGED flVars
    BY <1>12, Zenon DEF FLInv, flVars
<1> QED
    BY <1>1, <1>2, <1>3, <1>4, <1>5, <1>6, <1>7, <1>8, <1>9, <1>10, <1>11,
       <1>12, Zenon
    DEF FLNext, FLStep

\* The emulated lock of a file: whoever gets it exclusively has it alone, whatever
\* processes die while they wait for it or hold it.
THEOREM ExclusiveIsAlone == FLSpec => []ExclusiveAlone
<1>1. FLInit => FLInv
    BY Zenon DEF FLInit, FLInv
<1>2. FLInv => ExclusiveAlone
    BY Zenon DEF FLInv, ExclusiveAlone
<1> QED
    BY <1>1, <1>2, FileLockStep, PTL DEF FLSpec

-----------------------------------------------------------------------------
(* The mutex between processes *)

\* Where a thread can be in lock() and unlock()
MutexPcs == {"out", "validate", "local", "shared", "file", "in", "unfile", "unshared",
             "unlocal", "robust", "recover", "unrobust"}

\* What a thread holds at every point of lock() and unlock(): nested in the
\* emulation, from the mutex of the object out to the file, and one thing only
\* in the other build.
PMInv ==
    /\ mutexSetup \in MutexSetups
    /\ mutexPc \in [Users -> MutexPcs]
    /\ localHeld \in [Objects -> SUBSET Users] /\ sharedHeld \in [Processes -> SUBSET Users]
    /\ \A t \in Users :
        /\ mutexPc[t] \in {"local", "shared", "file", "unfile", "unshared", "unlocal"} => Emulated
        /\ mutexPc[t] \in {"robust", "recover", "unrobust"} => ~Emulated
        /\ mutexPc[t] \in {"file", "unfile"} => ~mutexSetup.single
        /\ Emulated =>
            /\ mutexPc[t] \in {"shared", "file", "in", "unfile", "unshared", "unlocal"} =>
                    localHeld[Object(t)] = {t}
            /\ mutexPc[t] \in {"file", "in", "unfile", "unshared"} =>
                    sharedHeld[ProcessOf(t)] = {t}
            /\ mutexPc[t] \in {"in", "unfile"} /\ ~mutexSetup.single =>
                    fileHeld = {Object(t)}
        /\ ~Emulated /\ mutexPc[t] \in {"recover", "in", "unrobust"} => robustHeld = {t}

\* A step of one thread that leaves the setup alone.
LEMMA MutexPlaces ==
    ASSUME mutexSetup' = mutexSetup
    PROVE  /\ Objects' = Objects /\ Processes' = Processes /\ Emulated' = Emulated
           /\ \A t : Object(t)' = Object(t) /\ ProcessOf(t)' = ProcessOf(t)
    BY Zenon DEF Objects, Processes, Emulated, Object, ProcessOf, Process

\* Every thread has an object, and that a process.
LEMMA MutexMembers ==
    ASSUME NEW t \in Users PROVE Object(t) \in Objects /\ ProcessOf(t) \in Processes
    BY Zenon DEF Objects, Processes, Object, ProcessOf

\* Every step of lock() and unlock(), in both builds, and every death keeps what
\* the mutex rests on.
LEMMA MutexSteps == PMInv /\ [PMNext]_pmVars => PMInv'
<1> SUFFICES ASSUME PMInv, [PMNext]_pmVars PROVE PMInv'
    BY Zenon
<1>0. mutexSetup' = mutexSetup
    BY Zenon
       DEF PMNext, PMStep, pmVars, BindShared, IsValid, TakeLocal,
       TakeShared, TakeFile,
           GiveBack, LowLevelLock, Recover, RobustUnlock, UnlockCall, FileLockThrows, LockCall,
           MutexDie
<1>p. /\ Objects' = Objects /\ Processes' = Processes /\ Emulated' = Emulated
      /\ \A t : Object(t)' = Object(t) /\ ProcessOf(t)' = ProcessOf(t)
    BY <1>0, MutexPlaces, Zenon
<1>1. ASSUME NEW t \in Users, BindShared(t) PROVE PMInv'
    BY <1>0, <1>p, <1>1
       DEF PMInv, BindShared, MutexAt, emulatedVars, robustVars, MutexPcs
<1>2. ASSUME NEW t \in Users, IsValid(t) PROVE PMInv'
    BY <1>0, <1>p, <1>2
       DEF PMInv, IsValid, MutexAt, emulatedVars, robustVars, MutexPcs
<1>3. ASSUME NEW t \in Users, NEW try, LockCall(t, try) PROVE PMInv'
    BY <1>0, <1>p, <1>3
       DEF PMInv, LockCall, MutexAt, emulatedVars, robustVars, MutexPcs
<1>4. ASSUME NEW t \in Users, TakeLocal(t) PROVE PMInv'
    BY <1>0, <1>p, <1>4, MutexMembers
       DEF PMInv, TakeLocal, MutexAt, robustVars, MutexPcs
<1>5. ASSUME NEW t \in Users, TakeShared(t) PROVE PMInv'
    BY <1>0, <1>p, <1>5, MutexMembers
       DEF PMInv, TakeShared, AfterShared, MutexAt, robustVars, MutexPcs
<1>6. ASSUME NEW t \in Users, TakeFile(t) PROVE PMInv'
    BY <1>0, <1>p, <1>6, MutexMembers
       DEF PMInv, TakeFile, MutexAt, robustVars, MutexPcs
<1>7. ASSUME NEW t \in Users, FileLockThrows(t) \/ UnlockCall(t) PROVE PMInv'
    BY <1>0, <1>p, <1>7, MutexMembers
       DEF PMInv, FileLockThrows, UnlockCall, MutexAt, emulatedVars,
       robustVars, MutexPcs
<1>8. ASSUME NEW t \in Users, GiveBack(t) PROVE PMInv'
    BY <1>0, <1>p, <1>8, MutexMembers
       DEF PMInv, GiveBack, MutexAt, robustVars, MutexPcs
<1>9. ASSUME NEW t \in Users, LowLevelLock(t) PROVE PMInv'
    BY <1>0, <1>p, <1>9
       DEF PMInv, LowLevelLock, MutexAt, emulatedVars, MutexPcs
<1>10. ASSUME NEW t \in Users, Recover(t) \/ RobustUnlock(t) PROVE PMInv'
    BY <1>0, <1>p, <1>10
       DEF PMInv, Recover, RobustUnlock, MutexAt, emulatedVars, MutexPcs
<1>11. ASSUME NEW p \in Processes, MutexDie(p) PROVE PMInv'
    BY <1>0, <1>p, <1>11, MutexMembers DEF PMInv, MutexDie, MutexPcs, ProcessOf
<1>12. CASE UNCHANGED pmVars
    BY <1>p, <1>12, Zenon DEF PMInv, pmVars
<1> QED
    BY <1>1, <1>2, <1>3, <1>4, <1>5, <1>6, <1>7, <1>8, <1>9, <1>10, <1>11,
       <1>12, Zenon
    DEF PMNext, PMStep

\* InterprocessMutex excludes: at most one thread is inside, robust or emulated,
\* whatever processes die outside or inside it.
THEOREM MutexExcludes == PMSpec => []OneInside
<1>1. PMInit => PMInv
    BY Zenon DEF PMInit, PMInv, MutexPcs
<1>2. ASSUME PMInv PROVE OneInside
    <2>1. \A t, u \in Users : mutexPc[t] = "in" /\ mutexPc[u] = "in" => t = u
        <3> SUFFICES ASSUME NEW t \in Users, NEW u \in Users, mutexPc[t] = "in", mutexPc[u] = "in"
                     PROVE  t = u
            BY Zenon
        <3>1. CASE ~Emulated
            BY <1>2, <3>1, Zenon DEF PMInv
        <3>2. CASE Emulated /\ mutexSetup.single
            <4>1. ProcessOf(t) = ProcessOf(u)
                <5>1. mutexSetup \in MutexSetups
                    BY <1>2, Zenon DEF PMInv
                <5> QED
                    BY <3>2, <5>1, MutexAssumption
                       DEF MutexAssumption, ProcessOf, Process, Object
            <4> QED
                BY <1>2, <3>2, <4>1, Zenon DEF PMInv
        <3>3. CASE Emulated /\ ~mutexSetup.single
            <4>1. fileHeld = {Object(t)} /\ fileHeld = {Object(u)}
                BY <1>2, <3>3, Zenon DEF PMInv
            <4>2. localHeld[Object(t)] = {t} /\ localHeld[Object(u)] = {u}
                BY <1>2, <3>3, Zenon DEF PMInv
            <4> QED
                BY <4>1, <4>2
        <3> QED
            BY <3>1, <3>2, <3>3, Zenon
    <2> DEFINE In == {t \in Users : mutexPc[t] = "in"}
    <2>2. CASE In = {}
        BY <2>2, FS_EmptySet DEF OneInside
    <2>3. CASE In # {}
        <3>1. PICK t : In = {t}
            <4>1. PICK u : u \in In
                BY <2>3
            <4>2. In = {u}
                BY <2>1, <4>1
            <4> QED
                BY <4>2, Zenon
        <3>2. Cardinality({t}) = 1
            BY FS_Singleton
        <3> QED
            BY <3>1, <3>2 DEF OneInside
    <2> QED
        BY <2>2, <2>3, Zenon
<1> QED
    BY <1>1, <1>2, MutexSteps, PTL DEF PMSpec

-----------------------------------------------------------------------------
(* The condition variable between processes: the numbers of the processes *)

\* Where an instance can be in set_shared_part
JoinPcs == {"claim", "max", "lower", "probe", "unlock", "joined"}

\* Whoever has a number has its mutex; one instance at a time changes the highest
\* number, and it never drops below the number of one that has joined: the one who
\* lowers it holds the mutex of the number it gives up.
NumberKept(i) ==
    /\ myId[i] # -1 => numOwner[myId[i]] = {i}
    /\ joinPc[i][1] # "claim" => myId[i] # -1
    /\ joinPc[i][1] \in {"lower", "probe", "unlock"} => maxOwner = {i}
    /\ joinPc[i][1] \in {"lower", "probe"} =>
        joinPc[i][2] = maxProcessNum /\ myId[i] <= maxProcessNum
    /\ joinPc[i][1] = "probe" =>
        numOwner[maxProcessNum] = {i} /\ myId[i] < maxProcessNum
    /\ joinPc[i][1] \in {"unlock", "joined"} => myId[i] <= maxProcessNum

\* The types of what set_shared_part reads and writes
JoinTypes ==
    /\ numOwner \in [Ids -> SUBSET Instances] /\ maxProcessNum \in Ids
    /\ myId \in [Instances -> Ids \cup {-1}]
    /\ joinPc \in [Instances -> JoinPcs \X Nat]
    /\ cvSetup \in CVSetups

\* What the numbers of the processes rest on; only the event build has them.
JoinInv ==
    /\ JoinTypes
    /\ ~Build("event") => \A i \in Instances : joinPc[i][1] = "joined"
    /\ Build("event") => \A i \in Instances : NumberKept(i)

\* The instances threads use are instances.
LEMMA CVUsed == ASSUME JoinInv, NEW i \in Used PROVE i \in Instances
<1>1. cvSetup.instance \in [Waiters -> Instances]
    BY CondVarAssumption DEF JoinInv, JoinTypes, CondVarAssumption
<1> QED
    BY <1>1 DEF Used, Of

\* The numbers are natural, from zero on.
LEMMA IdsNat == Ids \subseteq Nat /\ 0 \in Ids /\ \A n \in Ids : n > 0 => n - 1 \in Ids
<1>1. Cardinality(Instances) \in Nat
    BY CondVarAssumption, FS_CardinalityType DEF CondVarAssumption
<1> QED
    BY <1>1 DEF Ids

\* Numbers can be compared, the one that stands for none too.
LEMMA JoinNumbers ==
    ASSUME JoinTypes, NEW i \in Instances PROVE myId[i] \in Int /\ maxProcessNum \in Int
<1>1. myId[i] \in Ids \cup {-1} /\ maxProcessNum \in Ids
    BY DEF JoinTypes
<1>2. \A n \in Ids : n \in Int
    BY IdsNat
<1>3. -1 \in Int
    OBVIOUS
<1> QED
    BY <1>1, <1>2, <1>3, Zenon

\* Claiming a number, raising and lowering the highest one and dying keep every
\* process below the highest number, with a number of its own.
LEMMA JoinSteps == JoinInv /\ [CVNext]_cvVars => JoinInv'
<1> SUFFICES ASSUME JoinInv, [CVNext]_cvVars PROVE JoinInv'
    BY Zenon
<1>1. CASE UNCHANGED <<cvSetup, joinVars>>
    BY <1>1, Zenon DEF JoinInv, JoinTypes, NumberKept, joinVars, Build
<1>t. JoinTypes
    BY Zenon DEF JoinInv
<1>n. Build("event") => \A i \in Instances : NumberKept(i)
    BY Zenon DEF JoinInv
<1>2. ASSUME NEW i \in Instances, ClaimNumber(i) PROVE JoinInv'
    <2> DEFINE n == joinPc[i][2]
    <2>0. /\ Build("event") /\ joinPc[i][1] = "claim" /\ n \in Ids
          /\ UNCHANGED <<cvSetup, maxProcessNum, maxOwner>>
        BY <1>2, Zenon DEF ClaimNumber, JoinInv
    <2>1. CASE numOwner[n] = {}
        <3>1. /\ numOwner' = [numOwner EXCEPT ![n] = {i}] /\ myId' = [myId EXCEPT ![i] = n]
              /\ joinPc' = [joinPc EXCEPT ![i] = <<"max", 0>>]
            BY <1>2, <2>1, Zenon DEF ClaimNumber, JoinAt
        <3>2. JoinTypes'
            BY <1>t, <2>0, <2>1, <3>1, IdsNat DEF JoinTypes, JoinPcs
        <3>3. ASSUME NEW j \in Instances PROVE NumberKept(j)'
            <4>1. CASE j = i
                BY <1>t, <1>n, <2>0, <2>1, <3>1, IdsNat, <4>1
                   DEF NumberKept, JoinTypes, JoinPcs
            <4>2. CASE j # i
                <5>1. /\ joinPc'[j] = joinPc[j] /\ myId'[j] = myId[j]
                      /\ NumberKept(j) /\ NumberKept(i)
                    BY <1>t, <1>n, <2>0, <2>1, <3>1, IdsNat, <4>2 DEF JoinTypes
                <5> QED
                    BY <1>t, <1>n, <2>0, <2>1, <3>1, IdsNat, <4>2, <5>1,
                       Zenon DEF NumberKept, JoinTypes, JoinPcs
            <4> QED
                BY <4>1, <4>2
        <3> QED
            BY <2>0, <3>2, <3>3, Zenon DEF JoinInv, Build
    <2>2. CASE numOwner[n] # {}
        <3>1. /\ joinPc' = [joinPc EXCEPT ![i] = <<"claim", n + 1>>]
              /\ UNCHANGED <<numOwner, myId>>
            BY <1>2, <2>2, Zenon DEF ClaimNumber, JoinAt
        <3>2. JoinTypes'
            BY <1>t, <2>0, <3>1, IdsNat DEF JoinTypes, JoinPcs
        <3>3. ASSUME NEW j \in Instances PROVE NumberKept(j)'
            BY <1>t, <1>n, <2>0, <3>1, IdsNat
               DEF NumberKept, JoinTypes, JoinPcs
        <3> QED
            BY <2>0, <3>2, <3>3, Zenon DEF JoinInv, Build
    <2> QED
        BY <2>1, <2>2, Zenon
<1>3. ASSUME NEW i \in Instances, RaiseMax(i) PROVE JoinInv'
    <2>0. /\ Build("event") /\ joinPc[i][1] = "max" /\ maxOwner = {} /\ maxOwner' = {i}
          /\ UNCHANGED <<cvSetup, numOwner, myId>>
        BY <1>3, Zenon DEF RaiseMax, JoinInv
    <2>1. CASE myId[i] < maxProcessNum
        <3>1. /\ joinPc' = [joinPc EXCEPT ![i] = <<"lower", maxProcessNum>>]
              /\ UNCHANGED maxProcessNum
            BY <1>3, <2>1, Zenon DEF RaiseMax, JoinAt
        <3>2. JoinTypes'
            BY <1>t, <2>0, <2>1, <3>1, IdsNat DEF JoinTypes, JoinPcs
        <3>3. ASSUME NEW j \in Instances PROVE NumberKept(j)'
            <4>1. CASE j = i
                <5>1. NumberKept(i) /\ joinPc'[i][1] = "lower" /\ joinPc'[i][2] = maxProcessNum
                    BY <1>t, <1>n, <2>0, <3>1 DEF JoinTypes
                <5>2. myId[i] # -1 /\ numOwner[myId[i]] = {i} /\ myId[i] <= maxProcessNum
                    BY <1>t, <2>0, <2>1, <5>1, IdsNat DEF NumberKept, JoinTypes
                <5> QED
                    BY <2>0, <3>1, <4>1, <5>1, <5>2 DEF NumberKept
            <4>2. CASE j # i
                <5>1. /\ joinPc'[j] = joinPc[j] /\ myId'[j] = myId[j]
                      /\ NumberKept(j) /\ NumberKept(i)
                    BY <1>t, <1>n, <2>0, <2>1, <3>1, IdsNat, <4>2 DEF JoinTypes
                <5> QED
                    BY <1>t, <1>n, <2>0, <2>1, <3>1, IdsNat, <4>2, <5>1, Zenon
                       DEF NumberKept, JoinTypes, JoinPcs
            <4> QED
                BY <4>1, <4>2
        <3> QED
            BY <2>0, <3>2, <3>3, Zenon DEF JoinInv, Build
    <2>2. CASE ~(myId[i] < maxProcessNum)
        <3>1. joinPc' = [joinPc EXCEPT ![i] = <<"unlock", 0>>] /\ maxProcessNum' = myId[i]
            BY <1>3, <2>2, Zenon DEF RaiseMax, JoinAt
        <3>2. JoinTypes'
            BY <1>t, <1>n, <2>0, <2>2, <3>1, IdsNat
               DEF JoinTypes, JoinPcs, NumberKept
        <3>3. ASSUME NEW j \in Instances PROVE NumberKept(j)'
            <4>1. CASE j = i
                <5>1. NumberKept(i) /\ joinPc'[i] = <<"unlock", 0>> /\ joinPc'[i][1] = "unlock"
                    BY <1>t, <1>n, <2>0, <3>1 DEF JoinTypes
                <5>2. myId[i] # -1 /\ numOwner[myId[i]] = {i}
                    BY <2>0, <5>1 DEF NumberKept
                <5>3. myId[i] <= myId[i]
                    BY <1>t, JoinNumbers
                <5> QED
                    BY <2>0, <3>1, <4>1, <5>1, <5>2, <5>3 DEF NumberKept
            <4>2. CASE j # i
                <5>1. /\ joinPc'[j] = joinPc[j] /\ myId'[j] = myId[j]
                      /\ NumberKept(j) /\ NumberKept(i)
                    BY <1>t, <1>n, <2>0, <2>2, <3>1, IdsNat, <4>2 DEF JoinTypes
                <5> QED
                    <6>1. joinPc[j][1] \notin {"lower", "probe", "unlock"}
                        BY <2>0, <4>2, <5>1, Zenon DEF NumberKept
                    <6>2. joinPc[j][1] = "joined" => myId[j] <= myId[i]
                        <7>1. joinPc[j][1] = "joined" => myId[j] <= maxProcessNum
                            BY <5>1 DEF NumberKept
                        <7>2. myId[i] \in Int /\ myId[j] \in Int /\ maxProcessNum \in Int
                            BY <1>t, JoinNumbers, Zenon
                        <7> QED
                            BY <2>2, <7>1, <7>2
                    <6> QED
                        BY <2>0, <3>1, <4>2, <5>1, <6>1, <6>2 DEF NumberKept
            <4> QED
                BY <4>1, <4>2
        <3> QED
            BY <2>0, <3>2, <3>3, Zenon DEF JoinInv, Build
    <2> QED
        BY <2>1, <2>2, Zenon
<1>4. ASSUME NEW i \in Instances, LowerMax(i) PROVE JoinInv'
    <2> DEFINE n == joinPc[i][2]
    <2>0. Build("event") /\ UNCHANGED <<cvSetup, maxOwner, myId>>
        BY <1>4, Zenon DEF LowerMax, JoinInv
    <2>1. CASE joinPc[i][1] = "lower" /\ n > myId[i] /\ numOwner[n] = {}
        <3>1. /\ numOwner' = [numOwner EXCEPT ![n] = {i}]
              /\ joinPc' = [joinPc EXCEPT ![i] = <<"probe", n>>] /\ UNCHANGED maxProcessNum
            BY <1>4, <2>1, Zenon DEF LowerMax, JoinAt
        <3>2. JoinTypes'
            BY <1>t, <2>0, <2>1, <3>1, IdsNat, Zenon DEF JoinTypes, JoinPcs
        <3>3. ASSUME NEW j \in Instances PROVE NumberKept(j)'
            BY <1>t, <1>n, <2>0, <2>1, <3>1, IdsNat, Zenon
               DEF NumberKept, JoinTypes, JoinPcs
        <3> QED
            BY <2>0, <3>2, <3>3, Zenon DEF JoinInv, Build
    <2>2. CASE joinPc[i][1] = "lower" /\ ~(n > myId[i] /\ numOwner[n] = {})
        <3>1. /\ joinPc' = [joinPc EXCEPT ![i] = <<"unlock", 0>>]
              /\ UNCHANGED <<numOwner, maxProcessNum>>
            BY <1>4, <2>2, Zenon DEF LowerMax, JoinAt
        <3>2. JoinTypes'
            BY <1>t, <2>0, <2>2, <3>1, IdsNat DEF JoinTypes, JoinPcs
        <3>3. ASSUME NEW j \in Instances PROVE NumberKept(j)'
            BY <1>t, <1>n, <2>0, <2>2, <3>1, IdsNat
               DEF NumberKept, JoinTypes, JoinPcs
        <3> QED
            BY <2>0, <3>2, <3>3, Zenon DEF JoinInv, Build
    <2>3. CASE joinPc[i][1] = "probe"
        <3>0. n = maxProcessNum /\ n \in Ids /\ n > 0 /\ n - 1 \in Ids
            BY <1>t, <1>n, <2>0, <2>3, IdsNat DEF JoinTypes, NumberKept
        <3>1. /\ numOwner' = [numOwner EXCEPT ![n] = {}] /\ maxProcessNum' = n - 1
              /\ joinPc' = [joinPc EXCEPT ![i] = <<"lower", n - 1>>]
            BY <1>4, <2>3, Zenon DEF LowerMax, JoinAt
        <3>2. JoinTypes'
            BY <1>t, <2>0, <2>3, <3>0, <3>1, IdsNat DEF JoinTypes, JoinPcs
        <3>3. ASSUME NEW j \in Instances PROVE NumberKept(j)'
            <4>1. CASE j = i
                <5>1. NumberKept(i) /\ joinPc'[i][1] = "lower" /\ joinPc'[i][2] = n - 1
                    BY <1>t, <1>n, <2>0, <3>1 DEF JoinTypes
                <5>2. myId[i] # -1 /\ numOwner[myId[i]] = {i} /\ maxOwner = {i} /\ myId[i] < n
                    BY <2>0, <2>3, <3>0, <5>1 DEF NumberKept
                <5>3. myId[i] \in Ids /\ myId[i] \in Nat /\ n \in Nat
                    BY <1>t, <3>0, <5>2, IdsNat, Zenon DEF JoinTypes
                <5>4. myId[i] # n /\ myId[i] <= n - 1
                    <6> HIDE DEF n
                    <6> QED
                        BY <5>2, <5>3
                <5>5. numOwner'[myId[i]] = {i}
                    BY <1>t, <3>1, <5>2, <5>3, <5>4 DEF JoinTypes
                <5> QED
                    BY <2>0, <3>1, <4>1, <5>1, <5>2, <5>4, <5>5 DEF NumberKept
            <4>2. CASE j # i
                <5>1. /\ joinPc'[j] = joinPc[j] /\ myId'[j] = myId[j]
                      /\ NumberKept(j) /\ NumberKept(i)
                    BY <1>t, <1>n, <2>0, <2>3, <3>0, <3>1, IdsNat, <4>2
                       DEF JoinTypes
                <5> QED
                    <6>1. maxOwner = {i} /\ joinPc[j][1] \notin {"lower", "probe", "unlock"}
                        BY <2>0, <2>3, <4>2, <5>1 DEF NumberKept
                    <6>2. myId[j] # -1 => numOwner[myId[j]] = {j} /\ myId[j] # n
                        <7>1. numOwner[n] = {i}
                            BY <2>0, <2>3, <3>0, <5>1 DEF NumberKept
                        <7>2. myId[j] # -1 => numOwner[myId[j]] = {j}
                            BY <5>1, Zenon DEF NumberKept
                        <7> QED
                            BY <4>2, <7>1, <7>2
                    <6>3. joinPc[j][1] = "joined" => myId[j] \in Ids /\ myId[j] <= n - 1
                        <7>1. joinPc[j][1] = "joined" => myId[j] # -1 /\ myId[j] <= n
                            BY <3>0, <5>1, Zenon DEF NumberKept
                        <7>2. myId[j] \in Ids \cup {-1} /\ n \in Ids
                            BY <1>t, <3>0 DEF JoinTypes
                        <7>3. joinPc[j][1] = "joined" => myId[j] \in Nat /\ myId[j] \in Ids /\ n \in Nat
                            BY <7>1, <7>2, IdsNat, Zenon
                        <7> HIDE DEF n
                        <7>4. joinPc[j][1] = "joined" => myId[j] # n
                            BY <6>2, <7>1
                        <7> QED
                            BY <7>1, <7>3, <7>4
                    <6> QED
                        BY <1>t, <2>0, <3>0, <3>1, <4>2, <5>1, <6>1, <6>2,
                           <6>3, IdsNat, Zenon DEF NumberKept, JoinTypes
            <4> QED
                BY <4>1, <4>2
        <3> QED
            BY <2>0, <3>2, <3>3, Zenon DEF JoinInv, Build
    <2> QED
        BY <1>4, <2>1, <2>2, <2>3, Zenon DEF LowerMax
<1>5. ASSUME NEW i \in Instances, Joined(i) PROVE JoinInv'
    <2>0. /\ Build("event") /\ joinPc[i][1] = "unlock" /\ maxOwner' = {}
          /\ joinPc' = [joinPc EXCEPT ![i] = <<"joined", 0>>]
          /\ UNCHANGED <<cvSetup, maxProcessNum, numOwner, myId>>
        BY <1>5, Zenon DEF Joined, JoinAt, JoinInv
    <2>2. JoinTypes'
        BY <1>t, <2>0, IdsNat DEF JoinTypes, JoinPcs
    <2>3. ASSUME NEW j \in Instances PROVE NumberKept(j)'
        <3>1. CASE j = i
            BY <1>t, <1>n, <2>0, IdsNat, <3>1
               DEF NumberKept, JoinTypes, JoinPcs
        <3>2. CASE j # i
            <4>1. joinPc'[j] = joinPc[j] /\ myId'[j] = myId[j] /\ NumberKept(j) /\ NumberKept(i)
                BY <1>t, <1>n, <2>0, IdsNat, <3>2 DEF JoinTypes
            <4> QED
                BY <1>t, <1>n, <2>0, IdsNat, <3>2, <4>1, Zenon
                   DEF NumberKept, JoinTypes, JoinPcs
        <3> QED
            BY <3>1, <3>2
    <2> QED
        BY <2>0, <2>2, <2>3, Zenon DEF JoinInv, Build
<1>6. ASSUME NEW i \in Instances, CVDie(i) PROVE JoinInv'
    <2>0. /\ numOwner' = [n \in Ids |-> numOwner[n] \ {i}] /\ maxOwner' = maxOwner \ {i}
          /\ myId' = [myId EXCEPT ![i] = -1] /\ UNCHANGED <<cvSetup, maxProcessNum>>
          /\ joinPc' = [joinPc EXCEPT ![i] = IF Build("event") THEN <<"claim", 0>> ELSE <<"joined", 0>>]
        BY <1>6, Zenon DEF CVDie, JoinAt
    <2>2. JoinTypes'
        BY <1>t, <2>0, IdsNat DEF JoinTypes, JoinPcs
    <2>3. ASSUME Build("event"), NEW j \in Instances PROVE NumberKept(j)'
        BY <1>t, <1>n, <2>0, <2>3, IdsNat DEF NumberKept, JoinTypes, JoinPcs
    <2>4. ASSUME ~Build("event"), NEW j \in Instances PROVE joinPc'[j][1] = "joined"
        BY <2>0, <2>4 DEF JoinInv, JoinTypes
    <2> QED
        BY <2>0, <2>2, <2>3, <2>4, Zenon DEF JoinInv, Build
<1>7. ASSUME NEW t \in Waiters,
            \/ Enter(t) \/ Leave(t) \/ Expire(t) \/ Interrupted(t) \/ CVStep(t)
            \/ PthreadWait(t) \/ FifoWait(t) \/ EventWait(t)
            \/ PthreadNotify(t) \/ FifoNotify(t) \/ EventNotify(t)
      PROVE  UNCHANGED <<cvSetup, joinVars>>
    BY <1>7, Zenon
       DEF Enter, Leave, Expire, Interrupted, CVStep, PthreadWait, FifoWait,
       EventWait,
       PthreadNotify, FifoNotify, EventNotify, Awake, PthreadReturn, GiveUp, TakeByte, EventReturn,
       PrivateReturn, Waits, Return
<1>8. CASE UNCHANGED cvVars
    BY <1>1, <1>8, Zenon DEF cvVars
<1> QED
    BY <1>1, <1>2, <1>3, <1>4, <1>5, <1>6, <1>7, <1>8, CVUsed, Zenon
       DEF CVNext, JoinStep

\* From what the numbers rest on: no two instances share one, and the walk of
\* notify_all covers every one that has joined.
LEMMA JoinReaches == JoinInv => EveryProcessReached
<1> SUFFICES ASSUME JoinInv, Build("event"), NEW i \in Instances, NEW j \in Instances
    PROVE  /\ joinPc[i][1] = "joined" => myId[i] <= maxProcessNum
           /\ i # j /\ myId[i] # -1 => myId[i] # myId[j]
    BY Zenon DEF EveryProcessReached
<1>1. NumberKept(i) /\ NumberKept(j)
    BY Zenon DEF JoinInv
<1> QED
    BY <1>1 DEF NumberKept

-----------------------------------------------------------------------------
(* The bytes in the pipe *)

\* Where a thread can be in wait
CVPcs == {"out", "in", "asleep", "awake", "expired", "private", "lapsed", "told"}

\* The types of what the pipe build reads and writes; no death without a bound for it
FifoTypes ==
    /\ cvSetup \in CVSetups /\ cvPc \in [Waiters -> CVPcs]
    /\ fifoBytes \in Nat /\ signalCounter \in Nat /\ waitCounter \in Nat
    /\ cvSetup.kills = 0 => kills = 0

\* The balance of the pipe is inductive with the types alone.
FifoInv == FifoTypes /\ FifoBalanced

\* The suspended threads can be counted.
LEMMA SuspendedCount == IsFiniteSet(Suspended) /\ Cardinality(Suspended) \in Nat
<1>1. Suspended \subseteq Waiters
    BY DEF Suspended
<1> QED
    BY <1>1, CondVarAssumption, FS_Subset, FS_CardinalityType
       DEF CondVarAssumption

\* A thread that moves within a wait, or outside of one, leaves the suspended ones
\* what they are.
LEMMA SuspendedSame ==
    ASSUME FifoTypes, NEW t \in Waiters, NEW pc, CVAt(t, pc),
           cvPc[t] \in {"out", "in"} <=> pc \in {"out", "in"}
    PROVE  Suspended' = Suspended
BY DEF FifoTypes, CVAt, Suspended

\* wait adds one to the suspended threads.
LEMMA SuspendedGrows ==
    ASSUME FifoTypes, NEW t \in Waiters, NEW pc, CVAt(t, pc),
           cvPc[t] = "in", pc \notin {"out", "in"}
    PROVE  Cardinality(Suspended)' = Cardinality(Suspended) + 1
<1>1. Suspended' = Suspended \cup {t} /\ t \notin Suspended
    BY DEF FifoTypes, CVAt, Suspended
<1> QED
    BY <1>1, SuspendedCount, FS_AddElement

\* The return from wait takes one away.
LEMMA SuspendedShrinks ==
    ASSUME FifoTypes, NEW t \in Waiters, CVAt(t, "in"), cvPc[t] \notin {"out", "in"}
    PROVE  Cardinality(Suspended)' = Cardinality(Suspended) - 1
<1>1. Suspended' = Suspended \ {t} /\ t \in Suspended
    BY DEF FifoTypes, CVAt, Suspended
<1> QED
    BY <1>1, SuspendedCount, FS_RemoveElement

\* wait, the byte a waiter takes, the time-out that pretends to have been signalled
\* and notify_all keep the balance of bytes, waiters and counters.
LEMMA FifoSteps == FifoInv /\ [CVNext]_cvVars => FifoInv'
<1> SUFFICES ASSUME FifoInv, [CVNext]_cvVars PROVE FifoInv'
    BY Zenon
<1>t. FifoTypes
    BY Zenon DEF FifoInv
<1>n. fifoBytes \in Nat /\ signalCounter \in Nat /\ waitCounter \in Nat
    BY <1>t, Zenon DEF FifoTypes
<1>c. PICK c \in Nat : Cardinality(Suspended) = c
    BY SuspendedCount, Zenon
<1>b. Build("fifo") /\ cvSetup.kills = 0 => fifoBytes - c = signalCounter - waitCounter
    BY <1>c, Zenon DEF FifoInv, FifoBalanced
<1>u. UNCHANGED cvSetup => (Build("fifo")' <=> Build("fifo"))
    BY Zenon DEF Build
\* A step that only moves a thread, and not into or out of a wait
<1>m. ASSUME NEW t \in Waiters, NEW pc \in CVPcs, CVAt(t, pc), UNCHANGED <<cvSetup, kills, fifoVars>>,
            Build("fifo") => (cvPc[t] \in {"out", "in"} <=> pc \in {"out", "in"})
      PROVE  FifoInv'
    <2>1. FifoTypes'
        BY <1>m, <1>t DEF FifoTypes, CVAt, fifoVars
    <2>2. Build("fifo") => Suspended' = Suspended
        BY <1>m, <1>t, SuspendedSame, Zenon
    <2> QED
        BY <1>m, <1>b, <1>c, <1>u, <2>1, <2>2, Zenon
           DEF FifoInv, FifoBalanced, fifoVars
\* A step of another build
<1>o. ASSUME ~Build("fifo"), UNCHANGED <<cvSetup, kills, fifoVars>>, cvPc' \in [Waiters -> CVPcs]
      PROVE  FifoInv'
    BY <1>o, <1>t, <1>u, Zenon DEF FifoInv, FifoTypes, FifoBalanced, fifoVars
<1>1. CASE UNCHANGED <<cvSetup, cvPc, kills, fifoVars>>
    BY <1>1, <1>u, Zenon
       DEF FifoInv, FifoTypes, FifoBalanced, Suspended, fifoVars
<1>2. ASSUME NEW t \in Waiters, Enter(t) \/ Leave(t) PROVE FifoInv'
    <2>1. \E pc \in {"out", "in"} : CVAt(t, pc) /\ cvPc[t] \in {"out", "in"}
        BY <1>2, Zenon DEF Enter, Leave
    <2>2. UNCHANGED <<cvSetup, kills, fifoVars>>
        BY <1>2, Zenon DEF Enter, Leave
    <2> QED
        BY <1>m, <2>1, <2>2, Zenon DEF CVPcs
<1>3. ASSUME NEW t \in Waiters, Expire(t) \/ Interrupted(t) \/ Awake(t) PROVE FifoInv'
    <2>1. \E pc \in {"expired", "lapsed", "awake"} : CVAt(t, pc)
        BY <1>3, Zenon DEF Expire, Interrupted, Awake
    <2>2. UNCHANGED <<cvSetup, kills, fifoVars>> /\ cvPc[t] \in {"asleep", "private"}
        BY <1>3, Zenon DEF Expire, Interrupted, Awake
    <2>3. \A pc \in {"expired", "lapsed", "awake"} :
            pc \in CVPcs /\ (cvPc[t] \in {"out", "in"} <=> pc \in {"out", "in"})
        BY <2>2 DEF CVPcs
    <2> QED
        BY <1>m, <2>1, <2>2, <2>3, Zenon
<1>4. ASSUME NEW t \in Waiters, PthreadWait(t) \/ EventWait(t) \/ PthreadReturn(t) \/ EventReturn(t)
                                \/ PrivateReturn(t) \/ PthreadNotify(t)
      PROVE  FifoInv'
    <2>1. ~Build("fifo")
        BY <1>4, Zenon
           DEF PthreadWait, EventWait, PthreadReturn, EventReturn,
           PrivateReturn, PthreadNotify, Build
    <2>2. UNCHANGED <<cvSetup, kills, fifoVars>>
        BY <1>4, Zenon
           DEF PthreadWait, EventWait, PthreadReturn, EventReturn,
           PrivateReturn,
           PthreadNotify, Waits, Return
    <2>3. CASE \E pc \in CVPcs : CVAt(t, pc)
        <3>1. cvPc' \in [Waiters -> CVPcs]
            BY <1>t, <2>3 DEF CVAt, FifoTypes
        <3> QED
            BY <1>o, <2>1, <2>2, <3>1, Zenon
    <2>4. CASE ~\E pc \in CVPcs : CVAt(t, pc)
        <3>1. {"in", "asleep", "private", "told", "awake"} \subseteq CVPcs
            BY DEF CVPcs
        <3>2. \/ cvPc' = [u \in Waiters |-> IF u = t THEN "in"
                          ELSE IF Of(u) = Of(t) /\ cvPc[u] = "private" THEN "told" ELSE cvPc[u]]
              \/ cvPc' = [u \in Waiters |-> IF cvPc[u] = "asleep" THEN "awake" ELSE cvPc[u]]
            BY <1>4, <2>4, <3>1, Zenon
               DEF PthreadWait, EventWait, PthreadReturn, EventReturn,
               PrivateReturn, PthreadNotify, Waits, Return
        <3>3. cvPc' \in [Waiters -> CVPcs]
            BY <1>t, <3>1, <3>2 DEF FifoTypes
        <3> QED
            BY <1>o, <2>1, <2>2, <3>3, Zenon
    <2> QED
        BY <2>3, <2>4, Zenon
<1>5. ASSUME NEW t \in Waiters, FifoWait(t) PROVE FifoInv'
    <2>1. /\ CVAt(t, "asleep") /\ cvPc[t] = "in" /\ waitCounter' = waitCounter + 1
          /\ UNCHANGED <<cvSetup, kills, signalCounter, fifoBytes>>
        BY <1>5, Zenon DEF FifoWait, Waits
    <2>2. FifoTypes'
        BY <1>t, <2>1 DEF FifoTypes, CVAt, CVPcs
    <2>3. Cardinality(Suspended)' = c + 1
        BY <1>t, <2>1, SuspendedGrows, <1>c
    <2>4. fifoBytes - c = signalCounter - waitCounter =>
          fifoBytes' - Cardinality(Suspended)' = signalCounter' - waitCounter'
        BY <1>n, <2>1, <2>3
    <2> QED
        BY <1>b, <1>u, <2>1, <2>2, <2>4, Zenon DEF FifoInv, FifoBalanced
<1>6. ASSUME NEW t \in Waiters, GiveUp(t) PROVE FifoInv'
    <2>1. /\ CVAt(t, "in") /\ cvPc[t] = "expired" /\ signalCounter' = signalCounter + 1
          /\ UNCHANGED <<cvSetup, kills, waitCounter, fifoBytes>>
        BY <1>6, Zenon DEF GiveUp, Return
    <2>2. FifoTypes'
        BY <1>t, <2>1 DEF FifoTypes, CVAt, CVPcs
    <2>3. Cardinality(Suspended)' = c - 1
        BY <1>t, <2>1, SuspendedShrinks, <1>c
    <2>4. fifoBytes - c = signalCounter - waitCounter =>
          fifoBytes' - Cardinality(Suspended)' = signalCounter' - waitCounter'
        BY <1>n, <2>1, <2>3
    <2> QED
        BY <1>b, <1>u, <2>1, <2>2, <2>4, Zenon DEF FifoInv, FifoBalanced
<1>7. ASSUME NEW t \in Waiters, TakeByte(t) PROVE FifoInv'
    <2>0. cvPc[t] = "awake" /\ UNCHANGED <<cvSetup, kills, waitCounter, signalCounter>>
        BY <1>7, Zenon DEF TakeByte, Return
    <2>1. CASE signalCounter < myTicket[t] \/ fifoBytes = 0
        <3>1. CVAt(t, "asleep") /\ UNCHANGED fifoBytes
            BY <1>7, <2>1, Zenon DEF TakeByte
        <3>2. "asleep" \in CVPcs /\ (cvPc[t] \in {"out", "in"} <=> "asleep" \in {"out", "in"})
            BY <2>0 DEF CVPcs
        <3> QED
            BY <1>m, <2>0, <3>1, <3>2, Zenon DEF fifoVars
    <2>2. CASE ~(signalCounter < myTicket[t] \/ fifoBytes = 0)
        <3>1. CVAt(t, "in") /\ fifoBytes' = fifoBytes - 1
            BY <1>7, <2>2, Zenon DEF TakeByte, Return
        <3>2. FifoTypes'
            BY <1>t, <2>0, <2>2, <3>1 DEF FifoTypes, CVAt, CVPcs
        <3>3. Cardinality(Suspended)' = c - 1
            BY <1>t, <2>0, <3>1, SuspendedShrinks, <1>c
        <3>4. fifoBytes - c = signalCounter - waitCounter =>
              fifoBytes' - Cardinality(Suspended)' = signalCounter' - waitCounter'
            BY <1>n, <2>0, <3>1, <3>3
        <3> QED
            BY <1>b, <1>u, <2>0, <3>2, <3>4, Zenon DEF FifoInv, FifoBalanced
    <2> QED
        BY <2>1, <2>2, Zenon
<1>8. ASSUME NEW t \in Waiters, FifoNotify(t) PROVE FifoInv'
    <2>1. /\ UNCHANGED <<cvSetup, cvPc, kills, waitCounter>>
          /\ \/ /\ waitCounter > signalCounter /\ signalCounter' = waitCounter
                /\ fifoBytes' = fifoBytes + (waitCounter - signalCounter)
            \/ UNCHANGED <<fifoBytes, signalCounter>>
        BY <1>8, Zenon DEF FifoNotify
    <2>2. FifoTypes'
        BY <1>t, <2>1 DEF FifoTypes
    <2>3. Cardinality(Suspended)' = c
        BY <1>c, <2>1, Zenon DEF Suspended
    <2>4. fifoBytes - c = signalCounter - waitCounter =>
          fifoBytes' - Cardinality(Suspended)' = signalCounter' - waitCounter'
        BY <1>n, <2>1, <2>3
    <2> QED
        BY <1>b, <1>u, <2>1, <2>2, <2>4, Zenon DEF FifoInv, FifoBalanced
<1>9. ASSUME NEW t \in Waiters, EventNotify(t) PROVE FifoInv'
    BY <1>1, <1>9, Zenon DEF EventNotify
<1>10. ASSUME NEW i \in Used, JoinStep(i) PROVE FifoInv'
    BY <1>1, <1>10, Zenon DEF JoinStep, ClaimNumber, RaiseMax, LowerMax, Joined
<1>11. ASSUME NEW i \in Used, CVDie(i) PROVE FifoInv'
    <2>1. /\ kills > 0 /\ UNCHANGED <<cvSetup, fifoVars>>
          /\ cvPc' = [t \in Waiters |-> IF t \in {u \in Waiters : Of(u) = i} THEN "out" ELSE cvPc[t]]
        BY <1>11, Zenon DEF CVDie
    <2>2. cvSetup.kills # 0
        BY <1>t, <2>1 DEF FifoTypes
    <2>3. cvPc' \in [Waiters -> CVPcs]
        BY <1>t, <2>1 DEF FifoTypes, CVPcs
    <2> QED
        BY <1>t, <2>1, <2>2, <2>3, Zenon
           DEF FifoInv, FifoTypes, FifoBalanced, fifoVars
<1>12. CASE UNCHANGED cvVars
    BY <1>1, <1>12, Zenon DEF cvVars
<1> QED
    BY <1>2, <1>3, <1>4, <1>5, <1>6, <1>7, <1>8, <1>9, <1>10, <1>11, <1>12,
       Zenon DEF CVNext, CVStep

\* InterprocessCondVar overlooks nobody, with any number of threads, processes and
\* waits: the bytes in the pipe match the suspended threads and the counters as long as
\* nobody dies, and the walk over the events reaches every process however many die.
THEOREM NotificationsReachAll == CVSpec => []NobodyOverlooked
<1>1. CVInit => JoinInv /\ FifoInv
    <2> SUFFICES ASSUME CVInit PROVE JoinInv /\ FifoInv
        BY Zenon
    <2>1. JoinTypes
        BY IdsNat DEF CVInit, JoinTypes, JoinPcs
    <2>2. \A i \in Instances : /\ Build("event") => joinPc[i][1] = "claim" /\ myId[i] = -1
                               /\ ~Build("event") => joinPc[i][1] = "joined"
        BY DEF CVInit
    <2>3. Build("event") => \A i \in Instances : NumberKept(i)
        BY <2>2 DEF NumberKept
    <2>4. FifoTypes
        BY DEF CVInit, FifoTypes, CVPcs
    <2>5. Suspended = {}
        BY DEF CVInit, Suspended
    <2>6. Cardinality(Suspended) = 0
        BY <2>5, FS_EmptySet
    <2>7. FifoBalanced
        BY <2>6 DEF CVInit, FifoBalanced
    <2> QED
        BY <2>1, <2>2, <2>3, <2>4, <2>7, Zenon DEF JoinInv, FifoInv
<1>2. JoinInv /\ FifoInv => NobodyOverlooked
    BY JoinReaches, Zenon DEF NobodyOverlooked, FifoInv
<1> QED
    BY <1>1, <1>2, JoinSteps, FifoSteps, PTL DEF CVSpec
=============================================================================

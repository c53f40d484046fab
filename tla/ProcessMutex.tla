---------------------------- MODULE ProcessMutex ----------------------------
(***************************************************************************)
(* InterprocessMutex, in its two builds.  "robust": a pthread mutex in the *)
(* lock file, which tells the next owner that the last one died.           *)
(* "emulated" (Apple, Android): a mutex of the object, one mutex per       *)
(* process and lock file, and a file lock unless the store belongs to a    *)
(* single process.  The operating system gives back what a dead process    *)
(* held.                                                                   *)
(***************************************************************************)
EXTENDS Naturals, FiniteSets

CONSTANTS
    Users,       \* threads
    MutexKills,  \* bound: processes that die
    MutexSetups  \* [build, object : Users -> object, process : object -> process,
                 \*  single : in_process_only]

\* Only a store that one process uses may say that it does
ASSUME MutexAssumption ==
    \A s \in MutexSetups :
        /\ s.build \in {"robust", "emulated"} /\ s.single \in BOOLEAN
        /\ s.single => \A t, u \in Users : s.process[s.object[t]] = s.process[s.object[u]]

VARIABLES
    mutexSetup,
    bound,       \* objects that have their shared part
    mutexPc,     \* thread -> where it is in a call
    trying,      \* thread -> whether the call is try_lock
    localHeld,   \* object -> the thread that has m_local_mutex, or none
    sharedHeld,  \* process -> the thread that has m_shared_in_process, or none
    fileHeld,    \* the object whose m_file is locked, or none
    robustHeld,  \* the thread that has the pthread mutex, or none
    orphaned,    \* an owner died and nobody marked the mutex as consistent
    leaked,      \* history: is_valid has kept the mutex
    mutexKills

pmVars == <<mutexSetup, bound, mutexPc, trying, localHeld, sharedHeld, fileHeld,
            robustHeld, orphaned, leaked, mutexKills>>
emulatedVars == <<localHeld, sharedHeld, fileHeld>>
robustVars == <<robustHeld, orphaned, leaked>>

Objects == {mutexSetup.object[t] : t \in Users}
Object(t) == mutexSetup.object[t]
Process(o) == mutexSetup.process[o]
ProcessOf(t) == Process(Object(t))
Processes == {Process(o) : o \in Objects}
Emulated == mutexSetup.build = "emulated"

MutexAt(t, pc) == mutexPc' = [mutexPc EXCEPT ![t] = pc]

PMInit ==
    /\ mutexSetup \in MutexSetups
    /\ bound = {} /\ leaked = FALSE /\ mutexKills = MutexKills
    /\ mutexPc = [t \in Users |-> "out"] /\ trying = [t \in Users |-> FALSE]
    /\ localHeld = [o \in Objects |-> {}] /\ sharedHeld = [p \in Processes |-> {}]
    /\ fileHeld = {} /\ robustHeld = {} /\ orphaned = FALSE

\* set_shared_part; DB::open asks is_valid of the control mutex right after it
BindShared(t) ==
    /\ mutexPc[t] = "out" /\ Object(t) \notin bound
    /\ bound' = bound \cup {Object(t)}
    /\ MutexAt(t, "validate")
    /\ UNCHANGED <<mutexSetup, trying, mutexKills>> /\ UNCHANGED emulatedVars /\ UNCHANGED robustVars

\* is_valid: trylock, and unlock where that returned 0.  An orphaned mutex is
\* taken (EOWNERDEAD) and kept.
IsValid(t) ==
    /\ mutexPc[t] = "validate" /\ MutexAt(t, "out")
    /\ IF ~Emulated /\ robustHeld = {} /\ orphaned
       THEN robustHeld' = {t} /\ leaked' = TRUE /\ UNCHANGED orphaned
       ELSE UNCHANGED robustVars
    /\ UNCHANGED <<mutexSetup, bound, trying, mutexKills>> /\ UNCHANGED emulatedVars

LockCall(t, try) ==
    /\ mutexPc[t] = "out" /\ Object(t) \in bound
    /\ trying' = [trying EXCEPT ![t] = try]
    /\ MutexAt(t, IF Emulated THEN "local" ELSE "robust")
    /\ UNCHANGED <<mutexSetup, bound, mutexKills>> /\ UNCHANGED emulatedVars /\ UNCHANGED robustVars

(* The emulation *)

TakeLocal(t) ==
    /\ mutexPc[t] = "local"
    /\ \/ /\ localHeld[Object(t)] = {}
          /\ localHeld' = [localHeld EXCEPT ![Object(t)] = {t}] /\ MutexAt(t, "shared")
       \/ /\ localHeld[Object(t)] # {} /\ trying[t]
          /\ MutexAt(t, "out") /\ UNCHANGED localHeld
    /\ UNCHANGED <<mutexSetup, bound, trying, sharedHeld, fileHeld, mutexKills>> /\ UNCHANGED robustVars

AfterShared == IF mutexSetup.single THEN "in" ELSE "file"

\* A store of a single process keeps to the mutex of its own object
SkipShared(t) ==
    /\ mutexPc[t] = "shared"
    /\ \/ /\ mutexSetup.single \/ sharedHeld[ProcessOf(t)] = {}
          /\ sharedHeld' = [sharedHeld EXCEPT ![ProcessOf(t)] = {t}] /\ MutexAt(t, AfterShared)
       \/ /\ sharedHeld[ProcessOf(t)] # {} /\ trying[t]
          /\ MutexAt(t, "unlocal") /\ UNCHANGED sharedHeld
    /\ UNCHANGED <<mutexSetup, bound, trying, localHeld, fileHeld, mutexKills>> /\ UNCHANGED robustVars

TakeShared(t) ==
    /\ mutexPc[t] = "shared"
    /\ \/ /\ sharedHeld[ProcessOf(t)] = {}
          /\ sharedHeld' = [sharedHeld EXCEPT ![ProcessOf(t)] = {t}] /\ MutexAt(t, AfterShared)
       \/ /\ sharedHeld[ProcessOf(t)] # {} /\ trying[t]
          /\ MutexAt(t, "unlocal") /\ UNCHANGED sharedHeld
    /\ UNCHANGED <<mutexSetup, bound, trying, localHeld, fileHeld, mutexKills>> /\ UNCHANGED robustVars

\* Failed: try_lock of a locked file, and an exception of either call
TakeFile(t) ==
    /\ mutexPc[t] = "file"
    /\ \/ /\ fileHeld = {} /\ fileHeld' = {Object(t)} /\ MutexAt(t, "in")
       \/ /\ fileHeld # {} /\ trying[t]
          /\ MutexAt(t, "unshared") /\ UNCHANGED fileHeld
    /\ UNCHANGED <<mutexSetup, bound, trying, localHeld, sharedHeld, mutexKills>> /\ UNCHANGED robustVars

\* The exception passes the shared mutex by
FileLockEscapes(t) ==
    /\ mutexPc[t] = "file" /\ MutexAt(t, "unlocal")
    /\ UNCHANGED <<mutexSetup, bound, trying, mutexKills>> /\ UNCHANGED emulatedVars /\ UNCHANGED robustVars

FileLockThrows(t) ==
    /\ mutexPc[t] = "file" /\ MutexAt(t, "unshared")
    /\ UNCHANGED <<mutexSetup, bound, trying, mutexKills>> /\ UNCHANGED emulatedVars /\ UNCHANGED robustVars

UnlockCall(t) ==
    /\ mutexPc[t] = "in"
    /\ MutexAt(t, IF Emulated THEN IF mutexSetup.single THEN "unshared" ELSE "unfile" ELSE "unrobust")
    /\ UNCHANGED <<mutexSetup, bound, trying, mutexKills>> /\ UNCHANGED emulatedVars /\ UNCHANGED robustVars

\* unlock, and the way out of a lock that failed
GiveBack(t) ==
    /\ \/ /\ mutexPc[t] = "unfile" /\ fileHeld' = {} /\ MutexAt(t, "unshared")
          /\ UNCHANGED <<localHeld, sharedHeld>>
       \/ /\ mutexPc[t] = "unshared" /\ MutexAt(t, "unlocal")
          /\ sharedHeld' = [sharedHeld EXCEPT ![ProcessOf(t)] = {}]
          /\ UNCHANGED <<localHeld, fileHeld>>
       \/ /\ mutexPc[t] = "unlocal" /\ MutexAt(t, "out")
          /\ localHeld' = [localHeld EXCEPT ![Object(t)] = {}]
          /\ UNCHANGED <<sharedHeld, fileHeld>>
    /\ UNCHANGED <<mutexSetup, bound, trying, mutexKills>> /\ UNCHANGED robustVars

(* The robust mutex *)

\* low_level_lock and try_low_level_lock
LowLevelLock(t) ==
    /\ mutexPc[t] = "robust"
    /\ \/ /\ robustHeld = {} /\ robustHeld' = {t}
          /\ MutexAt(t, IF orphaned THEN "recover" ELSE "in")
       \/ /\ robustHeld # {} /\ trying[t]
          /\ MutexAt(t, "out") /\ UNCHANGED robustHeld
    /\ UNCHANGED <<mutexSetup, bound, trying, orphaned, leaked, mutexKills>> /\ UNCHANGED emulatedVars

\* recover_func does nothing for an InterprocessMutex; mark_as_consistent
Recover(t) ==
    /\ mutexPc[t] = "recover" /\ orphaned' = FALSE /\ MutexAt(t, "in")
    /\ UNCHANGED <<mutexSetup, bound, trying, robustHeld, leaked, mutexKills>> /\ UNCHANGED emulatedVars

RobustUnlock(t) ==
    /\ mutexPc[t] = "unrobust" /\ robustHeld' = {} /\ MutexAt(t, "out")
    /\ UNCHANGED <<mutexSetup, bound, trying, orphaned, leaked, mutexKills>> /\ UNCHANGED emulatedVars

MutexDie(p) ==
    LET dead == {t \in Users : ProcessOf(t) = p}  objs == {o \in Objects : Process(o) = p} IN
    /\ mutexKills > 0 /\ mutexKills' = mutexKills - 1
    /\ bound' = bound \ objs
    /\ mutexPc' = [t \in Users |-> IF t \in dead THEN "out" ELSE mutexPc[t]]
    /\ localHeld' = [o \in Objects |-> IF o \in objs THEN {} ELSE localHeld[o]]
    /\ sharedHeld' = [sharedHeld EXCEPT ![p] = {}]
    /\ fileHeld' = fileHeld \ objs
    /\ robustHeld' = robustHeld \ dead
    /\ orphaned' = (orphaned \/ robustHeld \cap dead # {})
    /\ UNCHANGED <<mutexSetup, trying, leaked>>

PMStep(t) ==
    \/ BindShared(t) \/ IsValid(t) \/ TakeLocal(t) \/ TakeShared(t) \/ TakeFile(t)
    \/ GiveBack(t) \/ LowLevelLock(t) \/ Recover(t) \/ RobustUnlock(t)

PMNext ==
    \/ \E t \in Users : \/ PMStep(t) \/ UnlockCall(t) \/ FileLockThrows(t)
                        \/ \E try \in BOOLEAN : LockCall(t, try)
    \/ \E p \in Processes : MutexDie(p)

\* A thread in a call goes on and one in its critical section leaves it; the
\* mutexes of the system serve whoever keeps asking.
PMFairness == \A t \in Users : SF_pmVars(PMStep(t)) /\ WF_pmVars(UnlockCall(t))

PMSpec == PMInit /\ [][PMNext]_pmVars /\ PMFairness

-----------------------------------------------------------------------------
(* Properties *)

\* Whatever the mix of objects, processes and deaths, one thread at most is in
\* the critical section: the objects of one process that share a lock file
\* exclude each other also where the file lock is skipped.
OneInside == Cardinality({t \in Users : mutexPc[t] = "in"}) <= 1

\* A thread inside a call that has to return although owners die, file locks
\* throw and other threads back out; unless is_valid has kept an orphaned mutex,
\* as its own comment warns.
Locking(t) == mutexPc[t] \notin {"out", "in"} /\ ~leaked
=============================================================================

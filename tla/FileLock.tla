------------------------------ MODULE FileLock ------------------------------
(***************************************************************************)
(* The read-write lock of a File where LLBT_FILELOCK_EMULATION is defined: *)
(* an exclusive flock on the file serializes the lock operations, and a    *)
(* shared lock is a named pipe that is open for reading.  flock and the    *)
(* pipe belong to the operating system, which releases what a dead process *)
(* held.                                                                   *)
(***************************************************************************)
EXTENDS Naturals, FiniteSets

CONSTANTS
    Files,      \* File objects attached to the lock file, each with its descriptor
    LockKills   \* bound: processes that die

ASSUME FileLockAssumption == "none" \notin Files

VARIABLES
    flock,      \* the File whose descriptor has LOCK_EX, or "none"
    fifo,       \* whether the pipe exists
    pipes,      \* the Files that have the pipe open for reading
    lockPc,     \* File -> where it is in rw_lock or rw_unlock
    lockMode,   \* File -> [exclusive, nonBlocking] of the call
    lockKills

flVars == <<flock, fifo, pipes, lockPc, lockMode, lockKills>>

FLInit ==
    /\ flock = "none" /\ fifo = FALSE /\ pipes = {}
    /\ lockPc = [f \in Files |-> "unlocked"]
    /\ lockMode = [f \in Files |-> [exclusive |-> FALSE, nonBlocking |-> FALSE]]
    /\ lockKills = LockKills

Moved(f, pc) == lockPc' = [lockPc EXCEPT ![f] = pc]

\* rw_lock_shared, try_rw_lock_shared and try_rw_lock_exclusive; there is no
\* blocking call for the exclusive lock
RwLock(f, exclusive, nonBlocking) ==
    /\ lockPc[f] = "unlocked" /\ (exclusive => nonBlocking)
    /\ lockMode' = [lockMode EXCEPT ![f] = [exclusive |-> exclusive, nonBlocking |-> nonBlocking]]
    /\ Moved(f, "flock")
    /\ UNCHANGED <<flock, fifo, pipes, lockKills>>

TakeFlock(f) ==
    /\ lockPc[f] = "flock" /\ flock = "none"
    /\ flock' = f /\ Moved(f, "open")
    /\ UNCHANGED <<fifo, pipes, lockMode, lockKills>>

\* EWOULDBLOCK
WouldBlock(f) ==
    /\ lockPc[f] = "flock" /\ flock # "none" /\ lockMode[f].nonBlocking
    /\ Moved(f, "unlocked")
    /\ UNCHANGED <<flock, fifo, pipes, lockMode, lockKills>>

\* The pipe cannot be opened for writing: ENOENT, or ENXIO where it has no reader
NoReader == ~fifo \/ pipes = {}

\* The flock is kept
GetExclusive(f) ==
    /\ lockPc[f] = "open" /\ lockMode[f].exclusive /\ NoReader
    /\ Moved(f, "exclusive")
    /\ UNCHANGED <<flock, fifo, pipes, lockMode, lockKills>>

\* UnlockGuard
RefuseExclusive(f) ==
    /\ lockPc[f] = "open" /\ lockMode[f].exclusive /\ ~NoReader
    /\ flock' = "none" /\ Moved(f, "unlocked")
    /\ UNCHANGED <<fifo, pipes, lockMode, lockKills>>

MakeFifo(f) ==
    /\ lockPc[f] = "open" /\ ~lockMode[f].exclusive /\ ~fifo
    /\ fifo' = TRUE
    /\ UNCHANGED <<flock, pipes, lockPc, lockMode, lockKills>>

\* The flock goes before the pipe is open
ReleaseFirst(f) ==
    \/ /\ lockPc[f] = "open" /\ ~lockMode[f].exclusive /\ fifo
       /\ flock' = "none" /\ Moved(f, "opened")
       /\ UNCHANGED <<fifo, pipes, lockMode, lockKills>>
    \/ /\ lockPc[f] = "opened"
       /\ pipes' = pipes \cup {f} /\ Moved(f, "shared")
       /\ UNCHANGED <<flock, fifo, lockMode, lockKills>>

\* The pipe is open before the flock goes
GetShared(f) ==
    \/ /\ lockPc[f] = "open" /\ ~lockMode[f].exclusive /\ fifo
       /\ pipes' = pipes \cup {f} /\ Moved(f, "opened")
       /\ UNCHANGED <<flock, fifo, lockMode, lockKills>>
    \/ /\ lockPc[f] = "opened"
       /\ flock' = "none" /\ Moved(f, "shared")
       /\ UNCHANGED <<fifo, pipes, lockMode, lockKills>>

\* rw_unlock
RwUnlock(f) ==
    \/ /\ lockPc[f] = "exclusive"
       /\ flock' = "none" /\ Moved(f, "unlocked")
       /\ UNCHANGED <<fifo, pipes, lockMode, lockKills>>
    \/ /\ lockPc[f] = "shared"
       /\ Moved(f, "reflock")
       /\ UNCHANGED <<flock, fifo, pipes, lockMode, lockKills>>

Reflock(f) ==
    /\ lockPc[f] = "reflock" /\ flock = "none"
    /\ flock' = f /\ Moved(f, "closing")
    /\ UNCHANGED <<fifo, pipes, lockMode, lockKills>>

ClosePipe(f) ==
    \/ /\ lockPc[f] = "closing" /\ f \in pipes
       /\ pipes' = pipes \ {f}
       /\ UNCHANGED <<flock, fifo, lockPc, lockMode, lockKills>>
    \/ /\ lockPc[f] = "closing" /\ f \notin pipes
       /\ flock' = "none" /\ Moved(f, "unlocked")
       /\ UNCHANGED <<fifo, pipes, lockMode, lockKills>>

\* The process dies: its descriptors are closed
Die(f) ==
    /\ lockKills > 0 /\ lockKills' = lockKills - 1
    /\ flock' = IF flock = f THEN "none" ELSE flock
    /\ pipes' = pipes \ {f}
    /\ Moved(f, "unlocked")
    /\ UNCHANGED <<fifo, lockMode>>

FLStep(f) ==
    \/ TakeFlock(f) \/ WouldBlock(f) \/ GetExclusive(f) \/ RefuseExclusive(f)
    \/ MakeFifo(f) \/ GetShared(f) \/ Reflock(f) \/ ClosePipe(f)

FLNext ==
    \E f \in Files :
        \/ \E exclusive, nonBlocking \in BOOLEAN : RwLock(f, exclusive, nonBlocking)
        \/ RwUnlock(f) \/ FLStep(f) \/ Die(f)

\* A call goes on; flock serves every one that waits long enough; and whoever has
\* the exclusive lock gives it back
FLFairness ==
    \A f \in Files : SF_flVars(FLStep(f)) /\ WF_flVars(lockPc[f] = "exclusive" /\ RwUnlock(f))

FLSpec == FLInit /\ [][FLNext]_flVars /\ FLFairness

\* try_rw_lock_exclusive: "false if an exclusive or shared lock exists for the
\* file": whoever has the exclusive lock has it alone.
ExclusiveAlone ==
    \A f, g \in Files : f # g /\ lockPc[f] = "exclusive" => lockPc[g] \notin {"exclusive", "shared"}

\* A file object inside a call that has to return.  Every shared lock can be
\* released, although its release waits for the flock that others take.
Calling(f) == lockPc[f] \in {"flock", "open", "opened", "reflock", "closing"}
=============================================================================

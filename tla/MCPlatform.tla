----------------------------- MODULE MCPlatform -----------------------------
(***************************************************************************)
(* What the store asks of the platform, and the write lock it makes of it, *)
(* one piece at a time: the emulated reader/writer file lock, the          *)
(* interprocess mutex, the interprocess condition variable and the write   *)
(* lock with its tickets.  A behaviour picks one piece and only that piece *)
(* moves.                                                                  *)
(***************************************************************************)
EXTENDS FileLock, ProcessMutex, ProcessCondVar, WriteLock, TLC

CONSTANTS Pieces,       \* the pieces this instance explores
          f1, f2, f3, t1, t2, t3, i1, i2, i3, w1, w2, w3
VARIABLE active

\* Three threads: two objects in one process and a third in another; and two
\* objects of a single process, one used by two threads
Three == (t1 :> 1) @@ (t2 :> 2) @@ (t3 :> 3)
Pair == (t1 :> 1) @@ (t2 :> 1) @@ (t3 :> 2)
MCMutexSetups ==
    {[build |-> b, object |-> Three, process |-> <<1, 1, 2>>, single |-> FALSE] : b \in {"robust", "emulated"}}
    \cup {[build |-> "emulated", object |-> Pair, process |-> <<1, 1>>, single |-> TRUE]}

\* Three threads, two of them in one process: every build with time-outs, and
\* with deaths; and processes that only come and die
Two == (t1 :> i1) @@ (t2 :> i1) @@ (t3 :> i2)
Apart == (t1 :> i1) @@ (t2 :> i2) @@ (t3 :> i3)
MCCVSetups ==
    {[build |-> "fifo", instance |-> Two, timed |-> TRUE, waits |-> 4, kills |-> 0],
     [build |-> "fifo", instance |-> Two, timed |-> FALSE, waits |-> 3, kills |-> 1],
     [build |-> "event", instance |-> Two, timed |-> TRUE, waits |-> 2, kills |-> 0],
     [build |-> "event", instance |-> Apart, timed |-> FALSE, waits |-> 1, kills |-> 1],
     [build |-> "pthread", instance |-> Two, timed |-> TRUE, waits |-> 3, kills |-> 1]}

Some(S) == CHOOSE s \in S : TRUE

Init ==
    /\ active \in Pieces
    /\ FLInit
    /\ PMInit /\ (active # "mutex" => mutexSetup = Some(MutexSetups))
    /\ CVInit /\ (active # "condvar" => cvSetup = Some(CVSetups))
    /\ LockInit /\ (active # "write lock" => setup = Some(Setups))

FileLockDoes(A) == active = "file lock" /\ A /\ UNCHANGED <<active, pmVars, cvVars, lockVars>>
MutexDoes(A) == active = "mutex" /\ A /\ UNCHANGED <<active, flVars, cvVars, lockVars>>
CondVarDoes(A) == active = "condvar" /\ A /\ UNCHANGED <<active, flVars, pmVars, lockVars>>
WriteLockDoes(A) == active = "write lock" /\ A /\ UNCHANGED <<active, flVars, pmVars, cvVars>>

Next ==
    \/ FileLockDoes(FLNext) \/ MutexDoes(PMNext) \/ CondVarDoes(CVNext) \/ WriteLockDoes(LockNext)

\* Thread k of the piece that moves: the k-th file object, or the k-th thread
FileOf == <<f1, f2, f3>>
ThreadOf == <<t1, t2, t3>>
InstanceOf == <<i1, i2, i3>>
WriterOf == <<w1, w2, w3>>

\* FLFairness, PMFairness, CVFairness and LockFairness, of the piece that moves
Proceeds(k) ==
    \/ FileLockDoes(FLStep(FileOf[k]))
    \/ MutexDoes(PMStep(ThreadOf[k]))
    \/ CondVarDoes(CVStep(ThreadOf[k]))
    \/ WriteLockDoes(ComesIn(WriterOf[k]))
Leaves(k) ==
    \/ FileLockDoes(lockPc[FileOf[k]] = "exclusive" /\ RwUnlock(FileOf[k]))
    \/ MutexDoes(UnlockCall(ThreadOf[k]))
    \/ CondVarDoes(Leave(ThreadOf[k]))
    \/ WriteLockDoes(Lock(WriterOf[k]) \/ EndWrite(WriterOf[k]))
Joins(k) == CondVarDoes(InstanceOf[k] \in Used /\ JoinStep(InstanceOf[k]))

platformVars == <<active, flVars, pmVars, cvVars, lockVars>>
Fairness ==
    \A k \in 1..3 : /\ SF_platformVars(Proceeds(k)) /\ WF_platformVars(Leaves(k))
                    /\ WF_platformVars(Joins(k))

Spec == Init /\ [][Next]_platformVars /\ Fairness

\* Every call comes back: File::lock() and unlock() of the emulated
\* reader/writer lock, lock() and try_lock() of an interprocess mutex, the
\* wait() of a thread that a notification was sent to, and do_begin_write(), as
\* long as nobody keeps a lock for ever.  Where writers only block the tickets
\* alone see to that: nothing but weak fairness is assumed of the write mutex.
OutOnCall(k) ==
    \/ Calling(FileOf[k]) \/ Locking(ThreadOf[k]) \/ owed[ThreadOf[k]]
    \/ WriterOf[k] \in Queued
CallsComeBack == \A k \in 1..3 : OutOnCall(k) ~> ~OutOnCall(k)
=============================================================================

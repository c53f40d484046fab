--------------------------- MODULE ProcessCondVar ---------------------------
(***************************************************************************)
(* InterprocessCondVar, in its three builds: "pthread"; "fifo", where a    *)
(* byte in a named pipe stands for every waiter that has been notified and *)
(* two counters in the lock file say which waiters those are; and "event"  *)
(* (Windows), where every process has a number and an event of that number *)
(* and lets one of its threads wait for it.  The mutex of the condition    *)
(* variable is the one of module ProcessMutex, taken for granted here.     *)
(***************************************************************************)
EXTENDS Integers, FiniteSets

CONSTANTS
    Waiters,    \* threads
    Instances,  \* InterprocessCondVar objects, each in a process of its own
    CVSetups    \* [build, instance : Waiters -> Instances, timed : waits have a
                \*  time limit, waits, kills : bounds on calls and deaths]

ASSUME CondVarAssumption ==
    /\ IsFiniteSet(Waiters) /\ IsFiniteSet(Instances)
    /\ \A s \in CVSetups : s.instance \in [Waiters -> Instances] /\ s.kills \in Nat

VARIABLES
    cvSetup,
    cvHolder,       \* the thread that has the mutex, or none
    cvPc,           \* thread -> where it is
    owed,           \* history: thread -> notify_all was called while it waited
    waits, kills,   \* what is left of the bounds
    waitCounter, signalCounter, fifoBytes, myTicket,  \* fifo
    anyWaiters, maxProcessNum, eventsSet, numOwner, maxOwner,     \* event, shared
    myId, joinPc, haveWaiter, highestWaiter, signaledWaiters      \* event, per instance

fifoVars == <<waitCounter, signalCounter, fifoBytes>>
joinVars == <<maxProcessNum, numOwner, maxOwner, myId, joinPc>>
eventVars == <<anyWaiters, eventsSet, haveWaiter, highestWaiter, signaledWaiters>>
cvVars == <<cvSetup, cvHolder, cvPc, owed, waits, kills, myTicket, fifoVars, joinVars, eventVars>>

Build(b) == cvSetup.build = b
Of(t) == cvSetup.instance[t]
Suspended == {t \in Waiters : cvPc[t] \notin {"out", "in"}}
CVAt(t, pc) == cvPc' = [cvPc EXCEPT ![t] = pc]
Used == {Of(t) : t \in Waiters}
Ids == 0 .. Cardinality(Instances)  \* bound: the code takes any number

CVInit ==
    /\ cvSetup \in CVSetups
    /\ cvHolder = {} /\ cvPc = [t \in Waiters |-> "out"] /\ owed = [t \in Waiters |-> FALSE]
    /\ waits = cvSetup.waits /\ kills = cvSetup.kills
    /\ waitCounter = 0 /\ signalCounter = 0 /\ fifoBytes = 0
    /\ myTicket = [t \in Waiters |-> 0]
    /\ anyWaiters = FALSE /\ maxProcessNum = 0 /\ eventsSet = {}
    /\ numOwner = [n \in Ids |-> {}] /\ maxOwner = {}
    /\ myId = [i \in Instances |-> -1]
    /\ joinPc = [i \in Instances |-> IF Build("event") THEN <<"claim", 0>> ELSE <<"joined", 0>>]
    /\ haveWaiter = [i \in Instances |-> FALSE]
    /\ highestWaiter = [i \in Instances |-> 0] /\ signaledWaiters = [i \in Instances |-> 0]

-----------------------------------------------------------------------------
(* set_shared_part: the number of an instance, and the highest one in use *)

JoinAt(i, pc) == joinPc' = [joinPc EXCEPT ![i] = pc]

\* The lowest number whose mutex can be locked
ClaimNumber(i) ==
    /\ joinPc[i][1] = "claim" /\ joinPc[i][2] \in Ids
    /\ LET n == joinPc[i][2] IN
       IF numOwner[n] = {}
       THEN /\ numOwner' = [numOwner EXCEPT ![n] = {i}] /\ myId' = [myId EXCEPT ![i] = n]
            /\ JoinAt(i, <<"max", 0>>)
       ELSE JoinAt(i, <<"claim", n + 1>>) /\ UNCHANGED <<numOwner, myId>>
    /\ UNCHANGED <<cvSetup, cvHolder, cvPc, owed, waits, kills, myTicket, maxProcessNum, maxOwner,
                   fifoVars, eventVars>>

RaiseMax(i) ==
    /\ joinPc[i][1] = "max" /\ maxOwner = {} /\ maxOwner' = {i}
    /\ IF myId[i] < maxProcessNum THEN JoinAt(i, <<"lower", maxProcessNum>>) /\ UNCHANGED maxProcessNum
                                  ELSE JoinAt(i, <<"unlock", 0>>) /\ maxProcessNum' = myId[i]
    /\ UNCHANGED <<cvSetup, cvHolder, cvPc, owed, waits, kills, myTicket, numOwner, myId, fifoVars, eventVars>>

\* The walk down does not look whether anybody lives
LowerMaxBlindly(i) ==
    /\ joinPc[i][1] = "lower"
    /\ LET n == joinPc[i][2] IN
       IF n > myId[i] THEN maxProcessNum' = n - 1 /\ JoinAt(i, <<"lower", n - 1>>)
                      ELSE JoinAt(i, <<"unlock", 0>>) /\ UNCHANGED maxProcessNum
    /\ UNCHANGED <<cvSetup, cvHolder, cvPc, owed, waits, kills, myTicket, numOwner, maxOwner, myId,
                   fifoVars, eventVars>>

\* Locks the mutex of the highest number for a moment, to see that nobody has it
LowerMax(i) ==
    /\ \/ /\ joinPc[i][1] = "lower"
          /\ LET n == joinPc[i][2] IN
             IF n > myId[i] /\ numOwner[n] = {}
             THEN numOwner' = [numOwner EXCEPT ![n] = {i}] /\ JoinAt(i, <<"probe", n>>)
             ELSE JoinAt(i, <<"unlock", 0>>) /\ UNCHANGED numOwner
          /\ UNCHANGED maxProcessNum
       \/ /\ joinPc[i][1] = "probe"
          /\ LET n == joinPc[i][2] IN
             /\ numOwner' = [numOwner EXCEPT ![n] = {}] /\ maxProcessNum' = n - 1
             /\ JoinAt(i, <<"lower", n - 1>>)
    /\ UNCHANGED <<cvSetup, cvHolder, cvPc, owed, waits, kills, myTicket, maxOwner, myId, fifoVars, eventVars>>

Joined(i) ==
    /\ joinPc[i][1] = "unlock" /\ maxOwner' = {} /\ JoinAt(i, <<"joined", 0>>)
    /\ UNCHANGED <<cvSetup, cvHolder, cvPc, owed, waits, kills, myTicket, maxProcessNum, numOwner, myId,
                   fifoVars, eventVars>>

-----------------------------------------------------------------------------
(* The mutex, around the calls *)

Enter(t) ==
    /\ cvPc[t] = "out" /\ joinPc[Of(t)][1] = "joined" /\ cvHolder = {}
    /\ cvHolder' = {t} /\ CVAt(t, "in")
    /\ UNCHANGED <<cvSetup, owed, waits, kills, myTicket, fifoVars, joinVars, eventVars>>

Leave(t) ==
    /\ cvPc[t] = "in" /\ cvHolder' = {} /\ CVAt(t, "out")
    /\ UNCHANGED <<cvSetup, owed, waits, kills, myTicket, fifoVars, joinVars, eventVars>>

-----------------------------------------------------------------------------
(* wait, up to the point where it blocks *)

Waits(t, pc) ==
    /\ cvPc[t] = "in" /\ waits > 0 /\ waits' = waits - 1
    /\ cvHolder' = {} /\ CVAt(t, pc)
    /\ UNCHANGED <<cvSetup, owed, kills, joinVars>>

PthreadWait(t) ==
    /\ Build("pthread") /\ Waits(t, "asleep")
    /\ UNCHANGED <<myTicket, fifoVars, eventVars>>

FifoWait(t) ==
    /\ Build("fifo") /\ Waits(t, "asleep")
    /\ waitCounter' = waitCounter + 1 /\ myTicket' = [myTicket EXCEPT ![t] = waitCounter + 1]
    /\ UNCHANGED <<signalCounter, fifoBytes, eventVars>>

\* The first waiter of an instance waits for the event, the others for the first
EventWait(t) ==
    LET i == Of(t) IN
    /\ Build("event")
    /\ highestWaiter' = [highestWaiter EXCEPT ![i] = @ + 1]
    /\ myTicket' = [myTicket EXCEPT ![t] = highestWaiter[i] + 1]
    /\ IF haveWaiter[i]
       THEN Waits(t, "private") /\ UNCHANGED <<anyWaiters, eventsSet, haveWaiter>>
       ELSE /\ Waits(t, "asleep")
            /\ haveWaiter' = [haveWaiter EXCEPT ![i] = TRUE]
            /\ anyWaiters' = TRUE /\ eventsSet' = eventsSet \ {myId[i]}
    /\ UNCHANGED <<signaledWaiters, fifoVars>>

-----------------------------------------------------------------------------
(* The wait ends: poll, WaitForSingleObject *)

Awake(t) ==
    /\ cvPc[t] = "asleep"
    /\ \/ Build("fifo") /\ fifoBytes > 0 /\ UNCHANGED eventsSet
       \/ Build("event") /\ myId[Of(t)] \in eventsSet /\ eventsSet' = eventsSet \ {myId[Of(t)]}
    /\ CVAt(t, "awake")
    /\ UNCHANGED <<cvSetup, cvHolder, owed, waits, kills, myTicket, fifoVars, joinVars,
                   anyWaiters, haveWaiter, highestWaiter, signaledWaiters>>

Expire(t) ==
    /\ cvSetup.timed /\ cvPc[t] \in {"asleep", "private"}
    /\ Build("fifo") => fifoBytes = 0
    /\ CVAt(t, IF cvPc[t] = "asleep" THEN "expired" ELSE "lapsed")
    /\ UNCHANGED <<cvSetup, cvHolder, owed, waits, kills, myTicket, fifoVars, joinVars, eventVars>>

\* pthread_cond_wait may return without a reason
Interrupted(t) ==
    /\ cvSetup.timed /\ Build("pthread") /\ cvPc[t] = "asleep"
    /\ CVAt(t, "awake")
    /\ UNCHANGED <<cvSetup, cvHolder, owed, waits, kills, myTicket, fifoVars, joinVars, eventVars>>

\* wait returns with the mutex
Return(t) ==
    /\ cvHolder' = {t} /\ CVAt(t, "in") /\ owed' = [owed EXCEPT ![t] = FALSE]
    /\ UNCHANGED <<cvSetup, waits, kills, myTicket, joinVars>>

PthreadReturn(t) ==
    /\ Build("pthread") /\ cvPc[t] \in {"awake", "expired"} /\ cvHolder = {}
    /\ Return(t)
    /\ UNCHANGED <<fifoVars, eventVars>>

\* It pretends to have been notified: notify_all will write no byte for it, or
\* has written one that somebody else will take
GiveUp(t) ==
    /\ Build("fifo") /\ cvPc[t] = "expired" /\ cvHolder = {}
    /\ signalCounter' = signalCounter + 1
    /\ Return(t)
    /\ UNCHANGED <<waitCounter, fifoBytes, eventVars>>

\* With the mutex: a later ticket than the last signal polls again, and so does
\* one whose byte is gone; the others take a byte
TakeByte(t) ==
    /\ Build("fifo") /\ cvPc[t] = "awake" /\ cvHolder = {}
    /\ IF signalCounter < myTicket[t] \/ fifoBytes = 0
       THEN /\ CVAt(t, "asleep")
            /\ UNCHANGED <<cvSetup, cvHolder, owed, waits, kills, myTicket, joinVars, fifoBytes>>
       ELSE fifoBytes' = fifoBytes - 1 /\ Return(t)
    /\ UNCHANGED <<waitCounter, signalCounter, eventVars>>

\* The waiter of the event wakes everybody who came while it waited
EventReturn(t) ==
    LET i == Of(t) IN
    /\ Build("event") /\ cvPc[t] \in {"awake", "expired"} /\ cvHolder = {}
    /\ cvHolder' = {t} /\ owed' = [owed EXCEPT ![t] = FALSE]
    /\ haveWaiter' = [haveWaiter EXCEPT ![i] = FALSE]
    /\ IF myTicket[t] # highestWaiter[i]
       THEN /\ signaledWaiters' = [signaledWaiters EXCEPT ![i] = highestWaiter[i]]
            /\ cvPc' = [u \in Waiters |-> IF u = t THEN "in"
                          ELSE IF Of(u) = i /\ cvPc[u] = "private" THEN "told" ELSE cvPc[u]]
       ELSE UNCHANGED signaledWaiters /\ CVAt(t, "in")
    /\ UNCHANGED <<cvSetup, waits, kills, myTicket, anyWaiters, eventsSet, highestWaiter, fifoVars, joinVars>>

\* m_waiter_cv, with its predicate
PrivateReturn(t) ==
    /\ Build("event") /\ cvPc[t] \in {"told", "lapsed"} /\ cvHolder = {}
    /\ \/ /\ cvPc[t] = "lapsed" \/ signaledWaiters[Of(t)] >= myTicket[t]
          /\ Return(t)
       \/ /\ cvPc[t] = "told" /\ signaledWaiters[Of(t)] < myTicket[t]
          /\ CVAt(t, "private")
          /\ UNCHANGED <<cvSetup, cvHolder, owed, waits, kills, myTicket, joinVars>>
    /\ UNCHANGED <<fifoVars, eventVars>>

-----------------------------------------------------------------------------
(* notify_all, with the mutex *)

Owes(t) == owed' = [u \in Waiters |-> owed[u] \/ u \in Suspended]

PthreadNotify(t) ==
    /\ Build("pthread") /\ cvPc[t] = "in" /\ Owes(t)
    /\ cvPc' = [u \in Waiters |-> IF cvPc[u] = "asleep" THEN "awake" ELSE cvPc[u]]
    /\ UNCHANGED <<cvSetup, cvHolder, waits, kills, myTicket, fifoVars, joinVars, eventVars>>

\* One byte for every waiter that has not been signalled
FifoNotify(t) ==
    /\ Build("fifo") /\ cvPc[t] = "in" /\ Owes(t)
    /\ IF waitCounter > signalCounter
       THEN fifoBytes' = fifoBytes + (waitCounter - signalCounter) /\ signalCounter' = waitCounter
       ELSE UNCHANGED <<fifoBytes, signalCounter>>
    /\ UNCHANGED <<cvSetup, cvHolder, cvPc, waits, kills, myTicket, waitCounter, joinVars, eventVars>>

EventNotify(t) ==
    /\ Build("event") /\ cvPc[t] = "in" /\ Owes(t)
    /\ anyWaiters' = FALSE
    /\ eventsSet' = IF anyWaiters THEN eventsSet \cup (0 .. maxProcessNum) ELSE eventsSet
    /\ UNCHANGED <<cvSetup, cvHolder, cvPc, waits, kills, myTicket, haveWaiter, highestWaiter,
                   signaledWaiters, fifoVars, joinVars>>

-----------------------------------------------------------------------------
\* A process dies, and starts again; close gives back the same things.  The file
\* descriptor of the pipe, the numbers and the mutexes go with it, the counters
\* and the bytes in the pipe stay.
CVDie(i) ==
    LET dead == {t \in Waiters : Of(t) = i} IN
    /\ kills > 0 /\ kills' = kills - 1
    /\ cvHolder' = cvHolder \ dead
    /\ cvPc' = [t \in Waiters |-> IF t \in dead THEN "out" ELSE cvPc[t]]
    /\ owed' = [t \in Waiters |-> owed[t] /\ t \notin dead]
    /\ numOwner' = [n \in Ids |-> numOwner[n] \ {i}] /\ maxOwner' = maxOwner \ {i}
    /\ myId' = [myId EXCEPT ![i] = -1]
    /\ JoinAt(i, IF Build("event") THEN <<"claim", 0>> ELSE <<"joined", 0>>)
    /\ haveWaiter' = [haveWaiter EXCEPT ![i] = FALSE]
    /\ highestWaiter' = [highestWaiter EXCEPT ![i] = 0]
    /\ signaledWaiters' = [signaledWaiters EXCEPT ![i] = 0]
    /\ UNCHANGED <<cvSetup, waits, myTicket, maxProcessNum, anyWaiters, eventsSet, fifoVars>>

CVStep(t) ==
    \/ Awake(t) \/ PthreadReturn(t) \/ GiveUp(t) \/ TakeByte(t) \/ EventReturn(t) \/ PrivateReturn(t)
JoinStep(i) == ClaimNumber(i) \/ RaiseMax(i) \/ LowerMax(i) \/ Joined(i)

CVNext ==
    \/ \E t \in Waiters :
        \/ Enter(t) \/ Leave(t) \/ Expire(t) \/ Interrupted(t) \/ CVStep(t)
        \/ PthreadWait(t) \/ FifoWait(t) \/ EventWait(t)
        \/ PthreadNotify(t) \/ FifoNotify(t) \/ EventNotify(t)
    \/ \E i \in Used : JoinStep(i) \/ CVDie(i)

\* A thread that can go on does, the mutex serves whoever keeps asking for it, and
\* nobody keeps it for good.  Nothing says that a wait expires.
CVFairness ==
    /\ \A t \in Waiters : SF_cvVars(CVStep(t)) /\ WF_cvVars(Leave(t))
    /\ \A i \in Instances : WF_cvVars(i \in Used /\ JoinStep(i))

CVSpec == CVInit /\ [][CVNext]_cvVars /\ CVFairness

-----------------------------------------------------------------------------
(* Properties *)

\* The "wait/notify combined invariant" of the pipe, with the sign that holds: as
\* many bytes are in it, beyond the suspended threads, as the signals are ahead of
\* the waits, through time-outs that race with notifications.
FifoBalanced ==
    Build("fifo") /\ cvSetup.kills = 0 =>
        fifoBytes - Cardinality(Suspended) = signalCounter - waitCounter

\* However processes come and die, no two of them have the same number and the
\* notifier's walk over the events reaches every one that may wait.
EveryProcessReached ==
    Build("event") =>
        \A i, j \in Instances :
            /\ joinPc[i][1] = "joined" => myId[i] <= maxProcessNum
            /\ i # j /\ myId[i] # -1 => myId[i] # myId[j]

\* A notification overlooks nobody: the bytes in the pipe match the waiters,
\* and every process that may wait has an event of its own that is signalled.
NobodyOverlooked == FifoBalanced /\ EveryProcessReached
=============================================================================

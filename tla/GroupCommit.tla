---------------------------- MODULE GroupCommit ----------------------------
(***************************************************************************)
(* Store::write() and its group commit (core/store.cpp).                   *)
(*                                                                         *)
(* Every call parks a Pending node on a queue.  The first thread that      *)
(* finds no leader becomes one: it takes the engine's write lock, drains   *)
(* up to MaxBatch nodes, runs their closures in one transaction and        *)
(* commits once.  If a closure throws, the transaction is rolled back and  *)
(* the other closures run again, each in a transaction of its own.  The    *)
(* others sleep on a condition variable until they are done or there is    *)
(* no leader.                                                              *)
(*                                                                         *)
(* A step of the model is a critical section of GroupCommitter::mutex, or  *)
(* what a leader does between taking and giving back the write lock.       *)
(* Calls are numbered in the order they enter the queue.                   *)
(***************************************************************************)
EXTENDS Naturals, Sequences

CONSTANTS Thread,      \* threads that call write()
          MaxBatch,    \* GroupCommitter::max_batch (64 in the code)
          MaxCalls,    \* bound on the calls of a behaviour
          MaxOther,    \* bound on commits of unrelated begin_write()s
          NoOne, Other \* holders of the write lock that are not threads

ASSUME GroupCommitAssumption ==
    /\ MaxBatch \in Nat \ {0} /\ MaxCalls \in Nat /\ MaxOther \in Nat
    /\ NoOne \notin Thread /\ Other \notin Thread /\ NoOne # Other

VARIABLES
    arrived, version, log, outcome,  \* as in WriteService
    pc,         \* where a thread is inside write()
    id,         \* number of a thread's current call
    queue,      \* GroupCommitter.queue: the threads that own the nodes
    leader,     \* GroupCommitter.leader_active
    done,       \* Pending.done
    result,     \* Pending.version / Pending.error
    batch,      \* lead_batch's array
    thrower,    \* lead_batch's index of a throwing closure
    index,      \* lead_batch's loop variable i
    writer,     \* holder of the engine's write lock
    critical,   \* SharedInfo.commit_in_critical_phase
    threw,      \* history: calls whose closure has thrown
    others      \* commits of unrelated write transactions so far

service   == <<arrived, version, log, outcome>>
committer == <<queue, leader>>
pending   == <<id, done, result>>
local     == <<batch, thrower, index>>
engine    == <<writer, critical>>
vars      == <<arrived, version, log, outcome, pc, id, queue, leader, done,
               result, batch, thrower, index, writer, critical, threw, others>>

Calls     == 1 .. MaxCalls
NoOutcome == [kind |-> "none", version |-> 0]
Error(k)  == [kind |-> k, version |-> 0]
Landed(v) == [kind |-> "version", version |-> v]
Outcomes  == [kind : {"none", "version", "closure", "begin", "commit"},
              version : Nat]

\* Program points; a thread leads from "begin" to "resign".
Leading == {"begin", "drain", "failed", "run", "commit", "retry", "rerun",
            "recommit", "finish", "resign"}
Inside  == Leading \cup {"asleep", "woken", "return"}
PC      == Inside \cup {"out"}

Go(t, p) == pc' = [pc EXCEPT ![t] = p]

Init ==
    /\ arrived = 0 /\ version = 0 /\ log = <<>>
    /\ outcome = [c \in Calls |-> NoOutcome]
    /\ pc = [t \in Thread |-> "out"]
    /\ id = [t \in Thread |-> 0]
    /\ queue = <<>> /\ leader = FALSE
    /\ done = [t \in Thread |-> FALSE]
    /\ result = [t \in Thread |-> NoOutcome]
    /\ batch = [t \in Thread |-> <<>>]
    /\ thrower = [t \in Thread |-> 0]
    /\ index = [t \in Thread |-> 0]
    /\ writer = NoOne /\ critical = FALSE
    /\ threw = {} /\ others = 0

-----------------------------------------------------------------------------
(* write(): the queue and the election *)

\* push_back, then the first round of the loop, under one lock of the mutex.
Call(t) ==
    /\ pc[t] = "out" /\ arrived < MaxCalls
    /\ arrived' = arrived + 1
    /\ id' = [id EXCEPT ![t] = arrived + 1]
    /\ done' = [done EXCEPT ![t] = FALSE]
    /\ result' = [result EXCEPT ![t] = NoOutcome]
    /\ queue' = Append(queue, t)
    /\ Go(t, IF leader THEN "asleep" ELSE "begin")
    /\ leader' = TRUE
    /\ UNCHANGED <<version, log, outcome, local, engine, threw, others>>

\* A condition variable may wake a thread for no reason.
SpuriousWake(t) ==
    /\ pc[t] = "asleep"
    /\ Go(t, "woken")
    /\ UNCHANGED <<service, committer, pending, local, engine, threw, others>>

\* Mutant: the wait looks at the node's own flag only.
WakeWhenDone(t) ==
    /\ pc[t] = "woken"
    /\ Go(t, IF done[t] THEN "return" ELSE "asleep")
    /\ UNCHANGED <<service, committer, pending, local, engine, threw, others>>

\* The predicate of the wait, and the next round of the loop.
Wake(t) ==
    /\ pc[t] = "woken"
    /\ \/ done[t] /\ Go(t, "return") /\ UNCHANGED leader
       \/ ~done[t] /\ leader /\ Go(t, "asleep") /\ UNCHANGED leader
       \/ ~done[t] /\ ~leader /\ Go(t, "begin") /\ leader' = TRUE
    /\ UNCHANGED <<service, queue, pending, local, engine, threw, others>>

\* Mutant: no notify_all.
ResignSilently(t) ==
    /\ pc[t] = "resign"
    /\ leader' = ~done[t]
    /\ Go(t, IF done[t] THEN "return" ELSE "begin")
    /\ UNCHANGED <<service, queue, pending, local, engine, threw, others>>

\* After lead_batch: leader_active = false, notify_all, and the loop again.
Resign(t) ==
    /\ pc[t] = "resign"
    /\ leader' = ~done[t]
    /\ pc' = [s \in Thread |->
                IF s = t THEN (IF done[t] THEN "return" ELSE "begin")
                ELSE IF pc[s] = "asleep" THEN "woken" ELSE pc[s]]
    /\ UNCHANGED <<service, queue, pending, local, engine, threw, others>>

\* The call returns its version or rethrows its error; its node is gone.
Return(t) ==
    /\ pc[t] = "return"
    /\ outcome' = [outcome EXCEPT ![id[t]] = result[t]]
    /\ Go(t, "out")
    /\ id' = [id EXCEPT ![t] = 0]
    /\ done' = [done EXCEPT ![t] = FALSE]
    /\ result' = [result EXCEPT ![t] = NoOutcome]
    /\ UNCHANGED <<arrived, version, log, committer, local, engine, threw,
                   others>>

-----------------------------------------------------------------------------
(* lead_batch *)

\* begin_write() waits for the write lock.
BeginWrite(t) ==
    /\ pc[t] = "begin" /\ writer = NoOne /\ ~critical
    /\ writer' = t
    /\ Go(t, "drain")
    /\ UNCHANGED <<service, committer, pending, local, critical, threw, others>>

\* It throws: an earlier commit died in its critical phase, or start_write
\* fails and gives the lock back.
BeginFails(t) ==
    /\ pc[t] = "begin" /\ writer = NoOne
    /\ Go(t, "failed")
    /\ UNCHANGED <<service, committer, pending, local, engine, threw, others>>

\* How many nodes drain() takes.
Taken == IF Len(queue) < MaxBatch THEN Len(queue) ELSE MaxBatch

\* Mutant: the last node taken stays in the queue.
RestWithLast == SubSeq(queue, Taken, Len(queue))

\* What it leaves in the queue.
Rest == SubSeq(queue, Taken + 1, Len(queue))

\* The result of every node of the leader's batch.
SetResults(t, r) ==
    result' = [s \in Thread |->
        IF \E i \in DOMAIN batch'[t] : batch'[t][i] = s THEN r ELSE result[s]]

Drain(t) ==
    /\ pc[t] \in {"drain", "failed"}
    /\ batch' = [batch EXCEPT ![t] = SubSeq(queue, 1, Taken)]
    /\ queue' = Rest
    /\ IF pc[t] = "drain"
       THEN Go(t, "run") /\ UNCHANGED result
       ELSE Go(t, "finish") /\ SetResults(t, Error("begin"))
    /\ UNCHANGED <<service, leader, id, done, thrower, index, engine, threw,
                   others>>

\* The closures of the batch run one after the other until one throws.
RunBatch(t) ==
    /\ pc[t] = "run"
    /\ Go(t, "commit")
    /\ UNCHANGED <<service, committer, pending, local, engine, threw, others>>

\* Closure k throws: the transaction is rolled back.  A lone call gets the
\* error; otherwise the rest of the batch is tried one by one.
ClosureThrows(t, k) ==
    /\ pc[t] = "run" /\ k \in DOMAIN batch[t]
    /\ threw' = threw \cup {id[batch[t][k]]}
    /\ writer' = NoOne
    /\ UNCHANGED batch
    /\ IF Len(batch[t]) = 1
       THEN /\ Go(t, "finish")
            /\ SetResults(t, Error("closure"))
            /\ UNCHANGED <<thrower, index>>
       ELSE /\ Go(t, "retry")
            /\ thrower' = [thrower EXCEPT ![t] = k]
            /\ index' = [index EXCEPT ![t] = 1]
            /\ UNCHANGED result
    /\ UNCHANGED <<service, committer, id, done, critical, others>>

\* What commit() adds to the file for the calls of some nodes.
LogCalls(nodes) ==
    /\ version' = version + 1
    /\ log' = log \o [i \in DOMAIN nodes |->
                        [call |-> id[nodes[i]], version |-> version + 1]]

\* One commit for the whole batch; the write lock is free again.
CommitBatch(t) ==
    /\ pc[t] = "commit"
    /\ LogCalls(batch[t])
    /\ UNCHANGED batch
    /\ SetResults(t, Landed(version + 1))
    /\ writer' = NoOne
    /\ Go(t, "finish")
    /\ UNCHANGED <<arrived, outcome, committer, id, done, thrower, index,
                   critical, threw, others>>

\* commit() throws before anything is published, while the version list is
\* updated (which ends the session for writers), or after the publication
\* (a commit listener, the control mutex).
FailedCommit(nodes) ==
    \/ UNCHANGED <<version, log, critical>>
    \/ critical' = TRUE /\ UNCHANGED <<version, log>>
    \/ LogCalls(nodes) /\ UNCHANGED critical

\* Mutant: a failed commit is tried again one by one.
CommitFailsRetries(t) ==
    /\ pc[t] = "commit"
    /\ FailedCommit(batch[t])
    /\ writer' = NoOne
    /\ index' = [index EXCEPT ![t] = 1]
    /\ Go(t, "retry")
    /\ UNCHANGED <<arrived, outcome, committer, pending, batch, thrower,
                   threw, others>>

\* The whole batch shares the failure; nothing is tried again.
CommitFails(t) ==
    /\ pc[t] = "commit"
    /\ FailedCommit(batch[t])
    /\ UNCHANGED batch
    /\ SetResults(t, Error("commit"))
    /\ writer' = NoOne
    /\ Go(t, "finish")
    /\ UNCHANGED <<arrived, outcome, committer, id, done, thrower, index,
                   threw, others>>

\* run_one for the i-th node of the batch, except the one that threw.
Node(t) == batch[t][index[t]]

Settle(t, r) ==
    /\ result' = [result EXCEPT ![Node(t)] = r]
    /\ index' = [index EXCEPT ![t] = index[t] + 1]
    /\ Go(t, IF index[t] = Len(batch[t]) THEN "finish" ELSE "retry")

RetrySkipsThrower(t) ==
    /\ pc[t] = "retry" /\ index[t] = thrower[t]
    /\ Settle(t, Error("closure"))
    /\ UNCHANGED <<service, committer, id, done, batch, thrower, engine,
                   threw, others>>

RetryBegins(t) ==
    /\ pc[t] = "retry" /\ index[t] # thrower[t]
    /\ writer = NoOne /\ ~critical
    /\ writer' = t
    /\ Go(t, "rerun")
    /\ UNCHANGED <<service, committer, pending, local, critical, threw, others>>

RetryBeginFails(t) ==
    /\ pc[t] = "retry" /\ index[t] # thrower[t]
    /\ writer = NoOne
    /\ Settle(t, Error("begin"))
    /\ UNCHANGED <<service, committer, id, done, batch, thrower, engine,
                   threw, others>>

RetryRuns(t) ==
    /\ pc[t] = "rerun"
    /\ Go(t, "recommit")
    /\ UNCHANGED <<service, committer, pending, local, engine, threw, others>>

RetryThrows(t) ==
    /\ pc[t] = "rerun"
    /\ threw' = threw \cup {id[Node(t)]}
    /\ writer' = NoOne
    /\ Settle(t, Error("closure"))
    /\ UNCHANGED <<service, committer, id, done, batch, thrower, critical,
                   others>>

\* Mutant: the version the transaction started from is reported.
RetryCommitsOld(t) ==
    /\ pc[t] = "recommit"
    /\ LogCalls(<<Node(t)>>)
    /\ Settle(t, Landed(version))
    /\ writer' = NoOne
    /\ UNCHANGED <<arrived, outcome, committer, id, done, batch, thrower,
                   critical, threw, others>>

RetryCommits(t) ==
    /\ pc[t] = "recommit"
    /\ LogCalls(<<Node(t)>>)
    /\ Settle(t, Landed(version + 1))
    /\ writer' = NoOne
    /\ UNCHANGED <<arrived, outcome, committer, id, done, batch, thrower,
                   critical, threw, others>>

RetryCommitFails(t) ==
    /\ pc[t] = "recommit"
    /\ FailedCommit(<<Node(t)>>)
    /\ Settle(t, Error("commit"))
    /\ writer' = NoOne
    /\ UNCHANGED <<arrived, outcome, committer, id, done, batch, thrower,
                   threw, others>>

\* finish(): every node of the batch is done; the leader drops the array.
Finish(t) ==
    /\ pc[t] = "finish"
    /\ done' = [s \in Thread |->
                  done[s] \/ \E i \in DOMAIN batch[t] : batch[t][i] = s]
    /\ batch' = [batch EXCEPT ![t] = <<>>]
    /\ thrower' = [thrower EXCEPT ![t] = 0]
    /\ index' = [index EXCEPT ![t] = 0]
    /\ Go(t, "resign")
    /\ UNCHANGED <<service, committer, id, result, engine, threw, others>>

-----------------------------------------------------------------------------
(* A writer that uses begin_write() itself *)

OtherBegins ==
    /\ writer = NoOne /\ ~critical
    /\ writer' = Other
    /\ UNCHANGED <<service, pc, committer, pending, local, critical, threw,
                   others>>

OtherCommits ==
    /\ writer = Other /\ others < MaxOther
    /\ writer' = NoOne
    /\ version' = version + 1
    /\ others' = others + 1
    /\ UNCHANGED <<arrived, log, outcome, pc, committer, pending, local,
                   critical, threw>>

OtherRollsBack ==
    /\ writer = Other
    /\ writer' = NoOne
    /\ UNCHANGED <<service, pc, committer, pending, local, critical, threw,
                   others>>

\* Its process dies while it publishes a version; the mutex is robust.
OtherDies ==
    /\ writer = Other
    /\ writer' = NoOne
    /\ critical' = TRUE
    /\ UNCHANGED <<service, pc, committer, pending, local, threw, others>>

-----------------------------------------------------------------------------
\* Every call has returned and there will be no more.
Quiet ==
    /\ arrived = MaxCalls /\ \A t \in Thread : pc[t] = "out"
    /\ UNCHANGED vars

Batch(t) ==
    \/ Drain(t) \/ RunBatch(t) \/ CommitBatch(t) \/ CommitFails(t)
    \/ \E k \in 1 .. MaxBatch : ClosureThrows(t, k)

Retry(t) ==
    \/ RetrySkipsThrower(t) \/ RetryRuns(t) \/ RetryThrows(t)
    \/ RetryCommits(t) \/ RetryCommitFails(t)

\* Steps that wait for the write lock.
Acquire(t) ==
    BeginWrite(t) \/ BeginFails(t) \/ RetryBegins(t) \/ RetryBeginFails(t)

Steps(t) == Wake(t) \/ Resign(t) \/ Return(t) \/ Batch(t) \/ Retry(t) \/ Finish(t)

OtherEnds == OtherCommits \/ OtherRollsBack \/ OtherDies

Next ==
    \/ \E t \in Thread : Call(t) \/ SpuriousWake(t) \/ Steps(t) \/ Acquire(t)
    \/ OtherBegins \/ OtherEnds
    \/ Quiet

Spec == Init /\ [][Next]_vars

\* Threads are scheduled, other writers end their transactions, and the
\* tickets of do_begin_write let nobody wait for the write lock for ever.
Fairness ==
    /\ \A t \in Thread : WF_vars(Steps(t)) /\ SF_vars(Acquire(t))
    /\ WF_vars(OtherEnds)

FairSpec == Spec /\ Fairness
-----------------------------------------------------------------------------
(* Properties *)

\* Every variable has its type, and a batch fits lead_batch's array.
TypeOK ==
    /\ arrived \in 0 .. MaxCalls /\ version \in Nat
    /\ log \in Seq([call : Calls, version : Nat \ {0}])
    /\ outcome \in [Calls -> Outcomes]
    /\ pc \in [Thread -> PC]
    /\ id \in [Thread -> 0 .. MaxCalls]
    /\ queue \in Seq(Thread) /\ leader \in BOOLEAN
    /\ done \in [Thread -> BOOLEAN]
    /\ result \in [Thread -> Outcomes]
    /\ batch \in [Thread -> Seq(Thread)]
    /\ \A t \in Thread : Len(batch[t]) <= MaxBatch
    /\ thrower \in [Thread -> 0 .. MaxBatch]
    /\ index \in [Thread -> 0 .. MaxBatch + 1]
    /\ writer \in Thread \cup {NoOne, Other} /\ critical \in BOOLEAN
    /\ threw \subseteq Calls /\ others \in 0 .. MaxOther

\* The nodes live on the stacks of their callers, and results travel through
\* them: no pointer to a node outlives its write() call, and a node that is
\* not done is in exactly one place from which somebody will finish it.
NodesAccounted ==
    \A t \in Thread :
        LET inQueue == {i \in DOMAIN queue : queue[i] = t}
            inBatch == {p \in Thread \X (1 .. MaxBatch) :
                          p[2] \in DOMAIN batch[p[1]] /\ batch[p[1]][p[2]] = t}
        IN IF pc[t] \in Inside /\ ~done[t]
           THEN \/ inBatch = {} /\ \E i \in inQueue : inQueue = {i}
                \/ inQueue = {} /\ \E p \in inBatch : inBatch = {p}
           ELSE inQueue = {} /\ inBatch = {}

\* leader_active means that exactly one thread leads, and a thread sleeps on
\* the condition variable only while it is set: a sleeper always has somebody
\* who will notify it.
SleepersHaveLeader ==
    /\ \A s, t \in Thread : pc[s] \in Leading /\ pc[t] \in Leading => s = t
    /\ leader <=> \E t \in Thread : pc[t] \in Leading
    /\ \A t \in Thread : pc[t] = "asleep" => leader

\* No call is committed twice, not even when a batch is taken apart and its
\* closures run again, and calls are committed in the order they arrived.
CommittedOnceInOrder ==
    \A i, j \in DOMAIN log : i < j => log[i].call < log[j].call

\* A throwing closure fails only itself: a call that reports a closure's
\* exception is one whose own closure threw.
FailsOnlyItself ==
    \A c \in Calls : outcome[c].kind = "closure" => c \in threw

\* write() does what WriteService promises: answers tell the truth about the
\* log for ever, commits are atomic and in order.
Promise == INSTANCE WriteService
WriteImplementsService == Promise!Service

\* Every call to write() returns, whoever leads, throws or fails.
EveryCallReturns ==
    \A c \in Calls : (arrived >= c) ~> (outcome[c] # NoOutcome)

\* Whatever is tried again, calls are committed once and in order, and only a
\* call whose own closure threw is told so.
CommitsSound == CommittedOnceInOrder /\ FailsOnlyItself
=============================================================================

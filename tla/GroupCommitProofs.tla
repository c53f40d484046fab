------------------------- MODULE GroupCommitProofs --------------------------
(***************************************************************************)
(* The theorems about GroupCommit: every step keeps the invariant, which   *)
(* gives the safety properties the model-checking run checks, and          *)
(* GroupCommit implements WriteService.                                    *)
(***************************************************************************)
EXTENDS GroupCommitBatches

\* The steps in which run_one ends: the closure that threw is skipped, or the
\* call has a transaction of its own that cannot begin, throws, commits or
\* fails to.
LEMMA RetrySteps ==
    ASSUME IInv, NEW t \in Thread,
           \/ RetrySkipsThrower(t) \/ RetryBeginFails(t) \/ RetryThrows(t)
           \/ RetryCommits(t) \/ RetryCommitFails(t)
    PROVE  IInv'
<1>1. version \in Nat /\ critical \in BOOLEAN /\ threw \subseteq Calls
    BY Zenon DEF IInv, TypeOK
<1>2. /\ pc[t] \in Retrying
      /\ UNCHANGED <<arrived, outcome, queue, leader, id, done, batch,
                     thrower, others>>
      /\ writer' \in {writer, NoOne}
    BY Zenon DEF RetrySkipsThrower, RetryBeginFails, RetryThrows, RetryCommits,
           RetryCommitFails, Retrying, service, committer, engine
<1>3. critical' \in BOOLEAN
    BY <1>1, Zenon
       DEF RetrySkipsThrower, RetryBeginFails, RetryThrows, RetryCommits,
                RetryCommitFails, FailedCommit, engine
<1>4. /\ Node(t) = batch[t][index[t]] /\ id[Node(t)] \in Calls
      /\ id[batch[t][thrower[t]]] \in threw
    <2>1. index[t] \in 1 .. Len(batch[t]) /\ id[batch[t][thrower[t]]] \in threw
        BY <1>2, Zenon DEF IInv, Batched
    <2>2. pc[t] \in Working
        BY <1>2, Zenon DEF Working
    <2>3. \A k \in 1 .. Len(batch[t]) : id[batch[t][k]] \in Calls
        BY <2>2, LeaderBatch, Zenon
    <2> QED
        BY <2>1, <2>3, Zenon DEF Node
<1>5. \A k \in {"closure", "begin", "commit"} :
        Error(k) \in Outcomes /\ Error(k).kind = k /\ Error(k).version = 0
    BY Zenon DEF Error, Outcomes
<1>6. CASE RetrySkipsThrower(t)
    <2>1. /\ Settle(t, Error("closure")) /\ UNCHANGED <<version, log>>
          /\ threw' = threw /\ index[t] = thrower[t]
        BY <1>6, Zenon DEF RetrySkipsThrower, service
    <2>2. id[Node(t)] \in threw'
        BY <1>4, <2>1, Zenon
    <2> QED
        BY <1>1, <1>2, <1>3, <1>5, <2>1, <2>2, SettleStep, Zenon DEF SettlesOne
<1>7. CASE RetryBeginFails(t)
    <2>1. /\ Settle(t, Error("begin")) /\ UNCHANGED <<version, log>>
          /\ threw' = threw
        BY <1>7, Zenon DEF RetryBeginFails, service
    <2> QED
        BY <1>1, <1>2, <1>3, <1>5, <2>1, SettleStep, Zenon DEF SettlesOne
<1>8. CASE RetryThrows(t)
    <2>1. /\ Settle(t, Error("closure")) /\ UNCHANGED <<version, log>>
          /\ threw' = threw \cup {id[Node(t)]}
        BY <1>8, Zenon DEF RetryThrows, service
    <2>2. threw \subseteq threw' /\ threw' \subseteq Calls /\ id[Node(t)] \in threw'
        BY <1>1, <1>4, <2>1, Zenon
    <2> QED
        BY <1>2, <1>3, <1>5, <2>1, <2>2, SettleStep, Zenon DEF SettlesOne
<1>9. CASE RetryCommits(t)
    <2>1. /\ Settle(t, Landed(version + 1)) /\ LogCalls(<<Node(t)>>)
          /\ threw' = threw
        BY <1>9, Zenon DEF RetryCommits
    <2>2. /\ Landed(version + 1) \in Outcomes
          /\ Landed(version + 1).kind = "version"
          /\ Landed(version + 1).version = version + 1
        BY <1>1 DEF Landed, Outcomes
    <2> QED
        BY <1>1, <1>2, <1>3, <2>1, <2>2, SettleStep, Zenon DEF SettlesOne
<1>10. CASE RetryCommitFails(t)
    <2>1. /\ Settle(t, Error("commit")) /\ threw' = threw
          /\ UNCHANGED <<version, log>> \/ LogCalls(<<Node(t)>>)
        BY <1>10, Zenon DEF RetryCommitFails, FailedCommit
    <2> QED
        BY <1>1, <1>2, <1>3, <1>5, <2>1, SettleStep, Zenon DEF SettlesOne
<1> QED
    BY <1>6, <1>7, <1>8, <1>9, <1>10, Zenon

\* The beginning and the rest of the queue that drain() divides it into.
LEMMA DrainedQueue ==
    ASSUME TypeOK
    PROVE  /\ Taken \in Nat /\ Taken <= Len(queue) /\ Taken <= MaxBatch
           /\ SubSeq(queue, 1, Taken) \in Seq(Thread) /\ Rest \in Seq(Thread)
           /\ Len(SubSeq(queue, 1, Taken)) = Taken
           /\ Len(Rest) = Len(queue) - Taken
           /\ \A i \in 1 .. Taken : SubSeq(queue, 1, Taken)[i] = queue[i]
           /\ \A i \in 1 .. Len(Rest) : Rest[i] = queue[Taken + i]
<1>1. queue \in Seq(Thread) /\ Len(queue) \in Nat /\ MaxBatch \in Nat
    BY GroupCommitAssumption DEF GroupCommitAssumption, TypeOK
<1>2. Taken \in Nat /\ Taken <= Len(queue) /\ Taken <= MaxBatch
    BY <1>1 DEF Taken
<1>3. /\ SubSeq(queue, 1, Taken) \in Seq(Thread)
      /\ Len(SubSeq(queue, 1, Taken)) = Taken
      /\ \A i \in 1 .. Taken : SubSeq(queue, 1, Taken)[i] = queue[i]
    BY <1>1, <1>2
<1>4. /\ Rest \in Seq(Thread) /\ Len(Rest) = Len(queue) - Taken
      /\ \A i \in 1 .. Len(Rest) : Rest[i] = queue[Taken + i]
    BY <1>1, <1>2 DEF Rest
<1> QED
    BY <1>2, <1>3, <1>4, Zenon

\* A leader drains the queue.
LEMMA DrainStep == ASSUME IInv, NEW t \in Thread, Drain(t) PROVE IInv'
<1> DEFINE n == Taken
<1>0. /\ pc \in [Thread -> PC] /\ result \in [Thread -> Outcomes]
      /\ batch \in [Thread -> Seq(Thread)]
    BY Zenon DEF TypeOK, IInv
<1>e. /\ Len(queue) \in Nat /\ \A i \in 1 .. Len(queue) : queue[i] \in Thread
      /\ Len(log) \in Nat
      /\ \A i \in 1 .. Len(log) : log[i].call \in Nat
      /\ \A s \in Thread : id[s] \in Nat
    BY Elements, Zenon DEF IInv
<1>1. /\ pc[t] \in {"drain", "failed"}
      /\ batch' = [batch EXCEPT ![t] = SubSeq(queue, 1, n)] /\ queue' = Rest
      /\ pc' = [pc EXCEPT ![t] = IF pc[t] = "drain" THEN "run" ELSE "finish"]
      /\ UNCHANGED <<arrived, version, log, outcome, leader, id, done, thrower,
                     index, writer, critical, threw, others>>
    BY Zenon DEF Drain, Go, service, engine
<1>2. /\ n \in Nat /\ n <= Len(queue) /\ n <= MaxBatch
      /\ batch'[t] \in Seq(Thread) /\ queue' \in Seq(Thread)
      /\ Len(batch'[t]) = n /\ Len(queue') = Len(queue) - n
      /\ \A i \in 1 .. n : batch'[t][i] = queue[i]
      /\ \A i \in 1 .. Len(queue') : queue'[i] = queue[n + i]
    BY <1>0, <1>1, DrainedQueue, Zenon DEF IInv
<1>3. /\ \A i \in 1 .. n : i \in 1 .. Len(queue) /\ batch'[t][i] \in Thread
      /\ \A i \in 1 .. Len(queue') : n + i \in 1 .. Len(queue) /\ queue'[i] \in Thread
    BY <1>e, <1>2
<1>4. /\ pc[t] \in Leading /\ pc'[t] \in {"run", "finish"} /\ pc'[t] \in Leading
      /\ pc[t] \notin Working /\ pc'[t] \in Working /\ pc'[t] \notin Retrying
      /\ pc'[t] # "return" /\ pc'[t] # "asleep"
      /\ \A s \in Thread \ {t} : pc'[s] = pc[s] /\ batch'[s] = batch[s]
    BY <1>0, <1>1, Zenon DEF Leading, Working, Retrying
<1>5. \A s \in Thread \ {t} : pc[s] \notin Working /\ Len(batch[s]) = 0
    <2>1. \A s \in Thread \ {t} : pc[s] \notin Leading
        BY <1>4, Zenon DEF SleepersHaveLeader, IInv
    <2>2. \A s \in Thread \ {t} : pc[s] \notin Working
        BY <2>1, Zenon DEF Leading, Working, Retrying
    <2> QED
        BY <2>2, Zenon DEF Batched, IInv
<1>6. \A s \in Thread : pc'[s] \in Inside <=> pc[s] \in Inside
    BY <1>4, Zenon DEF Inside
<1>7. \A i \in 1 .. Len(queue) :
        /\ pc[queue[i]] \in Inside /\ ~done[queue[i]]
        /\ \A j \in 1 .. Len(queue) : i < j => id[queue[i]] < id[queue[j]]
    BY Zenon DEF Queued, Undone, IInv
<1>8. /\ \A s \in Thread : \/ result'[s] = result[s]
                           \/ /\ result'[s] = Error("begin") /\ pc[t] = "failed"
                              /\ \E i \in 1 .. n : batch'[t][i] = s
      /\ pc[t] = "failed" => \A i \in 1 .. n : result'[batch'[t][i]] = Error("begin")
    <2>1. CASE pc[t] = "drain"
        BY <2>1, Zenon DEF Drain
    <2>2. CASE pc[t] = "failed"
        <3>1. DOMAIN batch'[t] = 1 .. n
            BY <1>2
        <3>2. SetResults(t, Error("begin"))
            BY <2>2, Zenon DEF Drain
        <3>3. result' = [s \in Thread |->
                IF \E i \in 1 .. n : batch'[t][i] = s THEN Error("begin")
                ELSE result[s]]
            BY <3>1, <3>2, Zenon DEF SetResults
        <3> QED
            BY <1>3, <2>2, <3>3, Zenon
    <2> QED
        BY <1>1, <2>1, <2>2, Zenon
<1>9. TypeOK'
    <2>1. pc' \in [Thread -> PC]
        BY <1>0, <1>1, Zenon DEF PC, Inside, Leading
    <2>2. result' \in [Thread -> Outcomes]
        <3>1. Error("begin") \in Outcomes
            BY Zenon DEF Error, Outcomes
        <3>2. CASE pc[t] = "drain"
            BY <1>0, <3>2, Zenon DEF Drain
        <3>3. CASE pc[t] # "drain"
            BY <1>0, <3>1, <3>3, Zenon DEF Drain, SetResults
        <3> QED
            BY <3>2, <3>3, Zenon
    <2>3. batch' \in [Thread -> Seq(Thread)]
        BY <1>0, <1>1, <1>2, Zenon
    <2>4. \A s \in Thread : Len(batch'[s]) <= MaxBatch
        BY <1>2, <1>4, Zenon DEF TypeOK, IInv
    <2> QED
        BY <1>1, <1>2, <2>1, <2>2, <2>3, <2>4, Zenon DEF TypeOK, IInv
<1>10. SleepersHaveLeader'
    <2>1. leader' = leader
        BY <1>1, Zenon
    <2>2. \A s \in Thread : /\ pc'[s] \in Leading <=> pc[s] \in Leading
                            /\ pc'[s] = "asleep" => pc[s] = "asleep"
        BY <1>4, Zenon
    <2> QED
        BY <2>1, <2>2, Zenon DEF SleepersHaveLeader, IInv
<1>11. Queued'
    <2>1. \A i \in 1 .. Len(queue') : Undone(queue[i])'
        BY <1>1, <1>2, <1>3, <1>6, <1>7 DEF Undone
    <2>2. \A i, j \in 1 .. Len(queue') : i < j => id'[queue'[i]] < id'[queue'[j]]
        <3> SUFFICES ASSUME NEW i \in 1 .. Len(queue'), NEW j \in 1 .. Len(queue'),
                            i < j
                     PROVE  id[queue[n + i]] < id[queue[n + j]]
            <4>1. id' = id
                BY <1>1, Zenon
            <4>2. \A i \in 1 .. Len(queue') : queue'[i] = queue[n + i]
                BY <1>2, Zenon
            <4> QED
                BY <4>1, <4>2
        <3>1. n + i \in 1 .. Len(queue) /\ n + j \in 1 .. Len(queue) /\ n + i < n + j
            BY <1>2, <1>3
        <3> QED
            BY <1>7, <3>1, Zenon
    <2> QED
        BY <2>1, <2>2, Zenon DEF Queued
<1>12. Batched'
    <2> SUFFICES ASSUME NEW s \in Thread PROVE Batched!(s)'
        BY Zenon DEF Batched
    <2>1. CASE s = t
        <3>1. \A i \in 1 .. Len(batch'[t]) : Undone(batch[t][i])'
            BY <1>1, <1>2, <1>3, <1>6, <1>7, Zenon DEF Undone
        <3>2. \A i, j \in 1 .. Len(batch'[t]) :
                i < j => id'[batch'[t][i]] < id'[batch'[t][j]]
            BY <1>1, <1>2, <1>3, <1>7
        <3>3. \A i \in 1 .. Len(batch'[t]), j \in 1 .. Len(queue') :
                id'[batch'[t][i]] < id'[queue'[j]]
            <4> TAKE i \in 1 .. Len(batch'[t]), j \in 1 .. Len(queue')
            <4>0. i \in 1 .. n /\ batch'[t][i] = queue[i] /\ queue'[j] = queue[n + j]
                BY <1>2, Zenon
            <4>1. i \in 1 .. Len(queue) /\ n + j \in 1 .. Len(queue) /\ i < n + j
                BY <1>2, <1>3, <4>0
            <4> QED
                BY <1>1, <1>7, <4>0, <4>1, Zenon
        <3> QED
            BY <1>4, <2>1, <3>1, <3>2, <3>3, Zenon
    <2>2. CASE s # t
        <3>1. /\ Len(batch'[s]) = 0 /\ pc'[s] \notin Working /\ pc'[s] \notin Retrying
            BY <1>4, <1>5, <2>2 DEF Working
        <3> QED
            BY <3>1
    <2> QED
        BY <2>1, <2>2, Zenon
<1>13. Found'
    <2> SUFFICES ASSUME NEW s \in Thread, Undone(s)'
                 PROVE  \/ \E i \in 1 .. Len(queue') : queue'[i] = s
                        \/ \E i \in 1 .. Len(batch'[t]) : batch'[t][i] = s
        BY Zenon DEF Found
    <2>1. Undone(s)
        BY <1>1, <1>6, Zenon DEF Undone
    <2>2. PICK i \in 1 .. Len(queue) : queue[i] = s
        <3>1. Len(batch[t]) = 0
            BY <1>4, Zenon DEF Batched, IInv
        <3> QED
            BY <1>5, <2>1, <3>1 DEF Found, IInv
    <2>3. CASE i <= n
        BY <1>2, <2>2, <2>3 DEF IInv
    <2>4. CASE ~(i <= n)
        <3> DEFINE m == i - n
        <3>1. m \in 1 .. Len(queue') /\ n + m = i
            BY <1>e, <1>2, <2>4
        <3> QED
            BY <1>2, <2>2, <3>1, Zenon
    <2> QED
        BY <2>3, <2>4, Zenon
<1>14. Numbered'
    BY <1>1, <1>6, Zenon DEF Numbered, IInv
<1>15. Logged'
    <2> SUFFICES ASSUME NEW i \in 1 .. Len(log)
                 PROVE  /\ log[i].call <= arrived
                        /\ \A j \in 1 .. Len(log) : i < j => log[i].call < log[j].call
                        /\ \A j \in 1 .. Len(queue') : log[i].call < id[queue'[j]]
                        /\ \A s \in Thread : \A j \in 1 .. Len(batch'[s]) :
                             log[i].call < id[batch'[s][j]]
        BY <1>1, Zenon DEF Logged
    <2>1. \A j \in 1 .. Len(queue) : log[i].call < id[queue[j]]
        BY Zenon DEF Logged, IInv
    <2>2. \A j \in 1 .. Len(queue') : log[i].call < id[queue'[j]]
        BY <1>2, <1>3, <2>1, Zenon
    <2>3. \A s \in Thread : \A j \in 1 .. Len(batch'[s]) :
            log[i].call < id[batch'[s][j]]
        <3> TAKE s \in Thread
        <3>1. CASE s = t
            BY <1>2, <1>3, <2>1, <3>1, Zenon
        <3>2. CASE s # t
            BY <1>4, <1>5, <3>2
        <3> QED
            BY <3>1, <3>2, Zenon
    <2> QED
        BY <2>2, <2>3, Zenon DEF Logged, IInv
<1>16. Answered'
    <2>0. /\ Error("begin").kind = "begin" /\ Error("begin").version = 0
        BY Zenon DEF Error
    <2>1. \A c, r : Truthful(c, r)' <=> Truthful(c, r)
        BY <1>1, Zenon DEF Truthful
    <2>2. \A i \in 1 .. Len(queue) : Truthful(id[queue[i]], Error("begin"))
        <3> TAKE i \in 1 .. Len(queue)
        <3>1. \A j \in 1 .. Len(log) : log[j].call # id[queue[i]]
            BY <1>e DEF Logged, IInv
        <3> QED
            BY <2>0, <3>1, Zenon DEF Truthful
    <2>3. ASSUME NEW s \in Thread, pc[s] \in Inside
          PROVE  Truthful(id[s], result'[s]) /\ (done[s] => result'[s].kind # "none")
        <3>1. CASE result'[s] = result[s]
            BY <2>3, <3>1, Zenon DEF Answered, IInv
        <3>2. CASE result'[s] = Error("begin") /\ \E i \in 1 .. n : batch'[t][i] = s
            BY <1>2, <1>3, <2>0, <2>2, <3>2, Zenon
        <3> QED
            BY <1>8, <3>1, <3>2, Zenon
    <2>4. \A s \in Thread : pc'[s] = "return" => done'[s]
        BY <1>1, <1>4, Zenon DEF Answered, Inside, IInv
    <2>5. \A s \in Thread : \A j \in 1 .. Len(batch'[s]) :
            ~ToRun(s, j)' => result'[batch'[s][j]].kind # "none"
        <3> TAKE s \in Thread
        <3>1. CASE s # t
            BY <1>4, <1>5, <3>1
        <3>2. CASE s = t /\ pc[t] = "drain"
            <4>1. pc'[t] = "run"
                BY <1>0, <1>1, <3>2, Zenon
            <4> QED
                BY <3>2, <4>1, Zenon DEF ToRun
        <3>3. CASE s = t /\ pc[t] = "failed"
            BY <1>2, <1>8, <2>0, <3>3, Zenon
        <3> QED
            BY <1>1, <3>1, <3>2, <3>3, Zenon
    <2>6. \A s \in Thread : pc'[s] \in Inside =>
            /\ Truthful(id'[s], result'[s])
            /\ done'[s] => result'[s].kind # "none"
        BY <1>1, <1>6, <2>3, Zenon
    <2>7. \A s \in Thread : Truthful(id'[s], result'[s]) => Truthful(id[s], result[s])'
        BY <1>1, Zenon DEF Truthful
    <2> QED
        BY <2>4, <2>5, <2>6, <2>7, Zenon DEF Answered
<1>17. FailsOnlyItself'
    BY <1>1, Zenon DEF FailsOnlyItself, IInv
<1> QED
    BY <1>9, <1>10, <1>11, <1>12, <1>13, <1>14, <1>15, <1>16, <1>17, Zenon
       DEF IInv

\* finish(): the nodes of the batch are done, and nobody points to them.
LEMMA FinishStep == ASSUME IInv, NEW t \in Thread, Finish(t) PROVE IInv'
<1>0. /\ pc \in [Thread -> PC] /\ done \in [Thread -> BOOLEAN]
      /\ batch \in [Thread -> Seq(Thread)] /\ MaxBatch \in Nat
      /\ thrower \in [Thread -> 0 .. MaxBatch]
      /\ index \in [Thread -> 0 .. MaxBatch + 1]
    BY GroupCommitAssumption, Zenon DEF GroupCommitAssumption, TypeOK, IInv
<1>e. /\ \A i \in 1 .. Len(queue) : queue[i] \in Thread
      /\ \A s \in Thread :
           /\ Len(batch[s]) \in Nat
           /\ \A i \in 1 .. Len(batch[s]) : batch[s][i] \in Thread
      /\ \A s \in Thread : id[s] \in Nat
    BY Elements, Zenon DEF IInv
<1>1. /\ pc[t] = "finish" /\ pc' = [pc EXCEPT ![t] = "resign"]
      /\ done' = [s \in Thread |-> done[s] \/ \E i \in 1 .. Len(batch[t]) : batch[t][i] = s]
      /\ batch' = [batch EXCEPT ![t] = <<>>]
      /\ thrower' = [thrower EXCEPT ![t] = 0]
      /\ index' = [index EXCEPT ![t] = 0]
      /\ UNCHANGED <<arrived, version, log, outcome, queue, leader, id, result,
                     writer, critical, threw, others>>
    <2>1. DOMAIN batch[t] = 1 .. Len(batch[t])
        BY <1>0
    <2> QED
        BY <2>1, Zenon DEF Finish, Go, service, committer, engine
<1>2. /\ pc[t] \in Leading /\ pc'[t] = "resign" /\ pc'[t] \in Leading
      /\ pc'[t] \notin Working /\ pc'[t] \notin Retrying
      /\ \A s \in Thread \ {t} : pc'[s] = pc[s] /\ batch'[s] = batch[s]
      /\ batch'[t] = <<>>
    BY <1>0, <1>1, Zenon DEF Leading, Working, Retrying
<1>3. Len(batch'[t]) = 0
    BY <1>2
<1>4. \A s \in Thread \ {t} : pc[s] \notin Working /\ Len(batch[s]) = 0
    <2>1. \A s \in Thread \ {t} : pc[s] \notin Leading
        BY <1>2, Zenon DEF SleepersHaveLeader, IInv
    <2>2. \A s \in Thread \ {t} : pc[s] \notin Working
        BY <2>1, Zenon DEF Leading, Working, Retrying
    <2> QED
        BY <2>2, Zenon DEF Batched, IInv
<1>5. \A s \in Thread : Len(batch'[s]) = 0 /\ pc'[s] \notin Working
    BY <1>2, <1>3, <1>4, Zenon
<1>6. \A s \in Thread : pc'[s] \in Inside <=> pc[s] \in Inside
    BY <1>2, Zenon DEF Inside
<1>7. \A i \in 1 .. Len(batch[t]) : \A j \in 1 .. Len(queue) : batch[t][i] # queue[j]
    <2>1. \A i \in 1 .. Len(batch[t]) : \A j \in 1 .. Len(queue) :
            id[batch[t][i]] < id[queue[j]]
        BY Zenon DEF Batched, IInv
    <2> QED
        BY <1>e, <2>1
<1>8. \A s \in Thread :
        done'[s] <=> (done[s] \/ \E i \in 1 .. Len(batch[t]) : batch[t][i] = s)
    BY <1>1, Zenon
<1>9. TypeOK'
    <2>1. pc' \in [Thread -> PC]
        BY <1>0, <1>1, Zenon DEF PC, Inside, Leading
    <2>2. batch' \in [Thread -> Seq(Thread)]
        BY <1>0, <1>1
    <2>3. \A s \in Thread : Len(batch'[s]) <= MaxBatch
        BY <1>0, <1>5
    <2>4. done' \in [Thread -> BOOLEAN]
        BY <1>0, <1>1, Zenon
    <2>5. thrower' \in [Thread -> 0 .. MaxBatch] /\ index' \in [Thread -> 0 .. MaxBatch + 1]
        BY <1>0, <1>1
    <2> QED
        BY <1>1, <2>1, <2>2, <2>3, <2>4, <2>5, Zenon DEF TypeOK, IInv
<1>10. SleepersHaveLeader'
    <2>1. leader' = leader
        BY <1>1, Zenon
    <2>2. \A s \in Thread : /\ pc'[s] \in Leading <=> pc[s] \in Leading
                            /\ pc'[s] = "asleep" => pc[s] = "asleep"
        BY <1>2, Zenon
    <2> QED
        BY <2>1, <2>2, Zenon DEF SleepersHaveLeader, IInv
<1>11. Queued'
    <2>1. \A i \in 1 .. Len(queue) : pc[queue[i]] \in Inside /\ ~done[queue[i]]
        BY Zenon DEF Queued, Undone, IInv
    <2>2. \A i \in 1 .. Len(queue) : pc'[queue[i]] \in Inside /\ ~done'[queue[i]]
        BY <1>e, <1>6, <1>7, <1>8, <2>1
    <2> QED
        BY <1>1, <2>2, Zenon DEF Queued, Undone, IInv
<1>12. Batched'
    <2>1. \A s \in Thread : pc'[s] \notin Retrying
        BY <1>5, Zenon DEF Working
    <2> QED
        BY <1>5, <2>1 DEF Batched
<1>13. Found'
    <2> SUFFICES ASSUME NEW s \in Thread, Undone(s)'
                 PROVE  \E i \in 1 .. Len(queue) : queue[i] = s
        BY <1>1, Zenon DEF Found
    <2>1. Undone(s) /\ \A i \in 1 .. Len(batch[t]) : batch[t][i] # s
        BY <1>6, <1>8, Zenon DEF Undone
    <2>2. \A q \in Thread : \A i \in 1 .. Len(batch[q]) : batch[q][i] # s
        BY <1>4, <2>1
    <2> QED
        BY <2>1, <2>2, Zenon DEF Found, IInv
<1>14. Numbered'
    BY <1>1, <1>6, Zenon DEF Numbered, IInv
<1>15. Logged'
    BY <1>1, <1>5 DEF Logged, IInv
<1>16. Answered'
    <2>1. \A i \in 1 .. Len(batch[t]) : result[batch[t][i]].kind # "none"
        <3>1. \A i \in 1 .. Len(batch[t]) : ~ToRun(t, i)
            BY <1>1, Zenon DEF ToRun, Retrying
        <3> QED
            BY <3>1, Zenon DEF Answered, IInv
    <2>2. \A s \in Thread : pc'[s] \in Inside =>
            /\ Truthful(id[s], result[s])
            /\ done'[s] => result'[s].kind # "none"
        BY <1>1, <1>6, <1>8, <2>1 DEF Answered, IInv
    <2>3. \A s \in Thread : pc'[s] = "return" => done'[s]
        BY <1>2, <1>8, Zenon DEF Answered, Inside, IInv
    <2>4. \A s \in Thread : Truthful(id[s], result[s]) => Truthful(id[s], result[s])'
        BY <1>1, Zenon DEF Truthful
    <2> QED
        BY <1>5, <2>2, <2>3, <2>4 DEF Answered
<1>17. FailsOnlyItself'
    BY <1>1, Zenon DEF FailsOnlyItself, IInv
<1> QED
    BY <1>9, <1>10, <1>11, <1>12, <1>13, <1>14, <1>15, <1>16, <1>17, Zenon
       DEF IInv
-----------------------------------------------------------------------------
\* The invariant holds in every state of write(), for any number of threads,
\* any batch size, and whatever closures throw, commits fail and writers die.
THEOREM Invariance == Spec => []IInv
<1>1. IInv /\ [Next]_vars => IInv'
    <2> SUFFICES ASSUME IInv, [Next]_vars PROVE IInv'
        BY Zenon
    <2>1. ASSUME NEW t \in Thread, Call(t) \/ SpuriousWake(t) \/ Steps(t) \/ Acquire(t)
          PROVE  IInv'
        <3>1. CASE Call(t)
            BY <3>1, CallStep, Zenon
        <3>2. CASE \/ SpuriousWake(t) \/ Wake(t) \/ Resign(t) \/ BeginWrite(t)
                   \/ BeginFails(t) \/ RunBatch(t) \/ RetryBegins(t) \/ RetryRuns(t)
            BY <3>2, ThreadControlSteps, Zenon
        <3>3. CASE Return(t)
            BY <3>3, ReturnStep, Zenon
        <3>4. CASE Drain(t)
            BY <3>4, DrainStep, Zenon
        <3>5. CASE CommitBatch(t) \/ CommitFails(t)
            BY <3>5, BatchCommitSteps, Zenon
        <3>6. CASE \E k \in 1 .. MaxBatch : ClosureThrows(t, k)
            BY <3>6, ClosureThrowsStep, Zenon
        <3>7. CASE \/ RetrySkipsThrower(t) \/ RetryBeginFails(t) \/ RetryThrows(t)
                   \/ RetryCommits(t) \/ RetryCommitFails(t)
            BY <3>7, RetrySteps, Zenon
        <3>8. CASE Finish(t)
            BY <3>8, FinishStep, Zenon
        <3> QED
            BY <2>1, <3>1, <3>2, <3>3, <3>4, <3>5, <3>6, <3>7, <3>8, Zenon
               DEF Steps, Acquire, Batch, Retry
    <2>2. CASE OtherBegins \/ OtherEnds \/ UNCHANGED vars
        BY <2>2, OtherSteps, Zenon
    <2> QED
        BY <2>1, <2>2, Zenon DEF Next, Quiet
<1> QED
    BY InitInductive, <1>1, PTL DEF Spec

\* Every variable of write() keeps its type, and a batch fits lead_batch's
\* array of MaxBatch nodes.
THEOREM WriteTypeCorrect == Spec => []TypeOK
BY Invariance, PTL DEF IInv

\* leader_active is set exactly while one thread leads, and nobody sleeps on
\* the condition variable of write() without a leader who will notify it.
THEOREM SleepersAreNotified == Spec => []SleepersHaveLeader
BY Invariance, PTL DEF IInv

\* Whatever lead_batch tries again, a call is committed at most once, calls
\* are committed in arrival order, and only a call whose own closure threw is
\* told so.
THEOREM CommitsAreSound == Spec => []CommitsSound
<1>1. IInv => CommitsSound
    <2> SUFFICES ASSUME IInv PROVE CommitsSound
        BY Zenon
    <2>1. DOMAIN log = 1 .. Len(log)
        BY DEF IInv, TypeOK
    <2> QED
        BY <2>1, Zenon DEF IInv, Logged, CommitsSound, CommittedOnceInOrder
<1> QED
    BY <1>1, Invariance, PTL

\* No pointer to a node outlives its write() call, and a node that is not done
\* is in exactly one place: once in the queue, or once in the array of the one
\* leader there is.
THEOREM NodesAreAccounted == Spec => []NodesAccounted
<1>1. IInv => NodesAccounted
    <2> SUFFICES ASSUME IInv, NEW t \in Thread
                 PROVE  NodesAccounted!(t)
        BY Zenon DEF NodesAccounted
    <2> DEFINE inQueue == {i \in DOMAIN queue : queue[i] = t}
               inBatch == {p \in Thread \X (1 .. MaxBatch) :
                             p[2] \in DOMAIN batch[p[1]] /\ batch[p[1]][p[2]] = t}
    <2>1. /\ DOMAIN queue = 1 .. Len(queue)
          /\ \A s \in Thread : DOMAIN batch[s] = 1 .. Len(batch[s])
        BY DEF TypeOK
    <2>e. /\ Len(queue) \in Nat /\ \A i \in 1 .. Len(queue) : queue[i] \in Thread
          /\ \A s \in Thread :
               /\ Len(batch[s]) \in Nat
               /\ \A i \in 1 .. Len(batch[s]) : batch[s][i] \in Thread
          /\ \A s \in Thread : id[s] \in Nat
        BY Elements, Zenon DEF IInv
    <2>2. \A i, j \in 1 .. Len(queue) : queue[i] = queue[j] => i = j
        BY <2>e DEF Queued, IInv
    <2>3. \A s \in Thread : \A i, j \in 1 .. Len(batch[s]) :
            batch[s][i] = batch[s][j] => i = j
        <3> TAKE s \in Thread
        <3> TAKE i, j \in 1 .. Len(batch[s])
        <3>1. /\ i \in Nat /\ j \in Nat
              /\ id[batch[s][i]] \in Nat /\ id[batch[s][j]] \in Nat
            BY <2>e
        <3>2. /\ i < j => id[batch[s][i]] < id[batch[s][j]]
              /\ j < i => id[batch[s][j]] < id[batch[s][i]]
            BY Zenon DEF Batched, IInv
        <3> QED
            BY <3>1, <3>2
    <2>4. \A s \in Thread : \A i \in 1 .. Len(batch[s]), j \in 1 .. Len(queue) :
            batch[s][i] # queue[j]
        BY <2>e DEF Batched, IInv
    <2>5. \A r, s \in Thread :
            \A i \in 1 .. Len(batch[r]), j \in 1 .. Len(batch[s]) : r = s
        <3>1. \A s \in Thread : \A i \in 1 .. Len(batch[s]) : pc[s] \in Working
            BY <2>e DEF Batched, IInv
        <3>2. Working \subseteq Leading
            BY Zenon DEF Working, Retrying, Leading
        <3> QED
            BY <3>1, <3>2, Zenon DEF SleepersHaveLeader, IInv
    <2>6. \A s \in Thread : \A i \in 1 .. Len(batch[s]) : i \in 1 .. MaxBatch
        <3>1. MaxBatch \in Nat /\ \A s \in Thread : Len(batch[s]) <= MaxBatch
            BY GroupCommitAssumption, Zenon
               DEF GroupCommitAssumption, TypeOK, IInv
        <3> QED
            BY <2>e, <3>1
    <2>7. \A i \in inQueue : i \in 1 .. Len(queue) /\ queue[i] = t
        BY <2>1, Zenon
    <2>8. \A p \in inBatch : /\ p = <<p[1], p[2]>> /\ p[1] \in Thread
                             /\ p[2] \in 1 .. Len(batch[p[1]])
                             /\ batch[p[1]][p[2]] = t
        BY <2>1
    <2>9. CASE Undone(t)
        <3>1. CASE \E i \in 1 .. Len(queue) : queue[i] = t
            <4>1. PICK i \in 1 .. Len(queue) : queue[i] = t
                BY <3>1, Zenon
            <4>2. inQueue = {i}
                BY <2>1, <2>2, <4>1, Zenon
            <4>3. inBatch = {}
                BY <2>4, <2>8, <4>1, Zenon
            <4> QED
                BY <2>9, <4>2, <4>3, Zenon DEF Undone
        <3>2. CASE \E s \in Thread : \E i \in 1 .. Len(batch[s]) : batch[s][i] = t
            <4>1. PICK s \in Thread : \E i \in 1 .. Len(batch[s]) : batch[s][i] = t
                BY <3>2, Zenon
            <4>2. PICK i \in 1 .. Len(batch[s]) : batch[s][i] = t
                BY <4>1, Zenon
            <4>3. <<s, i>> \in inBatch
                BY <2>1, <2>6, <4>2, Zenon
            <4>4. \A p \in inBatch : p = <<s, i>>
                <5> TAKE p \in inBatch
                <5>1. /\ p = <<p[1], p[2]>> /\ p[1] \in Thread
                      /\ p[2] \in 1 .. Len(batch[p[1]]) /\ batch[p[1]][p[2]] = t
                    BY <2>8, Zenon
                <5>2. p[1] = s
                    BY <2>5, <4>2, <5>1, Zenon
                <5>3. p[2] = i
                    BY <2>3, <4>2, <5>1, <5>2, Zenon
                <5> QED
                    BY <5>1, <5>2, <5>3, Zenon
            <4>5. inBatch = {<<s, i>>}
                BY <4>3, <4>4, Zenon
            <4>6. inQueue = {}
                BY <2>4, <2>7, <4>2, Zenon
            <4>7. inQueue = {} /\ \E p \in inBatch : inBatch = {p}
                BY <4>3, <4>5, <4>6, Zenon
            <4> QED
                BY <2>9, <4>7, Zenon DEF Undone, inQueue, inBatch
        <3> QED
            BY <2>9, <3>1, <3>2, Zenon DEF Found, IInv
    <2>10. CASE ~Undone(t)
        <3>1. inQueue = {}
            BY <2>7, <2>10, Zenon DEF Queued, IInv
        <3>2. inBatch = {}
            BY <2>8, <2>10, Zenon DEF Batched, IInv
        <3> QED
            BY <2>10, <3>1, <3>2, Zenon DEF Undone
    <2> QED
        BY <2>9, <2>10, Zenon
<1> QED
    BY <1>1, Invariance, PTL
-----------------------------------------------------------------------------
\* A commit of undone nodes is a commit of WriteService.
LEMMA CommitImplements ==
    ASSUME IInv, IInv', NEW nodes \in Seq(Thread),
           \A k \in 1 .. Len(nodes) :
               pc[nodes[k]] \in Inside /\ id[nodes[k]] \in Calls,
           LogCalls(nodes), UNCHANGED <<arrived, outcome>>
    PROVE  Promise!CommitCalls
<1>1. /\ log' \in Seq([call : Calls, version : Nat \ {0}])
      /\ version' = version + 1
      /\ Len(log') = Len(log) + Len(nodes)
      /\ \A i \in 1 .. Len(log) : log'[i] = log[i]
      /\ \A k \in 1 .. Len(nodes) :
           log'[Len(log) + k] = [call |-> id[nodes[k]], version |-> version + 1]
    BY CommittedLog, Zenon DEF IInv
<1>2. Len(nodes) \in Nat /\ Len(log) \in Nat
    BY Elements DEF IInv
<1>3. log \in Seq([call : Calls, version : Nat \ {0}])
    BY Zenon DEF IInv, TypeOK
<1>4. SubSeq(log', 1, Len(log)) = log
    BY <1>1, <1>2, <1>3
<1>5. ASSUME NEW i \in Len(log) + 1 .. Len(log')
      PROVE  /\ log'[i].version = version'
             /\ log'[i].call \in 1 .. arrived
             /\ outcome[log'[i].call] = NoOutcome
             /\ \A j \in 1 .. i - 1 : log'[j].call < log'[i].call
    <2> DEFINE k == i - Len(log)
    <2>1. k \in 1 .. Len(nodes) /\ Len(log) + k = i
        BY <1>1, <1>2
    <2>2. log'[i] = [call |-> id[nodes[k]], version |-> version + 1]
        BY <1>1, <2>1, Zenon
    <2>3. log'[i].call = id[nodes[k]] /\ log'[i].version = version + 1
        BY <2>2
    <2>4. nodes[k] \in Thread
        BY <2>1
    <2>5. id[nodes[k]] \in 1 .. arrived /\ outcome[id[nodes[k]]] = NoOutcome
        BY <2>1, <2>4, Zenon DEF IInv, Numbered
    <2>6. \A j \in 1 .. i - 1 : log'[j].call < log'[i].call
        <3>1. \A j, m \in 1 .. Len(log') : j < m => log'[j].call < log'[m].call
            BY Zenon DEF IInv, Logged
        <3>2. i \in 1 .. Len(log') /\ \A j \in 1 .. i - 1 : j \in 1 .. Len(log') /\ j < i
            BY <1>1, <1>2
        <3> QED
            BY <3>1, <3>2, Zenon
    <2> QED
        BY <1>1, <2>3, <2>5, <2>6, Zenon
<1>6. Len(log) <= Len(log')
    BY <1>1, <1>2
<1> QED
    BY <1>1, <1>4, <1>5, <1>6, Zenon
       DEF Promise!CommitCalls, Promise!NoOutcome, NoOutcome

\* What a call returns is an answer WriteService allows.
LEMMA ReturnImplements ==
    ASSUME IInv, NEW t \in Thread, Return(t)
    PROVE  \E c \in Calls : Promise!Answer(c, outcome'[c])
<1> DEFINE c == id[t]
           a == result[t]
<1>1. /\ pc[t] \in Inside /\ done[t] /\ a \in Outcomes
      /\ Truthful(c, a) /\ a.kind # "none"
    BY Zenon DEF Return, Inside, IInv, Answered, TypeOK
<1>2. /\ c \in 1 .. arrived /\ outcome[c] = NoOutcome
      /\ arrived \in 0 .. MaxCalls /\ MaxCalls \in Nat
    BY <1>1, GroupCommitAssumption, Zenon
       DEF GroupCommitAssumption, IInv, Numbered, TypeOK
<1>3. c \in Calls /\ c <= arrived
    BY <1>2 DEF Calls
<1>4. /\ outcome' = [outcome EXCEPT ![c] = a]
      /\ UNCHANGED <<arrived, version, log>>
    BY Zenon DEF Return
<1>5. outcome'[c] = a
    BY <1>3, <1>4, Zenon DEF IInv, TypeOK
<1>6. log \in Seq([call : Calls, version : Nat \ {0}]) /\ DOMAIN log = 1 .. Len(log)
    BY DEF IInv, TypeOK
<1>7. a \in Promise!Answers
    <2>1. /\ a = [kind |-> a.kind, version |-> a.version]
          /\ a.kind \in {"version", "closure", "begin", "commit"} /\ a.version \in Nat
        BY <1>1, Zenon DEF Outcomes
    <2>2. CASE a.kind = "version"
        BY <1>1, <2>1, <2>2, Zenon
           DEF Truthful, Promise!Answers, Promise!Errors
    <2>3. CASE a.kind # "version"
        <3>1. a.version = 0
            BY <1>1, <2>3, Zenon DEF Truthful
        <3> QED
            BY <2>1, <2>3, <3>1, Zenon DEF Promise!Answers, Promise!Errors
    <2> QED
        BY <2>2, <2>3, Zenon
<1>8. a.kind = "version" =>
        [call |-> c, version |-> a.version] \in {log[i] : i \in DOMAIN log}
    <2> SUFFICES ASSUME a.kind = "version"
                 PROVE  \E i \in DOMAIN log : log[i] = [call |-> c, version |-> a.version]
        BY Zenon
    <2>1. PICK i \in 1 .. Len(log) : log[i].call = c /\ log[i].version = a.version
        BY <1>1, Zenon DEF Truthful
    <2>2. log[i] \in [call : Calls, version : Nat \ {0}]
        BY <1>6, ElementOf, Zenon
    <2>3. log[i] = [call |-> c, version |-> a.version]
        BY <2>1, <2>2, Zenon
    <2> QED
        BY <1>6, <2>1, <2>3, Zenon
<1>9. a.kind \in {"closure", "begin"} => ~Promise!InLog(c)
    BY <1>1, <1>6, Zenon DEF Truthful, Promise!InLog
<1>10. Promise!Answer(c, a)
    BY <1>2, <1>3, <1>4, <1>7, <1>8, <1>9, Zenon
       DEF Promise!Answer, Promise!NoOutcome, NoOutcome
<1> QED
    BY <1>3, <1>5, <1>10, Zenon

\* write() implements WriteService: seen from its callers, every step of every
\* thread submits a call, commits unanswered calls in order, answers a call
\* with the truth, or changes nothing.
THEOREM ImplementsService == Spec => WriteImplementsService
<1>1. Init => Promise!ServiceInit
    BY Zenon
       DEF Init, Promise!ServiceInit, Promise!Calls, Calls,
       Promise!NoOutcome, NoOutcome
<1>2. IInv /\ IInv' /\ [Next]_vars => [Promise!ServiceNext]_(Promise!serviceVars)
    <2> SUFFICES ASSUME IInv, IInv', [Next]_vars
                 PROVE  Promise!ServiceNext \/ UNCHANGED service
        BY Zenon DEF Promise!serviceVars, service
    <2>1. ASSUME NEW t \in Thread, Call(t)
          PROVE  Promise!Submit
        BY <2>1, Zenon DEF Call, Promise!Submit
    <2>2. ASSUME NEW t \in Thread, Return(t)
          PROVE  \E c \in Promise!Calls : Promise!Answer(c, outcome'[c])
        BY <2>2, ReturnImplements, Zenon DEF Calls, Promise!Calls
    <2>3. ASSUME NEW t \in Thread, CommitBatch(t) \/ CommitFails(t)
          PROVE  Promise!CommitCalls \/ UNCHANGED service
        <3>1. CASE LogCalls(batch[t])
            <4>1. pc[t] \in Working /\ UNCHANGED <<arrived, outcome>>
                BY <2>3, Zenon DEF CommitBatch, CommitFails, Working
            <4>2. /\ batch[t] \in Seq(Thread)
                  /\ \A k \in 1 .. Len(batch[t]) : id[batch[t][k]] \in Calls
                BY <4>1, LeaderBatch, Zenon
            <4>3. \A k \in 1 .. Len(batch[t]) : pc[batch[t][k]] \in Inside
                BY Zenon DEF IInv, Batched, Undone
            <4> QED
                BY <3>1, <4>1, <4>2, <4>3, CommitImplements, Zenon
        <3>2. CASE ~LogCalls(batch[t])
            BY <2>3, <3>2, Zenon
               DEF CommitBatch, CommitFails, FailedCommit, service
        <3> QED
            BY <3>1, <3>2, Zenon
    <2>4. ASSUME NEW t \in Thread, RetryCommits(t) \/ RetryCommitFails(t)
          PROVE  Promise!CommitCalls \/ UNCHANGED service
        <3>1. CASE LogCalls(<<Node(t)>>)
            <4>1. /\ pc[t] \in Working /\ pc[t] \in Retrying
                  /\ UNCHANGED <<arrived, outcome>>
                BY <2>4, Zenon
                   DEF RetryCommits, RetryCommitFails, Working, Retrying
            <4>2. index[t] \in 1 .. Len(batch[t])
                BY <4>1, Zenon DEF IInv, Batched
            <4>3. /\ Node(t) \in Thread /\ id[Node(t)] \in Calls
                  /\ pc[Node(t)] \in Inside
                BY <4>1, <4>2, LeaderBatch, Zenon
                   DEF IInv, Batched, Undone, Node
            <4>4. /\ <<Node(t)>> \in Seq(Thread)
                  /\ \A k \in 1 .. Len(<<Node(t)>>) : <<Node(t)>>[k] = Node(t)
                BY <4>3
            <4>5. \A k \in 1 .. Len(<<Node(t)>>) :
                    pc[<<Node(t)>>[k]] \in Inside /\ id[<<Node(t)>>[k]] \in Calls
                BY <4>3, <4>4, Zenon
            <4> QED
                BY <3>1, <4>1, <4>4, <4>5, CommitImplements, Zenon
        <3>2. CASE ~LogCalls(<<Node(t)>>)
            BY <2>4, <3>2, Zenon
               DEF RetryCommits, RetryCommitFails, FailedCommit, service
        <3> QED
            BY <3>1, <3>2, Zenon
    <2>5. ASSUME OtherCommits PROVE Promise!CommitCalls
        <3>1. /\ version' = version + 1 /\ log' = log /\ UNCHANGED <<arrived, outcome>>
              /\ log \in Seq([call : Calls, version : Nat \ {0}])
            BY <2>5, Zenon DEF OtherCommits, IInv, TypeOK
        <3>2. /\ SubSeq(log', 1, Len(log)) = log /\ Len(log) <= Len(log')
              /\ Len(log) + 1 .. Len(log') = {}
            BY <3>1
        <3> QED
            BY <3>1, <3>2, Zenon DEF Promise!CommitCalls
    <2>6. ASSUME NEW t \in Thread,
                 \/ SpuriousWake(t) \/ Wake(t) \/ Resign(t) \/ BeginWrite(t)
                 \/ BeginFails(t) \/ Drain(t) \/ RunBatch(t) \/ RetryBegins(t)
                 \/ RetryBeginFails(t) \/ RetrySkipsThrower(t) \/ RetryRuns(t)
                 \/ RetryThrows(t) \/ Finish(t)
                 \/ \E k \in 1 .. MaxBatch : ClosureThrows(t, k)
          PROVE  UNCHANGED service
        BY <2>6, Zenon
           DEF SpuriousWake, Wake, Resign, BeginWrite, BeginFails, Drain,
           RunBatch, RetryBegins, RetryBeginFails, RetrySkipsThrower, RetryRuns,
           RetryThrows, Finish, ClosureThrows
    <2>7. ASSUME OtherBegins \/ OtherRollsBack \/ OtherDies \/ UNCHANGED vars
          PROVE  UNCHANGED service
        BY <2>7, Zenon
           DEF OtherBegins, OtherRollsBack, OtherDies, vars, service
    <2>8. ASSUME NEW t \in Thread,
                 Call(t) \/ SpuriousWake(t) \/ Steps(t) \/ Acquire(t)
          PROVE  Promise!ServiceNext \/ UNCHANGED service
        BY <2>1, <2>2, <2>3, <2>4, <2>6, <2>8, Zenon
           DEF Steps, Acquire, Batch, Retry, Promise!ServiceNext
    <2> QED
        BY <2>5, <2>7, <2>8, Zenon
           DEF Next, Quiet, OtherEnds, Promise!ServiceNext
<1> QED
    BY <1>1, <1>2, Invariance, PTL
       DEF Spec, WriteImplementsService, Promise!Service
=============================================================================

------------------------- MODULE GroupCommitBatches -------------------------
(***************************************************************************)
(* lead_batch between drain and finish keeps the invariant: the nodes of   *)
(* the batch are settled from its front, as a whole by the shared          *)
(* transaction or one at a time by run_one, and the log grows by the       *)
(* settled ones only.                                                      *)
(***************************************************************************)
EXTENDS GroupCommitInvariant

\* The j-th node of t's batch is settled by the step: it was to be run, and is
\* not any more.
Settled(t, j) == ToRun(t, j) /\ ~ToRun(t, j)'

\* A step of lead_batch between drain and finish: it settles nodes from the
\* front of the batch, with answers that are true, and commits none but them.
SettlesFront(t) ==
    /\ pc[t] \in {"run", "commit"} \cup Retrying
    /\ pc' = [pc EXCEPT ![t] = pc'[t]] /\ pc'[t] \in {"finish", "retry"}
    /\ UNCHANGED <<arrived, outcome, queue, leader, id, done, batch>>
    /\ threw \subseteq threw'
    /\ \A s \in Thread \ {t} : index'[s] = index[s] /\ thrower'[s] = thrower[s]
    /\ pc'[t] = "retry" => /\ index'[t] \in 1 .. Len(batch[t])
                           /\ thrower'[t] \in 1 .. Len(batch[t])
                           /\ id[batch[t][thrower'[t]]] \in threw'
    /\ \A k \in 1 .. Len(batch[t]) : ToRun(t, k)' => ToRun(t, k)
    /\ \A j, k \in 1 .. Len(batch[t]) : Settled(t, j) /\ ToRun(t, k)' => j < k
    /\ Len(log) <= Len(log') /\ \A i \in 1 .. Len(log) : log'[i] = log[i]
    /\ \A i \in Len(log) + 1 .. Len(log') : \E k \in 1 .. Len(batch[t]) :
         Settled(t, k) /\ log'[i].call = id[batch[t][k]]
    /\ \A i, j \in Len(log) + 1 .. Len(log') : i < j => log'[i].call < log'[j].call
    /\ \A k \in 1 .. Len(batch[t]) : Settled(t, k) =>
         /\ result'[batch[t][k]].kind # "none"
         /\ \A c, r : c = id[batch[t][k]] /\ r = result'[batch[t][k]] => Truthful(c, r)'
    /\ \A s \in Thread :
         \/ result'[s] = result[s]
         \/ \E k \in 1 .. Len(batch[t]) : Settled(t, k) /\ batch[t][k] = s

\* Such a step preserves the invariant.
LEMMA BatchStep ==
    ASSUME IInv, TypeOK', NEW t \in Thread, SettlesFront(t)
    PROVE  IInv'
<1>1. pc \in [Thread -> PC]
    BY Zenon DEF TypeOK, IInv, SettlesFront
<1>e. /\ Len(queue) \in Nat /\ \A i \in 1 .. Len(queue) : queue[i] \in Thread
      /\ \A s \in Thread :
           /\ Len(batch[s]) \in Nat
           /\ \A i \in 1 .. Len(batch[s]) : batch[s][i] \in Thread
      /\ Len(log) \in Nat
      /\ \A i \in 1 .. Len(log) : log[i].call \in Nat
      /\ \A s \in Thread : id[s] \in Nat
    BY Elements, Zenon DEF IInv, SettlesFront
<1>l. Len(log') \in Nat
    <2>1. log' \in Seq([call : Calls, version : Nat \ {0}])
        BY Zenon DEF TypeOK
    <2> QED
        BY <2>1
<1>m. /\ \A i \in 1 .. Len(log) : i \in 1 .. Len(log')
      /\ \A i \in 1 .. Len(log') :
           i \in 1 .. Len(log) \/ i \in Len(log) + 1 .. Len(log')
    <2>1. Len(log) <= Len(log')
        BY Zenon DEF SettlesFront
    <2> QED
        BY <1>e, <1>l, <2>1
<1>2. /\ \A s \in Thread \ {t} : pc'[s] = pc[s]
      /\ pc[t] \in Leading /\ pc'[t] \in Leading
      /\ pc[t] \in Working /\ pc'[t] \in Working
      /\ pc'[t] # "return" /\ pc'[t] # "asleep"
    BY <1>1, Zenon DEF Leading, Working, Retrying, IInv, SettlesFront
<1>3. pc[t] \in Inside /\ pc'[t] \in Inside
    BY <1>2, Zenon DEF Inside
<1>4. \A s \in Thread \ {t} : pc[s] \notin Leading /\ Len(batch[s]) = 0
    <2>1. \A s \in Thread \ {t} : pc[s] \notin Leading
        BY <1>2, Zenon DEF SleepersHaveLeader, IInv, SettlesFront
    <2>2. \A s \in Thread \ {t} : pc[s] \notin Working
        BY <2>1, Zenon DEF Leading, Working, Retrying
    <2> QED
        BY <2>1, <2>2, Zenon DEF Batched, IInv, SettlesFront
<1>5. \A s \in Thread : pc'[s] \in Inside <=> pc[s] \in Inside
    BY <1>2, <1>3, Zenon
<1>6. \A k \in 1 .. Len(batch[t]) :
        /\ batch[t][k] \in Thread /\ pc[batch[t][k]] \in Inside
        /\ ~done[batch[t][k]] /\ id[batch[t][k]] \in 1 .. arrived
    BY <1>e, Zenon DEF Batched, Undone, Numbered, IInv, SettlesFront
<1>7. SleepersHaveLeader'
    <2>1. \A s \in Thread : /\ pc'[s] \in Leading <=> pc[s] \in Leading
                            /\ pc'[s] = "asleep" => pc[s] = "asleep"
        BY <1>2, Zenon
    <2> QED
        BY <2>1, Zenon DEF SleepersHaveLeader, IInv, SettlesFront
<1>8. Queued'
    BY <1>5, <1>e, Zenon DEF Queued, Undone, IInv, SettlesFront
<1>9. Batched'
    <2> SUFFICES ASSUME NEW s \in Thread PROVE Batched!(s)'
        BY Zenon DEF Batched
    <2>1. /\ pc'[s] \notin Working => Len(batch'[s]) = 0
          /\ \A i \in 1 .. Len(batch'[s]) : Undone(batch[s][i])'
        BY <1>2, <1>5, <1>e, Zenon DEF Batched, Undone, IInv, SettlesFront
    <2>2. pc'[s] \in Retrying =>
            /\ index'[s] \in 1 .. Len(batch'[s])
            /\ thrower'[s] \in 1 .. Len(batch'[s])
            /\ id'[batch'[s][thrower'[s]]] \in threw'
        <3>1. CASE s = t
            BY <3>1, Zenon DEF Retrying, IInv, SettlesFront
        <3>2. CASE s # t
            BY <1>2, <3>2, Zenon DEF Batched, IInv, SettlesFront
        <3> QED
            BY <3>1, <3>2, Zenon
    <2> QED
        BY <2>1, <2>2, Zenon DEF Batched, IInv, SettlesFront
<1>10. Found'
    <2>1. Found /\ UNCHANGED <<queue, batch, done>>
        BY Zenon DEF IInv, SettlesFront
    <2>2. \A s \in Thread : Undone(s)' => Undone(s)
        BY <1>5, <2>1, Zenon DEF Undone
    <2> QED
        BY <2>1, <2>2 DEF Found
<1>11. Numbered'
    BY <1>5, Zenon DEF Numbered, IInv, SettlesFront
<1>12. Logged'
    <2>0. UNCHANGED <<arrived, queue, id, batch>>
        BY Zenon DEF SettlesFront
    <2> SUFFICES ASSUME NEW i \in 1 .. Len(log')
                 PROVE  /\ log'[i].call <= arrived
                        /\ \A j \in 1 .. Len(log') : i < j => log'[i].call < log'[j].call
                        /\ \A j \in 1 .. Len(queue) : log'[i].call < id[queue[j]]
                        /\ \A j \in 1 .. Len(batch[t]) :
                             ToRun(t, j)' => log'[i].call < id[batch[t][j]]
        BY <1>4, <2>0 DEF Logged
    <2>1. CASE i \in 1 .. Len(log)
        <3>1. log'[i] = log[i]
            BY <2>1, Zenon DEF IInv, SettlesFront
        <3>2. \A j \in 1 .. Len(log') : i < j => log'[i].call < log'[j].call
            <4> SUFFICES ASSUME NEW j \in 1 .. Len(log'), i < j
                         PROVE  log[i].call < log'[j].call
                BY <3>1, Zenon
            <4>1. CASE j \in 1 .. Len(log)
                BY <2>1, <4>1, Zenon DEF Logged, IInv, SettlesFront
            <4>2. CASE j \notin 1 .. Len(log)
                <5>1. PICK k \in 1 .. Len(batch[t]) :
                        Settled(t, k) /\ log'[j].call = id[batch[t][k]]
                    BY <1>m, <4>2, Zenon DEF IInv, SettlesFront
                <5> QED
                    BY <2>1, <5>1, Zenon DEF Settled, Logged, IInv
            <4> QED
                BY <4>1, <4>2, Zenon
        <3> QED
            BY <2>1, <3>1, <3>2, Zenon DEF Logged, IInv, SettlesFront
    <2>2. CASE i \notin 1 .. Len(log)
        <3>0. i \in Len(log) + 1 .. Len(log')
            BY <1>m, <2>2, Zenon
        <3>1. PICK k \in 1 .. Len(batch[t]) :
                Settled(t, k) /\ log'[i].call = id[batch[t][k]]
            BY <3>0, Zenon DEF IInv, SettlesFront
        <3>2. log'[i].call <= arrived
            BY <1>6, <3>1
        <3>3. \A j \in 1 .. Len(log') : i < j => log'[i].call < log'[j].call
            <4> SUFFICES ASSUME NEW j \in 1 .. Len(log'), i < j
                         PROVE  log'[i].call < log'[j].call
                BY Zenon
            <4>1. j \in Len(log) + 1 .. Len(log')
                BY <1>e, <1>l, <3>0
            <4> QED
                BY <3>0, <4>1, Zenon DEF SettlesFront
        <3>4. \A j \in 1 .. Len(queue) : log'[i].call < id[queue[j]]
            BY <3>1, ZenonT(60) DEF Batched, IInv, SettlesFront
        <3>5. \A j \in 1 .. Len(batch[t]) :
                ToRun(t, j)' => log'[i].call < id[batch[t][j]]
            BY <3>1, ZenonT(60) DEF Batched, IInv, SettlesFront
        <3> QED
            BY <3>2, <3>3, <3>4, <3>5, Zenon
    <2> QED
        BY <2>1, <2>2, Zenon
<1>13. Answered'
    <2>1. ASSUME NEW s \in Thread, pc[s] \in Inside
          PROVE  /\ Truthful(id[s], result[s])'
                 /\ done[s] => result'[s].kind # "none"
        <3>1. CASE \E k \in 1 .. Len(batch[t]) : Settled(t, k) /\ batch[t][k] = s
            <4>1. ~done[s] /\ \A c, r : c = id[s] /\ r = result'[s] => Truthful(c, r)'
                <5>1. PICK k \in 1 .. Len(batch[t]) : Settled(t, k) /\ batch[t][k] = s
                    BY <3>1, Zenon
                <5> QED
                    BY <1>6, <5>1, Zenon DEF SettlesFront
            <4>2. id' = id
                BY Zenon DEF SettlesFront
            <4> QED
                BY <4>1, <4>2 DEF Truthful
        <3>2. CASE \A k \in 1 .. Len(batch[t]) : Settled(t, k) => batch[t][k] # s
            <4>1. result'[s] = result[s] /\ Truthful(id[s], result[s])
                BY <2>1, <3>2, Zenon DEF Answered, IInv, SettlesFront
            <4>2. \A i \in Len(log) + 1 .. Len(log') : log'[i].call # id[s]
                <5> SUFFICES ASSUME NEW i \in Len(log) + 1 .. Len(log')
                             PROVE  log'[i].call # id[s]
                    BY Zenon
                <5>1. PICK k \in 1 .. Len(batch[t]) :
                        Settled(t, k) /\ log'[i].call = id[batch[t][k]]
                    BY Zenon DEF SettlesFront
                <5> QED
                    BY <1>6, <2>1, <3>2, <5>1, Zenon DEF Numbered, IInv
            <4>3. /\ \A i \in 1 .. Len(log) : i \in 1 .. Len(log') /\ log'[i] = log[i]
                  /\ \A i \in 1 .. Len(log') :
                       i \in 1 .. Len(log) \/ log'[i].call # id[s]
                BY <1>m, <4>2, Zenon DEF IInv, SettlesFront
            <4>4. Truthful(id[s], result[s])'
                <5>1. result[s].kind = "version" =>
                        /\ result[s].version # 0
                        /\ \E i \in 1 .. Len(log') :
                             /\ log'[i].call = id[s]
                             /\ log'[i].version = result[s].version
                    BY <4>1, <4>3, SMTT(60) DEF Truthful
                <5>2. result[s].kind \in {"closure", "begin"} =>
                        \A i \in 1 .. Len(log') : log'[i].call # id[s]
                    BY <4>1, <4>3, Zenon DEF Truthful
                <5>3. /\ result[s].kind # "version" => result[s].version = 0
                      /\ result[s].kind = "closure" => id[s] \in threw'
                    BY <4>1, Zenon DEF Truthful, IInv, SettlesFront
                <5>4. id' = id
                    BY Zenon DEF SettlesFront
                <5> QED
                    BY <4>1, <5>1, <5>2, <5>3, <5>4, SMTT(60) DEF Truthful
            <4> QED
                BY <2>1, <4>1, <4>4, ZenonT(60) DEF Answered, IInv, SettlesFront
        <3> QED
            BY <3>1, <3>2, Zenon
    <2>2. \A s \in Thread : pc'[s] = "return" => done'[s]
        BY <1>2, <1>3, ZenonT(60) DEF Answered, Inside, IInv, SettlesFront
    <2>3. \A j \in 1 .. Len(batch[t]) :
            ~ToRun(t, j)' => result'[batch[t][j]].kind # "none"
        <3> SUFFICES ASSUME NEW j \in 1 .. Len(batch[t]), ~ToRun(t, j)'
                     PROVE  result'[batch[t][j]].kind # "none"
            BY Zenon
        <3>1. CASE \E k \in 1 .. Len(batch[t]) : Settled(t, k) /\ batch[t][k] = batch[t][j]
            <4>1. PICK k \in 1 .. Len(batch[t]) : Settled(t, k) /\ batch[t][k] = batch[t][j]
                BY <3>1, Zenon
            <4> QED
                BY <4>1, ZenonT(60) DEF SettlesFront
        <3>2. CASE \A k \in 1 .. Len(batch[t]) : Settled(t, k) => batch[t][k] # batch[t][j]
            <4>1. result'[batch[t][j]] = result[batch[t][j]]
                BY <1>6, <3>2, ZenonT(60) DEF SettlesFront
            <4>2. ~ToRun(t, j)
                BY <3>2, Zenon DEF Settled
            <4> QED
                BY <4>1, <4>2, Zenon DEF Answered, IInv
        <3> QED
            BY <3>1, <3>2, Zenon
    <2>4. \A s \in Thread : pc'[s] \in Inside =>
            /\ Truthful(id[s], result[s])'
            /\ done'[s] => result'[s].kind # "none"
            /\ pc'[s] = "return" => done'[s]
        BY <1>5, <2>1, <2>2, Zenon DEF IInv, SettlesFront
    <2>5. \A s \in Thread : \A j \in 1 .. Len(batch'[s]) :
            ~ToRun(s, j)' => result'[batch'[s][j]].kind # "none"
        <3>1. batch' = batch
            BY Zenon DEF SettlesFront
        <3>2. ASSUME NEW s \in Thread \ {t} PROVE \A j \in 1 .. Len(batch[s]) : FALSE
            <4>1. Len(batch[s]) = 0
                BY <1>4, Zenon
            <4> QED
                BY <4>1
        <3> QED
            BY <2>3, <3>1, <3>2, Zenon
    <2> QED
        BY <2>4, <2>5, Zenon DEF Answered
<1>14. FailsOnlyItself'
    BY Zenon DEF FailsOnlyItself, IInv, SettlesFront
<1> QED
    BY <1>7, <1>8, <1>9, <1>10, <1>11, <1>12, <1>13, <1>14, Zenon
       DEF IInv, SettlesFront

\* What joining two sequences gives.
LEMMA Joined ==
    ASSUME NEW S, NEW p \in Seq(S), NEW q \in Seq(S)
    PROVE  /\ p \o q \in Seq(S) /\ Len(p \o q) = Len(p) + Len(q)
           /\ \A i \in 1 .. Len(p) : (p \o q)[i] = p[i]
           /\ \A k \in 1 .. Len(q) : (p \o q)[Len(p) + k] = q[k]
<1>1. p \o q \in Seq(S) /\ Len(p \o q) = Len(p) + Len(q)
    OBVIOUS
<1>2. \A i \in 1 .. Len(p) : (p \o q)[i] = p[i]
    OBVIOUS
<1>3. \A k \in 1 .. Len(q) : (p \o q)[Len(p) + k] = q[k]
    OBVIOUS
<1> QED
    BY <1>1, <1>2, <1>3, Zenon

\* What the log is after a commit of some nodes.
LEMMA CommittedLog ==
    ASSUME TypeOK, NEW nodes \in Seq(Thread),
           \A k \in 1 .. Len(nodes) : id[nodes[k]] \in Calls,
           LogCalls(nodes)
    PROVE  /\ log' \in Seq([call : Calls, version : Nat \ {0}])
           /\ version' = version + 1 /\ version \in Nat
           /\ Len(log') = Len(log) + Len(nodes)
           /\ \A i \in 1 .. Len(log) : log'[i] = log[i]
           /\ \A k \in 1 .. Len(nodes) :
                log'[Len(log) + k] = [call |-> id[nodes[k]], version |-> version + 1]
<1> DEFINE Entry == [call : Calls, version : Nat \ {0}]
           new == [k \in 1 .. Len(nodes) |->
                     [call |-> id[nodes[k]], version |-> version + 1]]
<1>1. version \in Nat /\ log \in Seq(Entry)
    BY Zenon DEF TypeOK
<1>2. DOMAIN nodes = 1 .. Len(nodes) /\ Len(nodes) \in Nat
    OBVIOUS
<1>3. log' = log \o new /\ version' = version + 1
    BY <1>2, Zenon DEF LogCalls
<1>4. \A k \in 1 .. Len(nodes) :
        [call |-> id[nodes[k]], version |-> version + 1] \in Entry
    BY <1>1
<1>5. new \in Seq(Entry) /\ Len(new) = Len(nodes)
    BY <1>2, <1>4
<1>6. \A k \in 1 .. Len(nodes) :
        new[k] = [call |-> id[nodes[k]], version |-> version + 1]
    BY Zenon
<1>7. /\ log' \in Seq(Entry) /\ Len(log') = Len(log) + Len(nodes)
      /\ \A i \in 1 .. Len(log) : log'[i] = log[i]
      /\ \A k \in 1 .. Len(nodes) : log'[Len(log) + k] = new[k]
    <2>1. /\ log \o new \in Seq(Entry)
          /\ Len(log \o new) = Len(log) + Len(new)
          /\ \A i \in 1 .. Len(log) : (log \o new)[i] = log[i]
          /\ \A k \in 1 .. Len(new) : (log \o new)[Len(log) + k] = new[k]
        <3>1. log \in Seq(Entry) /\ new \in Seq(Entry)
            BY <1>1, <1>5, Zenon
        <3>2. log \o new \in Seq(Entry) /\ Len(log \o new) = Len(log) + Len(new)
            BY <3>1, Joined
        <3>3. \A i \in 1 .. Len(log) : (log \o new)[i] = log[i]
            BY <3>1, Joined, ZenonT(60)
        <3>4. \A k \in 1 .. Len(new) : (log \o new)[Len(log) + k] = new[k]
            BY <3>1, Joined
        <3> QED
            BY <3>2, <3>3, <3>4, Zenon
    <2>2. log' = log \o new /\ Len(new) = Len(nodes)
        BY <1>3, <1>5, Zenon
    <2> QED
        BY <2>1, <2>2, Zenon
<1> QED
    BY <1>1, <1>3, <1>6, <1>7, Zenon DEF Entry

\* The facts about a leader's batch that its steps need.
LEMMA LeaderBatch ==
    ASSUME IInv, NEW t \in Thread, pc[t] \in Working
    PROVE  /\ Len(batch[t]) \in Nat /\ Len(batch[t]) <= MaxBatch
           /\ batch[t] \in Seq(Thread)
           /\ \A k \in 1 .. Len(batch[t]) :
                /\ batch[t][k] \in Thread /\ id[batch[t][k]] \in Calls
                /\ id[batch[t][k]] \in Nat
           /\ \A j, k \in 1 .. Len(batch[t]) :
                j < k => id[batch[t][j]] < id[batch[t][k]]
           /\ \A j, k \in 1 .. Len(batch[t]) :
                batch[t][j] = batch[t][k] => j = k
<1>1. batch[t] \in Seq(Thread) /\ Len(batch[t]) <= MaxBatch
    BY Zenon DEF TypeOK, IInv
<1>2. Len(batch[t]) \in Nat /\ \A k \in 1 .. Len(batch[t]) : batch[t][k] \in Thread
    BY <1>1
<1>3. arrived \in 0 .. MaxCalls /\ MaxCalls \in Nat
    BY GroupCommitAssumption, Zenon DEF GroupCommitAssumption, TypeOK, IInv
<1>4. \A k \in 1 .. Len(batch[t]) : id[batch[t][k]] \in 1 .. arrived
    BY <1>2, Zenon DEF Batched, Undone, Numbered, IInv
<1>5. \A k \in 1 .. Len(batch[t]) :
        id[batch[t][k]] \in Calls /\ id[batch[t][k]] \in Nat
    BY <1>3, <1>4 DEF Calls
<1>6. \A j, k \in 1 .. Len(batch[t]) : j < k => id[batch[t][j]] < id[batch[t][k]]
    BY Zenon DEF Batched, IInv
<1>7. \A j, k \in 1 .. Len(batch[t]) : batch[t][j] = batch[t][k] => j = k
    BY <1>2, <1>5, <1>6
<1> QED
    BY <1>1, <1>2, <1>5, <1>6, <1>7, Zenon

\* One result for the whole batch: the commit that succeeds or fails, or the
\* lone closure that throws.
SettlesAll(t, r) ==
    /\ pc[t] \in {"run", "commit"} /\ pc' = [pc EXCEPT ![t] = "finish"]
    /\ UNCHANGED <<arrived, outcome, queue, leader, id, done, batch,
                   thrower, index, others>>
    /\ SetResults(t, r) /\ writer' = NoOne /\ critical' \in BOOLEAN
    /\ threw \subseteq threw' /\ threw' \subseteq Calls
    /\ r.kind # "none" /\ (r.kind # "version" => r.version = 0)
    /\ \/ UNCHANGED <<version, log>> /\ r.kind # "version"
       \/ /\ LogCalls(batch[t]) /\ r.kind \in {"version", "commit"}
          /\ r.kind = "version" => r.version = version + 1
    /\ r.kind = "closure" => \A k \in 1 .. Len(batch[t]) : id[batch[t][k]] \in threw'

\* It settles nodes from the front.
LEMMA WholeBatchStep ==
    ASSUME IInv, NEW t \in Thread, NEW r \in Outcomes, SettlesAll(t, r)
    PROVE  IInv'
<1>0. /\ pc \in [Thread -> PC] /\ result \in [Thread -> Outcomes]
      /\ version \in Nat /\ log \in Seq([call : Calls, version : Nat \ {0}])
    BY Zenon DEF TypeOK, IInv, SettlesAll
<1>1. pc'[t] = "finish"
    BY <1>0, Zenon DEF IInv, SettlesAll
<1>2. \A k : ToRun(t, k) /\ ~ToRun(t, k)' /\ Settled(t, k)
    BY <1>1, Zenon DEF ToRun, Settled, Retrying, IInv, SettlesAll
<1>3. /\ Len(batch[t]) \in Nat /\ batch[t] \in Seq(Thread)
      /\ \A k \in 1 .. Len(batch[t]) :
           /\ batch[t][k] \in Thread /\ id[batch[t][k]] \in Calls
           /\ id[batch[t][k]] \in Nat
      /\ \A j, k \in 1 .. Len(batch[t]) :
           j < k => id[batch[t][j]] < id[batch[t][k]]
    BY LeaderBatch, Zenon DEF Working, IInv, SettlesAll
<1>4. /\ DOMAIN batch[t] = 1 .. Len(batch[t])
      /\ result' = [s \in Thread |->
            IF \E k \in 1 .. Len(batch[t]) : batch[t][k] = s THEN r ELSE result[s]]
    <2>1. SetResults(t, r) /\ batch' = batch
        BY Zenon DEF SettlesAll
    <2> QED
        BY <1>3, <2>1 DEF SetResults
<1>5. /\ \A k \in 1 .. Len(batch[t]) : result'[batch[t][k]] = r
      /\ \A s \in Thread : \/ result'[s] = result[s]
                           \/ \E k \in 1 .. Len(batch[t]) : batch[t][k] = s
    BY <1>3, <1>4, Zenon
<1>6. /\ log' \in Seq([call : Calls, version : Nat \ {0}]) /\ version' \in Nat
      /\ Len(log) \in Nat
      /\ \A i \in 1 .. Len(log) : log'[i] = log[i]
      /\ \/ Len(log') = Len(log) /\ r.kind # "version"
         \/ /\ Len(log') = Len(log) + Len(batch[t])
            /\ r.kind \in {"version", "commit"}
            /\ r.kind = "version" => r.version = version + 1
            /\ \A k \in 1 .. Len(batch[t]) :
                 /\ log'[Len(log) + k].call = id[batch[t][k]]
                 /\ log'[Len(log) + k].version = version + 1
    <2>1. CASE UNCHANGED <<version, log>> /\ r.kind # "version"
        BY <1>0, <2>1
    <2>2. CASE LogCalls(batch[t]) /\ r.kind \in {"version", "commit"}
        <3>1. /\ log' \in Seq([call : Calls, version : Nat \ {0}])
              /\ version' = version + 1 /\ Len(log') = Len(log) + Len(batch[t])
              /\ \A i \in 1 .. Len(log) : log'[i] = log[i]
              /\ \A k \in 1 .. Len(batch[t]) : log'[Len(log) + k] =
                   [call |-> id[batch[t][k]], version |-> version + 1]
            BY <1>3, <2>2, CommittedLog, Zenon DEF IInv, SettlesAll
        <3>2. \A k \in 1 .. Len(batch[t]) :
                 /\ log'[Len(log) + k].call = id[batch[t][k]]
                 /\ log'[Len(log) + k].version = version + 1
            <4> TAKE k \in 1 .. Len(batch[t])
            <4>1. log'[Len(log) + k] =
                    [call |-> id[batch[t][k]], version |-> version + 1]
                BY <3>1, Zenon
            <4> QED
                BY <4>1
        <3> QED
            <4>1. r.kind = "version" => r.version = version + 1
                BY <2>2, Zenon DEF SettlesAll
            <4>2. version' \in Nat /\ Len(log) \in Nat
                BY <1>0, <3>1
            <4> QED
                BY <2>2, <3>1, <3>2, <4>1, <4>2, Zenon
    <2> QED
        BY <2>1, <2>2, Zenon DEF IInv, SettlesAll
<1>7. TypeOK'
    <2>1. pc' \in [Thread -> PC]
        BY <1>0, Zenon DEF PC, Inside, Leading, IInv, SettlesAll
    <2>2. result' \in [Thread -> Outcomes]
        BY <1>0, <1>4, Zenon
    <2>3. writer' \in Thread \cup {NoOne, Other}
        BY Zenon DEF IInv, SettlesAll
    <2> QED
        BY <1>6, <2>1, <2>2, <2>3, Zenon DEF TypeOK, IInv, SettlesAll
<1>8. \A i \in Len(log) + 1 .. Len(log') : \E k \in 1 .. Len(batch[t]) :
        i = Len(log) + k /\ log'[i].call = id[batch[t][k]]
    <2> SUFFICES ASSUME NEW i \in Len(log) + 1 .. Len(log')
                 PROVE  \E k \in 1 .. Len(batch[t]) :
                            i = Len(log) + k /\ log'[i].call = id[batch[t][k]]
        BY Zenon
    <2> DEFINE n == i - Len(log)
    <2>1. n \in 1 .. Len(batch[t]) /\ i = Len(log) + n
        BY <1>3, <1>6
    <2>2. \A k \in 1 .. Len(batch[t]) : log'[Len(log) + k].call = id[batch[t][k]]
        <3>1. Len(log') # Len(log)
            BY <1>6
        <3> QED
            BY <1>6, <3>1, Zenon
    <2> QED
        BY <2>1, <2>2, Zenon
<1>9. \A k \in 1 .. Len(batch[t]) : \A c : c = id[batch[t][k]] => Truthful(c, r)'
    <2> SUFFICES ASSUME NEW k \in 1 .. Len(batch[t]), NEW c, c = id[batch[t][k]]
                 PROVE  Truthful(c, r)'
        BY Zenon
    <2>1. r.kind = "version" =>
            /\ r.version # 0
            /\ \E i \in 1 .. Len(log') :
                 log'[i].call = c /\ log'[i].version = r.version
        <3> SUFFICES ASSUME r.kind = "version"
                     PROVE  /\ r.version # 0
                            /\ \E i \in 1 .. Len(log') :
                                 log'[i].call = c /\ log'[i].version = r.version
            BY Zenon
        <3>1. Len(log) + k \in 1 .. Len(log')
            BY <1>3, <1>6, SMTT(60)
        <3>2. r.version # 0
            BY <1>0, <1>6, SMTT(60)
        <3> QED
            BY <1>6, <3>1, <3>2, Zenon
    <2>2. r.kind \in {"closure", "begin"} => \A i \in 1 .. Len(log') : log'[i].call # c
        <3> SUFFICES ASSUME r.kind \in {"closure", "begin"}, NEW i \in 1 .. Len(log')
                     PROVE  log'[i].call # c
            BY Zenon
        <3>1. i \in 1 .. Len(log) /\ log'[i] = log[i]
            BY <1>6, Zenon
        <3>2. log[i].call < id[batch[t][k]] /\ log[i].call \in Nat
            BY <1>2, <3>1, Elements, Zenon DEF Logged, IInv, SettlesAll
        <3> QED
            BY <1>3, <3>1, <3>2
    <2> QED
        BY <2>1, <2>2, Zenon DEF Truthful, IInv, SettlesAll
<1>10. \A k \in 1 .. Len(batch[t]) : Settled(t, k) =>
         /\ result'[batch[t][k]].kind # "none"
         /\ \A c, q : c = id[batch[t][k]] /\ q = result'[batch[t][k]]
                        => Truthful(c, q)'
    BY <1>5, <1>9, Zenon DEF IInv, SettlesAll
<1>11. \A i \in Len(log) + 1 .. Len(log') : \E k \in 1 .. Len(batch[t]) :
         Settled(t, k) /\ log'[i].call = id[batch[t][k]]
    BY <1>2, <1>8, Zenon
<1>12. \A i, j \in Len(log) + 1 .. Len(log') : i < j => log'[i].call < log'[j].call
    <2> SUFFICES ASSUME NEW i \in Len(log) + 1 .. Len(log'),
                        NEW j \in Len(log) + 1 .. Len(log'), i < j
                 PROVE  log'[i].call < log'[j].call
        BY Zenon
    <2>1. PICK k \in 1 .. Len(batch[t]) :
            i = Len(log) + k /\ log'[i].call = id[batch[t][k]]
        BY <1>8, Zenon
    <2>2. PICK m \in 1 .. Len(batch[t]) :
            j = Len(log) + m /\ log'[j].call = id[batch[t][m]]
        BY <1>8, Zenon
    <2>3. k < m
        BY <1>6, <2>1, <2>2
    <2> QED
        BY <1>3, <2>1, <2>2, <2>3, Zenon
<1>13. Len(log) <= Len(log')
    BY <1>3, <1>6
<1>14. /\ pc[t] \in {"run", "commit"} \cup Retrying
       /\ pc' = [pc EXCEPT ![t] = pc'[t]] /\ pc'[t] \in {"finish", "retry"}
    BY <1>1, Zenon DEF IInv, SettlesAll
<1>15. /\ \A s \in Thread \ {t} : index'[s] = index[s] /\ thrower'[s] = thrower[s]
       /\ pc'[t] = "retry" => /\ index'[t] \in 1 .. Len(batch[t])
                              /\ thrower'[t] \in 1 .. Len(batch[t])
                              /\ id[batch[t][thrower'[t]]] \in threw'
    BY <1>1, Zenon DEF IInv, SettlesAll
<1>16. /\ \A k \in 1 .. Len(batch[t]) : ToRun(t, k)' => ToRun(t, k)
       /\ \A j, k \in 1 .. Len(batch[t]) : Settled(t, j) /\ ToRun(t, k)' => j < k
    BY <1>2, Zenon
<1>17. \A s \in Thread :
         \/ result'[s] = result[s]
         \/ \E k \in 1 .. Len(batch[t]) : Settled(t, k) /\ batch[t][k] = s
    BY <1>2, <1>5, Zenon
<1>18. \A i \in 1 .. Len(log) : log'[i] = log[i]
    BY <1>6, Zenon
<1> QED
    BY <1>7, <1>10, <1>11, <1>12, <1>13, <1>14, <1>15, <1>16, <1>17, <1>18,
       BatchStep, Zenon DEF SettlesFront, IInv, SettlesAll

\* The commit of a batch, whether it succeeds or fails.
LEMMA BatchCommitSteps ==
    ASSUME IInv, NEW t \in Thread, CommitBatch(t) \/ CommitFails(t)
    PROVE  IInv'
<1>1. version \in Nat /\ critical \in BOOLEAN /\ threw \subseteq Calls
    BY Zenon DEF IInv, TypeOK
<1>2. CASE CommitBatch(t)
    <2>1. Landed(version + 1) \in Outcomes
        BY <1>1 DEF Landed, Outcomes
    <2>2. /\ Landed(version + 1).kind = "version"
          /\ Landed(version + 1).version = version + 1
        BY Zenon DEF Landed
    <2>3. /\ pc[t] \in {"run", "commit"} /\ pc' = [pc EXCEPT ![t] = "finish"]
          /\ UNCHANGED <<arrived, outcome, queue, leader, id, done, batch,
                         thrower, index, others>>
          /\ SetResults(t, Landed(version + 1)) /\ writer' = NoOne
          /\ threw' = threw /\ LogCalls(batch[t])
        BY <1>2, Zenon DEF CommitBatch, Go, committer
    <2>4. critical' \in BOOLEAN
        BY <1>1, <1>2, Zenon DEF CommitBatch
    <2> QED
        BY <1>1, <2>1, <2>2, <2>3, <2>4, WholeBatchStep, Zenon DEF SettlesAll
<1>3. CASE CommitFails(t)
    <2>1. Error("commit") \in Outcomes
        BY Zenon DEF Error, Outcomes
    <2>2. Error("commit").kind = "commit" /\ Error("commit").version = 0
        BY Zenon DEF Error
    <2>3. /\ pc[t] \in {"run", "commit"} /\ pc' = [pc EXCEPT ![t] = "finish"]
          /\ UNCHANGED <<arrived, outcome, queue, leader, id, done, batch,
                         thrower, index, others>>
          /\ SetResults(t, Error("commit")) /\ writer' = NoOne
          /\ threw' = threw
        BY <1>3, Zenon DEF CommitFails, Go, committer
    <2>4. UNCHANGED <<version, log>> \/ LogCalls(batch[t])
        BY <1>3, Zenon DEF CommitFails, FailedCommit
    <2>5. critical' \in BOOLEAN
        BY <1>1, <1>3, Zenon DEF CommitFails, FailedCommit
    <2> QED
        BY <1>1, <2>1, <2>2, <2>3, <2>4, <2>5, WholeBatchStep, Zenon
           DEF SettlesAll
<1> QED
    BY <1>2, <1>3, Zenon

\* A closure of the batch throws: the transaction is rolled back, and the
\* batch is told so or taken apart.
LEMMA ClosureThrowsStep ==
    ASSUME IInv, NEW t \in Thread, NEW k \in 1 .. MaxBatch, ClosureThrows(t, k)
    PROVE  IInv'
<1>1. /\ pc \in [Thread -> PC] /\ critical \in BOOLEAN /\ threw \subseteq Calls
      /\ thrower \in [Thread -> 0 .. MaxBatch] /\ index \in [Thread -> 0 .. MaxBatch + 1]
      /\ MaxBatch \in Nat \ {0}
    BY GroupCommitAssumption, Zenon DEF GroupCommitAssumption, IInv, TypeOK
<1>2. pc[t] \in Working
    BY Zenon DEF ClosureThrows, Working
<1>3. /\ Len(batch[t]) \in Nat /\ batch[t] \in Seq(Thread)
      /\ \A j \in 1 .. Len(batch[t]) : id[batch[t][j]] \in Calls
    BY <1>2, LeaderBatch, Zenon
<1>4. /\ pc[t] = "run" /\ k \in 1 .. Len(batch[t])
      /\ threw' = threw \cup {id[batch[t][k]]} /\ writer' = NoOne
      /\ UNCHANGED <<arrived, version, log, outcome, queue, leader, id, done,
                     batch, critical, others>>
    BY <1>3 DEF ClosureThrows, service, committer
<1>5. threw \subseteq threw' /\ threw' \subseteq Calls
    BY <1>1, <1>3, <1>4, Zenon
<1>6. CASE Len(batch[t]) = 1
    <2>1. Error("closure") \in Outcomes
        BY Zenon DEF Error, Outcomes
    <2>2. Error("closure").kind = "closure" /\ Error("closure").version = 0
        BY Zenon DEF Error
    <2>3. /\ pc' = [pc EXCEPT ![t] = "finish"] /\ UNCHANGED <<thrower, index>>
          /\ SetResults(t, Error("closure"))
        BY <1>6, Zenon DEF ClosureThrows, Go
    <2>4. \A j \in 1 .. Len(batch[t]) : id[batch[t][j]] \in threw'
        <3>1. \A j \in 1 .. Len(batch[t]) : j = k
            BY <1>4, <1>6
        <3> QED
            BY <1>4, <3>1, Zenon
    <2>5. critical' \in BOOLEAN
        BY <1>1, <1>4, Zenon
    <2> QED
        BY <1>4, <1>5, <2>1, <2>2, <2>3, <2>4, <2>5, WholeBatchStep, Zenon
           DEF SettlesAll
<1>7. CASE Len(batch[t]) # 1
    <2>1. /\ pc' = [pc EXCEPT ![t] = "retry"] /\ result' = result
          /\ thrower' = [thrower EXCEPT ![t] = k]
          /\ index' = [index EXCEPT ![t] = 1]
        BY <1>7, Zenon DEF ClosureThrows, Go
    <2>2. pc'[t] = "retry" /\ thrower'[t] = k /\ index'[t] = 1
        BY <1>1, <2>1, Zenon
    <2>3. TypeOK'
        <3>1. /\ pc' \in [Thread -> PC] /\ thrower' \in [Thread -> 0 .. MaxBatch]
              /\ index' \in [Thread -> 0 .. MaxBatch + 1]
            BY <1>1, <2>1 DEF PC, Inside, Leading
        <3>2. writer' \in Thread \cup {NoOne, Other}
            BY <1>4, Zenon
        <3> QED
            BY <1>4, <1>5, <2>1, <3>1, <3>2, Zenon DEF IInv, TypeOK
    <2>4. \A j \in 1 .. Len(batch[t]) : ToRun(t, j) /\ ToRun(t, j)' /\ ~Settled(t, j)
        BY <1>3, <1>4, <2>2, SMTT(60) DEF ToRun, Settled, Retrying
    <2>5. /\ pc[t] \in {"run", "commit"} \cup Retrying
          /\ pc' = [pc EXCEPT ![t] = pc'[t]] /\ pc'[t] \in {"finish", "retry"}
          /\ \A s \in Thread \ {t} : index'[s] = index[s] /\ thrower'[s] = thrower[s]
        BY <1>1, <1>4, <2>1, <2>2, Zenon
    <2>6. /\ index'[t] \in 1 .. Len(batch[t]) /\ thrower'[t] \in 1 .. Len(batch[t])
          /\ id[batch[t][thrower'[t]]] \in threw'
        BY <1>3, <1>4, <2>2
    <2>7. Len(log) \in Nat /\ log' = log
        BY <1>4, Elements, Zenon DEF IInv
    <2>8. Len(log) <= Len(log') /\ Len(log) + 1 .. Len(log') = {}
        BY <2>7
    <2> QED
        BY <1>4, <1>5, <2>1, <2>3, <2>4, <2>5, <2>6, <2>7, <2>8, BatchStep,
           Zenon DEF SettlesFront
<1> QED
    BY <1>6, <1>7, Zenon

\* run_one settles the node of its index.
SettlesOne(t, r) ==
    /\ pc[t] \in Retrying /\ Settle(t, r)
    /\ UNCHANGED <<arrived, outcome, queue, leader, id, done, batch, thrower, others>>
    /\ writer' \in {writer, NoOne} /\ critical' \in BOOLEAN
    /\ threw \subseteq threw' /\ threw' \subseteq Calls
    /\ r.kind # "none" /\ (r.kind # "version" => r.version = 0)
    /\ \/ UNCHANGED <<version, log>> /\ r.kind # "version"
       \/ /\ LogCalls(<<Node(t)>>) /\ r.kind \in {"version", "commit"}
          /\ r.kind = "version" => r.version = version + 1
    /\ r.kind = "closure" => id[Node(t)] \in threw'

\* It settles nodes from the front.
LEMMA SettleStep ==
    ASSUME IInv, NEW t \in Thread, NEW r \in Outcomes, SettlesOne(t, r)
    PROVE  IInv'
<1> DEFINE n == index[t]
<1>0. /\ pc \in [Thread -> PC] /\ result \in [Thread -> Outcomes]
      /\ index \in [Thread -> 0 .. MaxBatch + 1] /\ MaxBatch \in Nat
      /\ version \in Nat /\ log \in Seq([call : Calls, version : Nat \ {0}])
    BY GroupCommitAssumption, Zenon DEF GroupCommitAssumption, IInv, TypeOK
<1>1. pc[t] \in Working
    BY Zenon DEF Working, SettlesOne
<1>2. /\ Len(batch[t]) \in Nat /\ Len(batch[t]) <= MaxBatch
      /\ \A k \in 1 .. Len(batch[t]) :
           /\ batch[t][k] \in Thread /\ id[batch[t][k]] \in Calls
           /\ id[batch[t][k]] \in Nat
      /\ \A j, k \in 1 .. Len(batch[t]) :
           batch[t][j] = batch[t][k] => j = k
    BY <1>1, LeaderBatch, Zenon
<1>3. /\ n \in 1 .. Len(batch[t]) /\ thrower[t] \in 1 .. Len(batch[t])
      /\ id[batch[t][thrower[t]]] \in threw
    BY Zenon DEF IInv, Batched, SettlesOne
<1>4. /\ Node(t) = batch[t][n] /\ Node(t) \in Thread /\ id[Node(t)] \in Calls
      /\ result' = [result EXCEPT ![Node(t)] = r]
      /\ index' = [index EXCEPT ![t] = n + 1]
      /\ pc' = [pc EXCEPT ![t] = IF n = Len(batch[t]) THEN "finish" ELSE "retry"]
    BY <1>2, <1>3, Zenon DEF Node, Settle, Go, SettlesOne
<1>5. /\ index'[t] = n + 1
      /\ pc'[t] = IF n = Len(batch[t]) THEN "finish" ELSE "retry"
      /\ \A s \in Thread \ {t} : index'[s] = index[s]
      /\ result'[batch[t][n]] = r
      /\ \A s \in Thread : s # batch[t][n] => result'[s] = result[s]
    BY <1>0, <1>4, Zenon
<1>6. \A k \in 1 .. Len(batch[t]) :
        /\ ToRun(t, k) <=> n <= k
        /\ ToRun(t, k)' <=> n < k
        /\ ToRun(t, k)' => ToRun(t, k)
        /\ Settled(t, k) <=> k = n
    <2> TAKE k \in 1 .. Len(batch[t])
    <2>1. ToRun(t, k) <=> n <= k
        BY Zenon DEF ToRun, Retrying, SettlesOne
    <2>2. ToRun(t, k)' <=> n < k
        <3>1. CASE n = Len(batch[t])
            BY <1>2, <1>3, <1>5, <3>1 DEF ToRun, Retrying, SettlesOne
        <3>2. CASE n # Len(batch[t])
            <4>1. pc'[t] = "retry"
                BY <1>5, <3>2, Zenon
            <4> QED
                <5>1. ToRun(t, k)' <=> n + 1 <= k
                    BY <1>5, <4>1, Zenon DEF ToRun, Retrying
                <5>2. Len(batch[t]) \in Nat /\ n \in 1 .. Len(batch[t])
                    BY <1>2, <1>3, Zenon
                <5> QED
                    BY <5>1, <5>2
        <3> QED
            BY <3>1, <3>2, Zenon
    <2> QED
        BY <1>2, <1>3, <2>1, <2>2, SMTT(60) DEF Settled
<1>7. /\ log' \in Seq([call : Calls, version : Nat \ {0}]) /\ version' \in Nat
      /\ Len(log) \in Nat
      /\ \A i \in 1 .. Len(log) : log'[i] = log[i]
      /\ \/ Len(log') = Len(log) /\ r.kind # "version"
         \/ /\ Len(log') = Len(log) + 1
            /\ r.kind \in {"version", "commit"}
            /\ r.kind = "version" => r.version = version + 1
            /\ log'[Len(log) + 1].call = id[batch[t][n]]
            /\ log'[Len(log) + 1].version = version + 1
    <2>1. CASE UNCHANGED <<version, log>> /\ r.kind # "version"
        BY <1>0, <2>1, SMTT(60)
    <2>2. CASE LogCalls(<<Node(t)>>) /\ r.kind \in {"version", "commit"}
        <3>0. /\ <<Node(t)>> \in Seq(Thread) /\ Len(<<Node(t)>>) = 1
              /\ \A k \in 1 .. 1 : <<Node(t)>>[k] = Node(t)
            BY <1>4
        <3>1. /\ log' \in Seq([call : Calls, version : Nat \ {0}])
              /\ version' = version + 1 /\ Len(log') = Len(log) + 1
              /\ \A i \in 1 .. Len(log) : log'[i] = log[i]
              /\ log'[Len(log) + 1] =
                   [call |-> id[Node(t)], version |-> version + 1]
            <4>1. TypeOK
                BY Zenon DEF IInv
            <4>2. \A k \in 1 .. Len(<<Node(t)>>) : id[<<Node(t)>>[k]] \in Calls
                BY <1>4, <3>0, Zenon
            <4>3. /\ log' \in Seq([call : Calls, version : Nat \ {0}])
                  /\ version' = version + 1
                  /\ Len(log') = Len(log) + Len(<<Node(t)>>)
                  /\ \A i \in 1 .. Len(log) : log'[i] = log[i]
                  /\ \A k \in 1 .. Len(<<Node(t)>>) : log'[Len(log) + k] =
                       [call |-> id[<<Node(t)>>[k]], version |-> version + 1]
                BY <2>2, <3>0, <4>1, <4>2, CommittedLog, Zenon
            <4>4. 1 \in 1 .. Len(<<Node(t)>>) /\ <<Node(t)>>[1] = Node(t)
                BY <3>0
            <4> QED
                BY <3>0, <4>3, <4>4, Zenon
        <3>2. /\ log'[Len(log) + 1].call = id[batch[t][n]]
              /\ log'[Len(log) + 1].version = version + 1
            <4>1. log'[Len(log) + 1] =
                    [call |-> id[batch[t][n]], version |-> version + 1]
                BY <1>4, <3>1, Zenon
            <4> QED
                BY <4>1
        <3>3. Len(log) \in Nat /\ version + 1 \in Nat
            <4>1. version \in Nat /\ log \in Seq([call : Calls, version : Nat \ {0}])
                BY <1>0, Zenon
            <4> QED
                BY <4>1
        <3> QED
            BY <2>2, <3>1, <3>2, <3>3, Zenon DEF SettlesOne
    <2> QED
        BY <2>1, <2>2, Zenon DEF SettlesOne
<1>8. TypeOK'
    <2>1. pc' \in [Thread -> PC]
        BY <1>0, <1>4, Zenon DEF PC, Inside, Leading
    <2>2. result' \in [Thread -> Outcomes]
        BY <1>0, <1>4, Zenon
    <2>3. index' \in [Thread -> 0 .. MaxBatch + 1]
        <3>1. /\ MaxBatch \in Nat /\ Len(batch[t]) \in Nat
              /\ Len(batch[t]) <= MaxBatch /\ n \in 1 .. Len(batch[t])
            BY <1>0, <1>2, <1>3, Zenon
        <3>2. n + 1 \in 0 .. MaxBatch + 1
            BY <3>1
        <3> QED
            BY <1>0, <1>4, <3>2, Zenon
    <2>4. writer' \in Thread \cup {NoOne, Other}
        BY Zenon DEF IInv, TypeOK, SettlesOne
    <2> QED
        BY <1>7, <2>1, <2>2, <2>3, <2>4, Zenon DEF IInv, TypeOK, SettlesOne
<1>9. \A c : c = id[batch[t][n]] => Truthful(c, r)'
    <2> SUFFICES ASSUME NEW c, c = id[batch[t][n]]
                 PROVE  Truthful(c, r)'
        BY Zenon
    <2>1. r.kind = "version" =>
            /\ r.version # 0
            /\ \E i \in 1 .. Len(log') :
                 log'[i].call = c /\ log'[i].version = r.version
        <3> SUFFICES ASSUME r.kind = "version"
                     PROVE  /\ r.version # 0
                            /\ \E i \in 1 .. Len(log') :
                                 log'[i].call = c /\ log'[i].version = r.version
            BY Zenon
        <3>1. Len(log) + 1 \in 1 .. Len(log')
            <4>1. Len(log) \in Nat /\ Len(log') = Len(log) + 1
                BY <1>7, Zenon
            <4> QED
                BY <4>1
        <3>2. r.version # 0
            BY <1>0, <1>7
        <3> QED
            BY <1>7, <3>1, <3>2, Zenon
    <2>2. r.kind \in {"closure", "begin"} => \A i \in 1 .. Len(log') : log'[i].call # c
        <3> SUFFICES ASSUME r.kind \in {"closure", "begin"}, NEW i \in 1 .. Len(log')
                     PROVE  log'[i].call # c
            BY Zenon
        <3>1. i \in 1 .. Len(log) /\ log'[i] = log[i]
            BY <1>7, Zenon
        <3>2. ToRun(t, n)
            <4>0. n \in 1 .. Len(batch[t])
                BY <1>3, Zenon
            <4>1. n <= n
                BY <4>0
            <4> QED
                BY <1>3, <1>6, <4>1, Zenon
        <3>3. log[i].call < id[batch[t][n]] /\ log[i].call \in Nat
            BY <1>3, <3>1, <3>2, Elements, Zenon DEF IInv, Logged
        <3> QED
            <4>1. id[batch[t][n]] \in Nat
                BY <1>2, <1>3, Zenon
            <4>2. log[i].call # id[batch[t][n]]
                BY <3>3, <4>1
            <4> QED
                BY <3>1, <4>2, Zenon
    <2>3. r.kind = "closure" => c \in threw'
        BY <1>4, Zenon DEF SettlesOne
    <2> QED
        BY <2>1, <2>2, <2>3, Zenon DEF Truthful, SettlesOne
<1>10. \A k \in 1 .. Len(batch[t]) : Settled(t, k) =>
         /\ result'[batch[t][k]].kind # "none"
         /\ \A c, q : c = id[batch[t][k]] /\ q = result'[batch[t][k]]
                        => Truthful(c, q)'
    <2> TAKE k \in 1 .. Len(batch[t])
    <2> HAVE Settled(t, k)
    <2>1. k = n
        BY <1>6, Zenon
    <2> QED
        BY <1>5, <1>9, <2>1, Zenon DEF SettlesOne
<1>11. /\ Len(log) <= Len(log')
       /\ \A i \in Len(log) + 1 .. Len(log') : i = Len(log) + 1
       /\ \A i \in Len(log) + 1 .. Len(log') : \E k \in 1 .. Len(batch[t]) :
            Settled(t, k) /\ log'[i].call = id[batch[t][k]]
    <2>1. /\ Len(log) <= Len(log')
          /\ \A i \in Len(log) + 1 .. Len(log') :
               i = Len(log) + 1 /\ log'[i].call = id[batch[t][n]]
        BY <1>7
    <2>2. n \in 1 .. Len(batch[t]) /\ Settled(t, n)
        BY <1>3, <1>6, Zenon
    <2> QED
        BY <2>1, <2>2, Zenon
<1>12. \A i, j \in Len(log) + 1 .. Len(log') : i < j => log'[i].call < log'[j].call
    <2> TAKE i, j \in Len(log) + 1 .. Len(log')
    <2>1. i = Len(log) + 1 /\ j = Len(log) + 1 /\ Len(log) \in Nat
        BY <1>7, <1>11, Zenon
    <2> QED
        BY <2>1
<1>13. \A s \in Thread :
         \/ result'[s] = result[s]
         \/ \E k \in 1 .. Len(batch[t]) : Settled(t, k) /\ batch[t][k] = s
    BY <1>3, <1>5, <1>6, Zenon
<1>14. /\ pc[t] \in {"run", "commit"} \cup Retrying
       /\ pc' = [pc EXCEPT ![t] = pc'[t]] /\ pc'[t] \in {"finish", "retry"}
       /\ \A s \in Thread \ {t} : index'[s] = index[s] /\ thrower'[s] = thrower[s]
    BY <1>0, <1>4, <1>5, Zenon DEF SettlesOne
<1>15. pc'[t] = "retry" => /\ index'[t] \in 1 .. Len(batch[t])
                           /\ thrower'[t] \in 1 .. Len(batch[t])
                           /\ id[batch[t][thrower'[t]]] \in threw'
    <2>1. n # Len(batch[t]) => n + 1 \in 1 .. Len(batch[t])
        BY <1>2, <1>3
    <2>2. thrower' = thrower /\ threw \subseteq threw'
        BY Zenon DEF SettlesOne
    <2> QED
        BY <1>3, <1>5, <2>1, <2>2, Zenon
<1>16. /\ \A k \in 1 .. Len(batch[t]) : ToRun(t, k)' => ToRun(t, k)
       /\ \A j, k \in 1 .. Len(batch[t]) : Settled(t, j) /\ ToRun(t, k)' => j < k
    BY <1>6, Zenon
<1> QED
    BY <1>7, <1>8, <1>10, <1>11, <1>12, <1>13, <1>14, <1>15, <1>16,
       BatchStep, Zenon DEF SettlesFront, SettlesOne
=============================================================================

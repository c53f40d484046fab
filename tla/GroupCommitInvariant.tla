------------------------ MODULE GroupCommitInvariant ------------------------
(***************************************************************************)
(* The inductive invariant of GroupCommit, for every set of threads, every *)
(* batch size and every number of calls.                                   *)
(*                                                                         *)
(* What the invariants rest on is one order: the calls in the log, then    *)
(* those of the leader's batch that have not run to their end, then those  *)
(* in the queue, have increasing numbers.  A batch is a prefix of the      *)
(* queue and is committed as a whole or from its front, so the log grows   *)
(* by larger numbers only.                                                 *)
(*                                                                         *)
(* This module proves it for the initial states, for calls that enter and  *)
(* return, and for the steps that move only threads, the write lock and    *)
(* other writers.  GroupCommitBatches has the steps that settle a batch,   *)
(* GroupCommitProofs the rest and the theorems.                            *)
(***************************************************************************)
EXTENDS GroupCommit, TLAPS

Retrying == {"retry", "rerun", "recommit"}
Working  == {"run", "commit", "finish"} \cup Retrying

\* A node somebody has to finish.
Undone(t) == pc[t] \in Inside /\ ~done[t]

Queued ==
    /\ \A i \in 1 .. Len(queue) : Undone(queue[i])
    /\ \A i, j \in 1 .. Len(queue) : i < j => id[queue[i]] < id[queue[j]]

\* The batch of a leader at work; nobody else has one.
Batched ==
    \A t \in Thread :
        /\ pc[t] \notin Working => Len(batch[t]) = 0
        /\ \A i \in 1 .. Len(batch[t]) : Undone(batch[t][i])
        /\ \A i, j \in 1 .. Len(batch[t]) :
             i < j => id[batch[t][i]] < id[batch[t][j]]
        /\ \A i \in 1 .. Len(batch[t]), j \in 1 .. Len(queue) :
             id[batch[t][i]] < id[queue[j]]
        /\ pc[t] \in Retrying =>
             /\ index[t] \in 1 .. Len(batch[t])
             /\ thrower[t] \in 1 .. Len(batch[t])
             /\ id[batch[t][thrower[t]]] \in threw

Found ==
    \A t \in Thread : Undone(t) =>
        \/ \E i \in 1 .. Len(queue) : queue[i] = t
        \/ \E s \in Thread : \E i \in 1 .. Len(batch[s]) : batch[s][i] = t

\* Calls in progress have numbers of their own and no answer yet.
Numbered ==
    /\ \A t \in Thread : pc[t] \in Inside =>
         id[t] \in 1 .. arrived /\ outcome[id[t]] = NoOutcome
    /\ \A s, t \in Thread :
         pc[s] \in Inside /\ pc[t] \in Inside /\ s # t => id[s] # id[t]
    /\ \A c \in Calls : c > arrived => outcome[c] = NoOutcome

\* The j-th node of t's batch may still be committed.
ToRun(t, j) ==
    \/ pc[t] \in {"run", "commit"}
    \/ pc[t] \in Retrying /\ index[t] <= j

Logged ==
    /\ \A i \in 1 .. Len(log) : log[i].call <= arrived
    /\ \A i, j \in 1 .. Len(log) : i < j => log[i].call < log[j].call
    /\ \A i \in 1 .. Len(log), j \in 1 .. Len(queue) :
         log[i].call < id[queue[j]]
    /\ \A t \in Thread : \A i \in 1 .. Len(log), j \in 1 .. Len(batch[t]) :
         ToRun(t, j) => log[i].call < id[batch[t][j]]

\* What a node says of its call is true.
Truthful(c, r) ==
    /\ r.kind = "version" =>
         /\ r.version # 0
         /\ \E i \in 1 .. Len(log) :
              log[i].call = c /\ log[i].version = r.version
    /\ r.kind # "version" => r.version = 0
    /\ r.kind \in {"closure", "begin"} =>
         \A i \in 1 .. Len(log) : log[i].call # c
    /\ r.kind = "closure" => c \in threw

Answered ==
    /\ \A t \in Thread : pc[t] \in Inside =>
         /\ Truthful(id[t], result[t])
         /\ done[t] => result[t].kind # "none"
         /\ pc[t] = "return" => done[t]
    /\ \A t \in Thread : \A j \in 1 .. Len(batch[t]) :
         ~ToRun(t, j) => result[batch[t][j]].kind # "none"

IInv ==
    /\ TypeOK /\ SleepersHaveLeader
    /\ Queued /\ Batched /\ Found /\ Numbered /\ Logged /\ Answered
    /\ FailsOnlyItself
-----------------------------------------------------------------------------
\* The store with no call in progress meets the invariant.
LEMMA InitInductive == Init => IInv
<1> SUFFICES ASSUME Init PROVE IInv
    BY Zenon
<1> USE GroupCommitAssumption DEF GroupCommitAssumption, Init
<1>1. TypeOK
    <2>1. NoOutcome \in Outcomes
        BY Zenon DEF NoOutcome, Outcomes
    <2>2. outcome \in [Calls -> Outcomes] /\ result \in [Thread -> Outcomes]
        BY <2>1, Zenon
    <2>3. pc \in [Thread -> PC]
        BY Zenon DEF PC
    <2>4. /\ log \in Seq([call : Calls, version : Nat \ {0}])
          /\ queue \in Seq(Thread) /\ batch \in [Thread -> Seq(Thread)]
        OBVIOUS
    <2>5. \A t \in Thread : Len(batch[t]) <= MaxBatch
        <3>1. \A t \in Thread : batch[t] = <<>>
            BY Zenon
        <3>2. Len(<<>>) = 0 /\ 0 <= MaxBatch
            OBVIOUS
        <3> QED
            BY <3>1, <3>2, Zenon
    <2>6. /\ id \in [Thread -> 0 .. MaxCalls] /\ done \in [Thread -> BOOLEAN]
          /\ thrower \in [Thread -> 0 .. MaxBatch]
          /\ index \in [Thread -> 0 .. MaxBatch + 1]
        OBVIOUS
    <2> QED
        <3>1. /\ arrived \in 0 .. MaxCalls /\ version \in Nat
              /\ others \in 0 .. MaxOther
            OBVIOUS
        <3>2. leader \in BOOLEAN /\ critical \in BOOLEAN
            BY Zenon
        <3>3. writer \in Thread \cup {NoOne, Other} /\ threw \subseteq Calls
            BY Zenon
        <3> QED
            BY <2>2, <2>3, <2>4, <2>5, <2>6, <3>1, <3>2, <3>3, Zenon DEF TypeOK
<1>2. SleepersHaveLeader
    BY Zenon DEF SleepersHaveLeader, Leading
<1>3. Queued /\ Batched /\ Found
    BY DEF Queued, Batched, Found, Undone, Inside, Leading, Working, Retrying
<1>4. Numbered /\ Logged /\ Answered
    BY DEF Numbered, Logged, Answered, Inside, Leading, Calls, ToRun, Retrying
<1>5. FailsOnlyItself
    BY Zenon DEF FailsOnlyItself, NoOutcome
<1> QED
    BY <1>1, <1>2, <1>3, <1>4, <1>5, Zenon DEF IInv

\* An element of a sequence.
LEMMA ElementOf ==
    ASSUME NEW S, NEW q \in Seq(S), NEW i \in 1 .. Len(q)
    PROVE  q[i] \in S
    OBVIOUS

\* What the types say of the elements of the sequences.
LEMMA Elements ==
    ASSUME TypeOK
    PROVE  /\ Len(queue) \in Nat /\ \A i \in 1 .. Len(queue) : queue[i] \in Thread
           /\ \A s \in Thread :
                /\ Len(batch[s]) \in Nat
                /\ \A i \in 1 .. Len(batch[s]) : batch[s][i] \in Thread
           /\ Len(log) \in Nat
           /\ \A i \in 1 .. Len(log) : log[i].call \in Nat
           /\ \A s \in Thread : id[s] \in Nat
<1>1. queue \in Seq(Thread) /\ batch \in [Thread -> Seq(Thread)]
    BY Zenon DEF TypeOK
<1>2. log \in Seq([call : Calls, version : Nat \ {0}])
    BY Zenon DEF TypeOK
<1>3. id \in [Thread -> 0 .. MaxCalls]
    BY Zenon DEF TypeOK
<1>4. \A i \in 1 .. Len(log) : log[i] \in [call : Calls, version : Nat \ {0}]
    BY <1>2, ElementOf, Zenon
<1>5. \A i \in 1 .. Len(log) : log[i].call \in Nat
    BY <1>4 DEF Calls
<1>6. \A s \in Thread : batch[s] \in Seq(Thread)
    BY <1>1, Zenon
<1>7. \A s \in Thread : id[s] \in Nat
    BY <1>3
<1> QED
    BY <1>1, <1>2, <1>5, <1>6, <1>7

\* What a step may do to the program points without disturbing the nodes.
SamePlaces ==
    \A s \in Thread :
        /\ pc'[s] \in Inside <=> pc[s] \in Inside
        /\ pc'[s] \in Working <=> pc[s] \in Working
        /\ pc'[s] \in Retrying <=> pc[s] \in Retrying
        /\ pc'[s] \in {"run", "commit"} <=> pc[s] \in {"run", "commit"}
        /\ pc'[s] = "return" => done[s]

\* A step that leaves the calls and their nodes alone.
LEMMA ControlStep ==
    ASSUME IInv, TypeOK', SleepersHaveLeader', SamePlaces,
           UNCHANGED <<arrived, log, outcome, queue, pending, local, threw>>
    PROVE  IInv'
<1>1. \A s \in Thread : Undone(s)' <=> Undone(s)
    BY Zenon DEF Undone, IInv, SamePlaces, pending, local
<1>2. \A s \in Thread, j \in Nat : ToRun(s, j)' <=> ToRun(s, j)
    BY Zenon DEF ToRun, IInv, SamePlaces, pending, local
<1>3. queue \in Seq(Thread) /\ batch \in [Thread -> Seq(Thread)]
    BY Zenon DEF TypeOK, IInv
<1>4. Queued'
    <2>1. UNCHANGED <<queue, id>>
        BY Zenon DEF IInv, SamePlaces, pending, local
    <2>2. \A i \in 1 .. Len(queue) : queue[i] \in Thread
        BY Elements, Zenon DEF IInv
    <2> QED
        BY <1>1, <2>1, <2>2, Zenon DEF Queued, IInv
<1>5. Batched'
    <2> SUFFICES ASSUME NEW t \in Thread
                 PROVE  Batched!(t)'
        BY Zenon DEF Batched
    <2>1. \A i \in 1 .. Len(batch[t]) : Undone(batch[t][i])'
        BY <1>1, <1>3 DEF Batched, IInv, SamePlaces, pending, local
    <2> QED
        BY <2>1, Zenon DEF Batched, IInv, SamePlaces, pending, local
<1>6. Found'
    BY <1>1, Zenon DEF Found, IInv, SamePlaces, pending, local
<1>7. Numbered'
    BY Zenon DEF Numbered, IInv, SamePlaces, pending, local
<1>8. Logged'
    BY <1>2, <1>3 DEF Logged, IInv, SamePlaces, pending, local
<1>9. Answered'
    <2>1. \A c, r : Truthful(c, r)' <=> Truthful(c, r)
        BY Zenon DEF Truthful
    <2> QED
        BY <1>2, <1>3, <2>1 DEF Answered, IInv, SamePlaces, pending, local
<1>10. FailsOnlyItself'
    BY Zenon DEF FailsOnlyItself, IInv
<1> QED
    BY <1>4, <1>5, <1>6, <1>7, <1>8, <1>9, <1>10, Zenon DEF IInv

\* The steps that only move a thread, the write lock or the version preserve
\* the invariant: sleeping and waking, electing a leader and resigning,
\* taking the write lock, running closures that return, and other writers.
LEMMA ThreadControlSteps ==
    ASSUME IInv, NEW t \in Thread,
           \/ SpuriousWake(t) \/ Wake(t) \/ Resign(t) \/ BeginWrite(t)
           \/ BeginFails(t) \/ RunBatch(t) \/ RetryBegins(t) \/ RetryRuns(t)
    PROVE  IInv'
<1>1. /\ UNCHANGED <<arrived, log, outcome, queue, pending, local, threw>>
      /\ UNCHANGED <<version, others>> /\ critical' = critical
      /\ leader' \in BOOLEAN /\ writer' \in {writer, t}
    BY Zenon DEF SpuriousWake, Wake, Resign, BeginWrite, BeginFails, RunBatch,
           RetryBegins, RetryRuns, IInv, TypeOK, service, committer, pending, local, engine, Go
<1>2. pc' \in [Thread -> PC]
    <2>1. CASE SpuriousWake(t)
        BY <2>1, Zenon
           DEF SpuriousWake, IInv, TypeOK, service, committer, pending,
           local, engine, Go, PC, Inside, Leading
    <2>2. CASE Wake(t)
        BY <2>2, Zenon
           DEF Wake, IInv, TypeOK, service, committer, pending, local,
           engine, Go, PC, Inside, Leading
    <2>3. CASE Resign(t)
        BY <2>3, Zenon
           DEF Resign, IInv, TypeOK, service, committer, pending, local,
           engine, Go, PC, Inside, Leading
    <2>4. CASE BeginWrite(t) \/ BeginFails(t)
        BY <2>4, Zenon
           DEF BeginWrite, BeginFails, IInv, TypeOK, service, committer,
           pending, local, engine, Go, PC, Inside, Leading
    <2>5. CASE RunBatch(t)
        BY <2>5, Zenon
           DEF RunBatch, IInv, TypeOK, service, committer, pending, local,
           engine, Go, PC, Inside, Leading
    <2>6. CASE RetryBegins(t) \/ RetryRuns(t)
        BY <2>6, Zenon
           DEF RetryBegins, RetryRuns, IInv, TypeOK, service, committer,
           pending, local, engine, Go, PC, Inside, Leading
    <2> QED
        BY <2>1, <2>2, <2>3, <2>4, <2>5, <2>6, Zenon
<1>3. TypeOK'
    BY <1>1, <1>2, Zenon
       DEF IInv, TypeOK, service, committer, pending, local, engine, Go
<1>4. SamePlaces
    <2>1. CASE SpuriousWake(t) \/ BeginWrite(t) \/ BeginFails(t)
        <3>1. /\ pc \in [Thread -> PC]
              /\ \/ pc[t] = "asleep" /\ pc' = [pc EXCEPT ![t] = "woken"]
                 \/ pc[t] = "begin" /\ pc' = [pc EXCEPT ![t] = "drain"]
                 \/ pc[t] = "begin" /\ pc' = [pc EXCEPT ![t] = "failed"]
            BY <2>1, Zenon
               DEF SpuriousWake, BeginWrite, BeginFails, IInv, TypeOK, Go
        <3>2. \A s \in Thread : pc[s] = "return" => done[s]
            BY Zenon DEF IInv, Answered, Inside
        <3> QED
            BY <3>1, <3>2, Zenon
               DEF Inside, Leading, Working, Retrying, SamePlaces
    <2>2. CASE Wake(t)
        BY <2>2, SMTT(60)
           DEF Wake, Answered, IInv, TypeOK, service, committer, pending,
           local, engine, Go, SamePlaces, Inside, Leading, Working, Retrying
    <2>3. CASE Resign(t)
        BY <2>3, Zenon
           DEF Resign, Answered, IInv, TypeOK, service, committer, pending,
           local, engine, Go, SamePlaces, Inside, Leading, Working, Retrying
    <2>4. CASE RunBatch(t) \/ RetryBegins(t) \/ RetryRuns(t)
        BY <2>4, ZenonT(60)
           DEF RunBatch, RetryBegins, RetryRuns, Answered, IInv, TypeOK,
           service, committer, pending, local, engine, Go, SamePlaces,
           Inside, Leading, Working, Retrying
    <2> QED
        BY <2>1, <2>2, <2>3, <2>4, Zenon
<1>5. SleepersHaveLeader'
    <2>1. CASE SpuriousWake(t)
        BY <2>1, Zenon
           DEF SpuriousWake, IInv, TypeOK, service, committer, pending,
           local, engine, Go, SleepersHaveLeader, Leading
    <2>2. CASE Wake(t)
        <3>1. CASE leader
            <4>1. /\ leader' = leader /\ pc'[t] \in {"return", "asleep"}
                  /\ pc[t] = "woken" /\ pc' = [pc EXCEPT ![t] = pc'[t]]
                BY <2>2, <3>1, Zenon
                   DEF Wake, IInv, TypeOK, service, committer, pending,
                   local, engine, Go, SleepersHaveLeader, Leading
            <4>2. \A s \in Thread : pc'[s] \in Leading <=> pc[s] \in Leading
                BY <4>1, Zenon
                   DEF IInv, TypeOK, service, committer, pending, local,
                   engine, Go, SleepersHaveLeader, Leading
            <4> QED
                BY <3>1, <4>1, <4>2, Zenon
                   DEF IInv, TypeOK, service, committer, pending, local,
                   engine, Go, SleepersHaveLeader, Leading
        <3>2. CASE ~leader /\ done[t]
            BY <2>2, <3>2, SMTT(60)
               DEF Wake, IInv, TypeOK, service, committer, pending, local,
               engine, Go, SleepersHaveLeader, Leading
        <3>3. CASE ~leader /\ ~done[t]
            <4>1. leader' = TRUE /\ pc' = [pc EXCEPT ![t] = "begin"]
                BY <2>2, <3>3, Zenon
                   DEF Wake, IInv, TypeOK, service, committer, pending,
                   local, engine, Go, SleepersHaveLeader, Leading
            <4>2. \A s \in Thread : pc[s] \notin Leading
                BY <3>3, Zenon
                   DEF IInv, TypeOK, service, committer, pending, local,
                   engine, Go, SleepersHaveLeader, Leading
            <4> QED
                BY <4>1, <4>2
                   DEF IInv, TypeOK, service, committer, pending, local,
                   engine, Go, SleepersHaveLeader, Leading
        <3> QED
            BY <3>1, <3>2, <3>3, Zenon
    <2>3. CASE Resign(t)
        <3>1. \A s \in Thread : pc[s] \in Leading => s = t
            BY <2>3, Zenon
               DEF Resign, IInv, TypeOK, service, committer, pending, local,
               engine, Go, SleepersHaveLeader, Leading
        <3>2. \A s \in Thread : pc'[s] # "asleep"
            BY <2>3, Zenon DEF Resign
        <3>3. \A s \in Thread \ {t} : pc'[s] \notin Leading
            BY <2>3, <3>1, Zenon
               DEF Resign, IInv, TypeOK, service, committer, pending, local,
               engine, Go, SleepersHaveLeader, Leading
        <3>4. CASE done[t]
            <4>1. pc'[t] = "return" /\ leader' = FALSE
                BY <2>3, <3>4, Zenon DEF Resign
            <4> QED
                BY <3>2, <3>3, <4>1, Zenon
                   DEF IInv, TypeOK, service, committer, pending, local,
                   engine, Go, SleepersHaveLeader, Leading
        <3>5. CASE ~done[t]
            <4>1. pc'[t] = "begin" /\ leader' = TRUE
                BY <2>3, <3>5, Zenon DEF Resign
            <4> QED
                BY <3>2, <3>3, <4>1, Zenon
                   DEF IInv, TypeOK, service, committer, pending, local,
                   engine, Go, SleepersHaveLeader, Leading
        <3> QED
            BY <3>4, <3>5, Zenon
    <2>4. CASE BeginWrite(t) \/ BeginFails(t) \/ RunBatch(t)
        BY <2>4, ZenonT(60)
           DEF BeginWrite, BeginFails, RunBatch, IInv, TypeOK, service,
           committer, pending, local, engine, Go, SleepersHaveLeader, Leading
    <2>5. CASE RetryBegins(t) \/ RetryRuns(t)
        BY <2>5, Zenon
           DEF RetryBegins, RetryRuns, IInv, TypeOK, service, committer,
           pending, local, engine, Go, SleepersHaveLeader, Leading
    <2> QED
        BY <2>1, <2>2, <2>3, <2>4, <2>5, Zenon
<1> QED
    BY <1>1, <1>3, <1>4, <1>5, ControlStep, Zenon

\* Other writers, and steps that change nothing.
LEMMA OtherSteps ==
    ASSUME IInv, OtherBegins \/ OtherEnds \/ UNCHANGED vars
    PROVE  IInv'
<1>1. /\ UNCHANGED <<arrived, log, outcome, queue, pending, local, threw>>
      /\ pc' = pc /\ leader' = leader
    BY Zenon
       DEF OtherBegins, OtherEnds, OtherCommits, OtherRollsBack, OtherDies,
       vars, IInv, TypeOK, service, committer, pending, local, engine
<1>2. /\ writer' \in {writer, NoOne, Other} /\ version' \in {version, version + 1}
      /\ others' \in 0 .. MaxOther
    BY GroupCommitAssumption DEF OtherBegins, OtherEnds, OtherCommits,
       OtherRollsBack, OtherDies, vars, GroupCommitAssumption, IInv, TypeOK, service, committer, pending, local, engine
<1>3. critical' \in BOOLEAN
    BY Zenon
       DEF OtherBegins, OtherEnds, OtherCommits, OtherRollsBack, OtherDies,
       vars, IInv, TypeOK
<1>4. TypeOK'
    BY <1>1, <1>2, <1>3
       DEF IInv, TypeOK, service, committer, pending, local, engine
<1>5. SamePlaces
    BY <1>1, Zenon DEF SamePlaces, Answered, Inside, IInv, TypeOK
<1>6. SleepersHaveLeader'
    BY <1>1, Zenon DEF SleepersHaveLeader, IInv, TypeOK
<1> QED
    BY <1>1, <1>4, <1>5, <1>6, ControlStep, Zenon

\* A call enters the queue: its number is the largest so far.
LEMMA CallStep == ASSUME IInv, NEW t \in Thread, Call(t) PROVE IInv'
<1>1. /\ pc[t] = "out" /\ arrived < MaxCalls /\ arrived' = arrived + 1
      /\ id' = [id EXCEPT ![t] = arrived + 1]
      /\ done' = [done EXCEPT ![t] = FALSE]
      /\ result' = [result EXCEPT ![t] = NoOutcome]
      /\ queue' = Append(queue, t)
      /\ pc'[t] \in {"asleep", "begin"} /\ pc' = [pc EXCEPT ![t] = pc'[t]]
      /\ UNCHANGED <<log, outcome, batch, thrower, index, threw>>
    BY Zenon DEF Call, local, Go, TypeOK, IInv
<1>2. /\ arrived \in Nat /\ MaxCalls \in Nat
      /\ pc \in [Thread -> PC] /\ done \in [Thread -> BOOLEAN]
      /\ id \in [Thread -> 0 .. MaxCalls] /\ result \in [Thread -> Outcomes]
    BY GroupCommitAssumption DEF GroupCommitAssumption, TypeOK, IInv
<1>e. /\ Len(queue) \in Nat /\ \A i \in 1 .. Len(queue) : queue[i] \in Thread
      /\ \A s \in Thread :
           /\ Len(batch[s]) \in Nat
           /\ \A i \in 1 .. Len(batch[s]) : batch[s][i] \in Thread
      /\ Len(log) \in Nat
      /\ \A i \in 1 .. Len(log) : log[i].call \in Nat
      /\ \A s \in Thread : id[s] \in Nat
    BY Elements, Zenon DEF IInv
<1>3. /\ Len(queue') = Len(queue) + 1 /\ queue'[Len(queue) + 1] = t
      /\ \A i \in 1 .. Len(queue) : queue'[i] = queue[i]
      /\ \A i \in 1 .. Len(queue) : queue[i] \in Thread \ {t}
    <2>1. queue \in Seq(Thread)
        BY Zenon DEF TypeOK, IInv
    <2>2. \A i \in 1 .. Len(queue) : queue[i] # t
        BY <1>1, Zenon DEF Queued, Undone, Inside, Leading, IInv
    <2> QED
        BY <1>1, <1>e, <2>1, <2>2
<1>4. \A s \in Thread : \A i \in 1 .. Len(batch[s]) : batch[s][i] \in Thread \ {t}
    BY <1>1, <1>e, Zenon DEF Batched, Undone, Inside, Leading, IInv
<1>5. Undone(t)' /\ \A s \in Thread \ {t} : Undone(s)' <=> Undone(s)
    BY <1>1, <1>2, Zenon DEF Undone, Inside, Leading
<1>6. TypeOK'
    <2>1. NoOutcome \in Outcomes
        BY Zenon DEF NoOutcome, Outcomes
    <2>2. pc' \in [Thread -> PC] /\ result' \in [Thread -> Outcomes]
        BY <1>1, <1>2, <2>1, Zenon DEF PC, Inside, Leading
    <2>3. /\ arrived' \in 0 .. MaxCalls /\ id' \in [Thread -> 0 .. MaxCalls]
          /\ done' \in [Thread -> BOOLEAN]
        BY <1>1, <1>2
    <2>4. queue' \in Seq(Thread)
        BY <1>1 DEF TypeOK, IInv
    <2>5. leader' \in BOOLEAN /\ UNCHANGED <<version, writer, critical, others>>
        BY Zenon DEF Call, engine
    <2> QED
        BY <1>1, <2>2, <2>3, <2>4, <2>5, Zenon DEF TypeOK, IInv
<1>7. SleepersHaveLeader'
    <2>1. leader' = TRUE /\ pc'[t] = (IF leader THEN "asleep" ELSE "begin")
        BY <1>2, Zenon DEF Call, Go
    <2>2. \A s \in Thread \ {t} : pc'[s] = pc[s]
        BY <1>1, <1>2, Zenon
    <2>3. CASE leader
        BY <1>1, <2>1, <2>2, <2>3, Zenon DEF SleepersHaveLeader, Leading, IInv
    <2>4. CASE ~leader
        BY <1>1, <2>1, <2>2, <2>4 DEF SleepersHaveLeader, Leading, IInv
    <2> QED
        BY <2>3, <2>4, Zenon
<1>8. /\ id'[t] = arrived + 1 /\ \A s \in Thread \ {t} : id'[s] = id[s]
      /\ \A s \in Thread \ {t} : pc'[s] = pc[s] /\ done'[s] = done[s]
      /\ \A s \in Thread \ {t} : result'[s] = result[s]
      /\ pc'[t] \in Inside /\ pc[t] \notin Inside /\ ~done'[t]
      /\ result'[t] = NoOutcome
    BY <1>1, <1>2, Zenon DEF Inside, Leading
<1>9. \A s \in Thread :
        /\ pc'[s] \in Working <=> pc[s] \in Working
        /\ pc'[s] \in Retrying <=> pc[s] \in Retrying
    BY <1>1, <1>2, Zenon DEF Working, Retrying
<1>10. Queued'
    <2>1. \A i \in 1 .. Len(queue) :
            /\ id'[queue[i]] = id[queue[i]]
            /\ id[queue[i]] \in Nat /\ id[queue[i]] < arrived + 1
        BY <1>2, <1>e, <1>3, <1>8, SMTT(60) DEF Queued, Numbered, Undone, IInv
    <2>2. \A i \in 1 .. Len(queue') : Undone(queue[i])'
        BY <1>e, <1>3, <1>8, SMTT(60) DEF Queued, Undone, IInv
    <2>3. \A i, j \in 1 .. Len(queue') : i < j => id'[queue'[i]] < id'[queue'[j]]
        <3>1. \A i, j \in 1 .. Len(queue) : i < j => id[queue[i]] < id[queue[j]]
            BY Zenon DEF Queued, IInv
        <3> SUFFICES ASSUME NEW i \in 1 .. Len(queue'), NEW j \in 1 .. Len(queue'),
                            i < j
                     PROVE  id'[queue'[i]] < id'[queue'[j]]
            BY Zenon
        <3>2. i \in 1 .. Len(queue)
            BY <1>e, <1>3
        <3>3. CASE j \in 1 .. Len(queue)
            BY <1>3, <2>1, <3>1, <3>2, <3>3, Zenon
        <3>4. CASE j = Len(queue) + 1
            BY <1>3, <1>8, <2>1, <3>2, <3>4, SMTT(60)
        <3> QED
            BY <1>e, <1>3, <3>3, <3>4 DEF IInv
    <2> QED
        BY <2>2, <2>3, Zenon DEF Queued
<1>11. Batched'
    <2> SUFFICES ASSUME NEW s \in Thread PROVE Batched!(s)'
        BY Zenon DEF Batched
    <2>1. \A i \in 1 .. Len(batch[s]) :
            /\ batch[s][i] \in Thread \ {t} /\ Undone(batch[s][i])
            /\ id'[batch[s][i]] = id[batch[s][i]] /\ id[batch[s][i]] < arrived + 1
        <3> TAKE i \in 1 .. Len(batch[s])
        <3>1. batch[s][i] \in Thread \ {t} /\ Undone(batch[s][i])
            BY <1>4, Zenon DEF Batched, IInv
        <3>2. id[batch[s][i]] \in 1 .. arrived
            BY <3>1, Zenon DEF Numbered, Undone, IInv
        <3>3. id'[batch[s][i]] = id[batch[s][i]]
            BY <1>8, <3>1, Zenon
        <3> QED
            BY <1>2, <3>1, <3>2, <3>3, SMTT(60)
    <2>2. /\ pc'[s] \notin Working => Len(batch'[s]) = 0
          /\ \A i \in 1 .. Len(batch'[s]) : Undone(batch[s][i])'
        BY <1>1, <1>8, <1>9, <2>1, Zenon DEF Batched, Undone, IInv
    <2>3. \A i, j \in 1 .. Len(batch'[s]) :
            i < j => id'[batch'[s][i]] < id'[batch'[s][j]]
        BY <1>1, <2>1 DEF Batched, IInv
    <2>4. \A i \in 1 .. Len(batch'[s]), j \in 1 .. Len(queue') :
            id'[batch'[s][i]] < id'[queue'[j]]
        <3> SUFFICES ASSUME NEW i \in 1 .. Len(batch[s]), NEW j \in 1 .. Len(queue')
                     PROVE  id[batch[s][i]] < id'[queue'[j]]
            BY <1>1, <2>1
        <3>1. CASE j \in 1 .. Len(queue)
            <4>1. id'[queue'[j]] = id[queue[j]]
                <5>1. queue'[j] = queue[j] /\ queue[j] \in Thread \ {t}
                    BY <1>3, <3>1, Zenon
                <5> QED
                    BY <1>8, <5>1, Zenon
            <4> QED
                BY <3>1, <4>1, Zenon DEF Batched, IInv
        <3>2. CASE j = Len(queue) + 1
            <4>1. queue'[j] = t /\ id'[t] = arrived + 1
                BY <1>3, <1>8, <3>2, Zenon
            <4> QED
                BY <2>1, <4>1, Zenon
        <3> QED
            BY <1>e, <1>3, <3>1, <3>2
    <2>5. pc'[s] \in Retrying =>
            /\ index'[s] \in 1 .. Len(batch'[s])
            /\ thrower'[s] \in 1 .. Len(batch'[s])
            /\ id'[batch'[s][thrower'[s]]] \in threw'
        <3>1. pc'[s] \in Retrying => pc[s] \in Retrying
            BY <1>1, <1>9, Zenon
        <3>2. UNCHANGED <<batch, thrower, index, threw>>
            BY <1>1, Zenon
        <3>3. pc[s] \in Retrying =>
                /\ index[s] \in 1 .. Len(batch[s]) /\ thrower[s] \in 1 .. Len(batch[s])
                /\ id[batch[s][thrower[s]]] \in threw
            BY Zenon DEF Batched, IInv
        <3> QED
            BY <2>1, <3>1, <3>2, <3>3, Zenon
    <2> QED
        BY <2>2, <2>3, <2>4, <2>5, Zenon
<1>12. Found'
    <2>1. \A i \in 1 .. Len(queue) : i \in 1 .. Len(queue')
        BY <1>e, <1>3
    <2>2. Len(queue) + 1 \in 1 .. Len(queue')
        BY <1>e, <1>3
    <2> QED
        <3>1. \A s \in Thread : Undone(s)' /\ s # t => Undone(s)
            BY <1>5, Zenon
        <3> QED
            <4> SUFFICES ASSUME NEW s \in Thread, Undone(s)'
                         PROVE  \/ \E i \in 1 .. Len(queue') : queue'[i] = s
                                \/ \E u \in Thread : \E i \in 1 .. Len(batch[u]) :
                                     batch[u][i] = s
                <5>1. batch' = batch
                    BY <1>1, Zenon
                <5> QED
                    BY <5>1 DEF Found
            <4>1. CASE s = t
                BY <1>3, <2>2, <4>1, Zenon
            <4>2. CASE s # t
                <5>1. \/ \E i \in 1 .. Len(queue) : queue[i] = s
                      \/ \E u \in Thread : \E i \in 1 .. Len(batch[u]) : batch[u][i] = s
                    BY <3>1, <4>2, Zenon DEF Found, IInv
                <5> QED
                    BY <1>3, <2>1, <5>1, Zenon
            <4> QED
                BY <4>1, <4>2, Zenon
<1>13. Numbered'
    <2>1. \A s \in Thread : pc'[s] \in Inside =>
            id'[s] \in 1 .. arrived' /\ outcome'[id'[s]] = NoOutcome
        <3>1. arrived + 1 \in 1 .. arrived' /\ arrived + 1 \in Calls
            BY <1>1, <1>2 DEF Calls
        <3>2. outcome[arrived + 1] = NoOutcome
            BY <1>2, <3>1 DEF Numbered, IInv
        <3>3. 1 .. arrived \subseteq 1 .. arrived'
            BY <1>1, <1>2
        <3> QED
            BY <1>1, <1>8, <3>1, <3>2, <3>3 DEF Numbered, IInv
    <2>2. \A r, s \in Thread :
            pc'[r] \in Inside /\ pc'[s] \in Inside /\ r # s => id'[r] # id'[s]
        BY <1>2, <1>e, <1>8 DEF Numbered, IInv
    <2>3. \A c \in Calls : c > arrived' => outcome'[c] = NoOutcome
        BY <1>1, <1>2 DEF Numbered, Calls, IInv
    <2> QED
        BY <2>1, <2>2, <2>3, Zenon DEF Numbered
<1>14. \A s \in Thread, j \in Nat : ToRun(s, j)' <=> ToRun(s, j)
    BY <1>1, <1>8, <1>9, Zenon DEF ToRun
<1>15. Logged'
    <2>1. \A i \in 1 .. Len(log) : log[i].call \in Nat /\ log[i].call <= arrived
        BY <1>e, Zenon DEF Logged, IInv
    <2>2. \A i \in 1 .. Len(log'), j \in 1 .. Len(queue') :
            log'[i].call < id'[queue'[j]]
        <3> SUFFICES ASSUME NEW i \in 1 .. Len(log), NEW j \in 1 .. Len(queue')
                     PROVE  log[i].call < id'[queue'[j]]
            BY <1>1, Zenon
        <3>1. CASE j \in 1 .. Len(queue)
            <4>1. id'[queue'[j]] = id[queue[j]]
                BY <1>3, <1>8, <3>1, Zenon
            <4> QED
                BY <3>1, <4>1, Zenon DEF Logged, IInv
        <3>2. CASE j = Len(queue) + 1
            BY <1>2, <1>3, <1>8, <2>1, <3>2
        <3> QED
            BY <1>e, <1>3, <3>1, <3>2
    <2>3. \A s \in Thread : \A i \in 1 .. Len(log'), j \in 1 .. Len(batch'[s]) :
            ToRun(s, j)' => log'[i].call < id'[batch'[s][j]]
        <3> SUFFICES ASSUME NEW s \in Thread, NEW i \in 1 .. Len(log),
                            NEW j \in 1 .. Len(batch[s]), ToRun(s, j)'
                     PROVE  log[i].call < id'[batch[s][j]]
            BY <1>1, Zenon
        <3>1. j \in Nat
            BY <1>e
        <3>2. ToRun(s, j) /\ id'[batch[s][j]] = id[batch[s][j]]
            BY <1>4, <1>8, <1>14, <3>1, Zenon
        <3> QED
            BY <3>2, Zenon DEF Logged, IInv
    <2>4. /\ \A i \in 1 .. Len(log') : log'[i].call <= arrived'
          /\ \A i, j \in 1 .. Len(log') : i < j => log'[i].call < log'[j].call
        BY <1>1, <1>2, <2>1 DEF Logged, IInv
    <2> QED
        BY <2>2, <2>3, <2>4, Zenon DEF Logged
<1>16. Answered'
    <2>1. \A c, r : Truthful(c, r)' <=> Truthful(c, r)
        BY <1>1, Zenon DEF Truthful
    <2>2. Truthful(id'[t], NoOutcome)
        BY Zenon DEF Truthful, NoOutcome
    <2>3. pc'[t] # "return"
        BY <1>1, Zenon
    <2>4. \A s \in Thread : pc'[s] \in Inside =>
            /\ Truthful(id[s], result[s])'
            /\ done'[s] => result'[s].kind # "none"
            /\ pc'[s] = "return" => done'[s]
        BY <1>8, <2>1, <2>2, <2>3, Zenon DEF Answered, IInv
    <2>5. \A s \in Thread : \A j \in 1 .. Len(batch'[s]) :
            ~ToRun(s, j)' => result'[batch'[s][j]].kind # "none"
        <3>1. \A s \in Thread : \A j \in 1 .. Len(batch[s]) :
                /\ ToRun(s, j)' <=> ToRun(s, j)
                /\ result'[batch[s][j]] = result[batch[s][j]]
            BY <1>e, <1>4, <1>8, <1>14, SMTT(60)
        <3> QED
            BY <1>1, <3>1 DEF Answered, IInv
    <2> QED
        BY <2>4, <2>5, Zenon DEF Answered
<1>17. FailsOnlyItself'
    BY <1>1, Zenon DEF FailsOnlyItself, IInv
<1> QED
    BY <1>6, <1>7, <1>10, <1>11, <1>12, <1>13, <1>15, <1>16, <1>17, Zenon
       DEF IInv

\* A call returns what its node says.
LEMMA ReturnStep == ASSUME IInv, NEW t \in Thread, Return(t) PROVE IInv'
<1>1. /\ pc[t] = "return" /\ pc' = [pc EXCEPT ![t] = "out"]
      /\ outcome' = [outcome EXCEPT ![id[t]] = result[t]]
      /\ id' = [id EXCEPT ![t] = 0]
      /\ done' = [done EXCEPT ![t] = FALSE]
      /\ result' = [result EXCEPT ![t] = NoOutcome]
      /\ UNCHANGED <<arrived, version, log, queue, leader, batch, thrower,
                     index, writer, critical, threw, others>>
    BY Zenon DEF Return, Go, local, committer, engine
<1>2. /\ arrived \in 0 .. MaxCalls /\ MaxCalls \in Nat
      /\ pc \in [Thread -> PC] /\ done \in [Thread -> BOOLEAN]
      /\ id \in [Thread -> 0 .. MaxCalls] /\ result \in [Thread -> Outcomes]
      /\ outcome \in [Calls -> Outcomes]
    BY GroupCommitAssumption, Zenon DEF GroupCommitAssumption, TypeOK, IInv
<1>3. /\ \A i \in 1 .. Len(queue) : queue[i] \in Thread
      /\ \A s \in Thread :
           /\ Len(batch[s]) \in Nat
           /\ \A i \in 1 .. Len(batch[s]) : batch[s][i] \in Thread
    BY Elements, Zenon DEF IInv
<1>4. /\ pc[t] \in Inside /\ pc[t] \notin Leading /\ done[t]
      /\ pc'[t] = "out" /\ pc'[t] \notin Inside
      /\ \A s \in Thread \ {t} : /\ pc'[s] = pc[s] /\ done'[s] = done[s]
                                 /\ id'[s] = id[s] /\ result'[s] = result[s]
    BY <1>1, <1>2, Zenon DEF Answered, Inside, Leading, IInv
<1>5. id[t] \in 1 .. arrived /\ id[t] \in Calls
    BY <1>2, <1>4 DEF Numbered, Calls, IInv
<1>6. \A i \in 1 .. Len(queue) : queue[i] \in Thread \ {t}
    BY <1>3, <1>4, Zenon DEF Queued, Undone, IInv
<1>7. \A s \in Thread : \A i \in 1 .. Len(batch[s]) : batch[s][i] \in Thread \ {t}
    <2>1. \A s \in Thread : \A i \in 1 .. Len(batch[s]) :
            batch[s][i] \in Thread /\ Undone(batch[s][i])
        BY <1>3, Zenon DEF Batched, IInv
    <2> QED
        BY <1>4, <2>1, Zenon DEF Undone
<1>8. \A s \in Thread :
        /\ pc'[s] \in Working <=> pc[s] \in Working
        /\ pc'[s] \in Retrying <=> pc[s] \in Retrying
    BY <1>1, <1>2, Zenon DEF Working, Retrying
<1>9. TypeOK'
    <2>1. NoOutcome \in Outcomes
        BY Zenon DEF NoOutcome, Outcomes
    <2>2. pc' \in [Thread -> PC] /\ result' \in [Thread -> Outcomes]
        BY <1>1, <1>2, <2>1, Zenon DEF PC
    <2>3. id' \in [Thread -> 0 .. MaxCalls] /\ done' \in [Thread -> BOOLEAN]
        BY <1>1, <1>2
    <2>4. outcome' \in [Calls -> Outcomes]
        BY <1>1, <1>2, Zenon
    <2> QED
        BY <1>1, <2>2, <2>3, <2>4, Zenon DEF TypeOK, IInv
<1>10. SleepersHaveLeader'
    <2>1. leader' = leader
        BY <1>1, Zenon
    <2>2. pc'[t] \notin Leading /\ pc'[t] # "asleep" /\ pc[t] # "asleep"
        BY <1>1, <1>4, Zenon DEF Leading
    <2>3. \A s \in Thread : /\ pc'[s] \in Leading <=> pc[s] \in Leading
                            /\ pc'[s] = "asleep" => pc[s] = "asleep"
        BY <1>4, <2>2, Zenon
    <2> QED
        BY <2>1, <2>3, Zenon DEF SleepersHaveLeader, IInv
<1>11. Queued'
    BY <1>1, <1>4, <1>6 DEF Queued, Undone, IInv
<1>12. Batched'
    <2> SUFFICES ASSUME NEW s \in Thread PROVE Batched!(s)'
        BY Zenon DEF Batched
    <2>1. /\ pc'[s] \notin Working => Len(batch'[s]) = 0
          /\ \A i \in 1 .. Len(batch'[s]) : Undone(batch[s][i])'
        BY <1>1, <1>4, <1>7, <1>8, SMTT(60) DEF Batched, Undone, IInv
    <2>2. \A i, j \in 1 .. Len(batch'[s]) :
            i < j => id'[batch'[s][i]] < id'[batch'[s][j]]
        BY <1>1, <1>4, <1>7 DEF Batched, IInv
    <2>3. \A i \in 1 .. Len(batch'[s]), j \in 1 .. Len(queue') :
            id'[batch'[s][i]] < id'[queue'[j]]
        BY <1>1, <1>4, <1>6, <1>7 DEF Batched, IInv
    <2>4. pc'[s] \in Retrying =>
            /\ index'[s] \in 1 .. Len(batch'[s])
            /\ thrower'[s] \in 1 .. Len(batch'[s])
            /\ id'[batch'[s][thrower'[s]]] \in threw'
        BY <1>1, <1>4, <1>7, <1>8 DEF Batched, IInv
    <2> QED
        BY <2>1, <2>2, <2>3, <2>4, Zenon
<1>13. Found'
    BY <1>1, <1>4, SMTT(60) DEF Found, Undone, IInv
<1>14. Numbered'
    <2>1. \A s \in Thread \ {t} : pc[s] \in Inside => id[s] # id[t]
        BY <1>4, Zenon DEF Numbered, IInv
    <2>2. \A s \in Thread : pc'[s] \in Inside =>
            id'[s] \in 1 .. arrived' /\ outcome'[id'[s]] = NoOutcome
        <3> SUFFICES ASSUME NEW s \in Thread \ {t}, pc[s] \in Inside
                     PROVE  id[s] \in 1 .. arrived /\ outcome'[id[s]] = NoOutcome
            BY <1>1, <1>4
        <3>1. id[s] \in 1 .. arrived /\ outcome[id[s]] = NoOutcome
            BY Zenon DEF Numbered, IInv
        <3>2. id[s] \in Calls
            BY <1>2, <3>1 DEF Calls
        <3> QED
            BY <1>1, <1>2, <2>1, <3>1, <3>2, Zenon
    <2>3. \A r, s \in Thread :
            pc'[r] \in Inside /\ pc'[s] \in Inside /\ r # s => id'[r] # id'[s]
        BY <1>4 DEF Numbered, IInv
    <2>4. \A c \in Calls : c > arrived' => outcome'[c] = NoOutcome
        BY <1>1, <1>2, <1>5 DEF Numbered, Calls, IInv
    <2> QED
        BY <2>2, <2>3, <2>4, Zenon DEF Numbered
<1>15. \A s \in Thread, j \in Nat : ToRun(s, j)' <=> ToRun(s, j)
    BY <1>1, <1>4, <1>8, Zenon DEF ToRun
<1>16. Logged'
    <2>1. \A i \in 1 .. Len(log'), j \in 1 .. Len(queue') :
            log'[i].call < id'[queue'[j]]
        BY <1>1, <1>4, <1>6, SMTT(60) DEF Logged, IInv
    <2>2. \A s \in Thread : \A i \in 1 .. Len(log'), j \in 1 .. Len(batch'[s]) :
            ToRun(s, j)' => log'[i].call < id'[batch'[s][j]]
        <3> TAKE s \in Thread
        <3> TAKE i \in 1 .. Len(log'), j \in 1 .. Len(batch'[s])
        <3>1. /\ i \in 1 .. Len(log) /\ log'[i] = log[i]
              /\ j \in 1 .. Len(batch[s]) /\ batch'[s][j] = batch[s][j]
            BY <1>1, Zenon
        <3>2. /\ id'[batch[s][j]] = id[batch[s][j]]
              /\ ToRun(s, j)' => ToRun(s, j)
            <4>1. j \in Nat
                BY <1>3, <3>1
            <4> QED
                BY <1>4, <1>7, <1>15, <3>1, <4>1, Zenon
        <3> QED
            BY <3>1, <3>2, Zenon DEF Logged, IInv
    <2> QED
        BY <1>1, <2>1, <2>2, Zenon DEF Logged, IInv
<1>17. Answered'
    <2>1. \A c, r : Truthful(c, r)' <=> Truthful(c, r)
        BY <1>1, Zenon DEF Truthful
    <2>2. \A s \in Thread : pc'[s] \in Inside =>
            /\ Truthful(id[s], result[s])'
            /\ done'[s] => result'[s].kind # "none"
            /\ pc'[s] = "return" => done'[s]
        BY <1>4, <2>1, Zenon DEF Answered, IInv
    <2>3. \A s \in Thread : \A j \in 1 .. Len(batch'[s]) :
            ~ToRun(s, j)' => result'[batch'[s][j]].kind # "none"
        <3>1. \A s \in Thread : \A j \in 1 .. Len(batch[s]) :
                /\ ToRun(s, j)' <=> ToRun(s, j)
                /\ result'[batch[s][j]] = result[batch[s][j]]
            <4>1. \A s \in Thread : \A j \in 1 .. Len(batch[s]) : j \in Nat
                BY <1>3
            <4> QED
                BY <1>4, <1>7, <1>15, <4>1, Zenon
        <3>2. batch' = batch
            BY <1>1, Zenon
        <3>3. \A s \in Thread : \A j \in 1 .. Len(batch[s]) :
                ~ToRun(s, j) => result[batch[s][j]].kind # "none"
            BY Zenon DEF Answered, IInv
        <3> QED
            BY <3>1, <3>2, <3>3
    <2> QED
        BY <2>2, <2>3, Zenon DEF Answered
<1>18. FailsOnlyItself'
    <2>1. result[t].kind = "closure" => id[t] \in threw
        BY <1>4, Zenon DEF Answered, Truthful, IInv
    <2> QED
        BY <1>1, <1>2, <2>1, Zenon DEF FailsOnlyItself, IInv
<1> QED
    BY <1>9, <1>10, <1>11, <1>12, <1>13, <1>14, <1>16, <1>17, <1>18, Zenon
       DEF IInv
=============================================================================

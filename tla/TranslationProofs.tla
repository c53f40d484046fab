------------------------- MODULE TranslationProofs -------------------------
(***************************************************************************)
(* Translation without a lock is right, for every number of threads and    *)
(* every set of arrays that do not overlap.                                *)
(*                                                                         *)
(* What carries it: at most one array crosses the end of the section, no   *)
(* limit ever passes its start, and a thread asks for the cross-over       *)
(* mapping only when it has seen the limit there.                          *)
(***************************************************************************)
EXTENDS RefTranslation, TLAPS

\* The entries of the tables, and a thread in translate()
Entries == [lowest : Nat, addr : Nat, base : Nat]
Points == {"rest", "limit", "load", "raise", "fits", "xover", "lock", "add", "publish", "cross", "done"}
Calling == [pc : Points, array : [off : Nat, size : Nat], table : {1, 2}, seen : Nat,
            via : {"none", "primary", "xover", "wrong"}]
Copying == [pc : {"rest", "limit", "xover"}, addr : Nat]

\* No limit has passed the start of the array that crosses the end.
LimitBelow ==
    \A i \in {1, 2} : \A x \in Arrays : Crosses(x) => entry[i].lowest <= x.off

\* A published cross-over mapping is that of the array that crosses the end.
EntryFinal ==
    \A i \in {1, 2} : entry[i].addr # 0 =>
        \E x \in Arrays : /\ Crosses(x)
                          /\ entry[i].base = x.off /\ entry[i].lowest = x.off

\* What a thread has found out, by the point it has reached
Informed(r) ==
    /\ r.pc # "rest" => r.array \in Arrays
    /\ r.pc = "raise" => r.seen <= entry[r.table].lowest
    /\ r.pc = "fits" => ~Crosses(r.array)
    /\ r.pc \in {"xover", "lock", "add", "publish", "cross"} =>
         Crosses(r.array) /\ entry[r.table].lowest = r.array.off
    /\ r.pc = "publish" => entry[r.table].base = r.array.off
    /\ r.pc = "cross" => entry[r.table].addr # 0
    /\ r.pc = "done" => r.via = (IF Crosses(r.array) THEN "xover" ELSE "primary")
    /\ r.table = 2 => current = 2

\* The second table is empty until it is filled, and nobody uses it before.
Copied ==
    /\ copier.pc \in {"limit", "xover"} => current = 1
    /\ copier.addr # 0 => entry[1].addr # 0
    /\ current = 1 => entry[2].addr = 0
    /\ current = 1 /\ copier.pc # "xover" => entry[2].lowest = 0
    /\ copier.pc = "xover" /\ copier.addr # 0 => entry[2].lowest = entry[1].lowest

RTInv ==
    /\ entry \in [{1, 2} -> Entries] /\ current \in {1, 2}
    /\ thread \in [TranslatingThreads -> Calling]
    /\ copier \in Copying
    /\ LimitBelow /\ EntryFinal /\ Copied
    /\ \A t \in TranslatingThreads : Informed(thread[t])

\* Only one array crosses the end of the section.
LEMMA OneCrosses ==
    \A a, b \in Arrays : Crosses(a) /\ Crosses(b) => a = b
BY TranslationAssumption DEF TranslationAssumption, Crosses

\* The limit an array asks for does not pass the start of the one that crosses.
LEMMA NewLimitBelow ==
    \A a \in Arrays : /\ NewLimit(a) \in Nat /\ a.off \in Nat /\ a.size \in Nat
                      /\ Crosses(a) => NewLimit(a) = a.off
                      /\ \A x \in Arrays : Crosses(x) => NewLimit(a) <= x.off
BY TranslationAssumption DEF TranslationAssumption, Crosses, NewLimit

\* A thread outside translate()
LEMMA AtRest == Resting \in Calling /\ Resting.pc = "rest" /\ Resting.table = 1
<1> DEFINE a == [off |-> 0, size |-> 0]
<1>1. a \in [off : Nat, size : Nat]
    OBVIOUS
<1> HIDE DEF a
<1>2. [pc |-> "rest", array |-> a, table |-> 1, seen |-> 0, via |-> "none"] \in Calling
    BY <1>1 DEF Calling, Points
<1>3. Resting \in Calling
    BY <1>2 DEF Resting, a
<1>4. Resting.pc = "rest" /\ Resting.table = 1
    BY DEF Resting
<1> QED
    BY <1>3, <1>4

\* The tables are empty and nobody translates at first.
LEMMA TranslationInit == RTInit => RTInv
<1> SUFFICES ASSUME RTInit PROVE RTInv
    BY Zenon
<1>1. /\ Resting \in Calling /\ Resting.pc = "rest" /\ Resting.table = 1
      /\ NoCopy \in Copying /\ NoCopy.pc = "rest" /\ NoCopy.addr = 0
    <2>1. NoCopy \in Copying /\ NoCopy.pc = "rest" /\ NoCopy.addr = 0
        BY DEF NoCopy, Copying
    <2> QED
        BY <2>1, AtRest, Zenon
<1>2. \A i \in {1, 2} : entry[i] \in Entries /\ entry[i].lowest = 0 /\ entry[i].addr = 0
    BY DEF RTInit, Entries
<1>3. entry \in [{1, 2} -> Entries]
    BY DEF RTInit, Entries
<1>4. LimitBelow
    BY <1>2, NewLimitBelow DEF LimitBelow
<1>5. EntryFinal
    BY <1>2, Zenon DEF EntryFinal
<1>6. Copied
    BY <1>1, <1>2 DEF Copied, RTInit
<1>7. \A t \in TranslatingThreads : Informed(thread[t])
    BY <1>1 DEF Informed, RTInit
<1> QED
    BY <1>1, <1>3, <1>4, <1>5, <1>6, <1>7 DEF RTInv, RTInit

\* Entries as far as others may rely on them: limits do not fall, what is
\* published stays, and so does the base of the array that crosses the end.
Keeps(i) ==
    /\ entry'[i].lowest >= entry[i].lowest
    /\ \A x \in Arrays : Crosses(x) /\ entry[i].base = x.off => entry'[i].base = x.off
    /\ entry[i].addr # 0 => entry'[i].addr # 0

\* What a thread has found out stays true in a step of somebody else.
LEMMA InformedStays ==
    ASSUME RTInv, NEW s \in TranslatingThreads, thread'[s] = thread[s],
           entry' \in [{1, 2} -> Entries], LimitBelow',
           \A i \in {1, 2} : Keeps(i),
           current = 2 => current' = 2
    PROVE  Informed(thread[s])'
<1> DEFINE r == thread[s]
<1>1. r \in Calling /\ Informed(r)
    BY Zenon DEF RTInv
<1>2. r.table \in {1, 2} /\ r.seen \in Nat
    BY <1>1 DEF Calling
<1>3. /\ entry[r.table].lowest \in Nat /\ entry'[r.table].lowest \in Nat
      /\ entry'[r.table].lowest >= entry[r.table].lowest
      /\ entry[r.table].addr # 0 => entry'[r.table].addr # 0
    BY <1>2 DEF RTInv, Entries, Keeps
<1>4. r.pc # "rest" => r.array \in Arrays /\ r.array.off \in Nat
    BY <1>1, NewLimitBelow, Zenon DEF Informed
<1>5. r.pc \in {"xover", "lock", "add", "publish", "cross"} =>
        Crosses(r.array) /\ entry'[r.table].lowest = r.array.off
    <2> SUFFICES ASSUME r.pc \in {"xover", "lock", "add", "publish", "cross"}
                 PROVE  Crosses(r.array) /\ entry'[r.table].lowest = r.array.off
        BY Zenon
    <2>1. Crosses(r.array) /\ entry[r.table].lowest = r.array.off
        BY <1>1, Zenon DEF Informed
    <2>2. r.array \in Arrays /\ r.array.off \in Nat
        BY <1>4
    <2>3. entry'[r.table].lowest <= r.array.off
        BY <1>2, <2>1, <2>2, Zenon DEF LimitBelow
    <2> QED
        BY <1>3, <2>1, <2>2, <2>3
<1>6. r.pc = "raise" => r.seen <= entry'[r.table].lowest
    BY <1>1, <1>2, <1>3 DEF Informed
<1>7. r.pc = "publish" => entry'[r.table].base = r.array.off
    <2> SUFFICES ASSUME r.pc = "publish" PROVE entry'[r.table].base = r.array.off
        BY Zenon
    <2>1. r.array \in Arrays /\ Crosses(r.array) /\ entry[r.table].base = r.array.off
        BY <1>1 DEF Informed
    <2> QED
        BY <1>2, <2>1, Zenon DEF Keeps
<1> QED
    BY <1>1, <1>3, <1>5, <1>6, <1>7, Zenon DEF Informed

\* A step of t leaves the others where they are.
Moves(t) ==
    /\ thread' \in [TranslatingThreads -> Calling]
    /\ \A s \in TranslatingThreads : s # t => thread'[s] = thread[s]

\* A step of t that changes no table keeps the invariant if t is right about
\* what it has found.
LEMMA QuietStep ==
    ASSUME RTInv, NEW t \in TranslatingThreads, Moves(t), Informed(thread[t])',
           UNCHANGED <<entry, current, copier>>
    PROVE  RTInv' /\ \A i \in {1, 2} : Keeps(i)
<1>1. /\ entry' \in [{1, 2} -> Entries] /\ current' \in {1, 2} /\ copier' \in Copying
      /\ LimitBelow' /\ EntryFinal' /\ Copied'
    BY Zenon DEF RTInv, LimitBelow, EntryFinal, Copied
<1>2. \A i \in {1, 2} : Keeps(i)
    BY DEF Keeps, RTInv, Entries
<1>3. \A s \in TranslatingThreads : Informed(thread[s])'
    BY <1>1, <1>2, InformedStays, Zenon DEF Moves
<1> QED
    BY <1>1, <1>2, <1>3, Zenon DEF RTInv, Moves

\* What is known of a thread in a step of its own
LEMMA Caller ==
    ASSUME RTInv, NEW t \in TranslatingThreads
    PROVE  /\ thread[t] \in Calling /\ Informed(thread[t])
           /\ thread[t].table \in {1, 2} /\ thread[t].seen \in Nat
           /\ entry[thread[t].table] \in Entries
           /\ entry[thread[t].table].lowest \in Nat
           /\ entry[thread[t].table].addr \in Nat
           /\ thread[t].pc # "rest" =>
                /\ thread[t].array \in Arrays /\ thread[t].array.off \in Nat
                /\ NewLimit(thread[t].array) \in Nat
                /\ Crosses(thread[t].array) =>
                     entry[thread[t].table].lowest <= thread[t].array.off
<1>1. thread[t] \in Calling /\ Informed(thread[t])
    BY Zenon DEF RTInv
<1>2. thread[t].table \in {1, 2} /\ thread[t].seen \in Nat
    BY <1>1 DEF Calling
<1>3. /\ entry[thread[t].table] \in Entries
      /\ entry[thread[t].table].lowest \in Nat /\ entry[thread[t].table].addr \in Nat
    BY <1>2 DEF RTInv, Entries
<1>4. thread[t].pc # "rest" => thread[t].array \in Arrays
    BY <1>1, Zenon DEF Informed
<1> QED
    BY <1>1, <1>2, <1>3, <1>4, NewLimitBelow, Zenon DEF RTInv, LimitBelow

\* A thread that changes only its program point, what it has seen and what it
\* returns
Same(q, r) == q \in Calling /\ q.array = r.array /\ q.table = r.table

\* translate() begins: the current table.
LEMMA StartStep ==
    ASSUME RTInv, NEW t \in TranslatingThreads, NEW a \in Arrays, RTStart(t, a)
    PROVE  RTInv' /\ \A i \in {1, 2} : Keeps(i)
<1> DEFINE q == [Resting EXCEPT !.pc = "limit", !.array = a, !.table = current]
<1>1. Resting \in Calling /\ current \in {1, 2}
    BY AtRest, Zenon DEF RTInv
<1>2. a \in [off : Nat, size : Nat]
    BY TranslationAssumption DEF TranslationAssumption
<1>3. q \in Calling /\ q.pc = "limit" /\ q.array = a /\ q.table = current
    BY <1>1, <1>2 DEF Calling, Points
<1> HIDE DEF q
<1>4. thread' = [thread EXCEPT ![t] = q]
    BY Zenon DEF RTStart, q
<1>5. Moves(t) /\ thread'[t] = q
    BY <1>3, <1>4, Zenon DEF Moves, RTInv
<1>6. UNCHANGED <<entry, current, copier>>
    BY Zenon DEF RTStart
<1>7. Informed(thread[t])'
    BY <1>3, <1>5, <1>6 DEF Informed
<1> QED
    BY <1>5, <1>6, <1>7, QuietStep

\* The steps of a thread that only read
LEMMA ReadStep ==
    ASSUME RTInv, NEW t \in TranslatingThreads,
           RTLimit(t) \/ RTLoad(t) \/ RTFits(t) \/ RTXover(t) \/ RTLock(t) \/ RTCross(t)
    PROVE  RTInv' /\ \A i \in {1, 2} : Keeps(i)
<1> DEFINE r == thread[t]
           e == entry[thread[t].table]
<1>1. UNCHANGED <<entry, current, copier>>
    BY Zenon DEF RTLimit, RTLoad, RTFits, RTXover, RTLock, RTCross
<1>2. ASSUME RTLimit(t) PROVE Moves(t) /\ Informed(thread[t])'
    <2> DEFINE q == IF r.array.off < e.lowest THEN [r EXCEPT !.pc = "done", !.via = "primary"]
                    ELSE [r EXCEPT !.pc = "load"]
    <2>0. r \in Calling /\ e.lowest \in Nat
        BY Caller, Zenon
    <2>1. thread' = [thread EXCEPT ![t] = q]
        BY <1>2 DEF RTLimit
    <2>2. /\ Same(q, r)
          /\ IF r.array.off < e.lowest THEN q.pc = "done" /\ q.via = "primary"
                                        ELSE q.pc = "load"
        BY <2>0 DEF Same, Calling, Points
    <2> HIDE DEF q
    <2>3. Moves(t) /\ thread'[t] = q
        BY <2>1, <2>2, Zenon DEF Moves, RTInv, Same
    <2>4. ASSUME r.array.off < e.lowest PROVE ~Crosses(r.array)
        BY <1>2, <2>4, Caller DEF RTLimit
    <2> QED
        BY <1>1, <1>2, <2>2, <2>3, <2>4, Caller DEF Informed, Same, RTLimit
<1>3. ASSUME RTLoad(t) PROVE Moves(t) /\ Informed(thread[t])'
    <2> DEFINE q == [r EXCEPT !.pc = "raise", !.seen = e.lowest]
    <2>0. r \in Calling /\ e.lowest \in Nat
        BY Caller, Zenon
    <2>1. thread' = [thread EXCEPT ![t] = q]
        BY <1>3 DEF RTLoad
    <2>2. Same(q, r) /\ q.pc = "raise" /\ q.seen = e.lowest
        BY <2>0 DEF Same, Calling, Points
    <2> HIDE DEF q
    <2>3. Moves(t) /\ thread'[t] = q
        BY <2>1, <2>2, Zenon DEF Moves, RTInv, Same
    <2>4. /\ q.array = r.array /\ q.table = r.table /\ q.array \in Arrays
          /\ r.table = 2 => current = 2
        BY <1>3, <2>2, Caller, Zenon DEF Informed, Same, RTLoad
    <2>5. Informed(thread[t])'
        BY <1>1, <2>0, <2>2, <2>3, <2>4 DEF Informed
    <2> QED
        BY <2>3, <2>5, Zenon
<1>4. ASSUME RTFits(t) PROVE Moves(t) /\ Informed(thread[t])'
    <2> DEFINE q == [r EXCEPT !.pc = "done", !.via = "primary"]
    <2>0. r \in Calling /\ e.lowest \in Nat
        BY Caller, Zenon
    <2>1. thread' = [thread EXCEPT ![t] = q]
        BY <1>4 DEF RTFits
    <2>2. Same(q, r) /\ q.pc = "done" /\ q.via = "primary"
        BY <2>0 DEF Same, Calling, Points
    <2> HIDE DEF q
    <2>3. Moves(t) /\ thread'[t] = q
        BY <2>1, <2>2, Zenon DEF Moves, RTInv, Same
    <2> QED
        BY <1>1, <1>4, <2>2, <2>3, Caller DEF Informed, Same, RTFits
<1>5. ASSUME RTXover(t) PROVE Moves(t) /\ Informed(thread[t])'
    <2> DEFINE q == [r EXCEPT !.pc = IF e.addr # 0 THEN "cross" ELSE "lock"]
    <2>0. r \in Calling /\ e.lowest \in Nat
        BY Caller, Zenon
    <2>1. thread' = [thread EXCEPT ![t] = q]
        BY <1>5 DEF RTXover
    <2>2. Same(q, r) /\ q.pc = IF e.addr # 0 THEN "cross" ELSE "lock"
        BY <2>0 DEF Same, Calling, Points
    <2> HIDE DEF q
    <2>3. Moves(t) /\ thread'[t] = q
        BY <2>1, <2>2, Zenon DEF Moves, RTInv, Same
    <2> QED
        BY <1>1, <1>5, <2>2, <2>3, Caller DEF Informed, Same, RTXover
<1>6. ASSUME RTLock(t) PROVE Moves(t) /\ Informed(thread[t])'
    <2> DEFINE q == [r EXCEPT !.pc = "add"]
    <2>0. r \in Calling /\ e.lowest \in Nat
        BY Caller, Zenon
    <2>1. thread' = [thread EXCEPT ![t] = q]
        BY <1>6 DEF RTLock
    <2>2. Same(q, r) /\ q.pc = "add"
        BY <2>0 DEF Same, Calling, Points
    <2> HIDE DEF q
    <2>3. Moves(t) /\ thread'[t] = q
        BY <2>1, <2>2, Zenon DEF Moves, RTInv, Same
    <2> QED
        BY <1>1, <1>6, <2>2, <2>3, Caller DEF Informed, Same, RTLock
<1>7. ASSUME RTCross(t) PROVE Moves(t) /\ Informed(thread[t])'
    <2> DEFINE q == [r EXCEPT !.pc = "done",
                              !.via = IF e.base = r.array.off THEN "xover" ELSE "wrong"]
    <2>0. r \in Calling /\ e.lowest \in Nat
        BY Caller, Zenon
    <2>1. thread' = [thread EXCEPT ![t] = q]
        BY <1>7 DEF RTCross
    <2>2. /\ Same(q, r) /\ q.pc = "done"
          /\ q.via = IF e.base = r.array.off THEN "xover" ELSE "wrong"
        BY <2>0 DEF Same, Calling, Points
    <2> HIDE DEF q
    <2>3. Moves(t) /\ thread'[t] = q
        BY <2>1, <2>2, Zenon DEF Moves, RTInv, Same
    <2>4. e.addr # 0 /\ Crosses(r.array) /\ r.array \in Arrays /\ r.table \in {1, 2}
        BY <1>7, Caller DEF RTCross, Informed
    <2>5. e.base = r.array.off
        BY <2>4, OneCrosses, Zenon DEF RTInv, EntryFinal
    <2> QED
        BY <1>1, <1>7, <2>2, <2>3, <2>4, <2>5, Caller DEF Informed, Same, RTCross
<1> QED
    BY <1>1, <1>2, <1>3, <1>4, <1>5, <1>6, <1>7, QuietStep, Zenon

\* translate() returns.
LEMMA DoneStep ==
    ASSUME RTInv, NEW t \in TranslatingThreads, RTDone(t)
    PROVE  RTInv' /\ \A i \in {1, 2} : Keeps(i)
<1>1. thread' = [thread EXCEPT ![t] = Resting] /\ UNCHANGED <<entry, current, copier>>
    BY Zenon DEF RTDone
<1>2. Moves(t) /\ thread'[t] = Resting
    BY <1>1, AtRest, Zenon DEF Moves, RTInv
<1>3. Informed(thread[t])'
    BY <1>2, AtRest DEF Informed
<1> QED
    BY <1>1, <1>2, <1>3, QuietStep

\* A step that changes one table keeps the invariant if limits do not fall,
\* what is published stays and t is right about what it has found.
LEMMA TableStep ==
    ASSUME RTInv, NEW t \in TranslatingThreads, Moves(t), Informed(thread[t])',
           entry' \in [{1, 2} -> Entries], LimitBelow', EntryFinal', Copied',
           UNCHANGED <<current, copier>>, \A i \in {1, 2} : Keeps(i)
    PROVE  RTInv'
<1>1. \A s \in TranslatingThreads : Informed(thread[s])'
    BY InformedStays, Zenon DEF Moves
<1> QED
    BY <1>1, Zenon DEF RTInv, Moves

\* The exchange of the limit
LEMMA RaiseStep ==
    ASSUME RTInv, NEW t \in TranslatingThreads, RTRaise(t)
    PROVE  RTInv' /\ \A i \in {1, 2} : Keeps(i)
<1> DEFINE r == thread[t]
           e == entry[thread[t].table]
           n == NewLimit(thread[t].array)
           next == IF Crosses(thread[t].array) THEN "xover" ELSE "fits"
<1>0. /\ r \in Calling /\ r.pc = "raise" /\ r.array \in Arrays /\ r.array.off \in Nat
      /\ r.table \in {1, 2} /\ r.seen \in Nat /\ e.lowest \in Nat /\ n \in Nat
      /\ r.seen <= e.lowest /\ e \in Entries
      /\ Crosses(r.array) => e.lowest <= r.array.off /\ n = r.array.off
      /\ r.table = 2 => current = 2
    BY Caller, NewLimitBelow, Zenon DEF RTRaise, Informed
<1>1. UNCHANGED <<current, copier>>
    BY Zenon DEF RTRaise
<1>2. CASE n <= r.seen
    <2> DEFINE q == [r EXCEPT !.pc = next]
    <2>1. thread' = [thread EXCEPT ![t] = q] /\ entry' = entry
        BY <1>2 DEF RTRaise
    <2>2. Same(q, r) /\ q.pc = next
        BY <1>0 DEF Same, Calling, Points
    <2> HIDE DEF q
    <2>3. Moves(t) /\ thread'[t] = q
        BY <2>1, <2>2, Zenon DEF Moves, RTInv, Same
    <2>4. Crosses(r.array) => e.lowest = r.array.off
        BY <1>0, <1>2
    <2>5. Informed(thread[t])'
        BY <1>0, <1>1, <2>1, <2>2, <2>3, <2>4 DEF Informed, Same
    <2> QED
        BY <1>1, <2>1, <2>3, <2>5, QuietStep
<1>3. CASE ~(n <= r.seen) /\ e.lowest # r.seen
    <2> DEFINE q == [r EXCEPT !.seen = e.lowest]
    <2>1. thread' = [thread EXCEPT ![t] = q] /\ entry' = entry
        BY <1>3 DEF RTRaise, Unchanged
    <2>2. Same(q, r) /\ q.pc = "raise" /\ q.seen = e.lowest
        BY <1>0 DEF Same, Calling, Points
    <2> HIDE DEF q
    <2>3. Moves(t) /\ thread'[t] = q
        BY <2>1, <2>2, Zenon DEF Moves, RTInv, Same
    <2>4. Informed(thread[t])'
        BY <1>0, <1>1, <2>1, <2>2, <2>3 DEF Informed, Same
    <2> QED
        BY <1>1, <2>1, <2>3, <2>4, QuietStep
<1>4. CASE ~(n <= r.seen) /\ e.lowest = r.seen
    <2> DEFINE q == [r EXCEPT !.pc = next]
    <2>1. /\ thread' = [thread EXCEPT ![t] = q]
          /\ entry' = [entry EXCEPT ![r.table] = [e EXCEPT !.lowest = n]]
        BY <1>4 DEF RTRaise, Unchanged
    <2>2. Same(q, r) /\ q.pc = next
        BY <1>0 DEF Same, Calling, Points
    <2> HIDE DEF q
    <2>3. Moves(t) /\ thread'[t] = q
        BY <2>1, <2>2, Zenon DEF Moves, RTInv, Same
    <2> DEFINE f == [e EXCEPT !.lowest = n]
    <2>4. f \in Entries /\ f.lowest = n /\ f.addr = e.addr /\ f.base = e.base
        BY <1>0 DEF Entries
    <2> HIDE DEF f
    <2>5. /\ entry' \in [{1, 2} -> Entries] /\ entry'[r.table] = f
          /\ \A i \in {1, 2} : i # r.table => entry'[i] = entry[i]
        BY <1>0, <2>1, <2>4, Zenon DEF RTInv, f
    <2>6. e.lowest < n
        BY <1>0, <1>4
    <2>7. \A i \in {1, 2} : Keeps(i)
        <3> TAKE i \in {1, 2}
        <3>1. entry[i].lowest \in Nat
            BY DEF RTInv, Entries
        <3> QED
            BY <1>0, <2>4, <2>5, <2>6, <3>1 DEF Keeps
    <2>8. LimitBelow'
        BY <1>0, <2>4, <2>5, NewLimitBelow, Zenon DEF LimitBelow, RTInv
    <2>9. e.addr = 0
        <3> SUFFICES ASSUME e.addr # 0 PROVE FALSE
            BY Zenon
        <3>1. PICK x \in Arrays : Crosses(x) /\ e.lowest = x.off
            BY <1>0, Zenon DEF RTInv, EntryFinal
        <3>2. n <= x.off /\ x.off \in Nat
            BY <1>0, <3>1, NewLimitBelow, Zenon
        <3> QED
            BY <1>0, <2>6, <3>1, <3>2
    <2>10. EntryFinal'
        <3> SUFFICES ASSUME NEW i \in {1, 2}, entry'[i].addr # 0
                     PROVE  \E x \in Arrays :
                              /\ Crosses(x)
                              /\ entry'[i].base = x.off /\ entry'[i].lowest = x.off
            BY Zenon DEF EntryFinal
        <3>1. i # r.table
            BY <2>4, <2>5, <2>9
        <3> QED
            BY <2>5, <3>1, Zenon DEF EntryFinal, RTInv
    <2>11. Copied'
        BY <1>0, <1>1, <2>4, <2>5, <2>9 DEF Copied, RTInv
    <2>12. Informed(thread[t])'
        BY <1>0, <1>1, <2>2, <2>3, <2>4, <2>5 DEF Informed, Same
    <2> QED
        BY <1>1, <2>3, <2>5, <2>7, <2>8, <2>10, <2>11, <2>12, TableStep
<1> QED
    BY <1>2, <1>3, <1>4, Zenon

\* The base of the cross-over mapping is stored, unless there is a mapping.
LEMMA AddStep ==
    ASSUME RTInv, NEW t \in TranslatingThreads, RTAdd(t)
    PROVE  RTInv' /\ \A i \in {1, 2} : Keeps(i)
<1> DEFINE r == thread[t]
           e == entry[thread[t].table]
           o == thread[t].array.off
<1>0. /\ r \in Calling /\ r.pc = "add" /\ r.array \in Arrays /\ o \in Nat
      /\ r.table \in {1, 2} /\ e.lowest \in Nat /\ e \in Entries
      /\ Crosses(r.array) /\ e.lowest = o
      /\ r.table = 2 => current = 2
    BY Caller, Zenon DEF RTAdd, Informed
<1>1. UNCHANGED <<current, copier>>
    BY DEF RTAdd
<1>2. CASE e.addr # 0
    <2> DEFINE q == [thread[t] EXCEPT !.pc = "cross"]
    <2>1. thread' = [thread EXCEPT ![t] = q] /\ entry' = entry
        BY <1>2 DEF RTAdd
    <2>2. Same(q, r) /\ q.pc = "cross"
        BY <1>0 DEF Same, Calling, Points
    <2> HIDE DEF q
    <2>3. Moves(t) /\ thread'[t] = q
        BY <2>1, <2>2, Zenon DEF Moves, RTInv, Same
    <2>4. Informed(thread[t])'
        BY <1>0, <1>1, <1>2, <2>1, <2>2, <2>3, Caller DEF Informed, Same
    <2> QED
        BY <1>1, <2>1, <2>3, <2>4, QuietStep
<1>3. CASE e.addr = 0
    <2> DEFINE q == [thread[t] EXCEPT !.pc = "publish"]
               f == [e EXCEPT !.base = o]
    <2>1. thread' = [thread EXCEPT ![t] = q] /\ entry' = [entry EXCEPT ![r.table] = f]
        BY <1>3 DEF RTAdd, Stored
    <2>2. Same(q, r) /\ q.pc = "publish"
        BY <1>0 DEF Same, Calling, Points
    <2>3. f \in Entries /\ f.lowest = e.lowest /\ f.addr = 0 /\ f.base = o
        BY <1>0, <1>3 DEF Entries
    <2> HIDE DEF q, f
    <2>4. Moves(t) /\ thread'[t] = q
        BY <2>1, <2>2, Zenon DEF Moves, RTInv, Same
    <2>5. /\ entry' \in [{1, 2} -> Entries] /\ entry'[r.table] = f
          /\ \A i \in {1, 2} : i # r.table => entry'[i] = entry[i]
        BY <1>0, <2>1, <2>3, Zenon DEF RTInv
    <2>6. \A i \in {1, 2} : /\ entry'[i].lowest = entry[i].lowest /\ entry[i].lowest \in Nat
                            /\ entry'[i].addr = entry[i].addr
        BY <1>0, <1>3, <2>3, <2>5 DEF RTInv, Entries
    <2>7. \A i \in {1, 2} : \A x \in Arrays :
            Crosses(x) /\ entry[i].base = x.off => entry'[i].base = x.off
        BY <1>0, <2>3, <2>5, OneCrosses, Zenon
    <2>8. \A i \in {1, 2} : Keeps(i)
        BY <2>6, <2>7 DEF Keeps
    <2>9. LimitBelow'
        BY <2>6, Zenon DEF LimitBelow, RTInv
    <2>10. EntryFinal'
        <3> SUFFICES ASSUME NEW i \in {1, 2}, entry'[i].addr # 0
                     PROVE  \E x \in Arrays :
                              /\ Crosses(x)
                              /\ entry'[i].base = x.off /\ entry'[i].lowest = x.off
            BY Zenon DEF EntryFinal
        <3>1. i # r.table
            BY <2>3, <2>5
        <3> QED
            BY <2>5, <3>1, Zenon DEF EntryFinal, RTInv
    <2>11. Copied'
        <3>1. current = 1 => entry'[2] = entry[2]
            BY <1>0, <2>5
        <3> QED
            BY <1>1, <2>6, <3>1, Zenon DEF Copied, RTInv
    <2>12. Informed(thread[t])'
        <3>1. q.array = r.array /\ q.table = r.table
            BY <2>2, Zenon DEF Same
        <3> QED
            BY <1>0, <1>1, <2>2, <2>3, <2>4, <2>5, <3>1, Zenon DEF Informed
    <2> QED
        BY <1>1, <2>4, <2>5, <2>8, <2>9, <2>10, <2>11, <2>12, TableStep
<1> QED
    BY <1>2, <1>3, Zenon

\* The address of the cross-over mapping is published, after its base.
LEMMA PublishStep ==
    ASSUME RTInv, NEW t \in TranslatingThreads, RTPublish(t)
    PROVE  RTInv' /\ \A i \in {1, 2} : Keeps(i)
<1> DEFINE r == thread[t]
           e == entry[thread[t].table]
           o == thread[t].array.off
           q == [thread[t] EXCEPT !.pc = "cross"]
           f == [e EXCEPT !.addr = o + 1]
<1>0. /\ r \in Calling /\ r.pc = "publish" /\ r.array \in Arrays /\ o \in Nat
      /\ r.table \in {1, 2} /\ e.lowest \in Nat /\ e \in Entries
      /\ Crosses(r.array) /\ e.lowest = o /\ e.base = o
      /\ r.table = 2 => current = 2
    BY Caller, Zenon DEF RTPublish, Informed
<1>1. UNCHANGED <<current, copier>>
    BY DEF RTPublish
<1>2. thread' = [thread EXCEPT ![t] = q] /\ entry' = [entry EXCEPT ![r.table] = f]
    BY DEF RTPublish, Stored
<1>3. Same(q, r) /\ q.pc = "cross"
    BY <1>0 DEF Same, Calling, Points
<1>4. f \in Entries /\ f.lowest = e.lowest /\ f.addr # 0 /\ f.base = o
    <2>1. o + 1 \in Nat /\ o + 1 # 0
        BY <1>0
    <2> HIDE DEF o, e
    <2>2. f \in Entries /\ f.lowest = e.lowest /\ f.addr = o + 1 /\ f.base = e.base
        BY <1>0, <2>1 DEF Entries
    <2> QED
        BY <1>0, <2>1, <2>2, Zenon
<1> HIDE DEF q, f
<1>5. Moves(t) /\ thread'[t] = q
    BY <1>2, <1>3, Zenon DEF Moves, RTInv, Same
<1>6. /\ entry' \in [{1, 2} -> Entries] /\ entry'[r.table] = f
      /\ \A i \in {1, 2} : i # r.table => entry'[i] = entry[i]
    BY <1>0, <1>2, <1>4, Zenon DEF RTInv
<1>7. \A i \in {1, 2} : /\ entry'[i].lowest = entry[i].lowest /\ entry[i].lowest \in Nat
                        /\ entry'[i].base = entry[i].base
                        /\ entry[i].addr # 0 => entry'[i].addr # 0
    BY <1>0, <1>4, <1>6 DEF RTInv, Entries
<1>8. \A i \in {1, 2} : Keeps(i)
    BY <1>7 DEF Keeps
<1>9. LimitBelow'
    BY <1>7, Zenon DEF LimitBelow, RTInv
<1>10. EntryFinal'
    <2> SUFFICES ASSUME NEW i \in {1, 2}, entry'[i].addr # 0
                 PROVE  \E x \in Arrays :
                          /\ Crosses(x)
                          /\ entry'[i].base = x.off /\ entry'[i].lowest = x.off
        BY Zenon DEF EntryFinal
    <2>1. CASE i = r.table
        BY <1>0, <1>4, <1>6, <2>1, Zenon
    <2>2. CASE i # r.table
        BY <1>6, <2>2, Zenon DEF EntryFinal, RTInv
    <2> QED
        BY <2>1, <2>2, Zenon
<1>11. Copied'
    <2>1. current = 1 => entry'[2] = entry[2]
        BY <1>0, <1>6
    <2> QED
        BY <1>1, <1>7, <2>1, Zenon DEF Copied, RTInv
<1>12. Informed(thread[t])'
    <2>1. q.array = r.array /\ q.table = r.table
        BY <1>3, Zenon DEF Same
    <2> QED
        BY <1>0, <1>1, <1>3, <1>4, <1>5, <1>6, <2>1, Zenon DEF Informed
<1> QED
    BY <1>1, <1>5, <1>6, <1>8, <1>9, <1>10, <1>11, <1>12, TableStep

\* A new table is filled and takes the place of the current one.
LEMMA CopyStep ==
    ASSUME RTInv, RTCopyStart \/ RTCopyLimit \/ RTCopyXover
    PROVE  RTInv' /\ \A i \in {1, 2} : Keeps(i)
<1>0. /\ \A i \in {1, 2} : /\ entry[i] \in Entries /\ entry[i].lowest \in Nat
                           /\ entry[i].addr \in Nat /\ entry[i].base \in Nat
      /\ copier \in Copying /\ copier.addr \in Nat
    BY DEF RTInv, Entries, Copying
<1>1. thread' = thread
    BY Zenon DEF RTCopyStart, RTCopyLimit, RTCopyXover
<1>2. SUFFICES /\ entry' \in [{1, 2} -> Entries] /\ current' \in {1, 2} /\ copier' \in Copying
               /\ LimitBelow' /\ EntryFinal' /\ Copied' /\ (current = 2 => current' = 2)
               /\ \A i \in {1, 2} : Keeps(i)
    <2>1. \A s \in TranslatingThreads : Informed(thread[s])'
        BY <1>1, <1>2, InformedStays, Zenon
    <2> QED
        BY <1>1, <1>2, <2>1, Zenon DEF RTInv
<1>3. CASE RTCopyStart
    <2>1. entry' = entry /\ current' = current
        BY <1>3, Zenon DEF RTCopyStart
    <2>2. copier' = [pc |-> "limit", addr |-> entry[1].addr] /\ current = 1 /\ copier.pc = "rest"
        BY <1>3, Zenon DEF RTCopyStart
    <2>3. copier' \in Copying /\ copier'.pc = "limit" /\ copier'.addr = entry[1].addr
        BY <1>0, <2>2 DEF Copying
    <2>4. LimitBelow' /\ EntryFinal'
        BY <2>1, Zenon DEF RTInv, LimitBelow, EntryFinal
    <2>5. Copied'
        BY <2>1, <2>2, <2>3 DEF Copied, RTInv
    <2>6. \A i \in {1, 2} : Keeps(i)
        BY <1>0, <2>1 DEF Keeps
    <2> QED
        BY <2>1, <2>3, <2>4, <2>5, <2>6, Zenon DEF RTInv
<1>4. CASE RTCopyLimit
    <2> DEFINE f == [entry[2] EXCEPT !.lowest = entry[1].lowest]
               c == [copier EXCEPT !.pc = "xover"]
    <2>1. entry' = [entry EXCEPT ![2] = f] /\ current' = current /\ copier' = c
        BY <1>4 DEF RTCopyLimit
    <2>2. /\ f \in Entries /\ f.lowest = entry[1].lowest /\ f.addr = entry[2].addr
          /\ f.base = entry[2].base
          /\ c \in Copying /\ c.pc = "xover" /\ c.addr = copier.addr
        BY <1>0 DEF Entries, Copying
    <2> HIDE DEF f, c
    <2>3. entry' \in [{1, 2} -> Entries] /\ entry'[1] = entry[1] /\ entry'[2] = f
        BY <2>1, <2>2 DEF RTInv
    <2>4. /\ current = 1 /\ copier.pc = "limit" /\ entry[2].addr = 0 /\ entry[2].lowest = 0
          /\ copier.addr # 0 => entry[1].addr # 0
        BY <1>4 DEF RTCopyLimit, Copied, RTInv
    <2>5. LimitBelow'
        BY <2>2, <2>3, Zenon DEF RTInv, LimitBelow
    <2>6. EntryFinal'
        <3>1. entry'[2].addr = 0
            BY <2>2, <2>3, <2>4, Zenon
        <3> QED
            BY <2>3, <3>1 DEF RTInv, EntryFinal
    <2>7. Copied'
        BY <2>1, <2>2, <2>3, <2>4 DEF Copied
    <2>8. \A i \in {1, 2} : Keeps(i)
        BY <1>0, <2>2, <2>3, <2>4 DEF Keeps
    <2> QED
        BY <2>1, <2>2, <2>3, <2>5, <2>6, <2>7, <2>8, Zenon DEF RTInv
<1>5. CASE RTCopyXover
    <2>1. /\ current' = 2 /\ copier' = NoCopy /\ current = 1 /\ copier.pc = "xover"
          /\ copier.addr # 0 => entry[1].addr # 0 /\ entry[2].lowest = entry[1].lowest
          /\ entry[2].addr = 0
        BY <1>5 DEF RTCopyXover, Copied, RTInv
    <2>2. NoCopy \in Copying /\ NoCopy.pc = "rest" /\ NoCopy.addr = 0
        BY DEF NoCopy, Copying
    <2>3. Copied'
        BY <2>1, <2>2 DEF Copied
    <2>4. CASE copier.addr = 0
        <3>1. entry' = entry
            BY <1>5, <2>4, Zenon DEF RTCopyXover
        <3>2. LimitBelow' /\ EntryFinal'
            BY <3>1, Zenon DEF RTInv, LimitBelow, EntryFinal
        <3>3. \A i \in {1, 2} : Keeps(i)
            BY <1>0, <3>1 DEF Keeps
        <3> QED
            BY <2>1, <2>2, <2>3, <3>1, <3>2, <3>3, Zenon DEF RTInv
    <2>5. CASE copier.addr # 0
        <3> DEFINE f == [entry[2] EXCEPT !.base = entry[1].base, !.addr = copier.addr]
        <3>1. entry' = [entry EXCEPT ![2] = f]
            BY <1>5, <2>5 DEF RTCopyXover
        <3>2. f \in Entries /\ f.lowest = entry[2].lowest /\ f.addr # 0 /\ f.base = entry[1].base
            BY <1>0, <2>5 DEF Entries
        <3> HIDE DEF f
        <3>3. entry' \in [{1, 2} -> Entries] /\ entry'[1] = entry[1] /\ entry'[2] = f
            BY <3>1, <3>2 DEF RTInv
        <3>4. LimitBelow'
            BY <3>2, <3>3, Zenon DEF RTInv, LimitBelow
        <3>5. EntryFinal'
            <4>1. PICK x \in Arrays : /\ Crosses(x)
                                      /\ entry[1].base = x.off /\ entry[1].lowest = x.off
                BY <2>1, <2>5 DEF RTInv, EntryFinal
            <4>2. /\ entry'[1].base = x.off /\ entry'[1].lowest = x.off
                  /\ entry'[2].base = x.off /\ entry'[2].lowest = x.off
                BY <2>1, <2>5, <3>2, <3>3, <4>1, Zenon
            <4> QED
                BY <4>1, <4>2 DEF EntryFinal
        <3>6. \A i \in {1, 2} : \A x \in Arrays :
                Crosses(x) /\ entry[i].base = x.off => entry'[i].base = x.off
            <4>1. PICK y \in Arrays : Crosses(y) /\ entry[1].base = y.off
                BY <2>1, <2>5 DEF RTInv, EntryFinal
            <4> QED
                BY <3>2, <3>3, <4>1, OneCrosses, Zenon
        <3>7. \A i \in {1, 2} : Keeps(i)
            BY <1>0, <3>2, <3>3, <3>6 DEF Keeps
        <3> QED
            BY <2>1, <2>2, <2>3, <3>3, <3>4, <3>5, <3>7, Zenon
    <2> QED
        BY <2>4, <2>5, Zenon
<1> QED
    BY <1>3, <1>4, <1>5, Zenon

\* Every step keeps the invariant, and no limit falls.
LEMMA TranslationNext ==
    ASSUME RTInv, [RTNext]_rtVars
    PROVE  RTInv' /\ \A i \in {1, 2} : Keeps(i)
<1>1. ASSUME UNCHANGED rtVars
      PROVE  RTInv' /\ \A i \in {1, 2} : Keeps(i)
    <2>1. /\ entry' = entry /\ current' = current /\ thread' = thread /\ copier' = copier
        BY <1>1, Zenon DEF rtVars
    <2>2. \A i \in {1, 2} : Keeps(i)
        BY <2>1 DEF Keeps, RTInv, Entries
    <2> QED
        BY <2>1, <2>2, Zenon DEF RTInv, LimitBelow, EntryFinal, Copied, Informed
<1>2. CASE RTNext
    <2>1. CASE \E t \in TranslatingThreads : \E a \in Arrays : RTStart(t, a)
        BY <2>1, StartStep
    <2>2. CASE \E t \in TranslatingThreads :
                 RTLimit(t) \/ RTLoad(t) \/ RTFits(t) \/ RTXover(t) \/ RTLock(t) \/ RTCross(t)
        BY <2>2, ReadStep
    <2>3. CASE \E t \in TranslatingThreads : RTRaise(t)
        BY <2>3, RaiseStep
    <2>4. CASE \E t \in TranslatingThreads : RTAdd(t)
        BY <2>4, AddStep
    <2>5. CASE \E t \in TranslatingThreads : RTDone(t)
        BY <2>5, DoneStep
    <2>6. CASE RTCopyStart \/ RTCopyLimit \/ RTCopyXover
        BY <2>6, CopyStep
    <2>8. CASE \E t \in TranslatingThreads : RTPublish(t)
        BY <2>8, PublishStep
    <2>7. CASE RTRest
        <3>1. UNCHANGED rtVars
            BY <2>7, Zenon DEF RTRest
        <3> QED
            BY <1>1, <3>1, Zenon
    <2> QED
        BY <1>2, <2>1, <2>2, <2>3, <2>4, <2>5, <2>6, <2>7, <2>8, Zenon DEF RTNext
<1> QED
    BY <1>1, <1>2, Zenon

\* Translation without a lock: no thread is sent to the wrong mapping, a
\* published cross-over mapping has its final limit, and limits only grow, for
\* any number of threads that translate (Allocator::translate) while the table
\* is copied.
THEOREM TranslationIsSound == RTSpec => TranslationSound
<1>1. RTInit => RTInv
    BY TranslationInit
<1>2. RTInv /\ [RTNext]_rtVars => RTInv'
    BY TranslationNext
<1>3. RTInv => RightMapping /\ LimitFinal
    BY Zenon DEF RTInv, RightMapping, LimitFinal, Informed, EntryFinal
<1>4. RTInv /\ [RTNext]_rtVars => [\A t \in {1, 2} : entry'[t].lowest >= entry[t].lowest]_rtVars
    BY TranslationNext, Zenon DEF Keeps
<1> QED
    BY <1>1, <1>2, <1>3, <1>4, PTL DEF RTSpec, TranslationSound, LimitGrows
=============================================================================

-------------------------- MODULE WriteLockProofs --------------------------
(***************************************************************************)
(* The tickets of the write lock are served in order, however many writers *)
(* there are and wherever the counters wrap around.                        *)
(***************************************************************************)
EXTENDS WriteLock, FiniteSetTheorems, TLAPS

\* How many tickets before ticket a is served when b is the one that is
Away(a, b) == IF a >= b THEN a - b ELSE a - b + Wrap
\* The values a ticket can have
Tickets == 0 .. Wrap - 1
\* The tickets that are served now: one while somebody writes
Ahead == IF holder = {} THEN 0 ELSE 1

\* The types of the write lock
LockTypes ==
    /\ setup \in Setups /\ nextTicket \in Tickets /\ nextServed \in Tickets
    /\ ticket \in [Writer -> Tickets]
    /\ at \in [Writer -> {"idle", "locking", "waiting", "woken", "writing"}]

\* The writer that has the mutex is the one that is served, and the tickets of
\* those in the queue follow without a gap up to the next one to be given.
InLine ==
    /\ ~critical
    /\ \A w \in Writer : at[w] # "idle" => w \in setup.writers
    /\ holder = {w \in Writer : at[w] = "writing"}
    /\ \A v, w \in holder : v = w
    /\ \A v, w \in Queued : v # w => ticket[v] # ticket[w]
    /\ \A w \in Queued : Away(ticket[w], nextServed) \in Ahead .. Ahead + Cardinality(Queued) - 1
    /\ Away(nextTicket, nextServed) = Ahead + Cardinality(Queued)

\* Rough behaviours keep only the types: there tickets are passed over.
LockInv == LockTypes /\ (~setup.rough => InLine)

-----------------------------------------------------------------------------
(* Numbers that wrap around *)

\* There are tickets.
LEMMA WrapFacts == Wrap \in Nat /\ Wrap > 2 /\ 0 \in Tickets
<1>1. Cardinality(Writer) \in Nat
    BY WriteLockAssumption, FS_CardinalityType DEF WriteLockAssumption
<1> QED
    BY <1>1, WriteLockAssumption DEF WriteLockAssumption, Tickets

\* The next ticket, at the end of the range too
LEMMA Successor ==
    ASSUME NEW a \in Tickets
    PROVE  /\ (a + 1) % Wrap \in Tickets
           /\ (a + 1) % Wrap = IF a + 1 = Wrap THEN 0 ELSE a + 1
<1>1. ASSUME NEW W \in Nat, W > 0, NEW x \in 0 .. W - 1 PROVE x % W = x
    BY <1>1
<1>2. ASSUME NEW W \in Nat, W > 0 PROVE W % W = 0
    BY <1>2
<1>3. a \in Nat /\ a < Wrap
    BY WrapFacts DEF Tickets
<1>4. CASE a + 1 = Wrap
    <2>1. (a + 1) % Wrap = 0
        BY <1>2, <1>4, WrapFacts
    <2> QED
        BY <1>4, <2>1, WrapFacts
<1>5. CASE a + 1 # Wrap
    <2>1. a + 1 \in 0 .. Wrap - 1
        BY <1>3, <1>5, WrapFacts
    <2>2. (a + 1) % Wrap = a + 1
        BY <1>1, <2>1, WrapFacts
    <2> QED
        BY <1>5, <2>1, <2>2 DEF Tickets
<1> QED
    BY <1>4, <1>5

\* How far a ticket is from the served one is a number of the range, and zero only
\* for the served ticket itself.
LEMMA AwayType ==
    ASSUME NEW a \in Tickets, NEW b \in Tickets
    PROVE  Away(a, b) \in Tickets /\ (Away(a, b) = 0 => a = b)
BY WrapFacts DEF Away, Tickets

\* Giving out a ticket puts the next one a place further back, across the wrap.
LEMMA OneMoreTicket ==
    ASSUME NEW a \in Tickets, NEW b \in Tickets, Away(a, b) + 1 < Wrap
    PROVE  Away((a + 1) % Wrap, b) = Away(a, b) + 1
<1>1. PICK c \in Tickets : c = (a + 1) % Wrap
    BY Successor
<1>2. c = IF a + 1 = Wrap THEN 0 ELSE a + 1
    BY <1>1, Successor
<1>3. Away(c, b) = Away(a, b) + 1
    BY <1>2, WrapFacts DEF Away, Tickets
<1> QED
    BY <1>1, <1>3

\* Serving the next ticket brings all others a place nearer, across the wrap.
LEMMA OneTurnLess ==
    ASSUME NEW a \in Tickets, NEW b \in Tickets, Away(a, b) >= 1
    PROVE  Away(a, (b + 1) % Wrap) = Away(a, b) - 1
<1>1. PICK c \in Tickets : c = (b + 1) % Wrap
    BY Successor
<1>2. c = IF b + 1 = Wrap THEN 0 ELSE b + 1
    BY <1>1, Successor
<1>3. Away(a, c) = Away(a, b) - 1
    BY <1>2, WrapFacts DEF Away, Tickets
<1> QED
    BY <1>1, <1>3

\* The signed difference of the code, int32_t(a - b), is the distance as long as no
\* more tickets are out than there are writers: it never takes one for the past.
LEMMA DistanceIsAway ==
    ASSUME NEW a \in Tickets, NEW b \in Tickets, Away(a, b) <= Cardinality(Writer)
    PROVE  Distance(a, b) = Away(a, b)
<1>1. ASSUME NEW W \in Nat, W > 0, NEW x \in 0 .. W - 1 PROVE x % W = x
    BY <1>1
<1>2. ASSUME NEW W \in Nat, W > 0, NEW x \in W .. 2 * W - 1 PROVE x % W = x - W
    BY <1>2
<1>3. (a - b + Wrap) % Wrap = Away(a, b)
    <2>1. CASE a >= b
        <3>1. a - b + Wrap \in Wrap .. 2 * Wrap - 1
            BY <2>1, WrapFacts DEF Tickets
        <3>2. PICK x \in Wrap .. 2 * Wrap - 1 : x = a - b + Wrap
            BY <3>1
        <3>3. x % Wrap = x - Wrap
            BY <1>2, WrapFacts
        <3> QED
            BY <2>1, <3>2, <3>3, WrapFacts DEF Away, Tickets
    <2>2. CASE ~(a >= b)
        <3>1. a - b + Wrap \in 0 .. Wrap - 1
            BY <2>2, WrapFacts DEF Tickets
        <3>2. (a - b + Wrap) % Wrap = a - b + Wrap
            BY <1>1, <3>1, WrapFacts
        <3> QED
            BY <2>2, <3>2 DEF Away
    <2> QED
        BY <2>1, <2>2
<1>4. Cardinality(Writer) < Wrap \div 2
    <2>1. ASSUME NEW W \in Nat, NEW n \in Nat, W > 2 * (n + 1) PROVE n < W \div 2
        BY <2>1
    <2>2. Cardinality(Writer) \in Nat
        BY WriteLockAssumption, FS_CardinalityType DEF WriteLockAssumption
    <2> QED
        BY <2>1, <2>2, WriteLockAssumption DEF WriteLockAssumption
<1>5. Away(a, b) < Wrap \div 2
    <2>1. Away(a, b) \in Nat /\ Cardinality(Writer) \in Nat /\ Wrap \div 2 \in Nat
        BY AwayType, WrapFacts, WriteLockAssumption, FS_CardinalityType
           DEF WriteLockAssumption, Tickets
    <2> QED
        BY <1>4, <2>1
<1> QED
    BY <1>3, <1>5, Zenon DEF Distance

-----------------------------------------------------------------------------
(* The queue *)

\* Those who take part are writers.
LEMMA SetupWriters == LockTypes => setup.writers \subseteq Writer
BY WriteLockAssumption DEF WriteLockAssumption, LockTypes, Setups

\* No more tickets are out than there are writers, and one fewer while one is idle.
LEMMA QueueCount ==
    ASSUME LockTypes, InLine
    PROVE  /\ IsFiniteSet(Queued) /\ Cardinality(Queued) \in Nat
           /\ Cardinality(setup.writers) \in Nat /\ Cardinality(setup.writers) <= Cardinality(Writer)
           /\ Cardinality(Queued \cup holder) = Ahead + Cardinality(Queued)
           /\ Ahead + Cardinality(Queued) <= Cardinality(setup.writers)
           /\ \A w \in setup.writers : at[w] = "idle" =>
                Ahead + Cardinality(Queued) + 1 <= Cardinality(setup.writers)
<1>1. setup.writers \subseteq Writer /\ IsFiniteSet(Writer) /\ IsFiniteSet(setup.writers)
    BY SetupWriters, WriteLockAssumption, FS_Subset DEF WriteLockAssumption
<1>2. /\ Cardinality(setup.writers) \in Nat /\ Cardinality(Writer) \in Nat
      /\ Cardinality(setup.writers) <= Cardinality(Writer)
    BY <1>1, FS_Subset, FS_CardinalityType
<1>3. Queued \subseteq setup.writers /\ holder \subseteq setup.writers /\ Queued \cap holder = {}
    BY DEF InLine, Queued
<1>4. IsFiniteSet(Queued) /\ Cardinality(Queued) \in Nat
    BY <1>1, <1>3, FS_Subset, FS_CardinalityType
<1>5. Cardinality(Queued \cup holder) = Ahead + Cardinality(Queued)
    <2>1. CASE holder = {}
        <3>1. Queued \cup holder = Queued /\ Ahead = 0
            BY <2>1 DEF Ahead
        <3> QED
            BY <1>4, <3>1
    <2>2. CASE holder # {}
        <3>1. PICK v : v \in holder
            BY <2>2
        <3>2. Queued \cup holder = Queued \cup {v} /\ v \notin Queued /\ Ahead = 1
            BY <1>3, <2>2, <3>1 DEF InLine, Ahead
        <3> QED
            BY <1>4, <3>2, FS_AddElement
    <2> QED
        BY <2>1, <2>2
<1>6. Queued \cup holder \subseteq setup.writers
    BY <1>3
<1>7. Ahead + Cardinality(Queued) <= Cardinality(setup.writers)
    BY <1>1, <1>5, <1>6, FS_Subset
<1>8. ASSUME NEW w \in setup.writers, at[w] = "idle"
      PROVE  Ahead + Cardinality(Queued) + 1 <= Cardinality(setup.writers)
    <2>1. w \notin Queued \cup holder /\ (Queued \cup holder) \cup {w} \subseteq setup.writers
        BY <1>1, <1>6, <1>8 DEF InLine, Queued
    <2>2. IsFiniteSet(Queued \cup holder)
        BY <1>1, <1>6, FS_Subset
    <2>3. Cardinality((Queued \cup holder) \cup {w}) = Cardinality(Queued \cup holder) + 1
        BY <2>1, <2>2, FS_AddElement
    <2>4. Cardinality((Queued \cup holder) \cup {w}) <= Cardinality(setup.writers)
        BY <1>1, <2>1, FS_Subset
    <2> QED
        BY <1>5, <2>3, <2>4
<1> QED
    BY <1>2, <1>4, <1>5, <1>7, <1>8

\* From what the line rests on: ServedIsOldest.
LEMMA LineIsServed == LockInv => ServedIsOldest
<1> SUFFICES ASSUME LockInv, ~setup.rough
    PROVE  /\ \A w \in Queued : Distance(ticket[w], nextServed) \in 0 .. Cardinality(setup.writers) - 1
           /\ \A v, w \in Queued : v # w => ticket[v] # ticket[w]
           /\ Distance(nextTicket, nextServed) = Cardinality(Queued \cup holder)
    BY Zenon DEF ServedIsOldest
<1>1. LockTypes /\ InLine
    BY Zenon DEF LockInv
<1>2. PICK m \in Nat, n \in Nat, k \in Nat, h \in Nat :
        /\ Cardinality(Queued) = m /\ Cardinality(setup.writers) = n /\ Cardinality(Writer) = k
        /\ Ahead = h /\ n <= k /\ h + m <= n /\ Cardinality(Queued \cup holder) = h + m
    <2>1. Ahead \in Nat /\ Cardinality(Writer) \in Nat
        BY WriteLockAssumption, FS_CardinalityType
           DEF WriteLockAssumption, Ahead
    <2> QED
        BY <1>1, <2>1, QueueCount, Zenon
<1>3. ASSUME NEW w \in Queued PROVE Distance(ticket[w], nextServed) \in 0 .. Cardinality(setup.writers) - 1
    <2>1. Away(ticket[w], nextServed) \in h .. h + m - 1
        BY <1>1, <1>2, Zenon DEF InLine
    <2>2. ticket[w] \in Tickets /\ nextServed \in Tickets
        BY <1>1 DEF LockTypes, Queued
    <2>3. PICK d \in Nat : d = Away(ticket[w], nextServed)
        BY <2>1
    <2>4. d <= k /\ d \in 0 .. n - 1
        BY <1>2, <2>1, <2>3
    <2>5. Distance(ticket[w], nextServed) = d
        BY <1>2, <2>2, <2>3, <2>4, DistanceIsAway, Zenon
    <2> QED
        BY <1>2, <2>4, <2>5, Zenon
<1>4. Distance(nextTicket, nextServed) = Cardinality(Queued \cup holder)
    <2>1. Away(nextTicket, nextServed) = h + m
        BY <1>1, <1>2, Zenon DEF InLine
    <2>2. h + m <= k
        BY <1>2
    <2>3. nextTicket \in Tickets /\ nextServed \in Tickets
        BY <1>1, Zenon DEF LockTypes
    <2> QED
        BY <1>2, <2>1, <2>2, <2>3, DistanceIsAway, Zenon
<1> QED
    BY <1>1, <1>3, <1>4, Zenon DEF InLine

\* Every step keeps the types.
LEMMA LockTypeSteps == LockTypes /\ [LockNext]_lockVars => LockTypes' /\ setup' = setup
<1> SUFFICES ASSUME LockTypes, [LockNext]_lockVars PROVE LockTypes' /\ setup' = setup
    BY Zenon
<1> DEFINE Places == {"idle", "locking", "waiting", "woken", "writing"}
<1>1. setup \in Setups /\ nextTicket \in Tickets /\ nextServed \in Tickets /\ 0 \in Tickets
    BY WrapFacts, Zenon DEF LockTypes
<1>2. ticket \in [Writer -> Tickets] /\ at \in [Writer -> Places]
    BY Zenon DEF LockTypes
<1>3. (nextTicket + 1) % Wrap \in Tickets /\ (nextServed + 1) % Wrap \in Tickets
    BY <1>1, Successor
<1>4. setup.writers \subseteq Writer
    BY SetupWriters, Zenon
<1>5. setup' = setup
    BY Zenon
       DEF LockNext, TakeTicket, Lock, TimedOut, SpuriousWakeUp, TryBegin,
       EndWrite, CommitFails,
       RestartSession, lockVars
<1>6. nextTicket' \in Tickets /\ nextServed' \in Tickets
    <2>1. \A w \in setup.writers : ticket[w] \in Tickets
        BY <1>2, <1>4
    <2> QED
        BY <1>1, <1>3, <2>1, Zenon
           DEF LockNext, TakeTicket, Lock, TimedOut, SpuriousWakeUp, TryBegin,
           EndWrite, CommitFails, RestartSession, lockVars, MakeItOurTurn
<1>7. ticket' \in [Writer -> Tickets]
    <2>1. \/ ticket' = ticket
          \/ \E w \in Writer, n \in Tickets : ticket' = [ticket EXCEPT ![w] = n]
        BY <1>1, <1>4
           DEF LockNext, TakeTicket, Lock, TimedOut, SpuriousWakeUp, TryBegin,
           EndWrite, CommitFails, RestartSession, lockVars, MakeItOurTurn
    <2> QED
        BY <1>2, <2>1
<1>8. at' \in [Writer -> Places]
    <2>1. \/ at' = at
          \/ \E w \in Writer, p \in Places : at' = [at EXCEPT ![w] = p]
          \/ \E w \in Writer : at' = [Woken EXCEPT ![w] = "idle"]
        BY <1>4, Zenon
           DEF LockNext, TakeTicket, Lock, TimedOut, SpuriousWakeUp, TryBegin,
           EndWrite, CommitFails, RestartSession, lockVars, FinishBegin, Goes
    <2>2. Woken \in [Writer -> Places]
        BY <1>2 DEF Woken
    <2> QED
        BY <1>2, <2>1, <2>2
<1> QED
    BY <1>1, <1>5, <1>6, <1>7, <1>8, Zenon DEF LockTypes

\* Taking a ticket, yielding, being served and ending a write keep the line.
LEMMA LineSteps ==
    ASSUME LockTypes, InLine, ~setup.rough, [LockNext]_lockVars PROVE InLine'
<1>0. LockTypes' /\ setup' = setup /\ setup.writers \subseteq Writer
    <2>1. setup.writers \subseteq Writer
        BY SetupWriters, Zenon
    <2> QED
        BY <2>1, LockTypeSteps, Zenon
<1>1. PICK m \in Nat, h \in Nat :
        /\ Cardinality(Queued) = m /\ Ahead = h /\ IsFiniteSet(Queued)
    <2>1. Ahead \in Nat
        BY DEF Ahead
    <2> QED
        BY <2>1, QueueCount, Zenon
<1>2. PICK T \in Tickets, s \in Tickets : T = nextTicket /\ s = nextServed
    BY Zenon DEF LockTypes
<1>3. Away(T, s) = h + m /\ \A w \in Queued : Away(ticket[w], s) \in h .. h + m - 1
    BY <1>1, <1>2, Zenon DEF InLine
<1>4. \A w \in Writer : ticket[w] \in Tickets
    BY DEF LockTypes
<1>5. ASSUME NEW w \in setup.writers, TakeTicket(w) PROVE InLine'
    <2>1. /\ at[w] = "idle" /\ ticket' = [ticket EXCEPT ![w] = T] /\ nextTicket' = (T + 1) % Wrap
          /\ at' = [at EXCEPT ![w] = "locking"] /\ UNCHANGED <<setup, nextServed, holder, critical>>
        BY <1>2, <1>5, Zenon DEF TakeTicket, Goes
    <2>2. Queued' = Queued \cup {w} /\ w \notin Queued /\ w \in Writer
        BY <1>0, <2>1 DEF Queued, LockTypes
    <2>3. Cardinality(Queued)' = m + 1 /\ Ahead' = h
        <3>1. Cardinality(Queued') = m + 1
            BY <1>1, <2>2, FS_AddElement
        <3> QED
            BY <1>1, <2>1, <3>1, Zenon DEF Ahead
    <2>4. h + m + 1 < Wrap
        <3>1. PICK n \in Nat, k \in Nat : n = Cardinality(setup.writers) /\ k = Cardinality(Writer) /\ n <= k
            BY QueueCount, WriteLockAssumption, FS_CardinalityType
               DEF WriteLockAssumption
        <3>2. h + m + 1 <= n
            BY <1>1, <2>1, <3>1, QueueCount, Zenon
        <3>3. Wrap > 2 * (k + 1) /\ Wrap \in Nat
            BY <3>1, WriteLockAssumption, Zenon DEF WriteLockAssumption
        <3> QED
            BY <3>1, <3>2, <3>3
    <2>5. Away((T + 1) % Wrap, s) = h + m + 1
        BY <1>3, <2>4, OneMoreTicket
    <2>6. ticket'[w] = T /\ \A u \in Queued : u # w /\ u \in Writer /\ ticket'[u] = ticket[u]
        BY <2>1, <2>2 DEF LockTypes, Queued
    <2>7. \A u \in Queued : ticket[u] # T
        BY <1>3
    <2>8. \A u, v \in Queued' : u # v => ticket'[u] # ticket'[v]
        <3>1. \A u, v \in Queued : u # v => ticket[u] # ticket[v]
            BY Zenon DEF InLine
        <3> QED
            BY <2>2, <2>6, <2>7, <3>1
    <2>9. \A u \in Queued' : Away(ticket'[u], s) \in h .. h + (m + 1) - 1
        <3>1. ASSUME NEW u \in Queued PROVE Away(ticket[u], s) \in h .. h + (m + 1) - 1
            BY <1>3
        <3>2. Away(T, s) \in h .. h + (m + 1) - 1
            BY <1>3
        <3> QED
            BY <2>2, <2>6, <3>1, <3>2 DEF Away
    <2>10. nextServed' = s /\ (Away(nextTicket, nextServed))' = h + (m + 1)
        BY <1>2, <2>1, <2>5 DEF Away
    <2>11. \A u \in Writer : at'[u] # "idle" => u \in setup.writers
        BY <2>1 DEF InLine, LockTypes
    <2>12. holder' = {u \in Writer : at'[u] = "writing"}
        BY <2>1 DEF InLine, LockTypes
    <2>13. \A u \in Queued' : (Away(ticket[u], nextServed))' \in h .. h + (m + 1) - 1
        BY <2>9, <2>10 DEF Away
    <2>14. \A u, v \in holder' : u = v
        BY <2>1, Zenon DEF InLine
    <2>15. \A u \in Queued' : (Away(ticket[u], nextServed))' \in Ahead' .. Ahead' + Cardinality(Queued)' - 1
        BY <2>3, <2>13, Zenon
    <2>16. (Away(nextTicket, nextServed))' = Ahead' + Cardinality(Queued)'
        BY <2>3, <2>10, Zenon
    <2>17. ~critical' /\ \A u \in Writer : at'[u] # "idle" => u \in setup'.writers
        BY <2>1, <2>11, Zenon DEF InLine
    <2> QED
        BY <2>8, <2>12, <2>14, <2>15, <2>16, <2>17, Zenon DEF InLine
<1>6. ASSUME NEW w \in setup.writers, Lock(w), ShouldYield(w) PROVE InLine'
    <2>1. /\ at[w] \in {"locking", "woken"} /\ at' = [at EXCEPT ![w] = "waiting"]
          /\ UNCHANGED <<setup, nextTicket, nextServed, holder, ticket, critical>>
        BY <1>6, Zenon DEF Lock, Goes
    <2>2. Queued' = Queued
        BY <1>0, <2>1 DEF Queued, LockTypes
    <2>3. holder' = {u \in Writer : at'[u] = "writing"}
        BY <2>1 DEF InLine, LockTypes
    <2>4. \A u \in Writer : at'[u] # "idle" => u \in setup.writers
        BY <2>1 DEF InLine, LockTypes
    <2> QED
        BY <2>1, <2>2, <2>3, <2>4, Zenon DEF InLine, Ahead
<1>7. ASSUME NEW w \in setup.writers, Lock(w), ~ShouldYield(w) PROVE InLine'
    <2>1. /\ at[w] \in {"locking", "woken"} /\ holder = {} /\ nextServed' = ticket[w]
          /\ ticket' = [ticket EXCEPT ![w] = 0] /\ holder' = {w} /\ at' = [at EXCEPT ![w] = "writing"]
          /\ UNCHANGED <<setup, nextTicket, critical>>
        BY <1>7, Zenon DEF Lock, Goes, MakeItOurTurn, FinishBegin, InLine
    <2>2. w \in Writer /\ w \in Queued /\ Queued' = Queued \ {w}
        BY <1>0, <2>1 DEF Queued, LockTypes
    <2>3. h = 0 /\ Ahead' = 1
        BY <1>1, <2>1 DEF Ahead
    <2>4. ticket[w] = s
        <3>1. PICK d \in Nat : d = Away(ticket[w], s) /\ d \in 0 .. m - 1
            BY <1>3, <2>2, <2>3
        <3>2. d <= Cardinality(Writer)
            <4>1. PICK n \in Nat, k \in Nat : n = Cardinality(setup.writers) /\ k = Cardinality(Writer) /\ n <= k
                BY QueueCount, WriteLockAssumption, FS_CardinalityType
                   DEF WriteLockAssumption
            <4>2. h + m <= n
                BY <1>1, <4>1, QueueCount, Zenon
            <4> QED
                BY <2>3, <3>1, <4>1, <4>2
        <3>3. Distance(ticket[w], s) = d
            BY <1>4, <2>2, <3>1, <3>2, DistanceIsAway, Zenon
        <3>4. d = 0
            BY <1>2, <1>7, <3>1, <3>3 DEF ShouldYield
        <3> QED
            BY <1>4, <2>2, <3>1, <3>4, AwayType, Zenon
    <2>5. m >= 1 /\ Cardinality(Queued)' = m - 1
        <3>1. Cardinality(Queued') = m - 1 /\ m - 1 \in Nat
            <4>1. Cardinality(Queued \ {w}) = Cardinality(Queued) - 1 /\ IsFiniteSet(Queued \ {w})
                BY <1>1, <2>2, FS_RemoveElement
            <4>2. Cardinality(Queued \ {w}) \in Nat
                BY <4>1, FS_CardinalityType
            <4> QED
                BY <1>1, <2>2, <4>1, <4>2
        <3> QED
            BY <3>1
    <2>6. \A u \in Queued' : u \in Queued /\ u # w /\ ticket'[u] = ticket[u]
        BY <2>1, <2>2 DEF LockTypes, Queued
    <2>7. \A u, v \in Queued' : u # v => ticket'[u] # ticket'[v]
        BY <2>6, Zenon DEF InLine
    <2>8. ASSUME NEW u \in Queued' PROVE Away(ticket[u], s) \in 1 .. 1 + (m - 1) - 1
        <3>1. ticket[u] # s /\ ticket[u] \in Tickets
            BY <1>4, <2>2, <2>4, <2>6 DEF InLine, Queued
        <3>2. Away(ticket[u], s) # 0
            BY <3>1, AwayType
        <3> QED
            BY <1>3, <2>3, <2>6, <3>2
    <2>9. nextServed' = s /\ nextTicket' = T
        BY <1>2, <2>1, <2>4
    <2>10. \A u \in Queued' : (Away(ticket[u], nextServed))' \in 1 .. 1 + (m - 1) - 1
        BY <2>6, <2>8, <2>9 DEF Away
    <2>11. (Away(nextTicket, nextServed))' = 1 + (m - 1)
        BY <1>3, <2>3, <2>9 DEF Away
    <2>12. holder' = {u \in Writer : at'[u] = "writing"} /\ \A u, v \in holder' : u = v
        BY <2>1, <2>2 DEF InLine, LockTypes
    <2>13. ~critical' /\ \A u \in Writer : at'[u] # "idle" => u \in setup'.writers
        BY <2>1 DEF InLine, LockTypes
    <2> QED
        BY <2>3, <2>5, <2>7, <2>10, <2>11, <2>12, <2>13, Zenon DEF InLine
<1>8. ASSUME NEW w \in setup.writers, EndWrite(w) PROVE InLine'
    <2>1. /\ at[w] = "writing" /\ nextServed' = (s + 1) % Wrap /\ at' = [Woken EXCEPT ![w] = "idle"]
          /\ holder' = {} /\ UNCHANGED <<setup, nextTicket, ticket, critical>>
        BY <1>2, <1>8, Zenon DEF EndWrite
    <2>2. w \in Writer /\ holder = {w} /\ h = 1 /\ Ahead' = 0
        BY <1>0, <1>1, <2>1 DEF InLine, Ahead
    <2>3. Queued' = Queued
        BY <1>0, <2>1, <2>2 DEF Queued, LockTypes, Woken
    <2>4. Cardinality(Queued)' = m
        BY <1>1, <2>3
    <2>5. ASSUME NEW u \in Queued' PROVE Away(ticket[u], (s + 1) % Wrap) \in 0 .. m - 1
        <3>1. Away(ticket[u], s) \in 1 .. m /\ ticket[u] \in Tickets
            BY <1>3, <1>4, <2>2, <2>3 DEF Queued
        <3>2. Away(ticket[u], (s + 1) % Wrap) = Away(ticket[u], s) - 1
            BY <3>1, OneTurnLess
        <3> QED
            BY <3>1, <3>2
    <2>6. Away(T, (s + 1) % Wrap) = m
        <3>1. Away(T, s) >= 1
            BY <1>3, <2>2
        <3> QED
            BY <1>3, <2>2, <3>1, OneTurnLess
    <2>7. \A u \in Queued' : (Away(ticket[u], nextServed))' \in 0 .. 0 + m - 1
        BY <2>1, <2>5 DEF Away
    <2>8. (Away(nextTicket, nextServed))' = 0 + m
        BY <1>2, <2>1, <2>6 DEF Away
    <2>9. holder' = {u \in Writer : at'[u] = "writing"}
        BY <2>1, <2>2 DEF InLine, LockTypes, Woken
    <2>10. ~critical' /\ \A u \in Writer : at'[u] # "idle" => u \in setup'.writers
        BY <2>1 DEF InLine, LockTypes, Woken
    <2>11. /\ \A u, v \in holder' : u = v
           /\ \A u, v \in Queued' : u # v => ticket'[u] # ticket'[v]
        BY <2>1, <2>3 DEF InLine
    <2> QED
        BY <2>2, <2>4, <2>7, <2>8, <2>9, <2>10, <2>11, Zenon DEF InLine
<1>9. ASSUME UNCHANGED lockVars PROVE InLine'
    BY <1>9, Zenon DEF lockVars, InLine, Ahead, Queued
<1>10. ASSUME NEW w \in setup.writers, TimedOut(w) \/ SpuriousWakeUp(w) \/ TryBegin(w) \/ CommitFails(w)
       PROVE  FALSE
    BY <1>10, Zenon DEF TimedOut, SpuriousWakeUp, TryBegin, CommitFails
<1>11. ~RestartSession
    BY Zenon DEF RestartSession, InLine
<1> QED
    BY <1>5, <1>6, <1>7, <1>8, <1>9, <1>10, <1>11, Zenon DEF LockNext

\* The write lock serves tickets in the order they were given, for any number of
\* writers and any range of tickets more than twice as large: where every writer blocks,
\* next_served is the oldest ticket out or the next one to be given, no ticket is out
\* twice, and none is lost when the counters wrap around.
THEOREM TicketsAreServedInOrder == LockSpec => []ServedIsOldest
<1>1. LockInit => LockInv
    <2> SUFFICES ASSUME LockInit PROVE LockInv
        BY Zenon
    <2>1. LockTypes
        BY WrapFacts DEF LockInit, LockTypes
    <2>2. Queued = {} /\ Ahead = 0 /\ Cardinality({}) = 0
        BY FS_EmptySet DEF LockInit, Queued, Ahead
    <2>3. Away(0, 0) = 0
        BY DEF Away
    <2>4. InLine
        BY <2>2, <2>3 DEF LockInit, InLine
    <2> QED
        BY <2>1, <2>4, Zenon DEF LockInv
<1>2. LockInv /\ [LockNext]_lockVars => LockInv'
    BY LockTypeSteps, LineSteps, Zenon DEF LockInv
<1> QED
    BY <1>1, <1>2, LineIsServed, PTL DEF LockSpec
=============================================================================

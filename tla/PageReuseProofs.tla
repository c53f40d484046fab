-------------------------- MODULE PageReuseProofs --------------------------
(***************************************************************************)
(* Proofs about PageReuse, for every set of blocks, every set of readers   *)
(* and every number of commits.                                            *)
(*                                                                         *)
(* SnapshotsIntact is not inductive.  What carries it is what the free     *)
(* lists of the reachable snapshots promise about one another: a block     *)
(* that snapshot v lists as free since version a is used by no reachable   *)
(* snapshot from a up to v, and a block beyond the end of v's file is used *)
(* by none up to v.  Back-dating replaces a by the date of an older        *)
(* snapshot's list and so needs the promise of that list as well.          *)
(***************************************************************************)
EXTENDS PageReuse, TLAPS

Versions ==
    /\ newest \in active
    /\ \A v \in active : v <= newest
    /\ ckpt <= newest
    /\ \A r \in Reader : lock[r] \in active \cup {0}
    /\ phase \in {"purged", "written"} =>
         /\ tops = Reachable
         /\ newest < MaxVersion

\* What the free list of a reachable snapshot promises.
FreeSince ==
    \A v \in Reachable : \A b \in free[v] :
        /\ at[v][b] <= v
        /\ \A p \in Reachable : at[v][b] <= p /\ p <= v => b \notin used[p]

NotBeyond ==
    \A v \in Reachable : \A b \in Beyond(v) :
        \A p \in Reachable : p <= v => b \notin used[p]

Written ==
    \A v \in Reachable : \A b \in used[v] : owner[b] <= v

\* The same for the group that is being written.
WrittenGroup ==
    /\ phase # "written" => todo = {}
    /\ phase = "written" =>
          /\ \A b \in wnew : owner[b] = newest + 1
          /\ wnew \subseteq wused
          /\ wused \ wnew \subseteq used[newest]
          /\ wfreed \subseteq used[newest]
          /\ \A p \in Reachable : \A b \in Block :
               /\ b \in wfree => b \notin used[p]
               /\ b \in locked /\ stamp[b] <= p => b \notin used[p]
               /\ b \notin wused \cup wfree \cup locked \cup wfreed
                    => b \notin used[p]
          /\ \A b \in locked : stamp[b] <= newest
          /\ wused \cap (wfree \cup locked \cup wfreed) = {}
          /\ locked \cap (wfree \cup wfreed) = {}
          /\ wfree \cap wfreed = {}

\* Without back-dating, what a journal record lists stays in use or is free
\* since after the checkpoint.
JournalHeld ==
    ~backdated => \A rec \in records :
        /\ ckpt < rec.version
        /\ \A b \in rec.blocks :
             /\ owner[b] = rec.version
             /\ \/ b \in used[newest]
                \/ b \in free[newest] /\ at[newest][b] > ckpt
             /\ phase = "written" =>
                  \/ b \in wused \cup wfreed
                  \/ b \in locked /\ stamp[b] > ckpt

\* A step that leaves the snapshots and the blocks alone preserves what the
\* invariant says of them.
LEMMA SnapshotsUnchanged ==
    ASSUME FreeSince, NotBeyond, Written,
           UNCHANGED <<active, ckpt, used, free, at, owner>>
    PROVE  FreeSince' /\ NotBeyond' /\ Written'
<1>1. Reachable' = Reachable
    BY Zenon DEF Reachable
<1>2. FreeSince'
    BY <1>1, Zenon DEF FreeSince
<1>3. NotBeyond'
    BY <1>1, Zenon DEF NotBeyond, Beyond
<1>4. Written'
    BY <1>1, Zenon DEF Written
<1> QED
    BY <1>2, <1>3, <1>4, Zenon

IInv ==
    /\ TypeOK /\ Versions /\ FreeSince /\ NotBeyond /\ Written
    /\ WrittenGroup /\ JournalHeld
-----------------------------------------------------------------------------
\* The first snapshot of the file meets the invariant.
LEMMA InitInductive == Init => IInv
<1> SUFFICES ASSUME Init PROVE IInv
    BY Zenon
<1> USE PageReuseAssumption DEF PageReuseAssumption
<1>1. TypeOK
    <2> USE DEF Init, Version
    <2>1. /\ active \subseteq Version /\ newest \in Version /\ ckpt \in Version
          /\ tops \subseteq Version /\ phase \in Phases
        BY DEF Phases
    <2>2. lock \in [Reader -> 0 .. MaxVersion] /\ type \in [Reader -> Types]
        BY DEF Types
    <2>3. used \in [Version -> SUBSET Block] /\ free \in [Version -> SUBSET Block]
        BY Zenon
    <2>4. at \in [Version -> [Block -> 0 .. MaxVersion]]
        <3>1. [b \in Block |-> 0] \in [Block -> 0 .. MaxVersion]
            OBVIOUS
        <3> QED
            BY <3>1, Zenon
    <2>5. /\ owner \in [Block -> 0 .. MaxVersion]
          /\ stamp \in [Block -> 0 .. MaxVersion]
        OBVIOUS
    <2> QED
        BY <2>1, <2>2, <2>3, <2>4, <2>5, Zenon DEF TypeOK
<1>2. Versions
    BY DEF Init, Versions
<1>3. FreeSince /\ NotBeyond /\ Written
    BY DEF Init, FreeSince, NotBeyond, Written, Reachable, Beyond, Version
<1>4. WrittenGroup /\ JournalHeld
    BY Zenon DEF Init, WrittenGroup, JournalHeld
<1> QED
    BY <1>1, <1>2, <1>3, <1>4, Zenon DEF IInv

\* A step that only takes or drops read locks on entries of the version list
\* preserves the invariant.
LEMMA LockStep ==
    ASSUME IInv,
           UNCHANGED <<versionList, file, journal, phase, writer, backdated>>,
           lock' \in [Reader -> active \cup {0}],
           type' \in [Reader -> Types]
    PROVE  IInv'
<1> USE DEF IInv, versionList, file, journal, writer
<1>1. TypeOK'
    <2>1. lock' \in [Reader -> 0 .. MaxVersion]
        <3>1. active \cup {0} \subseteq 0 .. MaxVersion
            BY PageReuseAssumption DEF PageReuseAssumption, TypeOK, Version
        <3> QED
            BY <3>1, Zenon
    <2> QED
        BY <2>1, Zenon DEF TypeOK, Version, Types, Phases
<1>2. Versions'
    BY Zenon DEF Versions, Reachable
<1>3. FreeSince' /\ NotBeyond' /\ Written'
    BY SnapshotsUnchanged, Zenon
<1>4. WrittenGroup' /\ JournalHeld'
    BY Zenon DEF WrittenGroup, JournalHeld, Reachable
<1> QED
    BY <1>1, <1>2, <1>3, <1>4, Zenon

\* grab_read_lock and release_read_lock preserve the invariant.
LEMMA ReadLockSteps ==
    ASSUME IInv, NEW r \in Reader
    PROVE  /\ \A t \in Types : GrabNewest(r, t) => IInv'
           /\ \A t \in Types, v \in active : GrabSpecific(r, v, t) => IInv'
           /\ ReleaseReadLock(r) => IInv'
<1> USE DEF IInv
<1>0. lock \in [Reader -> active \cup {0}] /\ type \in [Reader -> Types]
    BY Zenon DEF TypeOK, Versions
<1>1. ASSUME NEW t \in Types, GrabNewest(r, t) PROVE IInv'
    BY <1>0, <1>1, LockStep, Zenon DEF GrabNewest, Versions
<1>2. ASSUME NEW t \in Types, NEW v \in active, GrabSpecific(r, v, t)
      PROVE  IInv'
    BY <1>0, <1>2, LockStep, Zenon DEF GrabSpecific
<1>3. ASSUME ReleaseReadLock(r) PROVE IInv'
    BY <1>0, <1>3, LockStep, Zenon DEF ReleaseReadLock, Types
<1> QED
    BY <1>1, <1>2, <1>3, Zenon

\* start_write preserves the invariant.
LEMMA StartWriteStep == IInv /\ StartWrite => IInv'
<1> SUFFICES ASSUME IInv, StartWrite PROVE IInv'
    BY Zenon
<1> USE DEF IInv, StartWrite, versionList, locks, file, journal, writer
<1>1. TypeOK' /\ Versions'
    BY Zenon DEF TypeOK, Versions, Phases, Reachable, Version, Types
<1>2. FreeSince' /\ NotBeyond' /\ Written'
    BY SnapshotsUnchanged, Zenon
<1>3. WrittenGroup' /\ JournalHeld'
    BY Zenon DEF WrittenGroup, JournalHeld, Reachable
<1> QED
    BY <1>1, <1>2, <1>3, Zenon

\* Dropping snapshots nobody can reach preserves what the free lists of the
\* others promise.
LEMMA ForgetStep ==
    ASSUME IInv, NEW kept, kept \subseteq Version,
           Forget(kept), Reachable' \subseteq kept, Reachable' \subseteq Reachable
    PROVE  /\ used' \in [Version -> SUBSET Block]
           /\ free' \in [Version -> SUBSET Block]
           /\ at' \in [Version -> [Block -> 0 .. MaxVersion]]
           /\ \A v \in Reachable' : /\ used'[v] = used[v]
                                    /\ free'[v] = free[v]
                                    /\ at'[v] = at[v]
           /\ FreeSince' /\ NotBeyond' /\ Written'
<1> USE DEF IInv
<1>1. /\ used' \in [Version -> SUBSET Block]
      /\ free' \in [Version -> SUBSET Block]
      /\ at' \in [Version -> [Block -> 0 .. MaxVersion]]
    BY PageReuseAssumption DEF PageReuseAssumption, Forget, TypeOK
<1>2. \A v \in Reachable' : /\ used'[v] = used[v]
                            /\ free'[v] = free[v]
                            /\ at'[v] = at[v]
    BY Zenon DEF Forget
<1>3. FreeSince' /\ Written'
    BY <1>2, Zenon DEF FreeSince, Written, Forget
<1>4. NotBeyond'
    BY <1>2, Zenon DEF NotBeyond, Beyond
<1> QED
    BY <1>1, <1>2, <1>3, <1>4, Zenon

\* purge_versions keeps every entry that is held, and the checkpoint is kept
\* beside them: the invariant is preserved.
LEMMA PurgeStep == IInv /\ PurgeVersions => IInv'
<1> SUFFICES ASSUME IInv, PurgeVersions PROVE IInv'
    BY Zenon
<1> USE DEF IInv
<1> DEFINE reachable == {v \in active : Held(v)}
<1>1. /\ active' = reachable /\ tops' = reachable \cup {ckpt}
      /\ newest' = newest /\ ckpt' = ckpt /\ newest < MaxVersion
      /\ phase = "begun" /\ phase' = "purged"
      /\ lock' = lock /\ type' = type /\ owner' = owner
      /\ Forget(reachable \cup {ckpt})
      /\ anyNew' \in BOOLEAN
    BY Zenon DEF PurgeVersions, TopRefs, versionList, locks, journal, Forget
<1>2. /\ wused' = wused /\ wfree' = wfree /\ wnew' = wnew /\ wfreed' = wfreed
      /\ stamp' = stamp /\ locked' = locked /\ todo' = todo
      /\ backdated' = backdated /\ records' = records
    BY Zenon DEF PurgeVersions, journal
<1>3. reachable \subseteq active /\ newest \in reachable
    BY <1>1, Zenon DEF Versions, Held, WriterHolds
<1>4. /\ Reachable' = reachable \cup {ckpt}
      /\ Reachable' \subseteq Reachable
    BY <1>1, <1>3, Zenon DEF Reachable
<1>5. reachable \cup {ckpt} \subseteq Version
    BY <1>3, Zenon DEF TypeOK
<1> HIDE DEF reachable
<1>6. /\ used' \in [Version -> SUBSET Block]
      /\ free' \in [Version -> SUBSET Block]
      /\ at' \in [Version -> [Block -> 0 .. MaxVersion]]
      /\ \A v \in Reachable' : /\ used'[v] = used[v]
                               /\ free'[v] = free[v]
                               /\ at'[v] = at[v]
      /\ FreeSince' /\ NotBeyond' /\ Written'
    BY <1>1, <1>4, <1>5, ForgetStep, Zenon
<1>7. TypeOK'
    BY <1>1, <1>2, <1>3, <1>5, <1>6, Zenon DEF TypeOK, Phases
<1>8. Versions'
    <2>1. \A r \in Reader : lock[r] \in reachable \cup {0}
        BY Zenon DEF reachable, Held, Versions
    <2> QED
        BY <1>1, <1>3, <1>4, <2>1, Zenon DEF Versions
<1>9. WrittenGroup' /\ JournalHeld'
    BY <1>1, <1>2, <1>3, <1>4, <1>6, Zenon DEF WrittenGroup, JournalHeld
<1> QED
    BY <1>6, <1>7, <1>8, <1>9, Zenon

\* A write that fails or is rolled back preserves the invariant: what it has
\* written no reachable snapshot uses.
LEMMA AbortStep == IInv /\ AbortWrite => IInv'
<1> SUFFICES ASSUME IInv, AbortWrite PROVE IInv'
    BY Zenon
<1> USE DEF IInv, AbortWrite, versionList, locks, file, journal, NoWriter
<1>1. TypeOK'
    <2>1. stamp' \in [Block -> 0 .. MaxVersion]
        BY PageReuseAssumption DEF PageReuseAssumption
    <2> QED
        BY <2>1, Zenon DEF TypeOK, Phases, Version, Types
<1>2. Versions'
    BY Zenon DEF Versions, Reachable
<1>3. FreeSince' /\ NotBeyond' /\ Written'
    BY SnapshotsUnchanged, Zenon
<1>4. WrittenGroup' /\ JournalHeld'
    BY Zenon DEF WrittenGroup, JournalHeld
<1> QED
    BY <1>1, <1>2, <1>3, <1>4, Zenon

\* Opening the file again preserves the invariant.
LEMMA RestartStep == IInv /\ RestartSession => IInv'
<1> SUFFICES ASSUME IInv, RestartSession PROVE IInv'
    BY Zenon
<1> USE DEF IInv
<1>1. /\ active' = {newest} /\ newest' = newest /\ ckpt' = ckpt
      /\ lock' = [r \in Reader |-> 0] /\ type' = [r \in Reader |-> "Live"]
      /\ phase = "idle" /\ phase' = phase
      /\ records' = records /\ backdated' = backdated
      /\ Forget({newest, ckpt}) /\ owner' = owner
      /\ UNCHANGED writer
    BY Zenon DEF RestartSession, journal, Forget
<1>2. Reachable' = {newest, ckpt} /\ Reachable' \subseteq Reachable
    BY <1>1, Zenon DEF Reachable, Versions
<1>3. /\ used' \in [Version -> SUBSET Block]
      /\ free' \in [Version -> SUBSET Block]
      /\ at' \in [Version -> [Block -> 0 .. MaxVersion]]
      /\ \A v \in Reachable' : /\ used'[v] = used[v]
                               /\ free'[v] = free[v]
                               /\ at'[v] = at[v]
      /\ FreeSince' /\ NotBeyond' /\ Written'
    BY <1>1, <1>2, ForgetStep, Zenon DEF TypeOK
<1>4. TypeOK'
    <2>1. /\ lock' \in [Reader -> 0 .. MaxVersion]
          /\ type' \in [Reader -> Types]
        BY <1>1, PageReuseAssumption DEF PageReuseAssumption, Types
    <2> QED
        BY <1>1, <1>3, <2>1, Zenon DEF TypeOK, writer
<1>5. Versions'
    BY <1>1, Zenon DEF Versions, TypeOK, Version
<1>6. WrittenGroup' /\ JournalHeld'
    BY <1>1, <1>2, <1>3, Zenon DEF WrittenGroup, JournalHeld, writer
<1> QED
    BY <1>3, <1>4, <1>5, <1>6, Zenon

\* read_in_freelist hands out no block of a reachable snapshot, and neither
\* does extend_free_space: a block free since before the oldest reachable
\* version, or beyond the end of the newest file, is used by none of them.
LEMMA FreeSpaceUnused ==
    ASSUME IInv, phase = "purged", NEW oldest \in tops, IsMin(oldest, tops),
           NEW b \in Available(oldest) \cup Beyond(newest),
           NEW p \in Reachable
    PROVE  b \notin used[p]
<1> USE DEF IInv
<1>1. newest \in Reachable /\ p <= newest /\ oldest <= p
    BY Zenon DEF Versions, Reachable, IsMin
<1>2. CASE b \in Available(oldest)
    <2>1. b \in free[newest] /\ at[newest][b] <= oldest
        BY <1>2, Zenon DEF Available
    <2>2. /\ at[newest][b] \in Nat /\ oldest \in Nat /\ p \in Nat
        BY <2>1, PageReuseAssumption DEF PageReuseAssumption, TypeOK, Version,
             Reachable
    <2>3. at[newest][b] <= p
        BY <1>1, <2>1, <2>2
    <2> QED
        BY <1>1, <2>1, <2>3, Zenon DEF FreeSince
<1>3. CASE b \in Beyond(newest)
    BY <1>1, <1>3, Zenon DEF NotBeyond
<1> QED
    BY <1>2, <1>3, Zenon

\* Writing the group preserves the invariant: it writes free space only.
LEMMA WriteGroupStep == IInv /\ WriteGroup => IInv'
<1> SUFFICES ASSUME IInv, WriteGroup PROVE IInv'
    BY Zenon
<1> USE DEF IInv
<1>0. /\ active' = active /\ newest' = newest /\ lock' = lock /\ type' = type
      /\ used' = used /\ free' = free /\ at' = at /\ ckpt' = ckpt
      /\ records' = records /\ tops' = tops /\ anyNew' = anyNew
      /\ backdated' = backdated /\ phase = "purged" /\ phase' = "written"
    BY Zenon DEF WriteGroup, versionList, locks, journal
<1>1. PICK oldest \in tops : IsMin(oldest, tops)
        /\ \E freed \in SUBSET used[newest], ext \in SUBSET Beyond(newest),
              new \in SUBSET (Available(oldest) \cup Beyond(newest)) :
            /\ freed # {} /\ new # {}
            /\ new \cap Beyond(newest) \subseteq ext
            /\ \E cut \in SUBSET (Available(oldest) \ new) :
                /\ ext = {} \/ cut = {}
                /\ wfreed' = freed
                /\ wnew' = new
                /\ wused' = (used[newest] \ freed) \cup new
                /\ wfree' = Remains(Available(oldest), ext, new, cut)
                /\ locked' = free[newest] \ Available(oldest)
                /\ stamp' = [b \in Block |-> IF b \in locked'
                                             THEN at[newest][b] ELSE 0]
                /\ todo' = ToBackdate(locked')
                /\ owner' = [b \in Block |-> IF b \in new
                                             THEN newest + 1 ELSE owner[b]]
    BY Zenon DEF WriteGroup
<1>2. PICK freed \in SUBSET used[newest], ext \in SUBSET Beyond(newest),
           new \in SUBSET (Available(oldest) \cup Beyond(newest)),
           cut \in SUBSET Available(oldest) :
        /\ new \cap Beyond(newest) \subseteq ext
        /\ wfreed' = freed
        /\ wnew' = new
        /\ wused' = (used[newest] \ freed) \cup new
        /\ wfree' = ((Available(oldest) \cup ext) \ new) \ cut
        /\ locked' = free[newest] \ Available(oldest)
        /\ stamp' = [b \in Block |-> IF b \in locked'
                                     THEN at[newest][b] ELSE 0]
        /\ todo' \subseteq locked'
        /\ owner' = [b \in Block |-> IF b \in new
                                     THEN newest + 1 ELSE owner[b]]
    BY <1>1 DEF Remains, ToBackdate
<1>3. /\ newest \in Version /\ newest < MaxVersion /\ newest + 1 \in Version
      /\ newest \in Reachable /\ Reachable' = Reachable /\ tops = Reachable
      /\ MaxVersion \in Nat
    BY <1>0, PageReuseAssumption
       DEF PageReuseAssumption, TypeOK, Versions, Version, Reachable
<1>4. /\ used[newest] \subseteq Block /\ free[newest] \subseteq Block
      /\ Available(oldest) \subseteq free[newest]
      /\ Beyond(newest) = Block \ (used[newest] \cup free[newest])
    BY <1>3, Zenon DEF TypeOK, Available, Beyond
<1>5. \A p \in Reachable : \A b \in Available(oldest) \cup Beyond(newest) :
          b \notin used[p]
    BY <1>0, <1>1, FreeSpaceUnused, Zenon
<1>6. used[newest] \cap free[newest] = {}
    BY <1>3 DEF FreeSince, TypeOK, Version
<1>7. TypeOK'
    <2>1. new \subseteq Block /\ locked' \subseteq Block /\ wfree' \subseteq Block
        BY <1>2, <1>4, Zenon
    <2>2. owner' \in [Block -> 0 .. MaxVersion]
        BY <1>2, <1>3 DEF TypeOK, Version
    <2>3. stamp' \in [Block -> 0 .. MaxVersion]
        BY <1>2, <1>3 DEF TypeOK, Version
    <2>4. wused' \subseteq Block /\ wfreed' \subseteq Block
        BY <1>2, <1>4, <2>1, Zenon
    <2> QED
        BY <1>0, <1>2, <2>1, <2>2, <2>3, <2>4, Zenon DEF TypeOK, Phases
<1>8. Versions'
    BY <1>0, <1>3, Zenon DEF Versions
<1>9. FreeSince' /\ NotBeyond'
    BY <1>0, <1>3, Zenon DEF FreeSince, NotBeyond, Beyond
<1>10. Written'
    <2> SUFFICES ASSUME NEW v \in Reachable, NEW b \in used[v]
                 PROVE  owner'[b] <= v
        BY <1>0, <1>3, Zenon DEF Written
    <2>1. b \notin new
        BY <1>5, Zenon
    <2>2. b \in Block
        BY Zenon DEF TypeOK, Reachable
    <2> QED
        BY <1>2, <2>1, <2>2, Zenon DEF Written
<1>11. WrittenGroup'
    <2>1. \A b \in new : owner'[b] = newest + 1
        BY <1>2, <1>4, Zenon
    <2>2. \A p \in Reachable : \A b \in Block :
             /\ b \in wfree' => b \notin used[p]
             /\ b \in locked' /\ stamp'[b] <= p => b \notin used[p]
             /\ b \notin wused' \cup wfree' \cup locked' \cup wfreed'
                  => b \notin used[p]
        <3> SUFFICES ASSUME NEW p \in Reachable, NEW b \in Block
                     PROVE  /\ b \in wfree' => b \notin used[p]
                            /\ b \in locked' /\ stamp'[b] <= p => b \notin used[p]
                            /\ b \notin wused' \cup wfree' \cup locked' \cup wfreed'
                                 => b \notin used[p]
            BY Zenon
        <3>1. b \in wfree' => b \notin used[p]
            BY <1>2, <1>5, Zenon
        <3>2. b \in locked' /\ stamp'[b] <= p => b \notin used[p]
            <4>1. p <= newest
                BY Zenon DEF Versions, Reachable
            <4> QED
                BY <1>2, <1>3, <4>1, Zenon DEF FreeSince
        <3>3. b \notin wused' \cup wfree' \cup locked' \cup wfreed'
                => b \notin used[p]
            BY <1>2, <1>4, <1>5, Zenon
        <3> QED
            BY <3>1, <3>2, <3>3, Zenon
    <2>3. \A b \in locked' : stamp'[b] <= newest
        BY <1>2, <1>3, <1>4, Zenon DEF FreeSince
    <2>4. /\ wused' \cap (wfree' \cup locked' \cup wfreed') = {}
          /\ locked' \cap (wfree' \cup wfreed') = {}
          /\ wfree' \cap wfreed' = {}
        BY <1>2, <1>4, <1>6, Zenon
    <2> QED
        BY <1>0, <1>2, <1>3, <2>1, <2>2, <2>3, <2>4 DEF WrittenGroup
<1>12. JournalHeld'
    <2> SUFFICES ASSUME ~backdated, NEW rec \in records, NEW b \in rec.blocks
                 PROVE  /\ owner'[b] = rec.version
                        /\ \/ b \in wused' \cup wfreed'
                           \/ b \in locked' /\ stamp'[b] > ckpt
        BY <1>0, Zenon DEF JournalHeld
    <2>1. /\ owner[b] = rec.version
          /\ b \in used[newest] \/ (b \in free[newest] /\ at[newest][b] > ckpt)
        BY Zenon DEF JournalHeld
    <2>2. b \in Block
        BY <1>4, <2>1, Zenon
    <2>3. oldest <= ckpt /\ oldest \in Nat /\ ckpt \in Nat
        <3>1. oldest \in Version /\ ckpt \in Version
            BY Zenon DEF TypeOK
        <3>2. oldest <= ckpt
            BY <1>1, <1>3, Zenon DEF Reachable, IsMin
        <3> QED
            BY <1>3, <3>1, <3>2 DEF Version
    <2>4. CASE b \in used[newest]
        BY <1>2, <1>4, <1>6, <2>1, <2>2, <2>4, Zenon
    <2>5. CASE b \in free[newest] /\ at[newest][b] > ckpt
        <3>1. at[newest][b] \in Nat
            BY <1>3, <2>2 DEF TypeOK
        <3>2. b \notin Available(oldest)
            BY <2>3, <2>5, <3>1 DEF Available
        <3> QED
            BY <1>2, <1>4, <2>1, <2>2, <2>5, <3>2, Zenon
    <2> QED
        BY <2>1, <2>4, <2>5, Zenon
<1> QED
    BY <1>7, <1>8, <1>9, <1>10, <1>11, <1>12, Zenon

\* A round of the back-dating loop preserves the invariant: the date it takes
\* from an older snapshot's list is no promise the list does not make.
LEMMA BackdateStep ==
    ASSUME IInv, NEW b \in todo, BackdateEntry(b)
    PROVE  IInv'
<1> USE DEF IInv
<1>0. /\ UNCHANGED <<versionList, locks, file, journal, phase, tops, anyNew,
                     wused, wfree, wnew, wfreed, locked>>
      /\ phase = "written" /\ b \in locked
      /\ tops = Reachable /\ newest \in Reachable
    BY Zenon DEF BackdateEntry, TypeOK, Versions, Reachable
<1> USE DEF versionList, locks, file, journal
<1>1. CASE stamp' = stamp /\ backdated' = backdated /\ todo' \subseteq todo
    <2>1. TypeOK' /\ Versions'
        BY <1>0, <1>1, Zenon
           DEF TypeOK, Versions, Reachable, Version, Types, Phases
    <2>2. FreeSince' /\ NotBeyond' /\ Written'
        BY <1>0, SnapshotsUnchanged, Zenon
    <2>3. WrittenGroup' /\ JournalHeld'
        BY <1>0, <1>1, Zenon DEF WrittenGroup, JournalHeld, Reachable
    <2> QED
        BY <2>1, <2>2, <2>3, Zenon
<1>2. ASSUME NEW e \in tops, IsMax(e, Earlier(stamp[b])), Covered(b, e),
             stamp' = [stamp EXCEPT ![b] = CoverVersion(b, e)],
             backdated' = TRUE, todo' = todo
      PROVE  IInv'
    <2>1. /\ e \in Reachable /\ e < stamp[b] /\ e <= newest
          /\ \A p \in Reachable : p < stamp[b] => p <= e
        BY <1>0, <1>2, Zenon DEF IsMax, Earlier, Versions, Reachable
    <2>2. /\ b \in Block /\ e \in Nat /\ stamp[b] \in Nat
          /\ newest \in Nat /\ MaxVersion \in Nat /\ e \in Version
          /\ newest <= MaxVersion
        BY <1>0, PageReuseAssumption DEF PageReuseAssumption, TypeOK, Version
    <2>3. CoverVersion(b, e) \in 0 .. MaxVersion /\ CoverVersion(b, e) <= e
        <3>1. CASE b \in free[e]
            BY <2>1, <2>2, <3>1 DEF CoverVersion, FreeSince, TypeOK
        <3>2. CASE b \notin free[e]
            <4>1. CoverVersion(b, e) = 0
                BY <3>2, Zenon DEF CoverVersion
            <4> QED
                BY <2>2, <4>1
        <3> QED
            BY <3>1, <3>2, Zenon
    <2>4. /\ stamp'[b] = CoverVersion(b, e)
          /\ \A c \in Block : c # b => stamp'[c] = stamp[c]
          /\ stamp' \in [Block -> 0 .. MaxVersion]
        BY <1>2, <2>2, <2>3, Zenon DEF TypeOK
    <2>5. ASSUME NEW p \in Reachable, CoverVersion(b, e) <= p
          PROVE  b \notin used[p]
        <3>1. p \in Nat
            BY DEF Reachable, TypeOK, Version
        <3>2. CASE stamp[b] <= p
            BY <1>0, <2>2, <3>2, Zenon DEF WrittenGroup
        <3>3. CASE p <= e /\ b \in free[e]
            BY <2>1, <2>5, <3>3, Zenon DEF FreeSince, CoverVersion
        <3>4. CASE p <= e /\ b \in Beyond(e)
            BY <2>1, <3>4, Zenon DEF NotBeyond
        <3> QED
            BY <1>2, <2>1, <2>2, <3>1, <3>2, <3>3, <3>4 DEF Covered
    <2>6. TypeOK' /\ Versions'
        BY <1>0, <1>2, <2>4, Zenon
           DEF TypeOK, Versions, Reachable, Version, Types,
             Phases
    <2>7. FreeSince' /\ NotBeyond' /\ Written'
        BY <1>0, SnapshotsUnchanged, Zenon
    <2>8. \A p \in Reachable : \A c \in Block :
              c \in locked /\ stamp'[c] <= p => c \notin used[p]
        BY <1>0, <2>4, <2>5 DEF WrittenGroup
    <2>9. \A c \in locked : stamp'[c] <= newest
        BY <1>0, <2>1, <2>2, <2>3, <2>4 DEF WrittenGroup, TypeOK
    <2>10. WrittenGroup'
        BY <1>0, <2>8, <2>9, Zenon DEF WrittenGroup, Reachable
    <2>11. JournalHeld'
        BY <1>2, Zenon DEF JournalHeld
    <2> QED
        BY <2>6, <2>7, <2>10, <2>11, Zenon
<1> QED
    BY <1>1, <1>2, Zenon DEF BackdateEntry

\* Publishing the new version preserves the invariant: its free list promises
\* no more than the lists it was put together from.
LEMMA PublishStep ==
    ASSUME IInv, NEW record \in BOOLEAN, Publish(record)
    PROVE  IInv'
<1> USE DEF IInv
<1> DEFINE n == newest + 1
           since(b) == IF b \in wfreed THEN n
                       ELSE IF b \in locked THEN stamp[b] ELSE 0
<1>1. /\ phase = "written" /\ phase' = "idle"
      /\ active' = active \cup {n} /\ newest' = n
      /\ lock' = lock /\ type' = type /\ owner' = owner
      /\ backdated' = backdated /\ NoWriter
      /\ used' = [used EXCEPT ![n] = wused]
      /\ free' = [free EXCEPT ![n] = wfree \cup locked \cup wfreed]
      /\ at' = [at EXCEPT ![n] = [b \in Block |-> since(b)]]
    BY Zenon DEF Publish, locks
<1>2. \/ /\ records' = records \cup {[version |-> n, blocks |-> wnew]}
         /\ ckpt' = ckpt
      \/ /\ records' = {} /\ ckpt' = n
    BY Zenon DEF Publish, Checkpoint
<1>3. /\ newest \in Nat /\ MaxVersion \in Nat /\ newest < MaxVersion
      /\ n \in Version /\ n > newest /\ newest \in Version
      /\ newest \in Reachable
      /\ Reachable \subseteq Version /\ \A v \in Reachable : v <= newest
    BY <1>1, PageReuseAssumption
       DEF PageReuseAssumption, TypeOK, Versions, Version, Reachable
<1>4. /\ Reachable' \subseteq Reachable \cup {n}
      /\ newest' \in active'
    BY <1>1, <1>2, Zenon DEF Reachable
<1>5. \A b \in Block : since(b) \in 0 .. MaxVersion /\ since(b) <= n
    BY <1>1, <1>3 DEF TypeOK, WrittenGroup, Version
<1> HIDE DEF since
<1>6. /\ used'[n] = wused
      /\ free'[n] = wfree \cup locked \cup wfreed
      /\ \A b \in Block : at'[n][b] = since(b)
    BY <1>1, <1>3, Zenon DEF TypeOK
<1>7. \A v \in Reachable : used'[v] = used[v] /\ free'[v] = free[v]
                           /\ at'[v] = at[v] /\ v # n /\ v < n
    <2>1. \A v \in Reachable : v \in Version /\ v # n /\ v < n
        BY <1>3 DEF Version
    <2> QED
        BY <1>1, <2>1, Zenon DEF TypeOK
<1>8. wused \subseteq Block /\ wfree \cup locked \cup wfreed \subseteq Block
      /\ wnew \subseteq Block
    BY Zenon DEF TypeOK
<1>9. TypeOK'
    <2>1. [b \in Block |-> since(b)] \in [Block -> 0 .. MaxVersion]
        BY <1>5, Zenon
    <2>2. /\ used' \in [Version -> SUBSET Block]
          /\ free' \in [Version -> SUBSET Block]
          /\ at' \in [Version -> [Block -> 0 .. MaxVersion]]
        BY <1>1, <1>8, <2>1, Zenon DEF TypeOK
    <2>3. records' \in SUBSET [version : Version, blocks : SUBSET Block]
        BY <1>2, <1>3, <1>8 DEF TypeOK
    <2>4. ckpt' \in Version /\ active' \subseteq Version /\ newest' \in Version
        BY <1>1, <1>2, <1>3, Zenon DEF TypeOK
    <2>5. /\ tops' = {} /\ anyNew' = FALSE
          /\ wused' = {} /\ wfree' = {} /\ wnew' = {} /\ wfreed' = {}
          /\ stamp' \in [Block -> 0 .. MaxVersion]
          /\ locked' = {} /\ todo' = {}
        BY <1>1, <1>3 DEF NoWriter
    <2> QED
        BY <1>1, <2>2, <2>3, <2>4, <2>5, Zenon DEF TypeOK, Phases
<1>10. Versions'
    <2>1. \A v \in active' : v <= newest'
        BY <1>1, <1>3 DEF Reachable, Version
    <2>2. ckpt' <= newest'
        BY <1>1, <1>2, <1>3 DEF Versions, TypeOK, Version
    <2> QED
        BY <1>1, <1>4, <2>1, <2>2, Zenon DEF Versions
<1>11. FreeSince'
    <2> SUFFICES ASSUME NEW v \in Reachable', NEW b \in free'[v]
                 PROVE  /\ at'[v][b] <= v
                        /\ \A p \in Reachable' : at'[v][b] <= p /\ p <= v
                                                   => b \notin used'[p]
        BY Zenon DEF FreeSince
    <2>1. CASE v \in Reachable
        <3>1. b \in free[v] /\ at'[v][b] = at[v][b]
            BY <1>7, <2>1, Zenon
        <3>2. \A p \in Reachable' : p <= v => p \in Reachable
            <4>1. v \in Nat /\ n \in Nat /\ v < n
                BY <1>3, <1>7, <2>1 DEF Version
            <4>2. ~(n <= v)
                BY <4>1
            <4> QED
                BY <1>4, <4>2, Zenon
        <3> QED
            BY <1>7, <2>1, <3>1, <3>2, Zenon DEF FreeSince
    <2>2. CASE v = n
        <3>1. b \in wfree \cup locked \cup wfreed /\ b \in Block
            BY <1>6, <1>8, <2>2, Zenon
        <3>2. at'[v][b] = since(b) /\ since(b) <= v
            BY <1>5, <1>6, <2>2, <3>1, Zenon
        <3>3. b \notin wused
            BY <1>1, <3>1, Zenon DEF WrittenGroup
        <3>4. ASSUME NEW p \in Reachable, since(b) <= p PROVE b \notin used[p]
            <4>1. p \in Nat /\ p < n
                BY <1>3, <1>7 DEF Version
            <4>2. b \notin wfreed
                BY <1>3, <3>4, <4>1 DEF since
            <4> QED
                BY <1>1, <3>1, <3>4, <4>2, Zenon DEF since, WrittenGroup
        <3> QED
            BY <1>4, <1>6, <1>7, <3>2, <3>3, <3>4, Zenon
    <2> QED
        BY <1>4, <2>1, <2>2, Zenon
<1>12. NotBeyond'
    <2> SUFFICES ASSUME NEW v \in Reachable', NEW b \in Block,
                        b \notin used'[v] \cup free'[v],
                        NEW p \in Reachable', p <= v
                 PROVE  b \notin used'[p]
        BY Zenon DEF NotBeyond, Beyond
    <2>1. CASE v \in Reachable
        <3>1. p \in Reachable
            BY <1>3, <1>4, <1>7, <2>1 DEF Version
        <3> QED
            BY <1>7, <2>1, <3>1, Zenon DEF NotBeyond, Beyond
    <2>2. CASE v = n
        BY <1>1, <1>4, <1>6, <1>7, <2>2, Zenon DEF WrittenGroup
    <2> QED
        BY <1>4, <2>1, <2>2, Zenon
<1>13. Written'
    <2> SUFFICES ASSUME NEW v \in Reachable', NEW b \in used'[v]
                 PROVE  owner[b] <= v
        BY <1>1, Zenon DEF Written
    <2>1. CASE v \in Reachable
        BY <1>7, <2>1, Zenon DEF Written
    <2>2. CASE v = n
        <3>1. b \in wused /\ b \in Block
            BY <1>6, <1>8, <2>2, Zenon
        <3>2. CASE b \in wnew
            BY <1>1, <1>3, <2>2, <3>2 DEF WrittenGroup
        <3>3. CASE b \notin wnew
            <4>1. b \in used[newest]
                BY <1>1, <3>1, <3>3, Zenon DEF WrittenGroup
            <4>2. owner[b] <= newest /\ owner[b] \in Nat
                BY <1>3, <3>1, <4>1 DEF Written, TypeOK
            <4> QED
                BY <1>3, <2>2, <4>2
        <3> QED
            BY <3>2, <3>3, Zenon
    <2> QED
        BY <1>4, <2>1, <2>2, Zenon
<1>14. WrittenGroup'
    BY <1>1, Zenon DEF WrittenGroup, NoWriter
<1>15. JournalHeld'
    <2>1. CASE records' = {}
        BY <2>1, Zenon DEF JournalHeld
    <2>2. CASE /\ records' = records \cup {[version |-> n, blocks |-> wnew]}
               /\ ckpt' = ckpt
        <3> SUFFICES ASSUME ~backdated, NEW rec \in records'
                     PROVE  /\ ckpt < rec.version
                            /\ \A b \in rec.blocks :
                                 /\ owner[b] = rec.version
                                 /\ \/ b \in used'[n]
                                    \/ b \in free'[n] /\ at'[n][b] > ckpt
            BY <1>1, <2>2, Zenon DEF JournalHeld
        <3>1. ckpt \in Nat /\ ckpt < n
            BY <1>3 DEF Reachable, Version
        <3>2. CASE rec \in records
            <4> SUFFICES ASSUME NEW b \in rec.blocks
                         PROVE  \/ b \in used'[n]
                                \/ b \in free'[n] /\ at'[n][b] > ckpt
                BY <3>2, Zenon DEF JournalHeld
            <4>1. \/ b \in wused \cup wfreed
                  \/ b \in locked /\ stamp[b] > ckpt
                BY <1>1, <3>2, Zenon DEF JournalHeld
            <4>2. b \in Block
                BY <1>8, <4>1, Zenon
            <4> QED
                BY <1>6, <3>1, <4>1, <4>2, Zenon DEF since
        <3>3. CASE rec = [version |-> n, blocks |-> wnew]
            BY <1>1, <1>6, <3>1, <3>3, Zenon DEF WrittenGroup
        <3> QED
            BY <2>2, <3>2, <3>3, Zenon
    <2> QED
        BY <1>2, <2>1, <2>2, Zenon
<1> QED
    BY <1>9, <1>10, <1>11, <1>12, <1>13, <1>14, <1>15, Zenon

\* Every step of the file's life preserves the invariant.
LEMMA NextInductive == IInv /\ [Next]_vars => IInv'
<1> SUFFICES ASSUME IInv, [Next]_vars PROVE IInv'
    BY Zenon
<1>1. ASSUME UNCHANGED vars PROVE IInv'
    <2> USE DEF IInv, vars
    <2>1. TypeOK' /\ Versions'
        BY <1>1, Zenon DEF TypeOK, Versions, Reachable, Version, Types, Phases
    <2>2. FreeSince' /\ NotBeyond' /\ Written'
        BY <1>1, SnapshotsUnchanged, Zenon
    <2>3. WrittenGroup'
        BY <1>1, Zenon DEF WrittenGroup, Reachable
    <2>4. JournalHeld'
        BY <1>1, Zenon DEF JournalHeld
    <2> QED
        BY <2>1, <2>2, <2>3, <2>4, Zenon
<1>2. ASSUME NEW r \in Reader, NEW t \in Types,
             GrabNewest(r, t) \/ \E v \in active : GrabSpecific(r, v, t)
      PROVE  IInv'
    BY <1>2, ReadLockSteps, Zenon
<1>3. ASSUME NEW r \in Reader, ReleaseReadLock(r) PROVE IInv'
    BY <1>3, ReadLockSteps, Zenon
<1>4. ASSUME NEW b \in todo, BackdateEntry(b) PROVE IInv'
    BY <1>4, BackdateStep, Zenon
<1>5. ASSUME NEW record \in BOOLEAN, Publish(record) PROVE IInv'
    BY <1>5, PublishStep, Zenon
<1> QED
    BY <1>1, <1>2, <1>3, <1>4, <1>5, StartWriteStep, PurgeStep, WriteGroupStep,
       AbortStep, RestartStep, Zenon DEF Next

\* The invariant holds in every state of every life of the file.
LEMMA Invariance == Spec => []IInv
BY InitInductive, NextInductive, PTL DEF Spec

-----------------------------------------------------------------------------
\* The tables of the version list, the free lists and the writer keep their
\* types, whatever the blocks, the readers and the number of commits.
THEOREM TypeCorrect == Spec => []TypeOK
<1>1. IInv => TypeOK
    BY Zenon DEF IInv
<1> QED
    BY <1>1, Invariance, PTL

\* No commit (write_group, with its allocation, its back-dating and its
\* evacuation) overwrites a block of a snapshot that a transaction holds, of
\* the newest snapshot, or of the snapshot the file header points at.
THEOREM SnapshotIsolation == Spec => []SnapshotsIntact
<1>1. IInv => SnapshotsIntact
    <2> SUFFICES ASSUME IInv, NEW v \in Version,
                        Held(v) \/ v = newest \/ v = ckpt,
                        NEW b \in used[v]
                 PROVE  owner[b] <= v
        BY Zenon DEF SnapshotsIntact
    <2> USE DEF IInv
    <2>1. v # 0
        BY DEF Version
    <2>2. v \in Reachable
        BY <2>1, Zenon DEF Held, WriterHolds, Versions, Reachable
    <2> QED
        BY <2>2, Zenon DEF Written
<1> QED
    BY <1>1, Invariance, PTL

\* The assertions of get_earlier and find_cover_for never fire.
THEOREM BackdateAssertsHold == Spec => []BackdateAsserts
<1>1. IInv => BackdateAsserts
    <2> SUFFICES ASSUME IInv, NEW b \in todo, NEW oldest \in tops,
                        IsMin(oldest, tops), stamp[b] > oldest
                 PROVE  /\ \E v \in tops : v >= stamp[b]
                        /\ \E e \in tops : e \in Earlier(stamp[b])
                        /\ \A e \in Earlier(stamp[b]) :
                             /\ e < stamp[b]
                             /\ Covered(b, e) => CoverVersion(b, e) <= stamp[b]
        BY Zenon DEF BackdateAsserts
    <2> USE DEF IInv
    <2>1. b \in locked /\ b \in Block /\ stamp[b] \in Nat /\ oldest \in Nat
        BY PageReuseAssumption DEF PageReuseAssumption, TypeOK, Version
    <2>2. phase \in {"purged", "written"} => tops = Reachable
        BY Zenon DEF Versions
    <2>3. phase = "written"
        BY Zenon DEF WrittenGroup
    <2>4. \E v \in tops : v >= stamp[b]
        <3>1. newest \in tops /\ stamp[b] <= newest /\ newest \in Nat
            BY <2>1, <2>2, <2>3
               DEF Versions, Reachable, WrittenGroup, TypeOK, Version
        <3> QED
            BY <2>1, <3>1, Zenon
    <2>5. oldest \in Earlier(stamp[b])
        BY <2>1, Zenon DEF Earlier
    <2>6. ASSUME NEW e \in Earlier(stamp[b])
          PROVE  /\ e < stamp[b]
                 /\ Covered(b, e) => CoverVersion(b, e) <= stamp[b]
        <3>1. e \in Reachable /\ e < stamp[b] /\ e \in Version /\ e \in Nat
            BY <2>2, <2>3 DEF Earlier, TypeOK, Version
        <3>2. CASE b \in free[e]
            <4>1. at[e][b] <= e /\ at[e][b] \in Nat
                BY <2>1, <3>1, <3>2 DEF FreeSince, TypeOK
            <4> QED
                BY <2>1, <3>1, <3>2, <4>1 DEF CoverVersion
        <3>3. CASE b \notin free[e]
            <4>1. CoverVersion(b, e) = 0
                BY <3>3, Zenon DEF CoverVersion
            <4> QED
                BY <2>1, <3>1, <4>1
        <3> QED
            BY <3>1, <3>2, <3>3, Zenon
    <2> QED
        BY <2>4, <2>5, <2>6, Zenon
<1> QED
    BY <1>1, Invariance, PTL

\* The consistency check of recreate_freelist never fires.
THEOREM FreeListConsistent == Spec => []FreeListDisjoint
<1>1. IInv => FreeListDisjoint
    <2> SUFFICES ASSUME IInv PROVE FreeListDisjoint
        BY Zenon
    <2> USE DEF IInv
    <2>1. \A v \in Reachable : v \in Nat
        BY DEF Reachable, TypeOK, Version
    <2>2. \A v \in Reachable : used[v] \cap free[v] = {}
        BY <2>1 DEF FreeSince
    <2> QED
        BY <2>2, Zenon DEF FreeListDisjoint, WrittenGroup
<1> QED
    BY <1>1, Invariance, PTL

\* Both together: the lists a commit reads, back-dates and writes are sound.
THEOREM FreeListsAreSound == Spec => []FreeListsSound
    BY BackdateAssertsHold, FreeListConsistent, PTL DEF FreeListsSound

\* Until the back-dating changes its first entry, recovery finds the arrays
\* of every journal record as they were written.
THEOREM JournalSafeWithoutBackdating == Spec => []IntactUnlessBackdated
<1>1. IInv => IntactUnlessBackdated
    BY Zenon DEF IInv, JournalHeld, IntactUnlessBackdated, JournalPagesIntact,
         ChainValidates
<1> QED
    BY <1>1, Invariance, PTL
=============================================================================

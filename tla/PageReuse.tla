----------------------------- MODULE PageReuse -----------------------------
(***************************************************************************)
(* Copy-on-write page reuse: the VersionList of the lock file, the read    *)
(* locks on it, the free lists that GroupWriter keeps in every snapshot,   *)
(* their back-dating, and the journal checkpoint the file header points    *)
(* at (db.cpp, group_writer.cpp).                                          *)
(*                                                                         *)
(* The file is a set of blocks.  A snapshot uses some of them and lists    *)
(* the others below its logical file size as free, each with the version   *)
(* that released it (0: free for as long as anybody can tell).  A commit   *)
(* writes blocks that are free and old enough, and releases blocks of the  *)
(* snapshot it started from.                                               *)
(*                                                                         *)
(* A commit is split where other threads can step in between: the write    *)
(* lock, the purge of the version list, the writing of the group, every    *)
(* round of the back-dating loop, the publication of the new version.      *)
(***************************************************************************)
EXTENDS Naturals, FiniteSets

CONSTANTS Block,       \* allocation units of the file
          Reader,      \* transactions that hold read locks
          FirstUsed,   \* blocks of the first snapshot
          FirstFree,   \* its free blocks, all released long ago
          MaxVersion   \* bound on the versions a behaviour commits

ASSUME PageReuseAssumption ==
    /\ MaxVersion \in Nat \ {0}
    /\ FirstUsed \subseteq Block
    /\ FirstFree \subseteq Block \ FirstUsed

VARIABLES
    active,   \* VersionList: versions that have an entry
    newest,   \* VersionList.newest
    lock,     \* version each reader holds, 0 if none
    type,     \* ReadLockInfo::Type of that lock
    ckpt,     \* CommitJournal.m_checkpoint_version, the header's snapshot
    used,     \* version -> blocks reachable from its top ref
    free,     \* version -> blocks in its free list
    at,       \* version -> block -> released_at_version in its free list
    owner,    \* block -> version of the commit that wrote it last
    records,  \* journal records since the checkpoint: version and arrays
    phase,    \* where the writer is
    tops,     \* m_top_ref_map of the running commit
    anyNew,   \* m_any_new_unreachables of the running commit
    wused,    \* blocks reachable from the group being written
    wfree,    \* m_size_map: blocks still free after the writing
    wnew,     \* m_written_arrays
    wfreed,   \* m_free_read_only: blocks released by the transaction
    stamp,    \* m_not_free_in_file: released_at_version of each locked block
    locked,   \* m_not_free_in_file: its blocks
    todo,     \* entries the back-dating loop has not finished with
    backdated \* history: the loop has changed an entry

versionList == <<active, newest>>
locks       == <<lock, type>>
file        == <<used, free, at, owner>>
journal     == <<ckpt, records>>
writer      == <<tops, anyNew, wused, wfree, wnew, wfreed, stamp, locked, todo>>
vars        == <<active, newest, lock, type, ckpt, used, free, at, owner,
                 records, phase, tops, anyNew, wused, wfree, wnew, wfreed,
                 stamp, locked, todo, backdated>>

Version == 1 .. MaxVersion
Types   == {"Live", "Frozen"}
Phases  == {"idle", "begun", "purged", "written"}

IsMin(m, S) == m \in S /\ \A s \in S : m <= s
IsMax(m, S) == m \in S /\ \A s \in S : m >= s

(***************************************************************************)
(* The writer holds a Live read lock on the version it started from.       *)
(***************************************************************************)
WriterHolds(v) == phase # "idle" /\ v = newest

Held(v) == WriterHolds(v) \/ \E r \in Reader : lock[r] = v

HeldLive(v) ==
    WriterHolds(v) \/ \E r \in Reader : lock[r] = v /\ type[r] = "Live"

\* Snapshots somebody may still read: entries of the version list and the
\* snapshot the file header points at.
Reachable == active \cup {ckpt}

\* Snapshots nobody can reach any more are dropped from the model.
Forget(kept) ==
    /\ used' = [v \in Version |-> IF v \in kept THEN used[v] ELSE {}]
    /\ free' = [v \in Version |-> IF v \in kept THEN free[v] ELSE {}]
    /\ at' = [v \in Version |-> IF v \in kept THEN at[v]
                                 ELSE [b \in Block |-> 0]]
    /\ owner' = owner

NoWriter ==
    /\ tops' = {}  /\ anyNew' = FALSE
    /\ wused' = {} /\ wfree' = {} /\ wnew' = {} /\ wfreed' = {}
    /\ stamp' = [b \in Block |-> 0]
    /\ locked' = {} /\ todo' = {}

Init ==
    /\ active = {1} /\ newest = 1
    /\ lock = [r \in Reader |-> 0]
    /\ type = [r \in Reader |-> "Live"]
    /\ ckpt = 1
    /\ used = [v \in Version |-> IF v = 1 THEN FirstUsed ELSE {}]
    /\ free = [v \in Version |-> IF v = 1 THEN FirstFree ELSE {}]
    /\ at = [v \in Version |-> [b \in Block |-> 0]]
    /\ owner = [b \in Block |-> 0]
    /\ records = {}
    /\ phase = "idle"
    /\ tops = {} /\ anyNew = FALSE
    /\ wused = {} /\ wfree = {} /\ wnew = {} /\ wfreed = {}
    /\ stamp = [b \in Block |-> 0]
    /\ locked = {} /\ todo = {}
    /\ backdated = FALSE

-----------------------------------------------------------------------------
(* Read locks *)

\* grab_read_lock without a version: the newest snapshot.
GrabNewest(r, t) ==
    /\ lock[r] = 0
    /\ lock' = [lock EXCEPT ![r] = newest]
    /\ type' = [type EXCEPT ![r] = t]
    /\ UNCHANGED <<versionList, file, journal, phase, writer, backdated>>

\* grab_read_lock of a given older version: it must have an entry that is
\* held already, by a Live lock if the new lock is Live (else BadVersion).
GrabSpecific(r, v, t) ==
    /\ lock[r] = 0
    /\ v \in active /\ v # newest
    /\ IF t = "Frozen" THEN Held(v) ELSE HeldLive(v)
    /\ lock' = [lock EXCEPT ![r] = v]
    /\ type' = [type EXCEPT ![r] = t]
    /\ UNCHANGED <<versionList, file, journal, phase, writer, backdated>>

ReleaseReadLock(r) ==
    /\ lock[r] # 0
    /\ lock' = [lock EXCEPT ![r] = 0]
    /\ type' = [type EXCEPT ![r] = "Live"]
    /\ UNCHANGED <<versionList, file, journal, phase, writer, backdated>>

-----------------------------------------------------------------------------
(* The write transaction *)

StartWrite ==
    /\ phase = "idle"
    /\ phase' = "begun"
    /\ UNCHANGED <<versionList, locks, file, journal, writer, backdated>>

\* low_level_commit adds the journal's checkpoint to what purge_versions found
\* reachable, so that its pages are not reused before the next checkpoint.
TopsWithoutCheckpoint(reachable) == reachable              \* mutant
TopRefs(reachable) == reachable \cup {ckpt}

\* purge_versions keeps the entries that are held and frees the others.
PurgeVersions ==
    LET reachable == {v \in active : Held(v)}
        purged    == active \ reachable
    IN /\ phase = "begun"
       /\ newest < MaxVersion
       /\ active' = reachable
       /\ anyNew' = \E v \in purged : \E m \in reachable : v > m
       /\ tops' = TopRefs(reachable)
       /\ phase' = "purged"
       /\ Forget(reachable \cup {ckpt})
       /\ UNCHANGED <<newest, locks, journal, wused, wfree, wnew, wfreed,
                      stamp, locked, todo, backdated>>

\* read_in_freelist: an entry is a candidate for allocation if it was
\* released no later than the oldest reachable version.
Available(oldest) ==
    {b \in free[newest] : at[newest][b] <= oldest}

\* Blocks at or beyond the logical end of file of snapshot v.
Beyond(v) == Block \ (used[v] \cup free[v])

\* Free space left in m_size_map: reserve_free_space takes what it hands out
\* off the map.
RemainsAll(avail, ext, new, cut) == (avail \cup ext) \ cut   \* mutant
Remains(avail, ext, new, cut) == ((avail \cup ext) \ new) \ cut

\* Only if versions above the oldest reachable one were purged is there
\* anything to back-date.
ToBackdate(entries) == IF anyNew THEN entries ELSE {}

\* write_group up to the back-dating: allocate and write.  "ext" is what
\* extend_free_space adds to the file, "cut" what the end of an evacuation
\* takes off it; extending gives up the evacuation first.
WriteGroup ==
    /\ phase = "purged"
    /\ \E oldest \in tops :
        /\ IsMin(oldest, tops)
        /\ \E freed \in SUBSET used[newest], ext \in SUBSET Beyond(newest),
              new \in SUBSET (Available(oldest) \cup Beyond(newest)) :
            /\ freed # {} /\ new # {}
            /\ new \cap Beyond(newest) \subseteq ext
            /\ \E cut \in SUBSET (Available(oldest) \ new) :
                /\ ext = {} \/ cut = {}
                /\ wfreed' = freed
                /\ wnew' = new
                /\ wused' = (used[newest] \ freed) \cup new
                /\ wfree' = Remains(Available(oldest), ext, new, cut)
                /\ locked' = free[newest] \ Available(oldest)
                /\ stamp' = [b \in Block |-> IF b \in locked'
                                             THEN at[newest][b] ELSE 0]
                /\ todo' = ToBackdate(locked')
                /\ owner' = [b \in Block |-> IF b \in new
                                             THEN newest + 1 ELSE owner[b]]
    /\ phase' = "written"
    /\ UNCHANGED <<versionList, locks, used, free, at, journal, tops, anyNew,
                   backdated>>

\* find_cover_for: is b free in the free list of snapshot e, or beyond the
\* end of its file, and then since when?
Covered(b, e) == b \in free[e] \cup Beyond(e)
CoverVersion(b, e) == IF b \in free[e] THEN at[e][b] ELSE 0

\* get_earlier: the versions older than a release.
Earlier(release) == {v \in tops : v < release}

\* One round of backdate_single_entry: look b up in the free list of the
\* youngest reachable version older than its release.
BackdateEntry(b) ==
    /\ phase = "written"
    /\ b \in todo
    /\ \E oldest \in tops :
        /\ IsMin(oldest, tops)
        /\ \/ /\ stamp[b] = newest + 1 \/ stamp[b] <= oldest
              /\ todo' = todo \ {b}
              /\ UNCHANGED <<stamp, backdated>>
           \/ /\ stamp[b] # newest + 1 /\ stamp[b] > oldest
              /\ \E e \in tops :
                  /\ IsMax(e, Earlier(stamp[b]))
                  /\ IF Covered(b, e)
                     THEN /\ stamp' = [stamp EXCEPT ![b] = CoverVersion(b, e)]
                          /\ backdated' = TRUE
                          /\ todo' = todo
                     ELSE /\ todo' = todo \ {b}
                          /\ UNCHANGED <<stamp, backdated>>
    /\ UNCHANGED <<versionList, locks, file, journal, phase, tops, anyNew,
                   wused, wfree, wnew, wfreed, locked>>

\* The header points at the new version and the journal starts anew.
CheckpointKeepsRecords(n) == ckpt' = n /\ UNCHANGED records   \* mutant
Checkpoint(n) == ckpt' = n /\ records' = {}

\* recreate_freelist, then the new version becomes the newest entry of the
\* version list.  "record": journalled; otherwise a checkpoint moved the
\* header to it and reset the journal.
Publish(record) ==
    LET n == newest + 1
    IN /\ phase = "written" /\ todo = {}
       /\ active' = active \cup {n}
       /\ newest' = n
       /\ used' = [used EXCEPT ![n] = wused]
       /\ free' = [free EXCEPT ![n] = wfree \cup locked \cup wfreed]
       /\ at' = [at EXCEPT ![n] = [b \in Block |->
                    IF b \in wfreed THEN n
                    ELSE IF b \in locked THEN stamp[b] ELSE 0]]
       /\ IF record
          THEN /\ records' = records \cup {[version |-> n, blocks |-> wnew]}
               /\ UNCHANGED ckpt
          ELSE Checkpoint(n)
       /\ phase' = "idle"
       /\ NoWriter
       /\ UNCHANGED <<locks, owner, backdated>>

\* An exception on the way (or rollback()): nothing was published; what was
\* written stays where it is.
AbortWrite ==
    /\ phase # "idle"
    /\ phase' = "idle"
    /\ NoWriter
    /\ UNCHANGED <<versionList, locks, file, journal, backdated>>

\* Recovery compares the checksum of every array that a journal record lists
\* with what the file holds there.
ChainValidates ==
    \A rec \in records : \A b \in rec.blocks : owner[b] = rec.version

\* The last participant leaves, or everybody crashes: the next session
\* starts a version list with the recovered snapshot only.  A chain that
\* does not validate makes the open throw.
RestartSession ==
    /\ phase = "idle"
    /\ ChainValidates
    /\ active' = {newest}
    /\ lock' = [r \in Reader |-> 0]
    /\ type' = [r \in Reader |-> "Live"]
    /\ Forget({newest, ckpt})
    /\ UNCHANGED <<newest, journal, phase, writer, backdated>>

Next ==
    \/ \E r \in Reader, t \in Types :
          \/ GrabNewest(r, t)
          \/ \E v \in active : GrabSpecific(r, v, t)
    \/ \E r \in Reader : ReleaseReadLock(r)
    \/ StartWrite
    \/ PurgeVersions
    \/ WriteGroup
    \/ \E b \in todo : BackdateEntry(b)
    \/ \E record \in BOOLEAN : Publish(record)
    \/ AbortWrite
    \/ RestartSession

Spec == Init /\ [][Next]_vars
-----------------------------------------------------------------------------
(* Properties *)

\* Every variable has its type: versions within the bound, block sets within
\* the file, the writer's tables only while a commit runs.
TypeOK ==
    /\ active \subseteq Version /\ newest \in Version /\ ckpt \in Version
    /\ lock \in [Reader -> 0 .. MaxVersion]
    /\ type \in [Reader -> Types]
    /\ used \in [Version -> SUBSET Block]
    /\ free \in [Version -> SUBSET Block]
    /\ at \in [Version -> [Block -> 0 .. MaxVersion]]
    /\ owner \in [Block -> 0 .. MaxVersion]
    /\ records \in SUBSET [version : Version, blocks : SUBSET Block]
    /\ phase \in Phases
    /\ tops \subseteq Version
    /\ anyNew \in BOOLEAN /\ backdated \in BOOLEAN
    /\ wused \subseteq Block /\ wfree \subseteq Block
    /\ wnew \subseteq Block /\ wfreed \subseteq Block
    /\ locked \subseteq Block /\ todo \subseteq locked
    /\ stamp \in [Block -> 0 .. MaxVersion]

\* No commit overwrites a block of a snapshot that a transaction holds, of
\* the newest snapshot, or of the snapshot the file header points at: every
\* block such a snapshot uses was last written by a commit that is part of it.
SnapshotsIntact ==
    \A v \in Version :
        (Held(v) \/ v = newest \/ v = ckpt) =>
            \A b \in used[v] : owner[b] <= v

\* The assertions of the back-dating loop hold: the free list of an older
\* reachable version exists and so does one that is not older (get_earlier),
\* and a covering entry was not released later than the entry it covers.
BackdateAsserts ==
    \A b \in todo : \A oldest \in tops :
        IsMin(oldest, tops) /\ stamp[b] # newest + 1 /\ stamp[b] > oldest =>
            /\ \E v \in tops : v >= stamp[b]
            /\ \E e \in tops : e \in Earlier(stamp[b])
            /\ \A e \in Earlier(stamp[b]) :
                 IsMax(e, Earlier(stamp[b])) =>
                     /\ e < stamp[b]
                     /\ Covered(b, e) => CoverVersion(b, e) <= stamp[b]

\* The consistency check of recreate_freelist never fires: no block is both
\* used and free in a snapshot somebody may still read, and the parts the new
\* free list is put together from (what is left of the free space, what older
\* snapshots lock, what the transaction released) do not overlap.
FreeListDisjoint ==
    /\ \A v \in Reachable : used[v] \cap free[v] = {}
    /\ phase = "written" =>
         /\ wused \cap (wfree \cup locked \cup wfreed) = {}
         /\ locked \cap (wfree \cup wfreed) = {}
         /\ wfree \cap wfreed = {}

\* Every array a journal record lists still has the content whose checksum
\* the record holds, so that the chain validates after a restart.
JournalPagesIntact == ChainValidates

\* As long as no entry of a free list has been back-dated, the arrays of
\* every journal record are intact.
IntactUnlessBackdated == ~backdated => JournalPagesIntact

\* The free lists are sound: the assertions of the back-dating loop hold, and
\* no block is in two of the sets a new list is put together from.
FreeListsSound == BackdateAsserts /\ FreeListDisjoint
=============================================================================

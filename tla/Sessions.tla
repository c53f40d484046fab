------------------------------ MODULE Sessions ------------------------------
(***************************************************************************)
(* DB objects that share a database through its lock file: the session     *)
(* protocol of DB::open and DB::close, the read and write transactions     *)
(* between them, the commit that publishes a version, compaction, and the  *)
(* death of a process at any point.                                        *)
(*                                                                         *)
(* A DB object stands for a process of its own: it may die, taking its     *)
(* mutexes and file locks with it but leaving what it wrote to the lock    *)
(* file.  DB::m_mutex makes the grab or the release of a read lock one     *)
(* step; the write mutex is held from BeginWrite to the end of the write.  *)
(***************************************************************************)
EXTENDS VersionList

CONSTANTS DB,          \* DB objects, each in a process of its own
          Parallel,    \* those of them with two transactions at a time
          MaxDeaths,   \* bound: processes that die
          MaxVersion,  \* bound on the versions of a behaviour
          OpenReads    \* may close(true) leave read transactions behind?

ASSUME SessionsAssumption ==
    /\ Parallel \subseteq DB /\ MaxDeaths \in Nat
    /\ MaxVersion \in Nat \ {0} /\ OpenReads \in BOOLEAN

\* The transactions that may be open at a time
Txn == (DB \X {1}) \cup (Parallel \X {2})

\* Which of them take part in a behaviour, and how many processes may die in it
Setups == {[txns |-> Txn, crashes |-> 0, died |-> 0],
           [txns |-> DB \X {1}, crashes |-> MaxDeaths, died |-> 0]}

VARIABLES list,     \* SharedInfo::readers
          info,     \* the rest of SharedInfo this protocol depends on
          file,     \* version a session that begins now would find on disk
          db,       \* what each DB keeps about the list
          pc,       \* where each DB is between open() and close()
          excl,     \* holder of the exclusive lock on the lock file, if any
          shared,   \* holders of the shared lock
          control,  \* holder of the control mutex, if any
          writing,  \* holder of the write mutex, if any
          phase,    \* how far its commit has come
          stage,    \* m_transact_stage of each transaction, or a step of it
          lock,     \* m_read_lock of each transaction
          setup     \* the setup of this behaviour, with the processes that died

locking == <<list, db, lock>>
opening == <<pc, excl, shared, control>>
commit  == <<writing, phase>>
vars == <<locking, opening, commit, info, file, stage, setup>>

Own(p) == {t \in Txn : t[1] = p}

NoLock == [idx |-> 0, type |-> "Live", version |-> 0]
Locks == [idx : Entry, type : Type, version : 0 .. MaxVersion]
Newest == list.entry[list.newest].version

Truncated  == [init |-> FALSE, num |-> 0, critical |-> FALSE, latest |-> 0]
SharedInfo == [Truncated EXCEPT !.init = TRUE]

SessionsInit ==
    /\ list = NoList /\ info = Truncated /\ file = 1
    /\ db = [p \in DB |-> NoDB] /\ pc = [p \in DB |-> "closed"]
    /\ excl = {} /\ shared = {} /\ control = {}
    /\ writing = {} /\ phase = "idle"
    /\ stage = [t \in Txn |-> "Ready"] /\ lock = [t \in Txn |-> NoLock]
    /\ setup \in Setups

-----------------------------------------------------------------------------
(* DB::open.  Whoever finds nobody on the lock file initialises it.        *)

Goto(p, there) == pc' = [pc EXCEPT ![p] = there]

TryExclusive(p) ==
    /\ pc[p] = "closed"
    /\ IF excl = {} /\ shared = {}
         THEN excl' = {p} /\ Goto(p, "alone")
         ELSE excl' = excl /\ Goto(p, "wait")
    /\ UNCHANGED <<locking, commit, shared, control, info, file, stage, setup>>

Truncate(p) ==
    /\ pc[p] = "alone"
    /\ info' = Truncated /\ list' = NoList
    /\ Goto(p, "truncated")
    /\ UNCHANGED <<db, lock, excl, shared, control, commit, file, stage, setup>>

Construct(p) ==
    /\ pc[p] = "truncated"
    /\ info' = SharedInfo /\ list' = Reserve(NoList, InitEntries)
    /\ excl' = {} /\ Goto(p, "wait")
    /\ UNCHANGED <<db, lock, shared, control, commit, file, stage, setup>>

LockShared(p) ==
    /\ pc[p] = "wait" /\ excl = {}
    /\ shared' = shared \cup {p} /\ Goto(p, "check")
    /\ UNCHANGED <<locking, commit, excl, control, info, file, stage, setup>>

\* A lock file that is empty or not completely initialised: start over.
CheckInit(p) ==
    /\ pc[p] = "check"
    /\ IF info.init THEN shared' = shared /\ Goto(p, "join")
                    ELSE shared' = shared \ {p} /\ Goto(p, "closed")
    /\ UNCHANGED <<locking, commit, excl, control, info, file, stage, setup>>

LockControl(p) ==
    /\ pc[p] = "join" /\ control = {}
    /\ control' = {p} /\ Goto(p, "attach")
    /\ db' = [db EXCEPT ![p] = [NoDB EXCEPT !.mapped = list.entries]]
    /\ UNCHANGED <<list, lock, commit, excl, shared, info, file, stage, setup>>

\* The allocator asks for another try, or the file changed its size.
AttachRetry(p) ==
    /\ pc[p] = "attach"
    /\ control' = {} /\ shared' = shared \ {p} /\ Goto(p, "closed")
    /\ UNCHANGED <<locking, commit, excl, info, file, stage, setup>>

\* The first participant sets up the list from what the file holds.
BeginSession(p) ==
    /\ pc[p] = "attach"
    /\ IF info.num = 0
         THEN info' = [info EXCEPT !.latest = file] /\ list' = InitVersioning(list, file)
         ELSE UNCHANGED <<info, list>>
    /\ Goto(p, "attached")
    /\ UNCHANGED <<db, lock, excl, shared, control, commit, file, stage, setup>>

Join(p) ==
    /\ pc[p] = "attached"
    /\ info' = [info EXCEPT !.num = @ + 1]
    /\ control' = {} /\ Goto(p, "open")
    /\ UNCHANGED <<locking, excl, shared, commit, file, stage, setup>>

-----------------------------------------------------------------------------
(* Transactions.                                                           *)

IsOpen(p) == pc[p] = "open"

Grab(t, ty, i, want) ==
    LET p == t[1]
    IN /\ CanGrab(list, db[p], ty, i, want)
       /\ lock' = [lock EXCEPT ![t] = Lock(list, db[p], ty, i, want)]
       /\ list' = GrabInList(list, db[p], ty, i, want)
       /\ db' = [db EXCEPT ![p] = GrabInDB(list, db[p], ty, i, want)]

GrabNewest(t, ty)   == Grab(t, ty, list.newest, 1 .. MaxVersion)
GrabOneOf(t, ty, u) == Grab(t, ty, lock[u].idx, {lock[u].version})

Release(t) ==
    /\ list' = ReleaseInList(list, db[t[1]], lock[t])
    /\ db' = [db EXCEPT ![t[1]] = ReleaseInDB(@, lock[t])]
    /\ lock' = [lock EXCEPT ![t] = NoLock]

\* Grab the newest version, then let go of the one held so far.
MoveToNewest(t) ==
    LET p    == t[1]
        want == 1 .. MaxVersion
        L    == GrabInList(list, db[p], "Live", list.newest, want)
        d    == GrabInDB(list, db[p], "Live", list.newest, want)
    IN /\ CanGrab(list, db[p], "Live", list.newest, want)
       /\ lock' = [lock EXCEPT ![t] = Lock(list, db[p], "Live", list.newest, want)]
       /\ list' = ReleaseInList(L, d, lock[t])
       /\ db' = [db EXCEPT ![p] = ReleaseInDB(d, lock[t])]

SetStage(t, s) == stage' = [stage EXCEPT ![t] = s]

\* start_read and start_frozen, of the newest version or of the one another
\* transaction is bound to (whose VersionID is all a caller can know of).
StartRead(t) ==
    /\ IsOpen(t[1]) /\ stage[t] = "Ready"
    /\ \/ GrabNewest(t, "Live") /\ SetStage(t, "Reading")
       \/ GrabNewest(t, "Frozen") /\ SetStage(t, "Frozen")
    /\ UNCHANGED <<opening, commit, info, file, setup>>

StartReadAt(t, u) ==
    /\ IsOpen(t[1]) /\ stage[t] = "Ready" /\ lock[u] # NoLock
    /\ \/ GrabOneOf(t, "Live", u) /\ SetStage(t, "Reading")
       \/ GrabOneOf(t, "Frozen", u) /\ SetStage(t, "Frozen")
    /\ UNCHANGED <<opening, commit, info, file, setup>>

AdvanceRead(t) ==
    /\ IsOpen(t[1]) /\ stage[t] = "Reading" /\ Newest > lock[t].version
    /\ MoveToNewest(t)
    /\ UNCHANGED <<opening, commit, info, file, stage, setup>>

\* do_end_read, alone or as the end of commit() and rollback().
EndRead(t) ==
    /\ IsOpen(t[1]) /\ stage[t] \in {"Reading", "Frozen", "Ending"}
    /\ Release(t) /\ SetStage(t, "Ready")
    /\ UNCHANGED <<opening, commit, info, file, setup>>

\* finish_begin_write refuses while a commit may be half published.  Who gets
\* the write mutex is the subject of WriteLock.
BeginWrite(t) ==
    /\ IsOpen(t[1]) /\ stage[t] \in {"Ready", "Reading"}
    /\ writing = {} /\ ~info.critical
    /\ writing' = {t}
    /\ SetStage(t, IF stage[t] = "Ready" THEN "Starting" ELSE "Promoting")
    /\ UNCHANGED <<locking, opening, phase, info, file, setup>>

\* start_write, and promote_to_write, which advances the read first.
StartWrite(t) ==
    /\ IsOpen(t[1])
    /\ \/ stage[t] = "Starting" /\ GrabNewest(t, "Live")
       \/ stage[t] = "Promoting" /\ MoveToNewest(t)
    /\ SetStage(t, "Writing")
    /\ UNCHANGED <<opening, commit, info, file, setup>>

EndWrite == writing' = {} /\ phase' = "idle"

Rollback(t) ==
    /\ stage[t] = "Writing" /\ phase = "idle"
    /\ EndWrite
    /\ stage' \in {[stage EXCEPT ![t] = s] : s \in {"Ending", "Reading"}}
    /\ UNCHANGED <<locking, opening, info, file, setup>>

-----------------------------------------------------------------------------
(* do_commit and low_level_commit.                                         *)

Committing(t, here) == stage[t] = "Writing" /\ phase = here

Cleanup(t) ==
    /\ Committing(t, "idle") /\ Newest < MaxVersion
    /\ list' = PurgeVersions(list)
    /\ db' = [db EXCEPT ![t[1]].mapped = list.entries]
    /\ phase' = "purged"
    /\ UNCHANGED <<lock, writing, opening, info, file, stage, setup>>

\* A journal commit raises the flag first and then makes its record durable.
JournalAppend(t) ==
    /\ Committing(t, "purged")
    /\ info' = [info EXCEPT !.critical = TRUE] /\ phase' = "appended"
    /\ UNCHANGED <<locking, writing, opening, file, stage, setup>>

\* A checkpoint flips the header before the flag is raised.
MakeDurable(t) ==
    /\ Committing(t, "purged") \/ Committing(t, "appended")
    /\ file' = Newest + 1 /\ phase' = "durable"
    /\ UNCHANGED <<locking, writing, opening, info, stage, setup>>

\* An exception on the way: the transaction may be rolled back or committed
\* again, and its outcome on disk is open.
CommitFails(t) ==
    /\ stage[t] = "Writing" /\ phase \in {"purged", "appended", "durable"}
    /\ file' \in {file, Newest + 1} /\ phase' = "idle"
    /\ UNCHANGED <<locking, writing, opening, info, stage, setup>>

\* add_version, growing a list that is full.
AddVersion(t) ==
    /\ Committing(t, "durable")
    /\ FreeEntries(list) = {} => list.entries < MaxEntries
    /\ info' = [info EXCEPT !.critical = TRUE]
    /\ LET L == IF FreeEntries(list) = {} THEN Reserve(list, list.entries + 1) ELSE list
       IN list' = Claim(L) /\ db' = [db EXCEPT ![t[1]].mapped = L.entries]
    /\ phase' = "claimed"
    /\ UNCHANGED <<lock, writing, opening, file, stage, setup>>

FillEntry(t) ==
    /\ Committing(t, "claimed")
    /\ list' = Fill(list, Newest + 1) /\ phase' = "filled"
    /\ UNCHANGED <<db, lock, writing, opening, info, file, stage, setup>>

StoreNewest(t) ==
    /\ Committing(t, "filled")
    /\ list' = Store(list) /\ phase' = "stored"
    /\ UNCHANGED <<db, lock, writing, opening, info, file, stage, setup>>

LeaveCritical(t) ==
    /\ Committing(t, "stored")
    /\ info' = [info EXCEPT !.critical = FALSE] /\ phase' = "published"
    /\ UNCHANGED <<locking, writing, opening, file, stage, setup>>

Announce(t) ==
    /\ Committing(t, "published") /\ control = {}
    /\ info' = [info EXCEPT !.latest = Newest] /\ phase' = "announced"
    /\ UNCHANGED <<locking, writing, opening, file, stage, setup>>

\* What commit(), commit_and_continue_as_read() and
\* commit_and_continue_writing() go on to do.
Commit(t) ==
    /\ Committing(t, "announced")
    /\ EndWrite /\ SetStage(t, "Ending")
    /\ UNCHANGED <<locking, opening, info, file, setup>>

CommitAndContinueAsRead(t) ==
    /\ Committing(t, "announced")
    /\ MoveToNewest(t) /\ EndWrite /\ SetStage(t, "Reading")
    /\ UNCHANGED <<opening, info, file, setup>>

CommitAndContinueWriting(t) ==
    /\ Committing(t, "announced")
    /\ MoveToNewest(t) /\ phase' = "idle"
    /\ UNCHANGED <<writing, opening, info, file, stage, setup>>

-----------------------------------------------------------------------------
(* DB::compact and DB::close, and the death of a process.                  *)

CompactAnyway(p) ==                                              \* mutant
    /\ IsOpen(p) /\ control = {} /\ db[p].held = <<>>
    /\ control' = {p} /\ Goto(p, "compacting")
    /\ UNCHANGED <<locking, commit, excl, shared, info, file, stage, setup>>

Compact(p) ==
    /\ IsOpen(p) /\ control = {} /\ info.num <= 1 /\ db[p].held = <<>>
    /\ control' = {p} /\ Goto(p, "compacting")
    /\ UNCHANGED <<locking, commit, excl, shared, info, file, stage, setup>>

\* The new file takes the old one's place, with a bumped version or not.
CompactMove(p) ==
    /\ pc[p] = "compacting"
    /\ file' \in {info.latest, info.latest + 1} /\ file' <= MaxVersion
    /\ info' = [info EXCEPT !.latest = file'] /\ Goto(p, "moved")
    /\ UNCHANGED <<locking, commit, excl, shared, control, stage, setup>>

CompactInit(p) ==
    /\ pc[p] = "moved"
    /\ list' = InitVersioning(list, info.latest)
    /\ control' = {} /\ Goto(p, "open")
    /\ UNCHANGED <<db, lock, commit, excl, shared, info, file, stage, setup>>

\* close refuses while a write, or without OpenReads a read, is open.
Close(p) ==
    /\ IsOpen(p) /\ writing \cap Own(p) = {}
    /\ db[p].held = <<>> \/ OpenReads
    /\ Goto(p, "closing")
    /\ UNCHANGED <<locking, commit, excl, shared, control, info, file, stage, setup>>

Forgotten(p) ==
    /\ lock' = [t \in Txn |-> IF t \in Own(p) THEN NoLock ELSE lock[t]]
    /\ stage' = [t \in Txn |-> IF t \in Own(p) THEN "Ready" ELSE stage[t]]

CloseInternal(p) ==
    /\ pc[p] = "closing" /\ control = {}
    /\ LET r == ReleaseAll(list, db[p])
       IN list' = r.list /\ db' = [db EXCEPT ![p] = [r.db EXCEPT !.held = <<>>]]
    /\ Forgotten(p)
    /\ info' = [info EXCEPT !.num = @ - 1]
    /\ Goto(p, "leaving")
    /\ UNCHANGED <<excl, shared, control, commit, file, setup>>

Leave(p) ==
    /\ pc[p] = "leaving"
    /\ db' = [db EXCEPT ![p] = NoDB]
    /\ shared' = shared \ {p} /\ Goto(p, "closed")
    /\ UNCHANGED <<list, lock, commit, excl, control, info, file, stage, setup>>

\* What a commit has written survives its process: a record that is complete
\* in the file is found by the next session.
Crash(p) ==
    /\ pc[p] # "closed" /\ setup.died < setup.crashes
    /\ IF writing \cap Own(p) # {} /\ phase \in {"purged", "appended"}
         THEN file' \in {file, Newest + 1} ELSE file' = file
    /\ excl' = excl \ {p} /\ shared' = shared \ {p} /\ control' = control \ {p}
    /\ writing' = writing \ Own(p)
    /\ phase' = IF writing' = {} THEN "idle" ELSE phase
    /\ db' = [db EXCEPT ![p] = NoDB] /\ Goto(p, "closed") /\ Forgotten(p)
    /\ setup' = [setup EXCEPT !.died = @ + 1]
    /\ UNCHANGED <<list, info>>

Opening(p) ==
    \/ TryExclusive(p) \/ Truncate(p) \/ Construct(p) \/ LockShared(p)
    \/ CheckInit(p) \/ LockControl(p) \/ AttachRetry(p) \/ BeginSession(p) \/ Join(p)
Transaction(t) ==
    \/ StartRead(t) \/ (\E u \in Txn : StartReadAt(t, u)) \/ AdvanceRead(t)
    \/ EndRead(t) \/ BeginWrite(t) \/ StartWrite(t) \/ Rollback(t)
Committed(t) ==
    \/ Cleanup(t) \/ JournalAppend(t) \/ MakeDurable(t) \/ CommitFails(t)
    \/ AddVersion(t) \/ FillEntry(t) \/ StoreNewest(t) \/ LeaveCritical(t)
    \/ Announce(t) \/ Commit(t) \/ CommitAndContinueAsRead(t)
    \/ CommitAndContinueWriting(t)
Leaving(p) ==
    \/ Compact(p) \/ CompactMove(p) \/ CompactInit(p)
    \/ Close(p) \/ CloseInternal(p) \/ Leave(p) \/ Crash(p)

SessionsNext ==
    \/ \E p \in DB : Opening(p) \/ Leaving(p)
    \/ \E t \in setup.txns : Transaction(t) \/ Committed(t)

SessionsSpec == SessionsInit /\ [][SessionsNext]_vars

-----------------------------------------------------------------------------
(* Properties *)

\* Entries, locks, counters and program points keep to their sets.
TypeOK ==
    /\ list.entry \in [Entry -> [version : 0 .. MaxVersion, count : [Type -> 0 .. Word - 1]]]
    /\ list.entries \in 0 .. MaxEntries
    /\ list.allocating \in Entry /\ list.newest \in Entry \cup {Nil}
    /\ info \in [init : BOOLEAN, num : Nat,
                  critical : BOOLEAN, latest : 0 .. MaxVersion]
    /\ file \in 1 .. MaxVersion
    /\ lock \in [Txn -> Locks]
    /\ Cardinality(excl) <= 1 /\ Cardinality(control) <= 1 /\ Cardinality(writing) <= 1

\* The entry of the version a transaction reads is still that version's, and
\* both the shared list and the DB's cache count the lock, whatever other
\* processes publish, purge, compact, restart or leave half done: so
\* purge_versions spares it, and the assertions of release_read_lock hold.
PinnedVersionsStay ==
    \A t \in Txn : lock[t] # NoLock =>
        LET l == lock[t]
        IN /\ list.entry[l.idx].version = l.version
           /\ list.entry[l.idx].count[l.type] > 0
           /\ db[t[1]].local[l.idx].version = l.version
           /\ db[t[1]].local[l.idx].count[l.type] > 0
           /\ l.idx < db[t[1]].mapped

\* While nobody dies, an entry's shared counter is the number of DBs that hold
\* a lock of that type on it, and no lock outlives its DB: a version is kept
\* for its readers and for nobody else.
CountsExact ==
    setup.died = 0 =>
        \A i \in Entry, ty \in Type :
            list.entry[i].count[ty] =
              Cardinality({p \in DB : \E t \in Own(p) :
                  lock[t] # NoLock /\ lock[t].idx = i /\ lock[t].type = ty})

\* Outside the critical phase of a commit the list is settled: "allocating" is
\* "newest", which is active.  So no writer that finish_begin_write lets in
\* ever meets an allocation that a crash cut short.
ListSettled ==
    (list.newest # Nil /\ ~info.critical) =>
        list.allocating = list.newest /\ IsActive(list.entry[list.newest])

\* A commit is based on the newest version and its purge leaves that version,
\* which is what the assertions of purge_versions require.
WriterHoldsNewest ==
    \A t \in Txn : (stage[t] = "Writing" /\ phase \in {"idle", "purged", "appended", "durable"}) =>
        lock[t].idx = list.newest /\ lock[t].version = Newest

\* The list, its caches and the session protocol provide snapshots: versions
\* that stay as long as they are pinned, one more per commit, all gone only
\* when nobody reads.
Snapshot == INSTANCE Snapshots WITH
    kept    <- IF list.newest = Nil THEN {file}
               ELSE {list.entry[i].version : i \in {j \in Entry : IsActive(list.entry[j])
                        /\ (j = list.allocating => j = list.newest)}},
    current <- IF list.newest = Nil THEN file ELSE Newest,
    pin     <- [t \in Txn |-> lock[t].version]
ImplementsSnapshots == Snapshot!SnapshotsSpec

\* The version list serves its readers and its writer: what is pinned stays,
\* the list is settled between commits, and a commit starts from the newest.
VersionsKept ==
    /\ TypeOK
    /\ PinnedVersionsStay
    /\ ListSettled
    /\ WriterHoldsNewest
=============================================================================

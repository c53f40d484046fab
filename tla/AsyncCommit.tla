---------------------------- MODULE AsyncCommit ----------------------------
(***************************************************************************)
(* Asynchronous writes: the DB's AsyncCommitHelper, whose thread acquires  *)
(* and releases the write mutex and syncs commits for others, and the      *)
(* async stages of the transactions that use it (db.cpp, transaction.cpp). *)
(*                                                                         *)
(* Each transaction is driven by a thread of its own.  What the helper's   *)
(* m_mutex protects is one step; a wait on a condition variable is a       *)
(* program point that only a notification, or its predicate, leaves.       *)
(***************************************************************************)
EXTENDS Naturals, Sequences, FiniteSets

CONSTANTS Txn,         \* transactions of one DB
          Unconfined,  \* those of them in behaviours where any thread may
                       \* unlock the write mutex
          MaxVersion   \* bound: number of versions

ASSUME AsyncCommitAssumption ==
    /\ Unconfined \subseteq Txn /\ MaxVersion \in Nat
    /\ "worker" \notin Txn /\ "other" \notin Txn

\* Who takes part, and InterprocessMutex::is_thread_confined: except on Apple
\* platforms the thread that locked the mutex has to unlock it.  The third
\* setup goes one version further, with neither TryPromote nor other processes.
Setups ==
    {[confined |-> TRUE, txns |-> Txn, tries |-> TRUE, others |-> TRUE, last |-> MaxVersion],
     [confined |-> FALSE, txns |-> Unconfined, tries |-> TRUE, others |-> TRUE,
      last |-> MaxVersion],
     [confined |-> TRUE, txns |-> Txn, tries |-> FALSE, others |-> FALSE,
      last |-> MaxVersion + 1]}

VARIABLES setup,   \* the setup of this behaviour
          mutex,   \* holder of the write mutex: "worker", "other" or a txn
          helper,  \* the helper's fields
          worker,  \* where its thread is
          serving, \* the transaction whose callback it runs, if any
          stage,   \* m_transact_stage
          async,   \* m_async_stage
          blocked, \* where the thread of a transaction waits
          read,    \* version of m_read_lock
          oldest,  \* version of m_oldest_version_not_persisted, 0 if none
          failed,  \* m_async_commit_has_failed
          newest,  \* newest version in the version list
          file,    \* version the file header refers to
          leaked,  \* versions pinned by leak_read_lock
          mixed    \* history: see Mixes

txnVars == <<stage, async, blocked, read, oldest, failed>>
dataVars == <<newest, file, leaked>>
asyncVars == <<setup, mutex, helper, worker, serving, txnVars, dataVars>>

Idle == [has |-> FALSE, owns |-> FALSE, busy |-> FALSE, release |-> FALSE,
         sync |-> {}, queue |-> <<>>, claims |-> <<>>]

AsyncInit ==
    /\ setup \in Setups
    /\ mutex = {} /\ helper = Idle /\ worker = "off" /\ serving = {}
    /\ stage = [t \in Txn |-> "Reading"] /\ async = [t \in Txn |-> "Idle"]
    /\ blocked = [t \in Txn |-> "no"]
    /\ read = [t \in Txn |-> 1] /\ oldest = [t \in Txn |-> 0]
    /\ failed = [t \in Txn |-> FALSE]
    /\ newest = 1 /\ file = 1 /\ leaked = {} /\ mixed = FALSE

HasPendingQueue(h) == h.queue # <<>>                             \* mutant
HasPendingWrites(h) == h.claims # <<>> \/ h.queue # <<>>

\* m_cv_worker.notify_one(), after start_thread(); lost unless it waits.
Notify == worker' = IF worker \in {"off", "wait"} THEN "loop" ELSE worker

SetStage(t, s)   == stage' = [stage EXCEPT ![t] = s]
SetAsync(t, s)   == async' = [async EXCEPT ![t] = s]
SetBlocked(t, s) == blocked' = [blocked EXCEPT ![t] = s]
Runs(t) == blocked[t] = "no" /\ stage[t] \in {"Reading", "Writing"}
HoldsWriteMutex(t) == async[t] \in {"HasLock", "HasCommits"}

-----------------------------------------------------------------------------
(* Acquiring the write lock.                                               *)

\* async_request_write_mutex
Request(t) ==
    /\ Runs(t) /\ stage[t] = "Reading" /\ async[t] = "Idle"
    /\ SetAsync(t, "Requesting")
    /\ helper' = [helper EXCEPT !.queue = Append(@, t)] /\ Notify
    /\ UNCHANGED <<setup, mutex, serving, stage, blocked, read, oldest, failed, dataVars>>

\* blocking_begin_write: on the calling thread if the mutex allows that and
\* nobody waits for the worker, otherwise it draws a ticket
\* (m_write_lock_claim_ticket; "claims" are those not yet fulfilled).
CanLockOnCaller ==
    ~setup.confined /\ ~helper.owns /\ ~HasPendingWrites(helper)
BlockingBegin(t) ==
    IF CanLockOnCaller
    THEN /\ helper' = [helper EXCEPT !.busy = TRUE]
         /\ SetBlocked(t, "begin") /\ UNCHANGED worker
    ELSE /\ helper' = [helper EXCEPT !.claims = Append(@, t)]
         /\ SetBlocked(t, "claim") /\ Notify

\* promote_to_write by way of acquire_write_lock
Promote(t) ==
    /\ Runs(t) /\ stage[t] = "Reading"
    /\ \/ /\ async[t] = "Idle" /\ BlockingBegin(t)
          /\ UNCHANGED <<stage, read>>
       \/ /\ async[t] = "Requesting" /\ SetBlocked(t, "lock")
          /\ UNCHANGED <<helper, worker, stage, read>>
       \/ /\ HoldsWriteMutex(t)
          /\ SetStage(t, "Writing") /\ read' = [read EXCEPT ![t] = newest]
          /\ UNCHANGED <<helper, worker, blocked>>
       \/ /\ async[t] = "Syncing" /\ SetBlocked(t, "sync")
          /\ UNCHANGED <<helper, worker, stage, read>>
    /\ UNCHANGED <<setup, mutex, serving, async, oldest, failed, dataVars>>

\* The wait for a sync is over: m_async_stage is Idle, so start again.
PromoteAfterSync(t) ==
    /\ blocked[t] = "synced"
    /\ BlockingBegin(t)
    /\ UNCHANGED <<setup, mutex, serving, stage, async, read, oldest, failed, dataVars>>

Writes(t) ==
    /\ SetStage(t, "Writing") /\ SetBlocked(t, "no")
    /\ read' = [read EXCEPT ![t] = newest]
    /\ UNCHANGED <<setup, serving, async, oldest, failed, dataVars>>

LockOnCaller(t) ==
    /\ blocked[t] = "begin" /\ mutex = {}
    /\ mutex' = {t}
    /\ helper' = [helper EXCEPT !.busy = FALSE, !.has = TRUE, !.owns = FALSE]
    /\ Writes(t) /\ UNCHANGED worker

LockByWorker(t) ==
    /\ blocked[t] = "locked"
    /\ Writes(t) /\ UNCHANGED <<mutex, helper, worker>>

\* promote_to_write(nonblocking): the helper does not learn of it, and a
\* request that waits in its queue stays there.
TryPromote(t) ==
    /\ setup.tries /\ mutex = {}
    /\ Runs(t) /\ stage[t] = "Reading" /\ ~HoldsWriteMutex(t)
    /\ mutex' = {t}
    /\ Writes(t) /\ UNCHANGED <<helper, worker>>

-----------------------------------------------------------------------------
(* Ending a write.                                                         *)

\* end_write_on_correct_thread, with blocking_end_write
EndWrite(t) ==
    IF helper.has /\ helper.owns
    THEN /\ helper' = [helper EXCEPT !.release = TRUE]
         /\ Notify /\ SetBlocked(t, "release") /\ UNCHANGED mutex
    ELSE /\ mutex' = {} /\ helper' = [helper EXCEPT !.has = FALSE]
         /\ SetBlocked(t, "no")
         /\ IF helper.has /\ HasPendingWrites(helper) THEN Notify ELSE UNCHANGED worker

Released(t) ==
    /\ blocked[t] = "release" /\ ~helper.release
    /\ SetBlocked(t, "no")
    /\ UNCHANGED <<setup, mutex, helper, worker, serving, stage, async, read, oldest, failed,
                   dataVars>>

NewVersion(t) ==
    /\ Runs(t) /\ stage[t] = "Writing" /\ newest < setup.last
    /\ newest' = newest + 1 /\ read' = [read EXCEPT ![t] = newest']
    /\ SetStage(t, "Reading")

\* commit_and_continue_as_read(true)
CommitToDisk(t) ==
    /\ NewVersion(t)
    /\ file' = newest' /\ oldest' = [oldest EXCEPT ![t] = 0]
    /\ IF async[t] = "Requesting"
         THEN SetAsync(t, "HasLock") /\ UNCHANGED <<mutex, helper, worker, blocked>>
         ELSE SetAsync(t, "Idle") /\ EndWrite(t)
    /\ UNCHANGED <<setup, serving, failed, leaked>>

\* commit_and_continue_as_read(false): hold on to the version on disk.
HeldLatest(t) == read[t]                                         \* mutant
Held(t) == IF oldest[t] = 0 THEN read[t] ELSE oldest[t]
CommitInMemory(t) ==
    /\ NewVersion(t)
    /\ oldest' = [oldest EXCEPT ![t] = Held(t)]
    /\ SetAsync(t, "HasCommits")
    /\ UNCHANGED <<setup, mutex, helper, worker, serving, blocked, failed, file, leaked>>

\* rollback_and_continue_as_read
Rollback(t) ==
    /\ Runs(t) /\ stage[t] = "Writing"
    /\ SetStage(t, "Reading")
    /\ IF HoldsWriteMutex(t) THEN UNCHANGED <<mutex, helper, worker, blocked>>
                             ELSE EndWrite(t)
    /\ UNCHANGED <<setup, serving, async, read, oldest, failed, dataVars>>

PromoteToAsync(t) ==
    /\ Runs(t) /\ stage[t] = "Writing" /\ async[t] = "Idle"
    /\ SetAsync(t, "HasLock")
    /\ UNCHANGED <<setup, mutex, helper, worker, serving, stage, blocked, read, oldest, failed,
                   dataVars>>

SyncAndRelease(t) ==                                             \* mutant
    helper' = [helper EXCEPT !.sync = {t}, !.release = TRUE] /\ Notify
SyncToDisk(t) == helper' = [helper EXCEPT !.sync = {t}] /\ Notify

\* async_complete_writes, with end_write and sync_to_disk of the helper.
CompleteWrites(t) ==
    /\ Runs(t) /\ stage[t] = "Reading"
    /\ \/ /\ async[t] = "HasLock" /\ SetAsync(t, "Idle")
          /\ IF helper.owns
               THEN helper' = [helper EXCEPT !.release = TRUE] /\ Notify /\ UNCHANGED mutex
               ELSE helper' = [helper EXCEPT !.has = FALSE] /\ mutex' = {} /\ UNCHANGED worker
       \/ /\ async[t] = "HasCommits" /\ SetAsync(t, "Syncing")
          /\ SyncToDisk(t) /\ UNCHANGED mutex
    /\ UNCHANGED <<setup, serving, stage, blocked, read, oldest, failed, dataVars>>

\* complete_async_commit of the newest version: either the header is written,
\* or the version on disk stays pinned and the transaction remembers.
CompleteAsyncCommit(t) ==
    \/ /\ file' = newest /\ oldest' = [oldest EXCEPT ![t] = 0] /\ UNCHANGED failed
    \/ /\ failed' = [failed EXCEPT ![t] = TRUE] /\ UNCHANGED <<file, oldest>>

\* Transaction::close: rollback() and prepare_for_close(), then do_end_read().
\* A transaction that writes while its request waits has locked the mutex
\* itself (TryPromote): rollback() unlocks it, and then it waits for the grant.
Close(t) ==
    /\ Runs(t) /\ SetStage(t, "Closing")
    /\ \/ /\ async[t] = "Idle"
          /\ IF stage[t] = "Writing"
               THEN EndWrite(t) ELSE UNCHANGED <<mutex, helper, worker, blocked>>
          /\ UNCHANGED <<async, oldest, failed, file>>
       \/ /\ HoldsWriteMutex(t)
          /\ IF async[t] = "HasCommits" \/ oldest[t] # 0
               THEN CompleteAsyncCommit(t) ELSE UNCHANGED <<file, oldest, failed>>
          /\ SetAsync(t, "Idle") /\ EndWrite(t)
       \/ /\ async[t] \in {"Requesting", "Syncing"}
          /\ SetBlocked(t, IF async[t] = "Syncing" THEN "closeSync" ELSE "closeLock")
          /\ IF stage[t] = "Writing" THEN mutex' = {} ELSE UNCHANGED mutex
          /\ UNCHANGED <<helper, worker, async, oldest, failed, file>>
    /\ UNCHANGED <<setup, serving, read, newest, leaked>>

CloseWithLock(t) ==
    /\ blocked[t] = "closeLocked"
    /\ SetAsync(t, "Idle") /\ EndWrite(t)
    /\ UNCHANGED <<setup, serving, stage, read, oldest, failed, dataVars>>

\* do_end_read: a version that could not be persisted is leaked, not released.
EndRead(t) ==
    /\ stage[t] = "Closing" /\ blocked[t] = "no"
    /\ SetStage(t, "Ready")
    /\ leaked' = leaked \cup ({oldest[t]} \ {0})
    /\ read' = [read EXCEPT ![t] = 0] /\ oldest' = [oldest EXCEPT ![t] = 0]
    /\ UNCHANGED <<setup, mutex, helper, worker, serving, async, blocked, failed, newest, file>>

StartRead(t) ==
    /\ stage[t] = "Ready" /\ blocked[t] = "no"
    /\ SetStage(t, "Reading")
    /\ read' = [read EXCEPT ![t] = newest] /\ failed' = [failed EXCEPT ![t] = FALSE]
    /\ UNCHANGED <<setup, mutex, helper, worker, serving, async, blocked, oldest, dataVars>>

-----------------------------------------------------------------------------
(* AsyncCommitHelper::main.                                                *)

\* One round of the loop, up to the next point at which m_mutex is released.
WorkerLoop ==
    /\ worker = "loop"
    /\ \/ /\ helper.has /\ helper.sync # {}
          /\ worker' = "sync" /\ serving' = helper.sync
          /\ helper' = [helper EXCEPT !.sync = {}] /\ UNCHANGED mutex
       \/ /\ helper.has /\ helper.sync = {} /\ helper.release
          /\ mutex' = {}
          /\ helper' = [helper EXCEPT !.release = FALSE, !.has = FALSE, !.owns = FALSE]
          /\ UNCHANGED <<worker, serving>>
       \/ /\ helper.has => (helper.sync = {} /\ ~helper.release)
          /\ worker' = IF ~helper.has /\ ~helper.busy /\ HasPendingWrites(helper)
                       THEN "begin" ELSE "wait"
          /\ UNCHANGED <<mutex, helper, serving>>
    /\ UNCHANGED <<setup, txnVars, dataVars>>

\* do_begin_write has returned: a blocked caller goes first.
WorkerLocks ==
    /\ worker = "begin" /\ mutex = {}
    /\ mutex' = {"worker"}
    /\ IF helper.claims # <<>>
         THEN /\ helper' = [helper EXCEPT !.has = TRUE, !.owns = TRUE, !.claims = Tail(@)]
              /\ SetBlocked(Head(helper.claims), "locked")
              /\ worker' = "loop" /\ UNCHANGED serving
         ELSE /\ helper' = [helper EXCEPT !.has = TRUE, !.owns = TRUE, !.queue = Tail(@)]
              /\ worker' = "callback" /\ serving' = {Head(helper.queue)}
              /\ UNCHANGED blocked
    /\ UNCHANGED <<setup, stage, async, read, oldest, failed, dataVars>>

\* The callback of async_request_write_mutex.
WorkerGrants(t) ==
    /\ worker = "callback" /\ serving = {t}
    /\ async' = [async EXCEPT ![t] = IF @ = "Requesting" THEN "HasLock" ELSE @]
    /\ blocked' = [blocked EXCEPT ![t] = CASE @ = "lock" -> "locked"
                                           [] @ = "closeLock" -> "closeLocked"
                                           [] OTHER -> @]
    /\ worker' = "loop" /\ serving' = {}
    /\ UNCHANGED <<setup, mutex, helper, stage, read, oldest, failed, dataVars>>

\* The callback of async_complete_writes; the mutex is released only later.
WorkerSyncs(t) ==
    /\ worker = "sync" /\ serving = {t}
    /\ CompleteAsyncCommit(t)
    /\ SetAsync(t, "Idle")
    /\ blocked' = [blocked EXCEPT ![t] = CASE @ = "sync" -> "synced"
                                           [] @ = "closeSync" -> "no"
                                           [] OTHER -> @]
    /\ worker' = "synced" /\ serving' = {}
    /\ UNCHANGED <<setup, mutex, helper, stage, read, newest, leaked>>

WorkerReleases ==
    /\ worker = "synced"
    /\ helper' = [helper EXCEPT !.release = TRUE] /\ worker' = "loop"
    /\ UNCHANGED <<setup, mutex, serving, txnVars, dataVars>>

\* Another process writes.
OtherLocks ==
    /\ setup.others /\ mutex = {} /\ mutex' = {"other"}
    /\ UNCHANGED <<setup, helper, worker, serving, txnVars, dataVars>>
OtherUnlocks ==
    /\ mutex = {"other"} /\ mutex' = {}
    /\ \/ newest < setup.last /\ newest' = newest + 1 /\ file' = newest'
       \/ UNCHANGED <<newest, file>>
    /\ UNCHANGED <<setup, helper, worker, serving, txnVars, leaked>>

Worker == WorkerLoop \/ WorkerReleases \/ \E t \in Txn : WorkerGrants(t) \/ WorkerSyncs(t)
Caller(t) ==
    \/ Released(t) \/ LockByWorker(t) \/ PromoteAfterSync(t) \/ CloseWithLock(t) \/ EndRead(t)
User(t) ==
    \/ Request(t) \/ Promote(t) \/ TryPromote(t) \/ CommitToDisk(t) \/ CommitInMemory(t)
    \/ Rollback(t) \/ PromoteToAsync(t) \/ CompleteWrites(t) \/ Close(t) \/ StartRead(t)

\* A write lock that TryPromote took behind the helper's back is used as if the
\* helper had acquired it: t commits or closes while its own request waits, or
\* hands the lock to the helper in async_complete_writes.
Mixes(t) ==
    \/ /\ stage[t] = "Writing" /\ async[t] = "Requesting"
       /\ async'[t] # "Requesting" \/ stage'[t] = "Closing"
    \/ /\ stage[t] = "Reading" /\ stage'[t] = "Reading"
       /\ HoldsWriteMutex(t) /\ ~HoldsWriteMutex(t)' /\ ~helper.has

AsyncNext ==
    /\ \/ Worker \/ WorkerLocks \/ OtherLocks \/ OtherUnlocks
       \/ \E t \in setup.txns : Caller(t) \/ User(t) \/ LockOnCaller(t)
    /\ mixed' = (mixed \/ \E t \in Txn : Mixes(t))

\* Threads run, waits for the write mutex end (see WriteLock), nobody keeps the
\* write lock for good, and a caller that is woken over and over finds its
\* condition true at last (strong fairness of the wait in blocking_end_write).
GivesUp(t) == Close(t) /\ (stage[t] = "Writing" \/ HoldsWriteMutex(t))
AsyncFairness ==
    /\ WF_asyncVars(Worker) /\ SF_asyncVars(WorkerLocks) /\ WF_asyncVars(OtherUnlocks)
    /\ \A t \in Txn : WF_asyncVars(Caller(t)) /\ SF_asyncVars(Released(t))
                       /\ SF_asyncVars(LockOnCaller(t))
                       /\ WF_asyncVars(GivesUp(t))
AsyncSpec == AsyncInit /\ [][AsyncNext]_<<asyncVars, mixed>> /\ AsyncFairness

-----------------------------------------------------------------------------
(* Properties *)

\* Only the transaction that has the write lock writes, has commits that are
\* not on disk or is being synced; whoever acquired the mutex for it.
OneWriter ==
    LET W == {t \in Txn : \/ stage[t] = "Writing"
                          \/ async[t] \in {"HasLock", "HasCommits", "Syncing"}}
    IN Cardinality(W) <= 1 /\ (W # {} => mutex \notin {{}, {"other"}})

\* The assertions of AsyncCommitHelper::main and do_end_read: a sync or a release is only ever
\* asked of a helper that has the write mutex, and never both; and a thread
\* that has acquired the mutex finds that the helper did not have it; only a
\* transaction whose sync failed ends with a version that is not on disk.
HelperAsserts ==
    /\ worker = "loop" => (~helper.has => (helper.sync = {} \/ mixed) /\ ~helper.release)
    /\ worker = "loop" => (helper.sync # {} => ~helper.release)
    /\ mutex = {} => ~helper.has
    /\ worker = "begin" => HasPendingWrites(helper)
    /\ \A t \in Txn : stage[t] = "Closing" /\ blocked[t] = "no" /\ oldest[t] # 0 => failed[t]

\* While the newest version is not on disk, the version the file header refers
\* to is pinned, whatever syncs failed: the allocator may not reuse its pages.
VersionOnDiskPinned ==
    file # newest => file \in leaked \cup {oldest[t] : t \in Txn} \cup {read[t] : t \in Txn}

\* The same, up to a failed sync whose transaction goes on committing after
\* others have: it still holds on to the version that was on disk before.
PinnedUnlessOutdated ==
    \/ \E t \in Txn : oldest[t] # 0 /\ oldest[t] < file
    \/ VersionOnDiskPinned

\* Synchronous writers go first; once they leave room, an asynchronous request
\* for the write lock is granted, where the worker alone locks the mutex.
RequestsGranted ==
    setup.confined /\ <>[](helper.claims = <<>>) =>
        \A t \in Txn : async[t] = "Requesting" ~> async[t] # "Requesting" \/ mixed

\* A thread that waits for the helper to lock, sync or release goes on.  The
\* comment in AsyncCommitHelper::main claims as much: the worker acquires the
\* lock "only if another thread is not already waiting for it".
WaitsEnd ==
    \A t \in Txn : blocked[t] \notin {"no", "lock", "closeLock"} ~> blocked[t] = "no" \/ mixed

\* The write mutex is passed between transactions and the helper without ever
\* being in two hands, and of the assertions on the way only one may fail: a sync
\* is asked of a helper that does not have the mutex once a transaction has used
\* a lock of promote_to_write(nonblocking) as if the helper had acquired it.
WriteMutexKept == OneWriter /\ HelperAsserts

\* Requests for the write lock are granted and waits for the helper end, as long
\* as nobody mixes the two ways to lock: after that the helper may be left with a
\* lock that nobody releases.
NobodyStarves == RequestsGranted /\ WaitsEnd
=============================================================================

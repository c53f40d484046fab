------------------------- MODULE AsyncCommitProofs -------------------------
(***************************************************************************)
(* The write mutex passes between transactions, the helper and other       *)
(* processes one at a time, for every number of transactions and however   *)
(* they mix locking it themselves with locking it through the helper.      *)
(*                                                                         *)
(* What carries it: the transaction that has the write lock, or is about   *)
(* to get it from the helper, is the only one, and the helper knows whose  *)
(* the mutex is unless a transaction locked it behind its back.            *)
(***************************************************************************)
EXTENDS AsyncCommit, FiniteSetTheorems, TLAPS

Stages == {"Ready", "Reading", "Writing", "Closing"}
AsyncStages == {"Idle", "Requesting", "HasLock", "HasCommits", "Syncing"}
Points == {"no", "begin", "claim", "locked", "lock", "sync", "synced", "release",
           "closeSync", "closeLock", "closeLocked"}
WorkerPoints == {"off", "wait", "loop", "begin", "callback", "sync", "synced"}
Helpers == [has : BOOLEAN, owns : BOOLEAN, busy : BOOLEAN, release : BOOLEAN,
            sync : SUBSET Txn, queue : Seq(Txn), claims : Seq(Txn)]

AsyncTypes ==
    /\ setup \in Setups /\ helper \in Helpers /\ worker \in WorkerPoints
    /\ serving \subseteq Txn
    /\ stage \in [Txn -> Stages] /\ async \in [Txn -> AsyncStages]
    /\ blocked \in [Txn -> Points] /\ read \in [Txn -> Nat]
    /\ oldest \in [Txn -> Nat] /\ failed \in [Txn -> BOOLEAN] /\ newest \in Nat

\* The stages of a transaction and the point its thread is at fit together.
Fits(s, a, b) ==
    /\ s = "Writing" => b = "no" /\ a \in {"Idle", "Requesting", "HasLock", "HasCommits"}
    /\ b \in {"begin", "claim", "synced"} => s = "Reading" /\ a = "Idle"
    /\ b = "locked" => s = "Reading" /\ a \in {"Idle", "HasLock"}
    /\ b = "lock" => s = "Reading" /\ a = "Requesting"
    /\ b = "sync" => s = "Reading" /\ a = "Syncing"
    /\ b = "release" => s \in {"Reading", "Closing"} /\ a = "Idle"
    /\ b = "closeSync" => s = "Closing" /\ a = "Syncing"
    /\ b = "closeLock" => s = "Closing" /\ a = "Requesting"
    /\ b = "closeLocked" => s = "Closing" /\ a = "HasLock"
    /\ s = "Closing" /\ b = "no" => a = "Idle"
    /\ s = "Ready" => b = "no" /\ a = "Idle"

\* A version that is not on disk is about to be synced, or its sync failed.
Unsynced(s, a, o, f) ==
    /\ s = "Ready" => o = 0
    /\ o # 0 => f \/ a \in {"HasCommits", "Syncing"}

Coherent(t) ==
    Fits(stage[t], async[t], blocked[t]) /\ Unsynced(stage[t], async[t], oldest[t], failed[t])

\* Requests and claims that wait for the helper, each of them once.  A request
\* outlives its transaction's wish once the two ways to lock have been mixed.
QueueLine ==
    /\ \A i \in 1 .. Len(helper.queue) :
         /\ async[helper.queue[i]] = "Requesting"
         /\ worker = "callback" => serving # {helper.queue[i]}
    /\ \A i, j \in 1 .. Len(helper.queue) : i # j => helper.queue[i] # helper.queue[j]
Lines ==
    /\ mixed \/ QueueLine
    /\ \A i \in 1 .. Len(helper.claims) : blocked[helper.claims[i]] = "claim"
    /\ \A i, j \in 1 .. Len(helper.claims) : i # j => helper.claims[i] # helper.claims[j]

\* A transaction has the write lock, or the helper is about to give it to it.
Locked(s, a, b) ==
    s = "Writing" \/ a \in {"HasLock", "HasCommits", "Syncing"} \/ b = "locked"
Served(t) == worker = "callback" /\ serving = {t}
Uses(t) == Locked(stage[t], async[t], blocked[t]) \/ Served(t)

\* t has locked the mutex itself while its request waits in the queue.
Behind(t) == stage[t] = "Writing" /\ async[t] = "Requesting"

Releasing == helper.release \/ worker = "synced"
Engaged == Releasing \/ worker \in {"sync", "callback"}

\* Who has the write mutex, and for whom
Owned ==
    /\ \A s, t \in Txn : Uses(s) /\ Uses(t) => s = t
    /\ Releasing => \A t \in Txn : ~Uses(t)
    /\ \A t \in Txn : Uses(t) => mutex = {"worker"} \/ mutex = {t}
    /\ helper.has => mutex = {"worker"} \/ \E t \in Txn : mutex = {t}
    /\ helper.owns <=> mutex = {"worker"}
    /\ helper.owns => helper.has
    /\ Engaged => helper.has

\* What the helper does not know
Apart ==
    /\ helper.sync # {} => helper.has \/ mixed
    /\ \A t \in Txn : Locked(stage[t], async[t], blocked[t]) => ~Served(t)
    /\ \A t \in Txn : Behind(t) => ~helper.has

\* What the helper is about to do
Tasks ==
    /\ worker = "callback" => \E t \in Txn : serving = {t} /\ (mixed \/ async[t] = "Requesting")
    /\ worker = "sync" => \E t \in Txn : serving = {t} /\ async[t] = "Syncing"
    /\ worker = "sync" => helper.sync = {}
    /\ helper.sync # {} => \E t \in Txn : helper.sync = {t} /\ async[t] = "Syncing"
    /\ worker = "begin" => HasPendingWrites(helper)

AInv == AsyncTypes /\ (\A t \in Txn : Coherent(t)) /\ Lines /\ Owned /\ Apart /\ Tasks

-----------------------------------------------------------------------------
\* What the history remembers
Marks == (mixed => mixed') /\ \A t \in Txn : Mixes(t) => mixed'

\* A step of t leaves the other transactions alone.
Moves(t) ==
    /\ AsyncTypes' /\ Coherent(t)' /\ (mixed => mixed')
    /\ \A s \in Txn : s # t =>
         /\ stage'[s] = stage[s] /\ async'[s] = async[s] /\ blocked'[s] = blocked[s]
         /\ oldest'[s] = oldest[s] /\ failed'[s] = failed[s]

\* t waits on for what it has asked the helper for.
Keeps(t) ==
    /\ async[t] = "Syncing" => async'[t] = "Syncing"
    /\ async[t] = "Requesting" => async'[t] = "Requesting" \/ mixed'
    /\ Behind(t)' => Behind(t)

\* The worker goes on, or is woken.
Woken == worker' = worker \/ (worker \in {"off", "wait"} /\ worker' = "loop")

\* The fields that say what the helper does with the mutex
SameHelper ==
    /\ helper'.has = helper.has /\ helper'.owns = helper.owns
    /\ helper'.release = helper.release /\ helper'.sync = helper.sync

\* Nobody but t changes.
LEMMA OthersCohere ==
    ASSUME AInv, NEW t \in Txn, Moves(t)
    PROVE  \A s \in Txn : Coherent(s)'
BY Zenon DEF AInv, Moves, Coherent

\* A step of t in which nobody gets or gives up the write lock
LEMMA QuietStep ==
    ASSUME AInv, NEW t \in Txn, Moves(t), Lines', SameHelper, Woken,
           mutex' = mutex, serving' = serving,
           Locked(stage[t], async[t], blocked[t])' => Locked(stage[t], async[t], blocked[t]),
           Keeps(t),
           HasPendingWrites(helper) => HasPendingWrites(helper')
    PROVE  AInv'
<1>1. \A s \in Txn : Served(s)' <=> Served(s)
    BY Zenon DEF Served, Woken
<1>2. \A s \in Txn : Uses(s)' => Uses(s)
    BY <1>1, Zenon DEF Uses, Moves, Locked
<1>3. (Releasing' <=> Releasing) /\ (Engaged' <=> Engaged)
    BY Zenon DEF Releasing, Engaged, Woken, SameHelper
<1>4. Owned'
    BY <1>2, <1>3, Zenon DEF Owned, AInv, SameHelper
<1>5. Tasks'
    BY ZenonT(60) DEF Tasks, AInv, SameHelper, Woken, Moves, Keeps
<1>6. Apart'
    <2>1. \A s \in Txn : s # t => (Behind(s)' <=> Behind(s))
        BY Zenon DEF Behind, Moves
    <2>2. \A s \in Txn : Behind(s)' => Behind(s)
        BY <2>1, Zenon DEF Keeps
    <2>3. \A s \in Txn : Locked(stage[s], async[s], blocked[s])' => Locked(stage[s], async[s], blocked[s])
        BY Zenon DEF Moves, Locked
    <2> QED
        BY <1>1, <2>2, <2>3, Zenon DEF Apart, AInv, SameHelper, Moves
<1> QED
    BY <1>4, <1>5, <1>6, OthersCohere, Zenon DEF AInv, Moves

\* What is known of a transaction that has the write lock and is not synced
LEMMA HolderAlone ==
    ASSUME AInv, NEW t \in Txn, Locked(stage[t], async[t], blocked[t]), async[t] # "Syncing"
    PROVE  /\ \A s \in Txn : s # t => ~Uses(s)
           /\ ~Releasing /\ ~Served(t) /\ worker \notin {"callback", "sync"}
           /\ helper.sync = {} /\ (mutex = {"worker"} \/ mutex = {t})
<1>1. Uses(t)
    BY Zenon DEF Uses
<1>2. \A s \in Txn : s # t => ~Uses(s)
    BY <1>1, Zenon DEF Owned, AInv
<1>3. ~Served(t)
    BY Zenon DEF AInv, Apart
<1>4. worker # "callback"
    BY <1>2, <1>3, Zenon DEF AInv, Tasks, Uses, Served
<1>5. worker # "sync"
    BY <1>2, Zenon DEF AInv, Tasks, Uses, Locked
<1>6. helper.sync = {}
    BY <1>2, Zenon DEF AInv, Tasks, Uses, Locked
<1> QED
    BY <1>1, <1>2, <1>3, <1>4, <1>5, <1>6, Zenon DEF Owned, AInv

\* t gives up the write lock: the helper is asked to release it, or it is
\* released at once.
LEMMA GivingUp ==
    ASSUME AInv, NEW t \in Txn, Moves(t), Lines', Woken, serving' = serving,
           Locked(stage[t], async[t], blocked[t]), async[t] # "Syncing",
           ~Locked(stage[t], async[t], blocked[t])',
           helper'.owns = helper.owns, helper'.sync = helper.sync,
           HasPendingWrites(helper) => HasPendingWrites(helper'),
           \/ /\ helper.has /\ mutex' = mutex
              /\ helper'.has = helper.has /\ helper'.release = TRUE
           \/ /\ ~helper.owns /\ mutex' = {}
              /\ helper'.has = FALSE /\ helper'.release = helper.release
    PROVE  AInv'
<1>1. /\ \A s \in Txn : s # t => ~Uses(s)
      /\ ~Releasing /\ ~Served(t) /\ worker \notin {"callback", "sync"}
      /\ helper.sync = {} /\ (mutex = {"worker"} \/ mutex = {t})
    BY HolderAlone
<1>2. worker' \notin {"callback", "sync", "synced"}
    BY <1>1, Zenon DEF Woken, Releasing
<1>3. \A s \in Txn : ~Uses(s)'
    BY <1>1, <1>2, Zenon DEF Uses, Moves, Locked, Served
<1>4. Owned'
    <2>1. CASE helper.has /\ mutex' = mutex /\ helper'.has = helper.has /\ helper'.release = TRUE
        BY <1>3, <2>1, Zenon DEF Owned, AInv
    <2>2. CASE /\ ~helper.owns /\ mutex' = {}
               /\ helper'.has = FALSE /\ helper'.release = helper.release
        <3>1. ~Engaged'
            BY <1>1, <1>2, <2>2, Zenon DEF Engaged, Releasing
        <3> QED
            BY <1>3, <2>2, <3>1, Zenon DEF Owned, AInv
    <2> QED
        BY <2>1, <2>2, Zenon
<1>5. Tasks'
    BY <1>1, <1>2, Zenon DEF Tasks, AInv, Woken
<1>6. Apart'
    BY <1>1, <1>3, Zenon DEF Apart, Uses, Behind, Locked
<1> QED
    BY <1>4, <1>5, <1>6, OthersCohere, Zenon DEF AInv, Moves

\* A free mutex: nobody has the write lock and the helper has nothing to do.
LEMMA FreeMutex ==
    ASSUME AInv, mutex \in {{}, {"other"}}
    PROVE  /\ \A s \in Txn : ~Uses(s)
           /\ helper.has = FALSE /\ helper.owns = FALSE /\ helper.release = FALSE
           /\ worker \notin {"callback", "sync", "synced"} /\ helper.sync = {}
<1>1. mutex # {"worker"} /\ \A t \in Txn : mutex # {t}
    BY AsyncCommitAssumption, Zenon DEF AsyncCommitAssumption
<1>2. \A s \in Txn : ~Uses(s)
    BY <1>1, Zenon DEF Owned, AInv
<1>3. ~helper.has /\ ~helper.owns
    BY <1>1, Zenon DEF Owned, AInv
<1>4. ~Engaged /\ helper.sync = {}
    BY <1>2, <1>3, Zenon DEF Owned, Tasks, AInv, Uses, Locked
<1>5. /\ helper.has \in BOOLEAN /\ helper.owns \in BOOLEAN /\ helper.release \in BOOLEAN
    BY DEF AInv, AsyncTypes, Helpers
<1> QED
    BY <1>2, <1>3, <1>4, <1>5, Zenon DEF Engaged, Releasing

\* t locks the mutex itself.
LEMMA LockingStep ==
    ASSUME AInv, NEW t \in Txn, Moves(t), Lines', mutex = {}, mutex' = {t},
           helper'.owns = FALSE, helper'.release = helper.release, helper'.sync = helper.sync,
           worker' = worker, serving' = serving,
           HasPendingWrites(helper) => HasPendingWrites(helper'),
           Behind(t)' => ~helper'.has
    PROVE  AInv'
<1>1. /\ \A s \in Txn : ~Uses(s)
      /\ helper.has = FALSE /\ helper.owns = FALSE /\ helper.release = FALSE
      /\ worker \notin {"callback", "sync", "synced"} /\ helper.sync = {}
    BY FreeMutex
<1>2. \A s \in Txn : s # t => ~Uses(s)'
    BY <1>1, Zenon DEF Uses, Moves, Locked, Served
<1>3. ~Releasing' /\ ~Engaged'
    BY <1>1, Zenon DEF Releasing, Engaged
<1>4. {t} # {"worker"}
    BY AsyncCommitAssumption, Zenon DEF AsyncCommitAssumption
<1>5. Owned'
    BY <1>2, <1>3, <1>4, Zenon DEF Owned
<1>6. Tasks'
    BY <1>1, Zenon DEF Tasks, AInv
<1>7. Apart'
    <2>1. \A s \in Txn : s # t => ~Behind(s)'
        BY <1>2, Zenon DEF Uses, Locked, Behind
    <2>2. \A s \in Txn : ~Served(s)'
        BY <1>1, Zenon DEF Served
    <2> QED
        BY <1>1, <2>1, <2>2, Zenon DEF Apart
<1> QED
    BY <1>5, <1>6, <1>7, OthersCohere, Zenon DEF AInv, Moves

-----------------------------------------------------------------------------
\* The lines of a helper whose requests and claims stay as they are
LEMMA SameLines ==
    ASSUME AInv, NEW t \in Txn, Moves(t),
           helper'.queue = helper.queue, helper'.claims = helper.claims,
           worker' = "callback" => worker = "callback", serving' = serving,
           async[t] = "Requesting" => async'[t] = "Requesting" \/ mixed',
           blocked[t] = "claim" => blocked'[t] = "claim"
    PROVE  Lines' /\ (HasPendingWrites(helper) => HasPendingWrites(helper'))
<1>1. /\ \A i \in 1 .. Len(helper.queue) : helper.queue[i] \in Txn
      /\ \A i \in 1 .. Len(helper.claims) : helper.claims[i] \in Txn
    <2>1. helper.queue \in Seq(Txn) /\ helper.claims \in Seq(Txn)
        BY DEF AInv, AsyncTypes, Helpers
    <2> QED
        BY <2>1
<1>2. \A s \in Txn : /\ async[s] = "Requesting" => async'[s] = "Requesting" \/ mixed'
                     /\ blocked[s] = "claim" => blocked'[s] = "claim"
    BY Zenon DEF Moves
<1>3. ASSUME ~mixed' PROVE QueueLine'
    <2>1. QueueLine
        BY <1>3, Zenon DEF Lines, AInv, Moves
    <2>2. \A i \in 1 .. Len(helper.queue) :
             /\ async'[helper.queue[i]] = "Requesting"
             /\ worker' = "callback" => serving' # {helper.queue[i]}
        BY <1>1, <1>2, <1>3, <2>1, Zenon DEF QueueLine
    <2> QED
        BY <2>1, <2>2 DEF QueueLine
<1>4. /\ \A i \in 1 .. Len(helper.claims) : blocked'[helper.claims[i]] = "claim"
      /\ \A i, j \in 1 .. Len(helper.claims) : i # j => helper.claims[i] # helper.claims[j]
    BY <1>1, <1>2, Zenon DEF Lines, AInv
<1>5. Lines'
    BY <1>3, <1>4 DEF Lines
<1> QED
    BY <1>5, Zenon DEF HasPendingWrites

\* t joins the line of requests.
LEMMA RequestJoins ==
    ASSUME AInv, NEW t \in Txn, Moves(t),
           helper'.queue = Append(helper.queue, t), helper'.claims = helper.claims,
           worker' = "callback" => worker = "callback", serving' = serving,
           async[t] = "Idle", async'[t] = "Requesting", blocked'[t] = blocked[t]
    PROVE  Lines' /\ HasPendingWrites(helper')
<1> DEFINE q == helper.queue
           n == Len(helper.queue)
<1>0. q \in Seq(Txn) /\ helper.claims \in Seq(Txn)
    BY DEF AInv, AsyncTypes, Helpers
<1>1. /\ n \in Nat /\ \A i \in 1 .. n : q[i] \in Txn
      /\ \A i \in 1 .. Len(helper.claims) : helper.claims[i] \in Txn
    BY <1>0
<1>2. /\ Len(helper'.queue) = n + 1 /\ helper'.queue # <<>>
      /\ \A i \in 1 .. n : helper'.queue[i] = q[i]
      /\ helper'.queue[n + 1] = t
    BY <1>0
<1>3. \A i \in 1 .. n + 1 : i \in 1 .. n \/ i = n + 1
    BY <1>1
<1>q. ASSUME ~mixed' PROVE QueueLine
    BY <1>q, Zenon DEF Lines, AInv, Moves
<1>4. ~mixed' => \A i \in 1 .. n : q[i] # t
    BY <1>1, <1>q, Zenon DEF QueueLine
<1>5. ~mixed' => (worker = "callback" => serving # {t})
    BY Zenon DEF Tasks, AInv, Moves
<1>6. ASSUME ~mixed', NEW i \in 1 .. Len(helper'.queue)
      PROVE  /\ async'[helper'.queue[i]] = "Requesting"
             /\ worker' = "callback" => serving' # {helper'.queue[i]}
    <2>1. CASE i \in 1 .. n
        <3>1. helper'.queue[i] = q[i] /\ q[i] \in Txn /\ q[i] # t
            BY <1>1, <1>2, <1>4, <1>6, <2>1, Zenon
        <3>2. async'[q[i]] = async[q[i]]
            BY <3>1, Zenon DEF Moves
        <3> QED
            BY <1>6, <1>q, <2>1, <3>1, <3>2, Zenon DEF QueueLine
    <2>2. CASE i = n + 1
        BY <1>2, <1>5, <1>6, <2>2, Zenon
    <2> QED
        BY <1>2, <1>3, <1>6, <2>1, <2>2, Zenon
<1>7. ASSUME ~mixed', NEW i \in 1 .. Len(helper'.queue), NEW j \in 1 .. Len(helper'.queue), i # j
      PROVE  helper'.queue[i] # helper'.queue[j]
    <2>1. /\ i \in 1 .. n \/ i = n + 1
          /\ j \in 1 .. n \/ j = n + 1
        BY <1>2, <1>3, <1>7, Zenon
    <2>2. CASE i \in 1 .. n /\ j \in 1 .. n
        BY <1>2, <1>7, <1>q, <2>2, ZenonT(60) DEF QueueLine
    <2>3. CASE i = n + 1 /\ j \in 1 .. n
        BY <1>2, <1>4, <1>7, <2>3, Zenon
    <2>4. CASE i \in 1 .. n /\ j = n + 1
        BY <1>2, <1>4, <1>7, <2>4, Zenon
    <2> QED
        BY <1>7, <2>1, <2>2, <2>3, <2>4, Zenon
<1>8. \A i \in 1 .. Len(helper.claims) : blocked'[helper.claims[i]] = "claim"
    BY <1>1, ZenonT(60) DEF Lines, AInv, Moves
<1>9. Lines'
    <2>1. \A i, j \in 1 .. Len(helper.claims) : i # j => helper.claims[i] # helper.claims[j]
        BY Zenon DEF Lines, AInv
    <2> QED
        BY <1>6, <1>7, <1>8, <2>1 DEF Lines, QueueLine
<1> QED
    BY <1>2, <1>9, Zenon DEF HasPendingWrites

\* t draws a ticket.
LEMMA ClaimJoins ==
    ASSUME AInv, NEW t \in Txn, Moves(t),
           helper'.queue = helper.queue, helper'.claims = Append(helper.claims, t),
           worker' = "callback" => worker = "callback", serving' = serving,
           blocked[t] # "claim", blocked'[t] = "claim", async'[t] = async[t]
    PROVE  Lines' /\ HasPendingWrites(helper')
<1> DEFINE q == helper.claims
           n == Len(helper.claims)
<1>0. q \in Seq(Txn) /\ helper.queue \in Seq(Txn)
    BY DEF AInv, AsyncTypes, Helpers
<1>1. /\ n \in Nat /\ \A i \in 1 .. n : q[i] \in Txn
      /\ \A i \in 1 .. Len(helper.queue) : helper.queue[i] \in Txn
    BY <1>0
<1>2. /\ Len(helper'.claims) = n + 1 /\ helper'.claims # <<>>
      /\ \A i \in 1 .. n : helper'.claims[i] = q[i]
      /\ helper'.claims[n + 1] = t
    BY <1>0
<1>3. \A i \in 1 .. n + 1 : i \in 1 .. n \/ i = n + 1
    BY <1>1
<1>4. \A i \in 1 .. n : q[i] # t
    BY <1>1, Zenon DEF Lines, AInv
<1>5. ASSUME NEW i \in 1 .. Len(helper'.claims)
      PROVE  blocked'[helper'.claims[i]] = "claim"
    <2>1. CASE i \in 1 .. n
        <3>1. helper'.claims[i] = q[i] /\ q[i] \in Txn /\ q[i] # t
            BY <1>1, <1>2, <1>4, <2>1, Zenon
        <3>2. blocked'[q[i]] = blocked[q[i]]
            BY <3>1, Zenon DEF Moves
        <3> QED
            BY <2>1, <3>1, <3>2, Zenon DEF Lines, AInv
    <2>2. CASE i = n + 1
        BY <1>2, <2>2, Zenon
    <2> QED
        BY <1>2, <1>3, <2>1, <2>2, Zenon
<1>6. ASSUME NEW i \in 1 .. Len(helper'.claims), NEW j \in 1 .. Len(helper'.claims), i # j
      PROVE  helper'.claims[i] # helper'.claims[j]
    <2>1. /\ i \in 1 .. n \/ i = n + 1
          /\ j \in 1 .. n \/ j = n + 1
        BY <1>2, <1>3, Zenon
    <2>2. CASE i \in 1 .. n /\ j \in 1 .. n
        <3>1. q[i] # q[j]
            BY <1>6, <2>2, Zenon DEF Lines, AInv
        <3> QED
            BY <1>2, <2>2, <3>1, Zenon
    <2>3. CASE i = n + 1 /\ j \in 1 .. n
        BY <1>2, <1>4, <2>3, Zenon
    <2>4. CASE i \in 1 .. n /\ j = n + 1
        BY <1>2, <1>4, <2>4, Zenon
    <2> QED
        BY <1>6, <2>1, <2>2, <2>3, <2>4, Zenon
<1>7. ASSUME ~mixed' PROVE QueueLine'
    <2>1. QueueLine
        BY <1>7, Zenon DEF Lines, AInv, Moves
    <2>2. \A s \in Txn : async'[s] = async[s]
        BY Zenon DEF Moves
    <2>3. \A i \in 1 .. Len(helper.queue) :
             /\ async'[helper.queue[i]] = "Requesting"
             /\ worker' = "callback" => serving' # {helper.queue[i]}
        BY <1>1, <2>1, <2>2, ZenonT(60) DEF QueueLine
    <2> QED
        BY <2>1, <2>3 DEF QueueLine
<1>8. Lines'
    BY <1>5, <1>6, <1>7 DEF Lines
<1> QED
    BY <1>2, <1>8, Zenon DEF HasPendingWrites

\* A step of t that the helper takes no part in
LEMMA StillStep ==
    ASSUME AInv, NEW t \in Txn, Moves(t), UNCHANGED <<mutex, helper, worker, serving>>,
           Locked(stage[t], async[t], blocked[t])' => Locked(stage[t], async[t], blocked[t]),
           Keeps(t),
           blocked[t] # "claim"
    PROVE  AInv'
<1>1. Lines' /\ (HasPendingWrites(helper) => HasPendingWrites(helper'))
    BY SameLines, Zenon DEF Keeps
<1>2. SameHelper /\ Woken
    BY Zenon DEF SameHelper, Woken
<1> QED
    BY <1>1, <1>2, QuietStep, Zenon

\* A thread that waited for the mutex to be released goes on.
LEMMA ReleasedStep ==
    ASSUME AInv, Marks, NEW t \in Txn, Released(t)
    PROVE  AInv'
<1>1. blocked[t] = "release" /\ Coherent(t)
    BY Zenon DEF Released, AInv
<1>2. /\ stage' = stage /\ async' = async /\ read' = read /\ oldest' = oldest
      /\ failed' = failed /\ newest' = newest /\ setup' = setup
      /\ blocked' = [blocked EXCEPT ![t] = "no"]
      /\ UNCHANGED <<mutex, helper, worker, serving>>
    BY Zenon DEF Released, SetBlocked, dataVars
<1>3. blocked' \in [Txn -> Points] /\ blocked'[t] = "no"
      /\ \A s \in Txn : s # t => blocked'[s] = blocked[s]
    BY <1>2, Zenon DEF AInv, AsyncTypes, Points
<1>4. Coherent(t)'
    BY <1>1, <1>2, <1>3, Zenon DEF Coherent, Fits
<1>5. Moves(t)
    BY <1>2, <1>3, <1>4, Zenon DEF Moves, Marks, AInv, AsyncTypes
<1> QED
    BY <1>1, <1>2, <1>3, <1>5, StillStep, Zenon DEF Locked, Keeps, Behind

\* A thread that waited for the helper is given the write lock.
LEMMA GrantedStep ==
    ASSUME AInv, Marks, NEW t \in Txn, LockByWorker(t)
    PROVE  AInv'
<1>1. Coherent(t) /\ blocked[t] = "locked"
    BY Zenon DEF LockByWorker, Writes, SetStage, SetBlocked, dataVars, AInv
<1>2. /\ async' = async /\ oldest' = oldest /\ failed' = failed /\ setup' = setup
      /\ newest' = newest
      /\ stage' = [stage EXCEPT ![t] = "Writing"]
      /\ blocked' = [blocked EXCEPT ![t] = "no"]
      /\ read' = [read EXCEPT ![t] = newest]
      /\ UNCHANGED <<mutex, helper, worker, serving>>
    BY <1>1, Zenon DEF LockByWorker, Writes, SetStage, SetBlocked, dataVars
<1>3. /\ stage' \in [Txn -> Stages] /\ stage'[t] = "Writing"
      /\ \A s \in Txn : s # t => stage'[s] = stage[s]
    BY <1>2, Zenon DEF AInv, AsyncTypes, Stages
<1>4. /\ blocked' \in [Txn -> Points] /\ blocked'[t] = "no"
      /\ \A s \in Txn : s # t => blocked'[s] = blocked[s]
    BY <1>2, Zenon DEF AInv, AsyncTypes, Points
<1>5. /\ read' \in [Txn -> Nat] /\ read'[t] = newest
      /\ \A s \in Txn : s # t => read'[s] = read[s]
    BY <1>2, Zenon DEF AInv, AsyncTypes
<1>6. Coherent(t)'
    BY <1>1, <1>2, <1>3, <1>4, <1>5, Zenon DEF Coherent, Fits, Unsynced
<1>7. Moves(t)
    BY <1>2, <1>3, <1>4, <1>5, <1>6, Zenon DEF Moves, Marks, AInv, AsyncTypes
<1> QED
    BY <1>1, <1>2, <1>3, <1>4, <1>5, <1>7, StillStep, Zenon
       DEF Locked, Keeps, Behind, Coherent, Fits

\* A caller that has requested the lock waits for the callback.
LEMMA WaitForLock ==
    ASSUME AInv, Marks, NEW t \in Txn, Promote(t), async[t] = "Requesting"
    PROVE  AInv'
<1>1. Coherent(t) /\ stage[t] = "Reading" /\ blocked[t] = "no" /\ async[t] = "Requesting"
    BY Zenon
       DEF Promote, Runs, SetBlocked, SetStage, HoldsWriteMutex, dataVars, AInv
<1>2. /\ stage' = stage /\ async' = async /\ read' = read /\ oldest' = oldest
      /\ failed' = failed /\ setup' = setup /\ newest' = newest
      /\ blocked' = [blocked EXCEPT ![t] = "lock"]
      /\ UNCHANGED <<mutex, helper, worker, serving>>
    BY <1>1, Zenon
       DEF Promote, Runs, SetBlocked, SetStage, HoldsWriteMutex, dataVars
<1>3. /\ blocked' \in [Txn -> Points] /\ blocked'[t] = "lock"
      /\ \A s \in Txn : s # t => blocked'[s] = blocked[s]
    BY <1>2, Zenon DEF AInv, AsyncTypes, Points
<1>4. Coherent(t)'
    BY <1>1, <1>2, <1>3, Zenon DEF Coherent, Fits
<1>5. Moves(t)
    BY <1>2, <1>3, <1>4, Zenon DEF Moves, Marks, AInv, AsyncTypes
<1> QED
    BY <1>1, <1>2, <1>3, <1>5, StillStep, Zenon
       DEF Locked, Keeps, Behind, Coherent, Fits

\* A caller whose commits are being synced waits for the end of that.
LEMMA WaitForSync ==
    ASSUME AInv, Marks, NEW t \in Txn, Promote(t), async[t] = "Syncing"
    PROVE  AInv'
<1>1. Coherent(t) /\ stage[t] = "Reading" /\ blocked[t] = "no" /\ async[t] = "Syncing"
    BY Zenon
       DEF Promote, Runs, SetBlocked, SetStage, HoldsWriteMutex, dataVars, AInv
<1>2. /\ stage' = stage /\ async' = async /\ read' = read /\ oldest' = oldest
      /\ failed' = failed /\ setup' = setup /\ newest' = newest
      /\ blocked' = [blocked EXCEPT ![t] = "sync"]
      /\ UNCHANGED <<mutex, helper, worker, serving>>
    BY <1>1, Zenon
       DEF Promote, Runs, SetBlocked, SetStage, HoldsWriteMutex, dataVars
<1>3. /\ blocked' \in [Txn -> Points] /\ blocked'[t] = "sync"
      /\ \A s \in Txn : s # t => blocked'[s] = blocked[s]
    BY <1>2, Zenon DEF AInv, AsyncTypes, Points
<1>4. Coherent(t)'
    BY <1>1, <1>2, <1>3, Zenon DEF Coherent, Fits
<1>5. Moves(t)
    BY <1>2, <1>3, <1>4, Zenon DEF Moves, Marks, AInv, AsyncTypes
<1> QED
    BY <1>1, <1>2, <1>3, <1>5, StillStep, Zenon
       DEF Locked, Keeps, Behind, Coherent, Fits

\* A caller that has the lock asynchronously begins to write.
LEMMA HasLockAlready ==
    ASSUME AInv, Marks, NEW t \in Txn, Promote(t), async[t] \in {"HasLock", "HasCommits"}
    PROVE  AInv'
<1>1. Coherent(t) /\ stage[t] = "Reading" /\ blocked[t] = "no" /\ async[t] \in {"HasLock", "HasCommits"}
    BY Zenon
       DEF Promote, Runs, SetBlocked, SetStage, HoldsWriteMutex, dataVars, AInv
<1>2. /\ async' = async /\ blocked' = blocked /\ oldest' = oldest /\ failed' = failed
      /\ setup' = setup /\ newest' = newest
      /\ stage' = [stage EXCEPT ![t] = "Writing"]
      /\ read' = [read EXCEPT ![t] = newest]
      /\ UNCHANGED <<mutex, helper, worker, serving>>
    BY <1>1, Zenon
       DEF Promote, Runs, SetBlocked, SetStage, HoldsWriteMutex, dataVars
<1>3. /\ stage' \in [Txn -> Stages] /\ stage'[t] = "Writing"
      /\ \A s \in Txn : s # t => stage'[s] = stage[s]
    BY <1>2, Zenon DEF AInv, AsyncTypes, Stages
<1>4. /\ read' \in [Txn -> Nat] /\ read'[t] = newest
      /\ \A s \in Txn : s # t => read'[s] = read[s]
    BY <1>2, Zenon DEF AInv, AsyncTypes
<1>5. Coherent(t)'
    BY <1>1, <1>2, <1>3, <1>4, Zenon DEF Coherent, Fits, Unsynced
<1>6. Moves(t)
    BY <1>2, <1>3, <1>4, <1>5, Zenon DEF Moves, Marks, AInv, AsyncTypes
<1> QED
    BY <1>1, <1>2, <1>3, <1>4, <1>6, StillStep, Zenon
       DEF Locked, Keeps, Behind, Coherent, Fits

\* A commit in memory keeps the write lock.
LEMMA KeepsCommits ==
    ASSUME AInv, Marks, NEW t \in Txn, CommitInMemory(t)
    PROVE  AInv'
<1>1. Coherent(t) /\ stage[t] = "Writing" /\ blocked[t] = "no"
    BY Zenon DEF CommitInMemory, NewVersion, Runs, SetAsync, SetStage, AInv
<1>2. /\ blocked' = blocked /\ failed' = failed /\ setup' = setup
      /\ stage' = [stage EXCEPT ![t] = "Reading"]
      /\ async' = [async EXCEPT ![t] = "HasCommits"]
      /\ read' = [read EXCEPT ![t] = newest']
      /\ oldest' = [oldest EXCEPT ![t] = Held(t)]
      /\ UNCHANGED <<mutex, helper, worker, serving>>
    BY <1>1, Zenon DEF CommitInMemory, NewVersion, Runs, SetAsync, SetStage
<1>n. newest' \in Nat
    <2>1. newest \in Nat
        BY Zenon DEF AInv, AsyncTypes
    <2>2. newest' = newest + 1
        BY Zenon DEF CommitInMemory, NewVersion, Runs, SetAsync, SetStage
    <2> QED
        BY <2>1, <2>2
<1>3. /\ stage' \in [Txn -> Stages] /\ stage'[t] = "Reading"
      /\ \A s \in Txn : s # t => stage'[s] = stage[s]
    BY <1>2, Zenon DEF AInv, AsyncTypes, Stages
<1>4. /\ async' \in [Txn -> AsyncStages] /\ async'[t] = "HasCommits"
      /\ \A s \in Txn : s # t => async'[s] = async[s]
    BY <1>2, Zenon DEF AInv, AsyncTypes, AsyncStages
<1>5. /\ read' \in [Txn -> Nat] /\ read'[t] = newest'
      /\ \A s \in Txn : s # t => read'[s] = read[s]
    BY <1>2, <1>n, Zenon DEF AInv, AsyncTypes
<1>6. /\ oldest' \in [Txn -> Nat] /\ oldest'[t] = Held(t)
      /\ \A s \in Txn : s # t => oldest'[s] = oldest[s]
    BY <1>2, Zenon DEF AInv, AsyncTypes, Held
<1>7. Coherent(t)'
    BY <1>1, <1>2, <1>3, <1>4, <1>5, <1>6, Zenon DEF Coherent, Fits, Unsynced
<1>8. Moves(t)
    BY <1>2, <1>3, <1>4, <1>5, <1>6, <1>n, <1>7, Zenon
       DEF Moves, Marks, AInv, AsyncTypes
<1>9. async[t] = "Requesting" => mixed'
    BY <1>1, <1>4, Zenon DEF Marks, Mixes
<1> QED
    BY <1>1, <1>2, <1>3, <1>4, <1>5, <1>6, <1>8, <1>9, StillStep, Zenon
       DEF Locked, Keeps, Behind, Coherent, Fits

\* A rollback keeps a write lock that was acquired asynchronously.
LEMMA KeepsLock ==
    ASSUME AInv, Marks, NEW t \in Txn, Rollback(t), HoldsWriteMutex(t)
    PROVE  AInv'
<1>1. Coherent(t) /\ stage[t] = "Writing" /\ blocked[t] = "no"
    BY Zenon DEF Rollback, Runs, SetStage, dataVars, AInv
<1>2. /\ async' = async /\ blocked' = blocked /\ read' = read /\ oldest' = oldest
      /\ failed' = failed /\ setup' = setup /\ newest' = newest
      /\ stage' = [stage EXCEPT ![t] = "Reading"]
      /\ UNCHANGED <<mutex, helper, worker, serving>>
    BY <1>1, Zenon DEF Rollback, Runs, SetStage, dataVars
<1>3. /\ stage' \in [Txn -> Stages] /\ stage'[t] = "Reading"
      /\ \A s \in Txn : s # t => stage'[s] = stage[s]
    BY <1>2, Zenon DEF AInv, AsyncTypes, Stages
<1>4. Coherent(t)'
    BY <1>1, <1>2, <1>3, Zenon DEF Coherent, Fits, Unsynced
<1>5. Moves(t)
    BY <1>2, <1>3, <1>4, Zenon DEF Moves, Marks, AInv, AsyncTypes
<1> QED
    BY <1>1, <1>2, <1>3, <1>5, StillStep, Zenon
       DEF Locked, Keeps, Behind, Coherent, Fits

\* A write lock becomes an asynchronous one.
LEMMA ToAsync ==
    ASSUME AInv, Marks, NEW t \in Txn, PromoteToAsync(t)
    PROVE  AInv'
<1>1. Coherent(t) /\ stage[t] = "Writing" /\ blocked[t] = "no" /\ async[t] = "Idle"
    BY Zenon DEF PromoteToAsync, Runs, SetAsync, dataVars, AInv
<1>2. /\ stage' = stage /\ blocked' = blocked /\ read' = read /\ oldest' = oldest
      /\ failed' = failed /\ setup' = setup /\ newest' = newest
      /\ async' = [async EXCEPT ![t] = "HasLock"]
      /\ UNCHANGED <<mutex, helper, worker, serving>>
    BY <1>1, Zenon DEF PromoteToAsync, Runs, SetAsync, dataVars
<1>3. /\ async' \in [Txn -> AsyncStages] /\ async'[t] = "HasLock"
      /\ \A s \in Txn : s # t => async'[s] = async[s]
    BY <1>2, Zenon DEF AInv, AsyncTypes, AsyncStages
<1>4. Coherent(t)'
    BY <1>1, <1>2, <1>3, Zenon DEF Coherent, Fits, Unsynced
<1>5. Moves(t)
    BY <1>2, <1>3, <1>4, Zenon DEF Moves, Marks, AInv, AsyncTypes
<1> QED
    BY <1>1, <1>2, <1>3, <1>5, StillStep, Zenon
       DEF Locked, Keeps, Behind, Coherent, Fits

\* A transaction ends; what it leaked is no longer its own.
LEMMA EndReadStep ==
    ASSUME AInv, Marks, NEW t \in Txn, EndRead(t)
    PROVE  AInv'
<1>1. Coherent(t) /\ stage[t] = "Closing" /\ blocked[t] = "no"
    BY Zenon DEF EndRead, SetStage, AInv
<1>2. /\ async' = async /\ blocked' = blocked /\ failed' = failed /\ setup' = setup
      /\ newest' = newest
      /\ stage' = [stage EXCEPT ![t] = "Ready"]
      /\ read' = [read EXCEPT ![t] = 0]
      /\ oldest' = [oldest EXCEPT ![t] = 0]
      /\ UNCHANGED <<mutex, helper, worker, serving>>
    BY <1>1, Zenon DEF EndRead, SetStage
<1>3. /\ stage' \in [Txn -> Stages] /\ stage'[t] = "Ready"
      /\ \A s \in Txn : s # t => stage'[s] = stage[s]
    BY <1>2, Zenon DEF AInv, AsyncTypes, Stages
<1>4. /\ read' \in [Txn -> Nat] /\ read'[t] = 0
      /\ \A s \in Txn : s # t => read'[s] = read[s]
    BY <1>2, Zenon DEF AInv, AsyncTypes
<1>5. /\ oldest' \in [Txn -> Nat] /\ oldest'[t] = 0
      /\ \A s \in Txn : s # t => oldest'[s] = oldest[s]
    BY <1>2, Zenon DEF AInv, AsyncTypes
<1>6. Coherent(t)'
    BY <1>1, <1>2, <1>3, <1>4, <1>5, Zenon DEF Coherent, Fits, Unsynced
<1>7. Moves(t)
    BY <1>2, <1>3, <1>4, <1>5, <1>6, Zenon DEF Moves, Marks, AInv, AsyncTypes
<1> QED
    BY <1>1, <1>2, <1>3, <1>4, <1>5, <1>7, StillStep, Zenon
       DEF Locked, Keeps, Behind, Coherent, Fits

\* A new transaction
LEMMA StartReadStep ==
    ASSUME AInv, Marks, NEW t \in Txn, StartRead(t)
    PROVE  AInv'
<1>1. Coherent(t) /\ stage[t] = "Ready" /\ blocked[t] = "no"
    BY Zenon DEF StartRead, SetStage, dataVars, AInv
<1>2. /\ async' = async /\ blocked' = blocked /\ oldest' = oldest /\ setup' = setup
      /\ newest' = newest
      /\ stage' = [stage EXCEPT ![t] = "Reading"]
      /\ read' = [read EXCEPT ![t] = newest]
      /\ failed' = [failed EXCEPT ![t] = FALSE]
      /\ UNCHANGED <<mutex, helper, worker, serving>>
    BY <1>1, Zenon DEF StartRead, SetStage, dataVars
<1>3. /\ stage' \in [Txn -> Stages] /\ stage'[t] = "Reading"
      /\ \A s \in Txn : s # t => stage'[s] = stage[s]
    BY <1>2, Zenon DEF AInv, AsyncTypes, Stages
<1>4. /\ read' \in [Txn -> Nat] /\ read'[t] = newest
      /\ \A s \in Txn : s # t => read'[s] = read[s]
    BY <1>2, Zenon DEF AInv, AsyncTypes
<1>5. /\ failed' \in [Txn -> BOOLEAN] /\ failed'[t] = FALSE
      /\ \A s \in Txn : s # t => failed'[s] = failed[s]
    BY <1>2, Zenon DEF AInv, AsyncTypes
<1>6. Coherent(t)'
    BY <1>1, <1>2, <1>3, <1>4, <1>5, Zenon DEF Coherent, Fits, Unsynced
<1>7. Moves(t)
    BY <1>2, <1>3, <1>4, <1>5, <1>6, Zenon DEF Moves, Marks, AInv, AsyncTypes
<1> QED
    BY <1>1, <1>2, <1>3, <1>4, <1>5, <1>7, StillStep, Zenon
       DEF Locked, Keeps, Behind, Coherent, Fits

\* A request for the write lock
LEMMA RequestStep ==
    ASSUME AInv, Marks, NEW t \in Txn, Request(t)
    PROVE  AInv'
<1>1. /\ Coherent(t) /\ stage[t] = "Reading" /\ blocked[t] = "no" /\ async[t] = "Idle"
      /\ helper \in Helpers /\ worker \in WorkerPoints
    BY Zenon DEF Request, Runs, AInv, AsyncTypes
<1>2. /\ stage' = stage /\ blocked' = blocked /\ read' = read /\ oldest' = oldest
      /\ failed' = failed /\ setup' = setup /\ newest' = newest
      /\ async' = [async EXCEPT ![t] = "Requesting"]
      /\ helper' = [helper EXCEPT !.queue = Append(@, t)]
      /\ UNCHANGED <<mutex, serving>> /\ Notify
    BY Zenon DEF Request, SetAsync, dataVars
<1>3. /\ helper' \in Helpers /\ SameHelper
      /\ helper'.queue = Append(helper.queue, t) /\ helper'.claims = helper.claims
    <2>1. Append(helper.queue, t) \in Seq(Txn)
        BY <1>1 DEF Helpers
    <2> QED
        BY <1>1, <1>2, <2>1 DEF Helpers, SameHelper
<1>4. Woken /\ worker' \in WorkerPoints /\ (worker' = "callback" => worker = "callback")
    BY <1>1, <1>2, Zenon DEF Notify, Woken, WorkerPoints
<1>5. /\ async' \in [Txn -> AsyncStages] /\ async'[t] = "Requesting"
      /\ \A s \in Txn : s # t => async'[s] = async[s]
    BY <1>2, Zenon DEF AInv, AsyncTypes, AsyncStages
<1>6. Coherent(t)'
    BY <1>1, <1>2, <1>5, Zenon DEF Coherent, Fits, Unsynced
<1>7. Moves(t)
    BY <1>2, <1>3, <1>4, <1>5, <1>6, Zenon DEF Moves, Marks, AInv, AsyncTypes
<1>8. Lines' /\ HasPendingWrites(helper')
    BY <1>1, <1>2, <1>3, <1>4, <1>5, <1>7, RequestJoins, Zenon
<1> QED
    BY <1>1, <1>2, <1>3, <1>4, <1>5, <1>7, <1>8, QuietStep, Zenon
       DEF Locked, Keeps, Behind

\* blocking_begin_write: the caller waits for the mutex itself or for the
\* worker.
LEMMA BlockingStep ==
    ASSUME AInv, Marks, NEW t \in Txn, BlockingBegin(t),
           stage[t] = "Reading", async[t] = "Idle", blocked[t] \in {"no", "synced"},
           UNCHANGED <<setup, mutex, serving, stage, async, read, oldest, failed, newest>>
    PROVE  AInv'
<1>1. Coherent(t) /\ helper \in Helpers /\ worker \in WorkerPoints
    BY Zenon DEF AInv, AsyncTypes
<1>2. CASE CanLockOnCaller
    <2>1. /\ helper' = [helper EXCEPT !.busy = TRUE] /\ worker' = worker
          /\ blocked' = [blocked EXCEPT ![t] = "begin"]
        BY <1>2, Zenon DEF BlockingBegin, SetBlocked
    <2>2. /\ helper' \in Helpers /\ SameHelper
          /\ helper'.queue = helper.queue /\ helper'.claims = helper.claims
        BY <1>1, <2>1 DEF Helpers, SameHelper
    <2>3. /\ blocked' \in [Txn -> Points] /\ blocked'[t] = "begin"
          /\ \A s \in Txn : s # t => blocked'[s] = blocked[s]
        BY <2>1, Zenon DEF AInv, AsyncTypes, Points
    <2>4. Coherent(t)'
        BY <1>1, <2>3, Zenon DEF Coherent, Fits
    <2>5. Moves(t)
        BY <1>1, <2>1, <2>2, <2>3, <2>4, Zenon
           DEF Moves, Marks, AInv, AsyncTypes
    <2>6. Lines' /\ (HasPendingWrites(helper) => HasPendingWrites(helper'))
        BY <2>1, <2>2, <2>5, SameLines, Zenon
    <2>7. Woken
        BY <2>1, Zenon DEF Woken
    <2> QED
        BY <2>2, <2>3, <2>5, <2>6, <2>7, QuietStep, Zenon
           DEF Locked, Keeps, Behind
<1>3. CASE ~CanLockOnCaller
    <2>1. /\ helper' = [helper EXCEPT !.claims = Append(@, t)] /\ Notify
          /\ blocked' = [blocked EXCEPT ![t] = "claim"]
        BY <1>3, Zenon DEF BlockingBegin, SetBlocked
    <2>2. /\ helper' \in Helpers /\ SameHelper
          /\ helper'.queue = helper.queue /\ helper'.claims = Append(helper.claims, t)
        <3>1. Append(helper.claims, t) \in Seq(Txn)
            BY <1>1 DEF Helpers
        <3> QED
            BY <1>1, <2>1, <3>1 DEF Helpers, SameHelper
    <2>3. /\ blocked' \in [Txn -> Points] /\ blocked'[t] = "claim"
          /\ \A s \in Txn : s # t => blocked'[s] = blocked[s]
        BY <2>1, Zenon DEF AInv, AsyncTypes, Points
    <2>4. Coherent(t)'
        BY <1>1, <2>3, Zenon DEF Coherent, Fits
    <2>5. Woken /\ worker' \in WorkerPoints /\ (worker' = "callback" => worker = "callback")
        BY <1>1, <2>1, Zenon DEF Notify, Woken, WorkerPoints
    <2>6. Moves(t)
        BY <2>2, <2>3, <2>4, <2>5, Zenon DEF Moves, Marks, AInv, AsyncTypes
    <2>7. Lines' /\ HasPendingWrites(helper')
        BY <2>2, <2>3, <2>5, <2>6, ClaimJoins, Zenon
    <2> QED
        BY <2>2, <2>3, <2>5, <2>6, <2>7, QuietStep, Zenon
           DEF Locked, Keeps, Behind
<1> QED
    BY <1>2, <1>3, Zenon

\* promote_to_write in every stage, and again after a sync
LEMMA PromoteStep ==
    ASSUME AInv, Marks, NEW t \in Txn, Promote(t) \/ PromoteAfterSync(t)
    PROVE  AInv'
<1>1. CASE PromoteAfterSync(t)
    <2>1. blocked[t] = "synced" /\ stage[t] = "Reading" /\ async[t] = "Idle"
        BY <1>1, Zenon DEF PromoteAfterSync, AInv, Coherent, Fits
    <2> QED
        BY <1>1, <2>1, BlockingStep, Zenon DEF PromoteAfterSync, dataVars
<1>2. CASE Promote(t) /\ async[t] = "Idle"
    <2>1. /\ blocked[t] = "no" /\ stage[t] = "Reading" /\ BlockingBegin(t)
          /\ UNCHANGED <<setup, mutex, serving, stage, async, read, oldest, failed, newest>>
        BY <1>2, Zenon DEF Promote, Runs, HoldsWriteMutex, dataVars
    <2> QED
        BY <1>2, <2>1, BlockingStep, Zenon
<1>3. CASE Promote(t) /\ async[t] # "Idle"
    <2>1. async[t] \in {"Requesting", "HasLock", "HasCommits", "Syncing"}
        BY <1>3, Zenon DEF Promote, HoldsWriteMutex
    <2> QED
        BY <1>3, <2>1, WaitForLock, WaitForSync, HasLockAlready, Zenon
<1> QED
    BY <1>1, <1>2, <1>3, Zenon

\* The mutex is locked on the thread of the transaction.
LEMMA LocksItself ==
    ASSUME AInv, Marks, NEW t \in Txn, LockOnCaller(t) \/ TryPromote(t)
    PROVE  AInv'
<1>1. /\ Coherent(t) /\ helper \in Helpers /\ mutex = {} /\ mutex' = {t}
      /\ stage[t] = "Reading" /\ async[t] \in AsyncStages /\ blocked[t] \in {"begin", "no"}
      /\ LockOnCaller(t) => async[t] = "Idle"
    BY Zenon
       DEF AInv, AsyncTypes, Coherent, Fits, LockOnCaller, TryPromote, Runs
<1>a. async[t] \in {"Idle", "Requesting"} /\ helper.has = FALSE
    <2>1. ~Uses(t) /\ helper.has = FALSE
        BY <1>1, FreeMutex, Zenon
    <2> QED
        BY <1>1, <2>1, Zenon DEF Uses, Locked, AsyncStages
<1>2. /\ async' = async /\ oldest' = oldest /\ failed' = failed /\ setup' = setup
      /\ newest' = newest /\ serving' = serving /\ worker' = worker
      /\ stage' = [stage EXCEPT ![t] = "Writing"]
      /\ blocked' = [blocked EXCEPT ![t] = "no"] /\ read' = [read EXCEPT ![t] = newest]
    BY Zenon
       DEF LockOnCaller, TryPromote, Writes, SetStage, SetBlocked, dataVars
<1>3. /\ helper' \in Helpers /\ helper'.owns = FALSE /\ helper'.release = helper.release
      /\ helper'.sync = helper.sync
      /\ helper'.queue = helper.queue /\ helper'.claims = helper.claims
      /\ TryPromote(t) /\ ~LockOnCaller(t) => helper'.has = helper.has
    <2>1. CASE LockOnCaller(t)
        <3>1. helper' = [helper EXCEPT !.busy = FALSE, !.has = TRUE, !.owns = FALSE]
            BY <2>1, Zenon DEF LockOnCaller
        <3> QED
            BY <1>1, <2>1, <3>1 DEF Helpers
    <2>2. CASE TryPromote(t)
        <3>1. helper' = helper
            BY <2>2, Zenon DEF TryPromote
        <3> QED
            BY <1>1, <3>1, FreeMutex, Zenon
    <2> QED
        BY <2>1, <2>2, Zenon
<1>4. /\ stage' \in [Txn -> Stages] /\ stage'[t] = "Writing"
      /\ \A s \in Txn : s # t => stage'[s] = stage[s]
    BY <1>2, Zenon DEF AInv, AsyncTypes, Stages
<1>5. /\ blocked' \in [Txn -> Points] /\ blocked'[t] = "no"
      /\ \A s \in Txn : s # t => blocked'[s] = blocked[s]
    BY <1>2, Zenon DEF AInv, AsyncTypes, Points
<1>6. read' \in [Txn -> Nat]
    BY <1>2, Zenon DEF AInv, AsyncTypes
<1>7. Coherent(t)'
    BY <1>1, <1>a, <1>2, <1>4, <1>5, Zenon DEF Coherent, Fits, Unsynced
<1>8. Moves(t)
    BY <1>2, <1>3, <1>4, <1>5, <1>6, <1>7, Zenon
       DEF Moves, Marks, AInv, AsyncTypes
<1>9. Lines' /\ (HasPendingWrites(helper) => HasPendingWrites(helper'))
    BY <1>1, <1>2, <1>3, <1>8, SameLines, Zenon
<1>10. Behind(t)' => ~helper'.has
    BY <1>1, <1>a, <1>2, <1>3, Zenon DEF Behind
<1> QED
    BY <1>1, <1>2, <1>3, <1>8, <1>9, <1>10, LockingStep, Zenon

\* end_write_on_correct_thread, in whatever operation
LEMMA EndWriteStep ==
    ASSUME AInv, Marks, NEW t \in Txn, EndWrite(t), serving' = serving, setup' = setup,
           Locked(stage[t], async[t], blocked[t]), async[t] \notin {"Syncing", "Requesting"},
           stage' \in [Txn -> Stages], async' \in [Txn -> AsyncStages],
           read' \in [Txn -> Nat], oldest' \in [Txn -> Nat], failed' \in [Txn -> BOOLEAN],
           newest' \in Nat,
           \A s \in Txn : s # t => /\ stage'[s] = stage[s] /\ async'[s] = async[s]
                                   /\ oldest'[s] = oldest[s] /\ failed'[s] = failed[s],
           stage'[t] \in {"Reading", "Closing"}, async'[t] = "Idle",
           Unsynced(stage'[t], "Idle", oldest'[t], failed'[t])
    PROVE  AInv'
<1>1. /\ Coherent(t) /\ helper \in Helpers /\ worker \in WorkerPoints
      /\ blocked \in [Txn -> Points] /\ (helper.owns => helper.has)
    BY Zenon DEF AInv, AsyncTypes, Owned
<1>2. async[t] # "Requesting" /\ blocked[t] # "claim"
    BY <1>1, Zenon DEF Coherent, Fits, Locked
<1>3. PICK b \in {"release", "no"} : blocked' = [blocked EXCEPT ![t] = b]
    BY Zenon DEF EndWrite, SetBlocked
<1>4. /\ blocked' \in [Txn -> Points] /\ blocked'[t] = b
      /\ \A s \in Txn : s # t => blocked'[s] = blocked[s]
    BY <1>1, <1>3, Zenon DEF Points
<1>5. Fits(stage'[t], "Idle", b)
    BY <1>3, Zenon DEF Fits
<1>6. Coherent(t)' /\ ~Locked(stage[t], async[t], blocked[t])'
    BY <1>3, <1>4, <1>5, Zenon DEF Coherent, Locked
<1>7. Woken /\ worker' \in WorkerPoints /\ (worker' = "callback" => worker = "callback")
    BY <1>1, Zenon DEF EndWrite, Notify, Woken, WorkerPoints
<1>8. /\ helper' \in Helpers /\ helper'.owns = helper.owns /\ helper'.sync = helper.sync
      /\ helper'.queue = helper.queue /\ helper'.claims = helper.claims
      /\ \/ /\ helper.has /\ mutex' = mutex
            /\ helper'.has = helper.has /\ helper'.release = TRUE
         \/ /\ ~helper.owns /\ mutex' = {}
            /\ helper'.has = FALSE /\ helper'.release = helper.release
    <2>1. CASE helper.has /\ helper.owns
        <3>1. helper' = [helper EXCEPT !.release = TRUE] /\ mutex' = mutex
            BY <2>1, Zenon DEF EndWrite
        <3> QED
            BY <1>1, <2>1, <3>1 DEF Helpers
    <2>2. CASE ~(helper.has /\ helper.owns)
        <3>1. helper' = [helper EXCEPT !.has = FALSE] /\ mutex' = {}
            BY <2>2, Zenon DEF EndWrite
        <3> QED
            BY <1>1, <2>2, <3>1 DEF Helpers
    <2> QED
        BY <2>1, <2>2, Zenon
<1>9. Moves(t)
    BY <1>4, <1>6, <1>7, <1>8, Zenon DEF Moves, Marks, AInv, AsyncTypes
<1>10. Lines' /\ (HasPendingWrites(helper) => HasPendingWrites(helper'))
    BY <1>2, <1>7, <1>8, <1>9, SameLines, Zenon
<1> QED
    BY <1>6, <1>7, <1>8, <1>9, <1>10, GivingUp, Zenon

\* t unlocks a mutex that it has locked itself while its request waits.
LEMMA BehindEnds ==
    ASSUME AInv, Marks, NEW t \in Txn, Behind(t), NEW st \in {"Reading", "Closing"}, NEW b \in Points,
           Fits(st, "Requesting", b), b # "locked", mutex' = {},
           UNCHANGED <<helper, worker, serving, setup, newest, async, read, oldest, failed>>,
           stage' = [stage EXCEPT ![t] = st], blocked' = [blocked EXCEPT ![t] = b]
    PROVE  AInv'
<1>1. /\ Coherent(t) /\ helper \in Helpers /\ stage[t] = "Writing" /\ async[t] = "Requesting"
      /\ blocked[t] = "no" /\ ~helper.has /\ ~helper.owns
    BY Zenon DEF AInv, AsyncTypes, Behind, Apart, Owned, Coherent, Fits
<1>2. helper.has = FALSE
    BY <1>1 DEF Helpers
<1>3. /\ stage' \in [Txn -> Stages] /\ stage'[t] = st
      /\ \A s \in Txn : s # t => stage'[s] = stage[s]
    BY Zenon DEF AInv, AsyncTypes, Stages
<1>4. /\ blocked' \in [Txn -> Points] /\ blocked'[t] = b
      /\ \A s \in Txn : s # t => blocked'[s] = blocked[s]
    BY Zenon DEF AInv, AsyncTypes
<1>5. Coherent(t)' /\ ~Locked(stage[t], async[t], blocked[t])'
    BY <1>1, <1>3, <1>4, Zenon DEF Coherent, Unsynced, Locked
<1>6. Moves(t)
    BY <1>3, <1>4, <1>5, Zenon DEF Moves, Marks, AInv, AsyncTypes
<1>7. Lines' /\ (HasPendingWrites(helper) => HasPendingWrites(helper'))
    BY <1>1, <1>6, SameLines, Zenon
<1>8. Woken /\ Locked(stage[t], async[t], blocked[t])
    BY <1>1, Zenon DEF Woken, Locked
<1> QED
    BY <1>1, <1>2, <1>5, <1>6, <1>7, <1>8, GivingUp, Zenon

\* A commit to disk while the request waits: the lock is kept as if the helper
\* had granted it.
LEMMA CommitBehind ==
    ASSUME AInv, Marks, NEW t \in Txn, CommitToDisk(t), async[t] = "Requesting"
    PROVE  AInv'
<1>1. /\ Coherent(t) /\ stage[t] = "Writing" /\ blocked[t] = "no"
      /\ setup' = setup /\ newest' = newest + 1 /\ read' = [read EXCEPT ![t] = newest']
      /\ stage' = [stage EXCEPT ![t] = "Reading"] /\ oldest' = [oldest EXCEPT ![t] = 0]
      /\ failed' = failed /\ async' = [async EXCEPT ![t] = "HasLock"] /\ blocked' = blocked
      /\ UNCHANGED <<mutex, helper, worker, serving>>
    BY Zenon DEF CommitToDisk, NewVersion, Runs, SetStage, SetAsync, AInv
<1>2. newest' \in Nat
    <2>1. newest \in Nat
        BY Zenon DEF AInv, AsyncTypes
    <2> QED
        BY <1>1, <2>1
<1>3. 0 \in Nat
    OBVIOUS
<1>4. /\ stage' \in [Txn -> Stages] /\ async' \in [Txn -> AsyncStages]
      /\ read' \in [Txn -> Nat] /\ oldest' \in [Txn -> Nat]
      /\ \A s \in Txn : s # t => /\ stage'[s] = stage[s] /\ async'[s] = async[s]
                                 /\ oldest'[s] = oldest[s]
      /\ stage'[t] = "Reading" /\ async'[t] = "HasLock" /\ oldest'[t] = 0
    BY <1>1, <1>2, <1>3, Zenon DEF AInv, AsyncTypes, Stages, AsyncStages
<1>5. Coherent(t)'
    BY <1>1, <1>4, Zenon DEF Coherent, Fits, Unsynced
<1>6. Moves(t)
    BY <1>1, <1>2, <1>4, <1>5, Zenon DEF Moves, Marks, AInv, AsyncTypes
<1>7. mixed'
    BY <1>1, <1>4, Zenon DEF Marks, Mixes
<1> QED
    BY <1>1, <1>4, <1>6, <1>7, StillStep, Zenon DEF Locked, Keeps, Behind

\* A commit to disk ends the write.
LEMMA DiskCommitStep ==
    ASSUME AInv, Marks, NEW t \in Txn, CommitToDisk(t), async[t] # "Requesting"
    PROVE  AInv'
<1>1. /\ Coherent(t) /\ stage[t] = "Writing" /\ setup' = setup /\ serving' = serving
      /\ newest' = newest + 1 /\ read' = [read EXCEPT ![t] = newest']
      /\ stage' = [stage EXCEPT ![t] = "Reading"] /\ oldest' = [oldest EXCEPT ![t] = 0]
      /\ failed' = failed
    BY Zenon DEF CommitToDisk, NewVersion, Runs, SetStage, AInv
<1>2. async[t] \in {"Idle", "HasLock", "HasCommits"}
    BY <1>1, Zenon DEF Coherent, Fits
<1>3. EndWrite(t) /\ async' = [async EXCEPT ![t] = "Idle"]
    BY <1>2, Zenon DEF CommitToDisk, SetAsync
<1>4. newest' \in Nat
    <2>1. newest \in Nat
        BY Zenon DEF AInv, AsyncTypes
    <2> QED
        BY <1>1, <2>1
<1>5. 0 \in Nat
    OBVIOUS
<1>6. /\ stage' \in [Txn -> Stages] /\ async' \in [Txn -> AsyncStages]
      /\ read' \in [Txn -> Nat] /\ oldest' \in [Txn -> Nat] /\ failed' \in [Txn -> BOOLEAN]
      /\ \A s \in Txn : s # t => /\ stage'[s] = stage[s] /\ async'[s] = async[s]
                                 /\ oldest'[s] = oldest[s] /\ failed'[s] = failed[s]
      /\ stage'[t] = "Reading" /\ async'[t] = "Idle" /\ oldest'[t] = 0
    BY <1>1, <1>3, <1>4, <1>5, Zenon DEF AInv, AsyncTypes, Stages, AsyncStages
<1>7. Locked(stage[t], async[t], blocked[t]) /\ Unsynced("Reading", "Idle", 0, failed'[t])
    BY <1>1, Zenon DEF Locked, Unsynced
<1> QED
    BY <1>1, <1>2, <1>3, <1>4, <1>6, <1>7, EndWriteStep, Zenon

\* A rollback of a write lock that was not acquired asynchronously
LEMMA RollbackStep ==
    ASSUME AInv, Marks, NEW t \in Txn, Rollback(t)
    PROVE  AInv'
<1>1. /\ Coherent(t) /\ stage[t] = "Writing" /\ setup' = setup /\ serving' = serving
      /\ newest' = newest /\ read' = read /\ async' = async /\ oldest' = oldest
      /\ stage' = [stage EXCEPT ![t] = "Reading"] /\ failed' = failed
    BY Zenon DEF Rollback, Runs, SetStage, AInv, dataVars
<1>2. CASE ~HoldsWriteMutex(t) /\ async[t] # "Requesting"
    <2>1. async[t] = "Idle" /\ EndWrite(t)
        BY <1>1, <1>2, Zenon DEF Coherent, Fits, HoldsWriteMutex, Rollback
    <2>2. /\ stage' \in [Txn -> Stages] /\ stage'[t] = "Reading"
          /\ \A s \in Txn : s # t => stage'[s] = stage[s]
        BY <1>1, Zenon DEF AInv, AsyncTypes, Stages
    <2>3. Locked(stage[t], async[t], blocked[t]) /\ Unsynced("Reading", "Idle", oldest[t], failed[t])
        BY <1>1, <2>1, Zenon DEF Locked, Unsynced, Coherent
    <2> QED
        BY <1>1, <2>1, <2>2, <2>3, EndWriteStep, Zenon DEF AInv, AsyncTypes
<1>3. CASE async[t] = "Requesting"
    <2>1. Behind(t) /\ EndWrite(t) /\ helper \in Helpers
        BY <1>1, <1>3, Zenon
           DEF Behind, HoldsWriteMutex, Rollback, AInv, AsyncTypes
    <2>2. ~helper.has
        BY <2>1, Zenon DEF AInv, Apart
    <2>3. /\ mutex' = {} /\ helper' = [helper EXCEPT !.has = FALSE] /\ worker' = worker
          /\ blocked' = [blocked EXCEPT ![t] = "no"]
        BY <2>1, <2>2, Zenon DEF EndWrite, SetBlocked
    <2>4. helper' = helper
        BY <2>1, <2>2, <2>3 DEF Helpers
    <2>5. Fits("Reading", "Requesting", "no") /\ "no" \in Points
        BY Zenon DEF Fits, Points
    <2> QED
        BY <1>1, <2>1, <2>3, <2>4, <2>5, BehindEnds, Zenon
<1> QED
    BY <1>2, <1>3, KeepsLock, Zenon

\* A close, with or without the write lock
LEMMA CloseStep ==
    ASSUME AInv, Marks, NEW t \in Txn, Close(t)
    PROVE  AInv'
<1>1. /\ Coherent(t) /\ blocked[t] = "no" /\ stage[t] \in {"Reading", "Writing"}
      /\ setup' = setup /\ serving' = serving
      /\ newest' = newest /\ read' = read /\ stage' = [stage EXCEPT ![t] = "Closing"]
    BY Zenon DEF Close, Runs, SetStage, AInv
<1>2. /\ stage' \in [Txn -> Stages] /\ stage'[t] = "Closing"
      /\ \A s \in Txn : s # t => stage'[s] = stage[s]
    BY <1>1, Zenon DEF AInv, AsyncTypes, Stages
<1>3. CASE async[t] = "Idle" /\ stage[t] = "Writing"
    <2>1. EndWrite(t) /\ async' = async /\ oldest' = oldest /\ failed' = failed
        BY <1>3, Zenon DEF Close, HoldsWriteMutex
    <2>2. Locked(stage[t], async[t], blocked[t]) /\ Unsynced("Closing", "Idle", oldest[t], failed[t])
        BY <1>1, <1>3, Zenon DEF Locked, Unsynced, Coherent
    <2> QED
        BY <1>1, <1>2, <1>3, <2>1, <2>2, EndWriteStep, Zenon
           DEF AInv, AsyncTypes
<1>4. CASE async[t] = "Idle" /\ stage[t] = "Reading"
    <2>1. /\ async' = async /\ oldest' = oldest /\ failed' = failed
          /\ UNCHANGED <<mutex, helper, worker, blocked>>
        BY <1>4, Zenon DEF Close, HoldsWriteMutex
    <2>2. Coherent(t)'
        BY <1>1, <1>2, <1>4, <2>1, Zenon DEF Coherent, Fits, Unsynced
    <2>3. Moves(t)
        BY <1>1, <1>2, <2>1, <2>2, Zenon DEF Moves, Marks, AInv, AsyncTypes
    <2> QED
        BY <1>1, <1>2, <1>4, <2>1, <2>3, StillStep, Zenon
           DEF Locked, Keeps, Behind
<1>5. CASE HoldsWriteMutex(t)
    <2>1. /\ EndWrite(t) /\ async' = [async EXCEPT ![t] = "Idle"]
          /\ IF async[t] = "HasCommits" \/ oldest[t] # 0
               THEN CompleteAsyncCommit(t) ELSE UNCHANGED <<file, oldest, failed>>
        BY <1>5, Zenon DEF Close, HoldsWriteMutex, SetAsync
    <2>2. /\ async' \in [Txn -> AsyncStages] /\ async'[t] = "Idle"
          /\ \A s \in Txn : s # t => async'[s] = async[s]
        BY <2>1, Zenon DEF AInv, AsyncTypes, AsyncStages
    <2>3. 0 \in Nat
        OBVIOUS
    <2>4. /\ oldest' \in [Txn -> Nat] /\ failed' \in [Txn -> BOOLEAN]
          /\ \A s \in Txn : s # t => oldest'[s] = oldest[s] /\ failed'[s] = failed[s]
          /\ oldest'[t] = 0 \/ failed'[t]
        BY <2>1, <2>3, Zenon DEF AInv, AsyncTypes, CompleteAsyncCommit
    <2>5. /\ Locked(stage[t], async[t], blocked[t]) /\ async[t] \notin {"Syncing", "Requesting"}
          /\ Unsynced("Closing", "Idle", oldest'[t], failed'[t])
        BY <1>5, <2>4, Zenon DEF Locked, Unsynced, HoldsWriteMutex
    <2> QED
        BY <1>1, <1>2, <2>1, <2>2, <2>4, <2>5, EndWriteStep, Zenon
           DEF AInv, AsyncTypes
<1>6. CASE Behind(t)
    <2>1. /\ blocked' = [blocked EXCEPT ![t] = "closeLock"] /\ mutex' = {}
          /\ async' = async /\ oldest' = oldest /\ failed' = failed
          /\ UNCHANGED <<helper, worker>>
        BY <1>6, Zenon DEF Behind, Close, HoldsWriteMutex, SetBlocked
    <2>2. Fits("Closing", "Requesting", "closeLock") /\ "closeLock" \in Points
        BY Zenon DEF Fits, Points
    <2> QED
        BY <1>1, <1>6, <2>1, <2>2, BehindEnds, Zenon
<1>7. CASE async[t] \in {"Requesting", "Syncing"} /\ stage[t] = "Reading"
    <2>1. /\ blocked' = [blocked EXCEPT ![t] = IF async[t] = "Syncing" THEN "closeSync"
                                                                      ELSE "closeLock"]
          /\ async' = async /\ oldest' = oldest /\ failed' = failed
          /\ UNCHANGED <<mutex, helper, worker>>
        BY <1>7, Zenon DEF Close, HoldsWriteMutex, SetBlocked
    <2>2. /\ blocked' \in [Txn -> Points]
          /\ blocked'[t] = IF async[t] = "Syncing" THEN "closeSync" ELSE "closeLock"
          /\ \A s \in Txn : s # t => blocked'[s] = blocked[s]
        BY <2>1, Zenon DEF AInv, AsyncTypes, Points
    <2>3. Coherent(t)'
        BY <1>1, <1>2, <1>7, <2>1, <2>2, Zenon DEF Coherent, Fits, Unsynced
    <2>4. Moves(t)
        BY <1>1, <1>2, <2>1, <2>2, <2>3, Zenon
           DEF Moves, Marks, AInv, AsyncTypes
    <2> QED
        BY <1>1, <1>2, <1>7, <2>1, <2>2, <2>4, StillStep, Zenon
           DEF Locked, Keeps, Behind
<1>8. async[t] = "Syncing" => stage[t] # "Writing"
    BY <1>1, Zenon DEF Coherent, Fits
<1> QED
    BY <1>1, <1>3, <1>4, <1>5, <1>7, <1>6, <1>8, Zenon DEF Close, Behind

\* The end of a close that waited for the write lock
LEMMA CloseWithLockStep ==
    ASSUME AInv, Marks, NEW t \in Txn, CloseWithLock(t)
    PROVE  AInv'
<1>1. /\ Coherent(t) /\ blocked[t] = "closeLocked" /\ setup' = setup /\ serving' = serving
      /\ newest' = newest /\ read' = read /\ stage' = stage /\ oldest' = oldest
      /\ failed' = failed /\ async' = [async EXCEPT ![t] = "Idle"] /\ EndWrite(t)
    BY Zenon DEF CloseWithLock, SetAsync, AInv, dataVars
<1>2. stage[t] = "Closing" /\ async[t] = "HasLock"
    BY <1>1, Zenon DEF Coherent, Fits
<1>3. /\ async' \in [Txn -> AsyncStages] /\ async'[t] = "Idle"
      /\ \A s \in Txn : s # t => async'[s] = async[s]
    BY <1>1, Zenon DEF AInv, AsyncTypes, AsyncStages
<1>4. Locked(stage[t], async[t], blocked[t]) /\ Unsynced("Closing", "Idle", oldest[t], failed[t])
    BY <1>1, <1>2, Zenon DEF Locked, Unsynced, Coherent
<1> QED
    BY <1>1, <1>2, <1>3, <1>4, EndWriteStep, Zenon DEF AInv, AsyncTypes

\* async_complete_writes, of a lock that was acquired through the helper
LEMMA CompleteWritesStep ==
    ASSUME AInv, Marks, NEW t \in Txn, CompleteWrites(t)
    PROVE  AInv'
<1>1. /\ Coherent(t) /\ blocked[t] = "no" /\ stage[t] = "Reading"
      /\ helper \in Helpers /\ worker \in WorkerPoints
      /\ setup' = setup /\ serving' = serving /\ stage' = stage /\ blocked' = blocked
      /\ read' = read /\ oldest' = oldest /\ failed' = failed /\ newest' = newest
      /\ async[t] \in {"HasLock", "HasCommits"}
    BY Zenon DEF CompleteWrites, Runs, AInv, AsyncTypes, dataVars
<1>2. Woken /\ worker' \in WorkerPoints /\ (worker' = "callback" => worker = "callback")
    BY <1>1, Zenon DEF CompleteWrites, SyncToDisk, Notify, Woken, WorkerPoints
<1>3. Locked(stage[t], async[t], blocked[t])
    BY <1>1, Zenon DEF Locked
<1>4. CASE async[t] = "HasLock"
    <2>1. /\ async' = [async EXCEPT ![t] = "Idle"]
          /\ IF helper.owns
               THEN helper' = [helper EXCEPT !.release = TRUE] /\ mutex' = mutex
               ELSE helper' = [helper EXCEPT !.has = FALSE] /\ mutex' = {}
        BY <1>4, Zenon DEF CompleteWrites, SetAsync
    <2>2. /\ async' \in [Txn -> AsyncStages] /\ async'[t] = "Idle"
          /\ \A s \in Txn : s # t => async'[s] = async[s]
        BY <2>1, Zenon DEF AInv, AsyncTypes, AsyncStages
    <2>3. helper.owns => helper.has
        BY Zenon DEF AInv, Owned
    <2>4. /\ helper' \in Helpers /\ helper'.owns = helper.owns /\ helper'.sync = helper.sync
          /\ helper'.queue = helper.queue /\ helper'.claims = helper.claims
          /\ \/ /\ helper.has /\ mutex' = mutex
                /\ helper'.has = helper.has /\ helper'.release = TRUE
             \/ /\ ~helper.owns /\ mutex' = {}
                /\ helper'.has = FALSE /\ helper'.release = helper.release
        <3>1. CASE helper.owns
            BY <1>1, <2>1, <2>3, <3>1 DEF Helpers
        <3>2. CASE ~helper.owns
            BY <1>1, <2>1, <3>2 DEF Helpers
        <3> QED
            BY <3>1, <3>2, Zenon
    <2>5. Coherent(t)' /\ ~Locked(stage[t], async[t], blocked[t])'
        BY <1>1, <1>4, <2>2, Zenon DEF Coherent, Fits, Unsynced, Locked
    <2>6. Moves(t)
        BY <1>1, <1>2, <2>2, <2>4, <2>5, Zenon
           DEF Moves, Marks, AInv, AsyncTypes
    <2>7. Lines' /\ (HasPendingWrites(helper) => HasPendingWrites(helper'))
        BY <1>1, <1>2, <1>4, <2>2, <2>4, <2>6, SameLines, Zenon
    <2> QED
        BY <1>1, <1>2, <1>3, <1>4, <2>4, <2>5, <2>6, <2>7, GivingUp, Zenon
<1>5. CASE async[t] = "HasCommits"
    <2>1. /\ async' = [async EXCEPT ![t] = "Syncing"] /\ mutex' = mutex
          /\ helper' = [helper EXCEPT !.sync = {t}]
        BY <1>5, Zenon DEF CompleteWrites, SyncToDisk, SetAsync
    <2>2. /\ async' \in [Txn -> AsyncStages] /\ async'[t] = "Syncing"
          /\ \A s \in Txn : s # t => async'[s] = async[s]
        BY <2>1, Zenon DEF AInv, AsyncTypes, AsyncStages
    <2>3. /\ helper' \in Helpers /\ helper'.owns = helper.owns /\ helper'.sync = {t}
          /\ helper'.has = helper.has /\ helper'.release = helper.release
          /\ helper'.queue = helper.queue /\ helper'.claims = helper.claims
        BY <1>1, <2>1 DEF Helpers
    <2>4. Coherent(t)' /\ Locked(stage[t], async[t], blocked[t])'
        BY <1>1, <1>5, <2>2, Zenon DEF Coherent, Fits, Unsynced, Locked
    <2>5. Moves(t)
        BY <1>1, <1>2, <2>2, <2>3, <2>4, Zenon
           DEF Moves, Marks, AInv, AsyncTypes
    <2>6. Lines' /\ (HasPendingWrites(helper) => HasPendingWrites(helper'))
        BY <1>1, <1>2, <1>5, <2>2, <2>3, <2>5, SameLines, Zenon
    <2>7. /\ \A s \in Txn : s # t => ~Uses(s)
          /\ ~Releasing /\ ~Served(t) /\ worker \notin {"callback", "sync"}
          /\ helper.sync = {} /\ (mutex = {"worker"} \/ mutex = {t})
        BY <1>3, <1>5, HolderAlone
    <2>8. helper.has \/ mixed'
        BY <1>1, <1>5, <2>2, Zenon DEF Marks, Mixes, HoldsWriteMutex
    <2>9. worker' \notin {"callback", "sync", "synced"} /\ ~Releasing'
        BY <1>2, <2>3, <2>7, Zenon DEF Woken, Releasing
    <2>10. \A s \in Txn : s # t => ~Uses(s)'
        BY <2>5, <2>7, <2>9, Zenon DEF Uses, Moves, Locked, Served
    <2>11. Owned'
        BY <2>1, <2>3, <2>7, <2>9, <2>10, Zenon DEF Owned, AInv, Engaged
    <2>12. Tasks'
        BY <1>2, <2>2, <2>3, <2>6, <2>9, Zenon DEF Tasks, AInv, Woken
    <2>13. Apart'
        <3>1. \A s \in Txn : ~Behind(s)'
            BY <2>2, <2>10, Zenon DEF Behind, Uses, Locked
        <3>2. \A s \in Txn : ~Served(s)'
            BY <2>9, Zenon DEF Served
        <3> QED
            BY <2>3, <2>8, <3>1, <3>2, Zenon DEF Apart
    <2> QED
        BY <2>5, <2>6, <2>11, <2>12, <2>13, OthersCohere, Zenon DEF AInv, Moves
<1> QED
    BY <1>1, <1>4, <1>5, Zenon

-----------------------------------------------------------------------------
\* The lines in a step of the worker that serves nobody's request
LEMMA KeptLines ==
    ASSUME AInv, mixed => mixed', helper'.queue = helper.queue, helper'.claims = helper.claims,
           worker' # "callback",
           \A s \in Txn : /\ async[s] = "Requesting" /\ (worker = "callback" => serving # {s})
                            => async'[s] = "Requesting"
                          /\ blocked[s] = "claim" => blocked'[s] = "claim"
    PROVE  Lines'
<1>1. /\ \A i \in 1 .. Len(helper.queue) : helper.queue[i] \in Txn
      /\ \A i \in 1 .. Len(helper.claims) : helper.claims[i] \in Txn
    <2>1. helper.queue \in Seq(Txn) /\ helper.claims \in Seq(Txn)
        BY DEF AInv, AsyncTypes, Helpers
    <2> QED
        BY <2>1
<1>2. ASSUME ~mixed' PROVE QueueLine'
    <2>1. QueueLine
        BY <1>2, Zenon DEF Lines, AInv
    <2>2. \A i \in 1 .. Len(helper.queue) : async'[helper.queue[i]] = "Requesting"
        BY <1>1, <2>1, Zenon DEF QueueLine
    <2> QED
        BY <2>1, <2>2 DEF QueueLine
<1>3. /\ \A i \in 1 .. Len(helper.claims) : blocked'[helper.claims[i]] = "claim"
      /\ \A i, j \in 1 .. Len(helper.claims) : i # j => helper.claims[i] # helper.claims[j]
    BY <1>1, Zenon DEF Lines, AInv
<1> QED
    BY <1>2, <1>3 DEF Lines

\* A step that changes no transaction
LEMMA WorkerStep ==
    ASSUME AInv, UNCHANGED <<setup, txnVars>>, newest' \in Nat, helper' \in Helpers,
           worker' \in WorkerPoints, serving' \subseteq Txn, Lines', Owned', Apart', Tasks'
    PROVE  AInv'
<1>1. UNCHANGED <<stage, async, blocked, read, oldest, failed>>
    BY Zenon DEF txnVars
<1> QED
    BY <1>1, Zenon DEF AInv, AsyncTypes, Coherent

\* A round of the worker: it takes a sync, releases the mutex, or goes on to
\* acquire it or to wait.
LEMMA LoopStep ==
    ASSUME AInv, Marks, WorkerLoop
    PROVE  AInv'
<1>1. /\ helper \in Helpers /\ serving \subseteq Txn /\ worker = "loop"
      /\ setup' = setup /\ UNCHANGED txnVars /\ newest' = newest /\ newest \in Nat
      /\ stage' = stage /\ async' = async /\ blocked' = blocked
    BY Zenon DEF WorkerLoop, AInv, AsyncTypes, txnVars, dataVars
<1>2. \A s \in Txn : ~Served(s)
    BY <1>1, Zenon DEF Served
<1>3. CASE helper.has /\ helper.sync # {}
    <2>1. /\ worker' = "sync" /\ serving' = helper.sync /\ mutex' = mutex
          /\ helper' = [helper EXCEPT !.sync = {}]
        BY <1>3, Zenon DEF WorkerLoop
    <2>2. /\ helper' \in Helpers /\ helper'.owns = helper.owns /\ helper'.sync = {}
          /\ helper'.has = helper.has /\ helper'.release = helper.release
          /\ helper'.queue = helper.queue /\ helper'.claims = helper.claims
        BY <1>1, <2>1 DEF Helpers
    <2>3. PICK t \in Txn : helper.sync = {t} /\ async[t] = "Syncing"
        BY <1>3, Zenon DEF AInv, Tasks
    <2>4. \A s \in Txn : Uses(s)' => Uses(s)
        BY <1>1, <2>1, Zenon DEF Uses, Served
    <2>5. (Releasing' => Releasing) /\ helper.has
        BY <1>3, <2>1, <2>2, Zenon DEF Releasing
    <2>6. Owned'
        BY <2>1, <2>2, <2>4, <2>5, Zenon DEF Owned, AInv
    <2>7. Tasks'
        BY <1>1, <2>1, <2>2, <2>3, Zenon DEF Tasks
    <2>8. Lines'
        BY <1>1, <2>1, <2>2, KeptLines, Zenon DEF Marks
    <2>9. serving' \subseteq Txn /\ worker' \in WorkerPoints
        BY <2>1, <2>3, Zenon DEF WorkerPoints
    <2>10. Apart'
        BY <1>1, <2>1, <2>2, Zenon DEF Apart, AInv, Behind, Served
    <2> QED
        BY <1>1, <2>2, <2>6, <2>7, <2>8, <2>9, <2>10, WorkerStep, Zenon
<1>4. CASE helper.has /\ helper.sync = {} /\ helper.release
    <2>1. /\ worker' = "loop" /\ serving' = serving /\ mutex' = {}
          /\ helper' = [helper EXCEPT !.release = FALSE, !.has = FALSE, !.owns = FALSE]
        BY <1>1, <1>4, Zenon DEF WorkerLoop
    <2>2. /\ helper' \in Helpers /\ helper'.owns = FALSE /\ helper'.sync = {}
          /\ helper'.has = FALSE /\ helper'.release = FALSE
          /\ helper'.queue = helper.queue /\ helper'.claims = helper.claims
        BY <1>1, <1>4, <2>1 DEF Helpers
    <2>3. \A s \in Txn : ~Uses(s)
        BY <1>4, Zenon DEF AInv, Owned, Releasing
    <2>4. \A s \in Txn : ~Uses(s)'
        BY <1>1, <2>1, <2>3, Zenon DEF Uses, Served
    <2>5. ~Engaged'
        BY <2>1, <2>2, Zenon DEF Engaged, Releasing
    <2>6. Owned'
        BY <2>1, <2>2, <2>4, <2>5, Zenon DEF Owned
    <2>7. Tasks'
        BY <2>1, <2>2, Zenon DEF Tasks
    <2>8. Lines'
        BY <1>1, <2>1, <2>2, KeptLines, Zenon DEF Marks
    <2>9. Apart'
        BY <2>1, <2>2, Zenon DEF Apart, Served
    <2> QED
        BY <1>1, <2>1, <2>2, <2>6, <2>7, <2>8, <2>9, WorkerStep, Zenon
           DEF WorkerPoints
<1>5. CASE helper.has => (helper.sync = {} /\ ~helper.release)
    <2>1. /\ worker' \in {"begin", "wait"} /\ (worker' = "begin" => HasPendingWrites(helper))
          /\ UNCHANGED <<mutex, helper, serving>>
        BY <1>5, Zenon DEF WorkerLoop
    <2>2. \A s \in Txn : Uses(s)' => Uses(s)
        BY <1>1, <2>1, Zenon DEF Uses, Served
    <2>3. (Releasing' => Releasing) /\ (Engaged' => Engaged)
        BY <2>1, Zenon DEF Releasing, Engaged
    <2>4. Owned'
        BY <2>1, <2>2, <2>3, Zenon DEF Owned, AInv
    <2>5. Tasks'
        BY <1>1, <2>1, Zenon DEF Tasks, AInv
    <2>6. Lines'
        BY <1>1, <2>1, KeptLines, Zenon DEF Marks
    <2>7. Apart'
        BY <1>1, <2>1, Zenon DEF Apart, AInv, Behind, Served, Marks
    <2> QED
        BY <1>1, <2>1, <2>4, <2>5, <2>6, <2>7, WorkerStep, Zenon
           DEF WorkerPoints
<1> QED
    BY <1>3, <1>4, <1>5, Zenon

\* A sync has ended: the helper releases the mutex in its next round.
LEMMA ReleasesStep ==
    ASSUME AInv, Marks, WorkerReleases
    PROVE  AInv'
<1>1. /\ helper \in Helpers /\ serving \subseteq Txn /\ worker = "synced" /\ worker' = "loop"
      /\ setup' = setup /\ UNCHANGED txnVars /\ newest' = newest /\ newest \in Nat
      /\ stage' = stage /\ async' = async /\ blocked' = blocked
      /\ mutex' = mutex /\ serving' = serving /\ helper' = [helper EXCEPT !.release = TRUE]
    BY Zenon DEF WorkerReleases, AInv, AsyncTypes, txnVars, dataVars
<1>2. /\ helper' \in Helpers /\ helper'.owns = helper.owns /\ helper'.sync = helper.sync
      /\ helper'.has = helper.has
      /\ helper'.queue = helper.queue /\ helper'.claims = helper.claims
    BY <1>1 DEF Helpers
<1>3. \A s \in Txn : Uses(s)' => Uses(s)
    BY <1>1, Zenon DEF Uses, Served
<1>4. Releasing /\ Engaged
    BY <1>1, Zenon DEF Releasing, Engaged
<1>5. Owned'
    BY <1>1, <1>2, <1>3, <1>4, Zenon DEF Owned, AInv
<1>6. Tasks'
    BY <1>1, <1>2, Zenon DEF Tasks, AInv
<1>7. Lines'
    BY <1>1, <1>2, KeptLines, Zenon DEF Marks
<1>8. Apart'
    BY <1>1, <1>2, Zenon DEF Apart, AInv, Behind, Served, Marks
<1> QED
    BY <1>1, <1>2, <1>5, <1>6, <1>7, <1>8, WorkerStep, Zenon DEF WorkerPoints

\* Another process locks or unlocks the mutex.
LEMMA OtherStep ==
    ASSUME AInv, Marks, OtherLocks \/ OtherUnlocks
    PROVE  AInv'
<1>1. /\ helper \in Helpers /\ serving \subseteq Txn /\ worker \in WorkerPoints
      /\ setup' = setup /\ UNCHANGED txnVars /\ newest \in Nat
      /\ stage' = stage /\ async' = async /\ blocked' = blocked
      /\ UNCHANGED <<helper, worker, serving>>
      /\ mutex \in {{}, {"other"}} /\ mutex' \in {{}, {"other"}}
      /\ newest' = newest \/ newest' = newest + 1
    BY Zenon DEF OtherLocks, OtherUnlocks, AInv, AsyncTypes, txnVars, dataVars
<1>2. newest' \in Nat
    BY <1>1
<1>3. /\ \A s \in Txn : ~Uses(s)
      /\ helper.has = FALSE /\ helper.owns = FALSE /\ helper.release = FALSE
      /\ worker \notin {"callback", "sync", "synced"} /\ helper.sync = {}
    BY <1>1, FreeMutex, Zenon
<1>4. \A s \in Txn : ~Uses(s)'
    BY <1>1, <1>3, Zenon DEF Uses, Served
<1>5. mutex' # {"worker"} /\ ~Engaged'
    BY <1>1, <1>3, Zenon DEF Engaged, Releasing
<1>6. Owned'
    BY <1>1, <1>3, <1>4, <1>5, Zenon DEF Owned
<1>7. Tasks'
    BY <1>1, <1>3, Zenon DEF Tasks, AInv
<1>8. Lines'
    BY <1>1, <1>3, KeptLines, Zenon DEF Marks
<1>9. Apart'
    BY <1>1, <1>3, Zenon DEF Apart, Served
<1> QED
    BY <1>1, <1>2, <1>6, <1>7, <1>8, <1>9, WorkerStep, Zenon

\* The worker has acquired the mutex for a thread that waits for it.
LEMMA FulfilsClaim ==
    ASSUME AInv, Marks, WorkerLocks, helper.claims # <<>>
    PROVE  AInv'
<1> DEFINE c == helper.claims
<1>0. PICK t : t = Head(c)
    BY Zenon
<1>1. /\ helper \in Helpers /\ serving \subseteq Txn /\ mutex = {} /\ worker = "begin"
      /\ setup' = setup /\ newest' = newest
      /\ stage' = stage /\ async' = async /\ read' = read /\ oldest' = oldest
      /\ failed' = failed /\ mutex' = {"worker"} /\ worker' = "loop" /\ serving' = serving
      /\ helper' = [helper EXCEPT !.has = TRUE, !.owns = TRUE, !.claims = Tail(@)]
      /\ blocked' = [blocked EXCEPT ![t] = "locked"]
    BY <1>0, Zenon DEF WorkerLocks, AInv, AsyncTypes, dataVars, SetBlocked
<1>2. c \in Seq(Txn) /\ helper.queue \in Seq(Txn)
    BY <1>1 DEF Helpers
<1>3. /\ t \in Txn /\ t = c[1] /\ 1 \in 1 .. Len(c) /\ Tail(c) \in Seq(Txn)
      /\ \A i \in 1 .. Len(Tail(c)) : i + 1 \in 1 .. Len(c) /\ Tail(c)[i] = c[i + 1]
      /\ \A i \in 1 .. Len(Tail(c)) : i + 1 # 1
      /\ \A i, j \in 1 .. Len(Tail(c)) : i # j => i + 1 # j + 1
      /\ \A i \in 1 .. Len(c) : c[i] \in Txn
      /\ \A i \in 1 .. Len(helper.queue) : helper.queue[i] \in Txn
    BY <1>0, <1>2
<1>4. /\ helper' \in Helpers /\ helper'.owns = TRUE /\ helper'.sync = helper.sync
      /\ helper'.has = TRUE /\ helper'.release = helper.release
      /\ helper'.queue = helper.queue /\ helper'.claims = Tail(c)
    BY <1>1, <1>3 DEF Helpers
<1>5. blocked[t] = "claim"
    BY <1>3, Zenon DEF AInv, Lines
<1>6. stage[t] = "Reading" /\ async[t] = "Idle" /\ Coherent(t)
    BY <1>3, <1>5, Zenon DEF AInv, Coherent, Fits
<1>7. /\ blocked' \in [Txn -> Points] /\ blocked'[t] = "locked"
      /\ \A s \in Txn : s # t => blocked'[s] = blocked[s]
    BY <1>1, <1>3, Zenon DEF AInv, AsyncTypes, Points
<1>8. Coherent(t)'
    BY <1>1, <1>6, <1>7, Zenon DEF Coherent, Fits, Unsynced
<1>9. Moves(t)
    BY <1>1, <1>4, <1>7, <1>8, Zenon
       DEF Moves, Marks, AInv, AsyncTypes, WorkerPoints
<1>10. Lines'
    <2>1. \A i \in 1 .. Len(Tail(c)) : blocked'[Tail(c)[i]] = "claim"
        <3> TAKE i \in 1 .. Len(Tail(c))
        <3>1. c[i + 1] # t /\ c[i + 1] \in Txn /\ blocked[c[i + 1]] = "claim"
            BY <1>3, Zenon DEF AInv, Lines
        <3> QED
            BY <1>3, <1>7, <3>1, Zenon
    <2>2. \A i, j \in 1 .. Len(Tail(c)) : i # j => Tail(c)[i] # Tail(c)[j]
        <3> TAKE i, j \in 1 .. Len(Tail(c))
        <3> HAVE i # j
        <3>1. c[i + 1] # c[j + 1]
            BY <1>3, Zenon DEF AInv, Lines
        <3> QED
            BY <1>3, <3>1, Zenon
    <2>3. ASSUME ~mixed' PROVE QueueLine'
        <3>1. QueueLine
            BY <2>3, Zenon DEF AInv, Lines, Marks
        <3> QED
            BY <1>1, <1>4, <3>1 DEF QueueLine
    <2> QED
        BY <1>1, <1>4, <2>1, <2>2, <2>3 DEF Lines
<1>11. /\ \A s \in Txn : ~Uses(s)
       /\ helper.has = FALSE /\ helper.owns = FALSE /\ helper.release = FALSE
       /\ worker \notin {"callback", "sync", "synced"} /\ helper.sync = {}
    BY <1>1, FreeMutex, Zenon
<1>12. \A s \in Txn : s # t => ~Uses(s)'
    BY <1>1, <1>9, <1>11, Zenon DEF Uses, Served, Moves, Locked
<1>13. ~Releasing'
    BY <1>1, <1>4, <1>11, Zenon DEF Releasing
<1>14. Owned'
    BY <1>1, <1>4, <1>12, <1>13, Zenon DEF Owned
<1>15. Tasks'
    BY <1>1, <1>4, <1>11, Zenon DEF Tasks
<1>16. Apart'
    <2>1. \A s \in Txn : ~Behind(s)'
        BY <1>1, <1>6, <1>12, Zenon DEF Behind, Uses, Locked
    <2> QED
        BY <1>1, <1>4, <1>11, <2>1, Zenon DEF Apart, Served
<1> QED
    BY <1>3, <1>9, <1>10, <1>14, <1>15, <1>16, OthersCohere, Zenon
       DEF AInv, Moves

\* The worker has acquired the mutex for a request.
LEMMA TakesRequest ==
    ASSUME AInv, Marks, WorkerLocks, helper.claims = <<>>
    PROVE  AInv'
<1> DEFINE q == helper.queue
           t == Head(helper.queue)
<1>1. /\ helper \in Helpers /\ mutex = {} /\ worker = "begin"
      /\ setup' = setup /\ newest' = newest /\ newest \in Nat
      /\ stage' = stage /\ async' = async /\ read' = read /\ oldest' = oldest
      /\ failed' = failed /\ mutex' = {"worker"} /\ worker' = "callback" /\ serving' = {t}
      /\ helper' = [helper EXCEPT !.has = TRUE, !.owns = TRUE, !.queue = Tail(@)]
      /\ blocked' = blocked
    BY Zenon DEF WorkerLocks, AInv, AsyncTypes, dataVars
<1>2. q \in Seq(Txn) /\ q # <<>>
    <2>1. q \in Seq(Txn)
        BY <1>1 DEF Helpers
    <2> QED
        BY <1>1, <2>1, Zenon DEF AInv, Tasks, HasPendingWrites
<1>3. /\ t \in Txn /\ t = q[1] /\ 1 \in 1 .. Len(q) /\ Tail(q) \in Seq(Txn)
      /\ \A i \in 1 .. Len(Tail(q)) : i + 1 \in 1 .. Len(q) /\ Tail(q)[i] = q[i + 1]
      /\ \A i \in 1 .. Len(Tail(q)) : i + 1 # 1
      /\ \A i, j \in 1 .. Len(Tail(q)) : i # j => i + 1 # j + 1
    BY <1>2
<1>4. /\ helper' \in Helpers /\ helper'.owns = TRUE /\ helper'.sync = helper.sync
      /\ helper'.has = TRUE /\ helper'.release = helper.release
      /\ helper'.queue = Tail(q) /\ helper'.claims = helper.claims
    BY <1>1, <1>3 DEF Helpers
<1> HIDE DEF t
<1>5. mixed' \/ QueueLine
    BY Zenon DEF AInv, Lines, Marks
<1>q. QueueLine => async[t] = "Requesting"
    BY <1>3, Zenon DEF QueueLine
<1>6. Lines'
    <2>1. ASSUME QueueLine PROVE QueueLine'
        <3>1. \A i \in 1 .. Len(Tail(q)) : async'[Tail(q)[i]] = "Requesting" /\ Tail(q)[i] # t
            <4> TAKE i \in 1 .. Len(Tail(q))
            <4>1. q[i + 1] # t /\ async[q[i + 1]] = "Requesting"
                BY <1>3, <2>1, Zenon DEF QueueLine
            <4> QED
                BY <1>1, <1>3, <4>1, Zenon
        <3>2. \A i, j \in 1 .. Len(Tail(q)) : i # j => Tail(q)[i] # Tail(q)[j]
            <4> TAKE i, j \in 1 .. Len(Tail(q))
            <4> HAVE i # j
            <4>1. q[i + 1] # q[j + 1]
                BY <1>3, <2>1, Zenon DEF QueueLine
            <4> QED
                BY <1>3, <4>1, Zenon
        <3>3. \A i \in 1 .. Len(Tail(q)) : serving' # {Tail(q)[i]}
            BY <1>1, <3>1, Zenon
        <3> QED
            BY <1>4, <3>1, <3>2, <3>3 DEF QueueLine
    <2>4. /\ \A i \in 1 .. Len(helper.claims) : blocked'[helper.claims[i]] = "claim"
          /\ \A i, j \in 1 .. Len(helper.claims) : i # j => helper.claims[i] # helper.claims[j]
        BY <1>1, Zenon DEF AInv, Lines
    <2> QED
        BY <1>1, <1>4, <1>5, <2>1, <2>4 DEF Lines
<1>7. /\ \A s \in Txn : ~Uses(s)
      /\ helper.has = FALSE /\ helper.owns = FALSE /\ helper.release = FALSE
      /\ worker \notin {"callback", "sync", "synced"} /\ helper.sync = {}
    BY <1>1, FreeMutex, Zenon
<1>8. \A s \in Txn : s # t => ~Uses(s)'
    BY <1>1, <1>7, Zenon DEF Uses, Served
<1>9. ~Releasing'
    BY <1>1, <1>4, <1>7, Zenon DEF Releasing
<1>10. Owned'
    BY <1>1, <1>4, <1>8, <1>9, Zenon DEF Owned
<1>11. Tasks'
    BY <1>1, <1>3, <1>4, <1>5, <1>q, <1>7, Zenon DEF Tasks
<1>12. UNCHANGED txnVars /\ serving' \subseteq Txn /\ worker' \in WorkerPoints
    BY <1>1, <1>3, Zenon DEF txnVars, WorkerPoints
<1>13. Apart'
    <2>1. \A s \in Txn : ~Locked(stage[s], async[s], blocked[s])' /\ ~Behind(s)'
        BY <1>1, <1>7, Zenon DEF Uses, Locked, Behind
    <2> QED
        BY <1>4, <1>7, <2>1, Zenon DEF Apart
<1> QED
    BY <1>1, <1>4, <1>6, <1>10, <1>11, <1>12, <1>13, WorkerStep, Zenon

\* The callback of a request: the transaction gets the write lock.
LEMMA GrantsStep ==
    ASSUME AInv, Marks, NEW t \in Txn, WorkerGrants(t), async[t] = "Requesting"
    PROVE  AInv'
<1>1. /\ Coherent(t) /\ worker = "callback" /\ serving = {t} /\ worker' = "loop"
      /\ serving' = {} /\ setup' = setup /\ newest' = newest /\ stage' = stage
      /\ read' = read /\ oldest' = oldest /\ failed' = failed
      /\ mutex' = mutex /\ helper' = helper
    BY Zenon DEF WorkerGrants, AInv, dataVars
<1>2. async[t] = "Requesting"
    OBVIOUS
<1>3. blocked[t] \in {"no", "lock", "closeLock"}
    <2>1. blocked[t] \in Points
        BY Zenon DEF AInv, AsyncTypes
    <2> QED
        BY <1>1, <1>2, <2>1, Zenon DEF Coherent, Fits, Points
<1>4. /\ async' = [async EXCEPT ![t] = "HasLock"]
      /\ blocked' = [blocked EXCEPT ![t] = CASE blocked[t] = "lock" -> "locked"
                                             [] blocked[t] = "closeLock" -> "closeLocked"
                                             [] OTHER -> blocked[t]]
    BY <1>2 DEF WorkerGrants
<1>5. /\ async' \in [Txn -> AsyncStages] /\ async'[t] = "HasLock"
      /\ \A s \in Txn : s # t => async'[s] = async[s]
    BY <1>4, Zenon DEF AInv, AsyncTypes, AsyncStages
<1>6. /\ blocked' \in [Txn -> Points]
      /\ blocked[t] = "no" => blocked'[t] = "no"
      /\ blocked[t] = "lock" => blocked'[t] = "locked"
      /\ blocked[t] = "closeLock" => blocked'[t] = "closeLocked"
      /\ \A s \in Txn : s # t => blocked'[s] = blocked[s]
    <2>1. blocked \in [Txn -> Points]
        BY Zenon DEF AInv, AsyncTypes
    <2> QED
        BY <1>3, <1>4, <2>1 DEF Points
<1>7. Coherent(t)'
    BY <1>1, <1>2, <1>3, <1>5, <1>6, Zenon DEF Coherent, Fits, Unsynced
<1>8. Moves(t)
    BY <1>1, <1>5, <1>6, <1>7, Zenon
       DEF Moves, Marks, AInv, AsyncTypes, WorkerPoints
<1>9. Lines'
    BY <1>1, <1>3, <1>5, <1>6, KeptLines, Zenon DEF Marks
<1>10. Uses(t) /\ Engaged
    BY <1>1, Zenon DEF Uses, Served, Engaged
<1>11. \A s \in Txn : Uses(s)' => Uses(s)
    BY <1>1, <1>8, <1>10, Zenon DEF Uses, Served, Moves, Locked
<1>12. Releasing' => Releasing
    BY <1>1, Zenon DEF Releasing
<1>13. Owned'
    BY <1>1, <1>10, <1>11, <1>12, Zenon DEF Owned, AInv
<1>14. Tasks'
    BY <1>1, <1>2, <1>5, Zenon DEF Tasks, AInv
<1>15. Apart'
    <2>1. helper.has /\ \A s \in Txn : ~Behind(s)
        BY <1>10, Zenon DEF AInv, Owned, Apart
    <2>2. \A s \in Txn : ~Behind(s)'
        BY <1>5, <1>8, <2>1, Zenon DEF Behind, Moves
    <2> QED
        BY <1>1, <2>1, <2>2, Zenon DEF Apart, Served
<1> QED
    BY <1>8, <1>9, <1>13, <1>14, <1>15, OthersCohere, Zenon DEF AInv, Moves

\* The callback of a request that its transaction has forgotten: nobody gets the
\* write lock, and the helper keeps the mutex.
LEMMA GrantsNobody ==
    ASSUME AInv, Marks, NEW t \in Txn, WorkerGrants(t), async[t] # "Requesting"
    PROVE  AInv'
<1>1. /\ Coherent(t) /\ worker = "callback" /\ serving = {t} /\ worker' = "loop"
      /\ serving' = {} /\ setup' = setup /\ newest' = newest /\ stage' = stage
      /\ read' = read /\ oldest' = oldest /\ failed' = failed
      /\ mutex' = mutex /\ helper' = helper /\ helper \in Helpers /\ newest \in Nat
    BY Zenon DEF WorkerGrants, AInv, AsyncTypes, dataVars
<1>2. blocked[t] \notin {"lock", "closeLock"} /\ blocked \in [Txn -> Points]
      /\ async \in [Txn -> AsyncStages]
    BY <1>1, Zenon DEF Coherent, Fits, AInv, AsyncTypes
<1>3. async' = async /\ blocked' = blocked
    BY <1>2 DEF WorkerGrants
<1>4. UNCHANGED <<setup, txnVars>> /\ serving' \subseteq Txn /\ worker' \in WorkerPoints
    BY <1>1, <1>3, Zenon DEF txnVars, WorkerPoints
<1>5. \A s \in Txn : Uses(s)' => Uses(s)
    BY <1>1, <1>3, Zenon DEF Uses, Served
<1>6. (Releasing' => Releasing) /\ (Engaged' => Engaged)
    BY <1>1, Zenon DEF Releasing, Engaged
<1>7. Owned'
    BY <1>1, <1>5, <1>6, Zenon DEF Owned, AInv
<1>8. Tasks'
    BY <1>1, <1>3, Zenon DEF Tasks, AInv
<1>9. Apart'
    BY <1>1, <1>3, Zenon DEF Apart, AInv, Behind, Served, Marks
<1>10. Lines'
    BY <1>1, <1>3, KeptLines, Zenon DEF Marks
<1> QED
    BY <1>1, <1>4, <1>7, <1>8, <1>9, <1>10, WorkerStep, Zenon

\* A sync has been done or has failed: the transaction no longer uses the
\* write lock, which the worker is about to release.
LEMMA SyncsStep ==
    ASSUME AInv, Marks, NEW t \in Txn, WorkerSyncs(t)
    PROVE  AInv'
<1>1. /\ Coherent(t) /\ worker = "sync" /\ serving = {t} /\ worker' = "synced"
      /\ serving' = {} /\ setup' = setup /\ newest' = newest /\ stage' = stage
      /\ read' = read /\ mutex' = mutex /\ helper' = helper /\ CompleteAsyncCommit(t)
      /\ async' = [async EXCEPT ![t] = "Idle"]
    BY Zenon DEF WorkerSyncs, SetAsync, AInv
<1>2. async[t] = "Syncing" /\ helper.sync = {}
    BY <1>1, Zenon DEF AInv, Tasks
<1>3. blocked[t] \in {"no", "sync", "closeSync"}
    <2>1. blocked[t] \in Points
        BY Zenon DEF AInv, AsyncTypes
    <2> QED
        BY <1>1, <1>2, <2>1, Zenon DEF Coherent, Fits, Points
<1>4. blocked' = [blocked EXCEPT ![t] = CASE blocked[t] = "sync" -> "synced"
                                          [] blocked[t] = "closeSync" -> "no"
                                          [] OTHER -> blocked[t]]
    BY DEF WorkerSyncs
<1>5. /\ async' \in [Txn -> AsyncStages] /\ async'[t] = "Idle"
      /\ \A s \in Txn : s # t => async'[s] = async[s]
    BY <1>1, Zenon DEF AInv, AsyncTypes, AsyncStages
<1>6. /\ blocked' \in [Txn -> Points]
      /\ blocked[t] \in {"no", "closeSync"} => blocked'[t] = "no"
      /\ blocked[t] = "sync" => blocked'[t] = "synced"
      /\ \A s \in Txn : s # t => blocked'[s] = blocked[s]
    <2>1. blocked \in [Txn -> Points]
        BY Zenon DEF AInv, AsyncTypes
    <2> QED
        BY <1>3, <1>4, <2>1 DEF Points
<1>7. 0 \in Nat
    OBVIOUS
<1>8. /\ oldest' \in [Txn -> Nat] /\ failed' \in [Txn -> BOOLEAN]
      /\ \A s \in Txn : s # t => oldest'[s] = oldest[s] /\ failed'[s] = failed[s]
      /\ oldest'[t] = 0 \/ failed'[t]
    BY <1>1, <1>7, Zenon DEF AInv, AsyncTypes, CompleteAsyncCommit
<1>9. Fits(stage[t], "Idle", blocked'[t]) /\ stage[t] # "Ready"
    BY <1>1, <1>2, <1>3, <1>6, Zenon DEF Coherent, Fits
<1>10. Coherent(t)' /\ ~Locked(stage[t], async[t], blocked[t])'
    <2>1. stage[t] # "Writing" /\ blocked'[t] # "locked"
        BY <1>1, <1>2, <1>3, <1>6, Zenon DEF Coherent, Fits
    <2> QED
        BY <1>1, <1>5, <1>8, <1>9, <2>1, Zenon DEF Coherent, Unsynced, Locked
<1>11. Moves(t)
    BY <1>1, <1>5, <1>6, <1>8, <1>10, Zenon
       DEF Moves, Marks, AInv, AsyncTypes, WorkerPoints
<1>12. Lines'
    BY <1>1, <1>2, <1>3, <1>5, <1>6, KeptLines, Zenon DEF Marks
<1>13. Uses(t) /\ Engaged
    BY <1>1, <1>2, Zenon DEF Uses, Locked, Engaged
<1>14. \A s \in Txn : s # t => ~Uses(s)
    BY <1>13, Zenon DEF AInv, Owned
<1>15. \A s \in Txn : ~Uses(s)'
    BY <1>1, <1>10, <1>11, <1>14, Zenon DEF Uses, Served, Moves, Locked
<1>16. Owned'
    BY <1>1, <1>13, <1>15, Zenon DEF Owned, AInv
<1>17. Tasks'
    BY <1>1, <1>2, Zenon DEF Tasks
<1>18. Apart'
    BY <1>1, <1>2, <1>15, Zenon DEF Apart, Uses, Locked, Served, Behind
<1> QED
    BY <1>11, <1>12, <1>16, <1>17, <1>18, OthersCohere, Zenon DEF AInv, Moves

-----------------------------------------------------------------------------
\* Nobody has the write lock at first.
LEMMA AsyncStarts == AsyncInit => AInv
<1> SUFFICES ASSUME AsyncInit PROVE AInv
    BY Zenon
<1>1. /\ Idle \in Helpers /\ Idle.has = FALSE /\ Idle.owns = FALSE /\ Idle.release = FALSE
      /\ Idle.sync = {} /\ Idle.queue = <<>> /\ Idle.claims = <<>>
    <2>1. <<>> \in Seq(Txn) /\ {} \in SUBSET Txn
        OBVIOUS
    <2> QED
        BY <2>1 DEF Idle, Helpers
<1>2. 0 \in Nat /\ 1 \in Nat
    OBVIOUS
<1>3. \A t \in Txn : /\ stage[t] = "Reading" /\ async[t] = "Idle" /\ blocked[t] = "no"
                     /\ oldest[t] = 0
    BY Zenon DEF AsyncInit
<1>4. AsyncTypes
    BY <1>1, <1>2, Zenon
       DEF AsyncInit, AsyncTypes, Stages, AsyncStages, Points, WorkerPoints
<1>5. \A t \in Txn : Coherent(t) /\ ~Uses(t)
    <2>1. worker # "callback"
        BY Zenon DEF AsyncInit
    <2> QED
        BY <1>3, <2>1, Zenon DEF Coherent, Fits, Unsynced, Uses, Served, Locked
<1>6. Lines
    BY <1>1 DEF AsyncInit, Lines, QueueLine
<1>7. ~Engaged /\ mutex # {"worker"}
    BY <1>1, Zenon DEF AsyncInit, Engaged, Releasing
<1>8. Owned
    BY <1>1, <1>5, <1>7, Zenon DEF AsyncInit, Owned
<1>9. Tasks
    BY <1>1, Zenon DEF AsyncInit, Tasks
<1>10. Apart
    BY <1>1, <1>3, <1>5, Zenon DEF AsyncInit, Apart, Behind, Uses
<1> QED
    BY <1>4, <1>5, <1>6, <1>8, <1>9, <1>10, Zenon DEF AInv

\* Every step keeps the invariant.
LEMMA AsyncSteps ==
    ASSUME AInv, [AsyncNext]_<<asyncVars, mixed>>
    PROVE  AInv'
<1>0. ASSUME AsyncNext PROVE Marks
    <2>1. mixed' = (mixed \/ \E t \in Txn : Mixes(t))
        BY <1>0, Zenon DEF AsyncNext
    <2> QED
        BY <2>1 DEF Marks
<1>1. CASE UNCHANGED <<asyncVars, mixed>>
    <2>1. /\ UNCHANGED <<setup, mutex, helper, worker, serving, mixed>>
          /\ UNCHANGED <<stage, async, blocked, read, oldest, failed, newest>>
        BY <1>1, Zenon DEF asyncVars, txnVars, dataVars
    <2>2. AsyncTypes' /\ (\A t \in Txn : Coherent(t)')
        BY <2>1, Zenon DEF AInv, AsyncTypes, Coherent
    <2>3. /\ \A t \in Txn : Uses(t)' <=> Uses(t)
          /\ Releasing' <=> Releasing
          /\ Engaged' <=> Engaged
        BY <2>1, Zenon DEF Uses, Served, Releasing, Engaged
    <2>4. Owned'
        BY <2>1, <2>3, Zenon DEF AInv, Owned
    <2>5. Tasks'
        BY <2>1, Zenon DEF AInv, Tasks
    <2>6. Lines
        BY Zenon DEF AInv
    <2>7. Lines'
        BY <2>1, <2>6 DEF Lines, QueueLine
    <2>8. Apart'
        BY <2>1, Zenon DEF AInv, Apart, Behind, Served
    <2> QED
        BY <2>2, <2>4, <2>5, <2>7, <2>8, Zenon DEF AInv
<1>2. CASE AsyncNext /\ (Worker \/ WorkerLocks \/ OtherLocks \/ OtherUnlocks)
    BY <1>0, <1>2, LoopStep, ReleasesStep, GrantsStep, GrantsNobody,
       SyncsStep, FulfilsClaim, TakesRequest, OtherStep,
       Zenon DEF Worker
<1>3. CASE AsyncNext /\ \E t \in setup.txns : Caller(t) \/ User(t) \/ LockOnCaller(t)
    <2>1. setup.txns \subseteq Txn
        <3>1. setup \in Setups
            BY Zenon DEF AInv, AsyncTypes
        <3> QED
            BY <3>1, AsyncCommitAssumption DEF Setups, AsyncCommitAssumption
    <2>2. PICK t \in Txn : Caller(t) \/ User(t) \/ LockOnCaller(t)
        BY <1>3, <2>1, Zenon
    <2>3. CASE Caller(t)
        BY <1>0, <1>3, <2>3, ReleasedStep, GrantedStep, PromoteStep,
           CloseWithLockStep, EndReadStep, Zenon
           DEF Caller
    <2>4. CASE User(t)
        BY <1>0, <1>3, <2>4, RequestStep, PromoteStep, LocksItself,
           DiskCommitStep, CommitBehind, KeepsCommits, RollbackStep,
           ToAsync, CompleteWritesStep, CloseStep, StartReadStep, Zenon DEF User
    <2>5. CASE LockOnCaller(t)
        BY <1>0, <1>3, <2>5, LocksItself, Zenon
    <2> QED
        BY <2>2, <2>3, <2>4, <2>5, Zenon
<1> QED
    BY <1>1, <1>2, <1>3, Zenon DEF AsyncNext

\* What the invariant is for
LEMMA AsyncImplied == AInv => WriteMutexKept
<1> SUFFICES ASSUME AInv PROVE WriteMutexKept
    BY Zenon
<1> DEFINE W == {t \in Txn : \/ stage[t] = "Writing"
                             \/ async[t] \in {"HasLock", "HasCommits", "Syncing"}}
<1>1. \A t \in W : t \in Txn /\ Uses(t)
    BY Zenon DEF Uses, Locked
<1>2. Cardinality(W) <= 1
    <2>1. CASE W = {}
        <3>1. Cardinality(W) = 0
            BY <2>1, FS_EmptySet, Zenon
        <3> QED
            BY <3>1
    <2>2. CASE W # {}
        <3>1. PICK t : t \in W
            BY <2>2, Zenon
        <3>2. W = {t}
            BY <1>1, <3>1, Zenon DEF AInv, Owned
        <3> HIDE DEF W
        <3>3. Cardinality(W) = 1
            BY <3>2, FS_Singleton, Zenon
        <3> QED
            BY <3>3
    <2> QED
        BY <2>1, <2>2, Zenon
<1>3. W # {} => mutex \notin {{}, {"other"}}
    BY <1>1, FreeMutex, Zenon
<1>4. OneWriter
    BY <1>2, <1>3, Zenon DEF OneWriter
<1>5. /\ ~helper.has => (helper.sync = {} \/ mixed) /\ ~helper.release
      /\ helper.sync # {} => ~helper.release
    <2>1. helper.sync # {} => \E t \in Txn : Uses(t)
        BY Zenon DEF AInv, Tasks, Uses, Locked
    <2> QED
        BY <2>1, Zenon DEF AInv, Owned, Apart, Engaged, Releasing
<1>6. mutex = {} => ~helper.has
    BY FreeMutex, Zenon
<1>7. worker = "begin" => HasPendingWrites(helper)
    BY Zenon DEF AInv, Tasks
<1>8. \A t \in Txn : stage[t] = "Closing" /\ blocked[t] = "no" /\ oldest[t] # 0 => failed[t]
    BY Zenon DEF AInv, Coherent, Fits, Unsynced
<1>9. HelperAsserts
    BY <1>5, <1>6, <1>7, <1>8, Zenon DEF HelperAsserts
<1> QED
    BY <1>4, <1>9, Zenon DEF WriteMutexKept

\* The write mutex passes between the transactions of a DB, the helper's thread
\* and other processes without ever being in two hands: at most one transaction
\* writes, has commits that are not on disk or is synced, only while the mutex
\* is held for it, also when it was locked by promote_to_write(nonblocking) and
\* then used asynchronously; and the assertions of AsyncCommitHelper::main and
\* Transaction::do_end_read hold, but for the one on a pending sync after such a
\* mix.  For any number of transactions, in both kinds of builds.
THEOREM WriteMutexIsKept ==
    AsyncSpec => []WriteMutexKept
<1>1. AsyncInit => AInv
    BY AsyncStarts
<1>2. AInv /\ [AsyncNext]_<<asyncVars, mixed>> => AInv'
    BY AsyncSteps
<1>3. AInv => WriteMutexKept
    BY AsyncImplied
<1> QED
    BY <1>1, <1>2, <1>3, PTL DEF AsyncSpec
=============================================================================

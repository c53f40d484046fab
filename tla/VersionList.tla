---------------------------- MODULE VersionList ----------------------------
(***************************************************************************)
(* The VersionList of the lock file and what a DB object keeps to itself   *)
(* about it (db.cpp): its cache of the entries it has locked               *)
(* (m_local_readers), the locks its transactions hold                      *)
(* (m_local_locks_held) and how much of the list it has mapped             *)
(* (m_local_max_entry).                                                    *)
(*                                                                         *)
(* A list L is shared, a record d belongs to one DB.  Every operator maps  *)
(* them to their next values; Sessions says who calls what, and when.      *)
(* Nothing takes ReadLockInfo::Full locks, so count_full is left out.      *)
(***************************************************************************)
EXTENDS Naturals, FiniteSets, SequencesExt

CONSTANTS MaxEntries,  \* bound on the size of the list
          InitEntries, \* init_readers_size
          Word         \* counters wrap at this value

ASSUME VersionListAssumption ==
    /\ MaxEntries \in Nat /\ InitEntries \in 1 .. MaxEntries
    /\ Word \in Nat \ {0, 1}

Entry == 0 .. MaxEntries - 1
Nil   == MaxEntries                  \* VersionList::nil
Type  == {"Live", "Frozen"}          \* ReadLockInfo::Type

NoCount     == [ty \in Type |-> 0]
Deactivated == [version |-> 0, count |-> NoCount]
IsActive(rc) == rc.version # 0

\* The list of a lock file that has been truncated.
NoList == [entry |-> [i \in Entry |-> Deactivated], entries |-> 0,
           allocating |-> 0, newest |-> Nil]

Reserve(L, n) ==
    [L EXCEPT !.entry = [i \in Entry |-> IF i >= L.entries THEN Deactivated
                                                           ELSE @[i]],
              !.entries = n]

FreeEntries(L) == {i \in 0 .. L.entries - 1 : ~IsActive(L.entry[i])}

\* The three steps of try_allocate_entry.  An allocation that a crash cut
\* short is completed rather than started anew.
Claim(L) ==
    IF L.allocating # L.newest THEN L
    ELSE [L EXCEPT !.allocating =
            CHOOSE i \in FreeEntries(L) : \A j \in FreeEntries(L) : i <= j]
Fill(L, v) == [L EXCEPT !.entry[L.allocating].version = v]
Store(L)   == [L EXCEPT !.newest = L.allocating]

\* init_versioning: empty the list, then allocate entry 0.
InitVersioning(L, v) ==
    Store(Fill([Reserve([L EXCEPT !.entries = 0], L.entries)
                   EXCEPT !.newest = Nil, !.allocating = 0], v))

\* purge_versions: what a crash left half allocated goes first, then every
\* entry nobody holds.
HeldFrozenOrLive(rc) == rc.count["Frozen"] > 0 \/ rc.count["Live"] > 0
HeldLiveOnly(rc) == rc.count["Live"] > 0                     \* mutant
Reachable(rc) == HeldFrozenOrLive(rc)

WithoutCrashed(L) ==
    IF L.allocating = L.newest THEN L
    ELSE [L EXCEPT !.entry[L.allocating] = Deactivated]
PurgeVersions(L) ==
    LET C == WithoutCrashed(L)
    IN [C EXCEPT !.entry = [i \in Entry |->
          IF IsActive(@[i]) /\ ~Reachable(@[i]) THEN Deactivated ELSE @[i]]]

-----------------------------------------------------------------------------
(* VersionManager: locks are counted per entry and type, in the shared     *)
(* list once per DB, in the cache once per transaction.                    *)

NoDB == [local |-> [i \in Entry |-> Deactivated], held |-> <<>>, mapped |-> 0]

\* try_grab_local_read_lock.  "want": the versions that will do.
LocalHit(d, ty, i, want) ==
    /\ IsActive(d.local[i])
    /\ d.local[i].version \in want
    /\ d.local[i].count[ty] > 0

\* The conditions under which grab_read_lock does not throw BadVersion.
SharedHit(L, ty, i, want) ==
    /\ L.entry[i].version \in want
    /\ i # L.newest =>
         IF ty = "Frozen" THEN HeldFrozenOrLive(L.entry[i])
                          ELSE L.entry[i].count["Live"] > 0

CanGrab(L, d, ty, i, want) == LocalHit(d, ty, i, want) \/ SharedHit(L, ty, i, want)

Lock(L, d, ty, i, want) ==
    [idx |-> i, type |-> ty,
     version |-> IF LocalHit(d, ty, i, want) THEN d.local[i].version
                                             ELSE L.entry[i].version]

\* DB::grab_read_lock
GrabInList(L, d, ty, i, want) ==
    IF LocalHit(d, ty, i, want) THEN L
    ELSE [L EXCEPT !.entry[i].count[ty] = @ + 1]

GrabInDB(L, d, ty, i, want) ==
    LET l   == Lock(L, d, ty, i, want)
        old == IF IsActive(d.local[i]) THEN d.local[i]
               ELSE [version |-> l.version, count |-> NoCount]
    IN IF LocalHit(d, ty, i, want)
       THEN [d EXCEPT !.local[i].count[ty] = @ + 1, !.held = Append(@, l)]
       ELSE [d EXCEPT !.local[i] = [old EXCEPT !.count[ty] = 1],
                      !.mapped = IF i < @ THEN @ ELSE L.entries,
                      !.held = Append(@, l)]

Minus1(n) == (n + Word - 1) % Word

\* VersionManager::release_read_lock
ReleaseAlwaysReachesList(d, l) == TRUE                           \* mutant
ReleaseReachesList(d, l) == Minus1(d.local[l.idx].count[l.type]) = 0

ReleaseInList(L, d, l) ==
    IF ~ReleaseReachesList(d, l) THEN L
    ELSE [L EXCEPT !.entry[l.idx].count[l.type] = Minus1(@)]

ReleaseInCache(d, l) ==
    LET rc == [d.local[l.idx] EXCEPT !.count[l.type] = Minus1(@)]
    IN [d EXCEPT !.local[l.idx] =
          IF rc.count = NoCount THEN Deactivated ELSE rc]

\* do_release_read_lock looks the lock up by its version alone and moves the
\* last one over it.
Matches(d, l) == {j \in DOMAIN d.held : d.held[j].version = l.version}
Unlist(d, l) ==
    LET j == CHOOSE j \in Matches(d, l) : \A k \in Matches(d, l) : j <= k
        n == Len(d.held)
    IN [d EXCEPT !.held = SubSeq([@ EXCEPT ![j] = d.held[n]], 1, n - 1)]

ReleaseInDB(d, l) == Unlist(ReleaseInCache(d, l), l)

\* release_all_read_locks: the rest of the list, in its order.
ReleaseAll(L, d) ==
    FoldLeft(LAMBDA acc, l : [list |-> ReleaseInList(acc.list, acc.db, l),
                              db   |-> ReleaseInCache(acc.db, l)],
             [list |-> L, db |-> d], d.held)
=============================================================================

----------------------------- MODULE WriteWindows -----------------------------
(***************************************************************************)
(* WriteWindowMgr: the cache of memory mappings a commit writes the file   *)
(* through, and the order in which GroupCommitter makes those writes       *)
(* durable (group_writer.cpp).  A byte written through a window of an      *)
(* encrypted file is first private to that mapping; flush() moves it to    *)
(* the shared image of the file; msync(), fsync() or the file barrier move *)
(* it to the device.  The cache outlives a commit: windows are kept in     *)
(* most-recently-used order, extended in place when the file has grown,    *)
(* evicted when there are too many, and dropped when a commit fails.       *)
(***************************************************************************)
EXTENDS Integers, Sequences, FiniteSets

CONSTANTS WindowAlignment,   \* m_window_alignment, in cells
          MaxWindows,        \* num_map_windows
          HeaderSize,        \* cells of SlabAlloc::Header; the last one holds m_flags
          WindowRequests,    \* [ref, size] blocks a commit writes
          WindowSetups,      \* [encrypted, pwrite, unsafe]
          FirstFileSize, MaxFileSize, GrowBy   \* bounds: the size of the file

ASSUME WindowsAssumption ==
  /\ WindowAlignment \in Nat \ {0} /\ MaxWindows \in Nat \ {0}
  /\ HeaderSize \in Nat \ {0} /\ FirstFileSize \in Nat
  /\ HeaderSize <= WindowAlignment /\ HeaderSize <= FirstFileSize
  /\ WindowRequests \subseteq [ref : Nat, size : Nat \ {0}]
  /\ WindowSetups \subseteq [encrypted : BOOLEAN, pwrite : BOOLEAN, unsafe : BOOLEAN]

VARIABLES wsetup,    \* the build and the durability of the database
          wins,      \* m_map_windows: [base, size, touched, private]
          image,     \* cells of the shared image that are not on the device
          fileSize,  \* size of the file
          knownSize, \* m_cached_file_size
          wphase,    \* where the commit is
          durably,   \* whether this commit syncs (~disable_sync)
          abandoned  \* cells left behind in the image by a failed commit

wwVars == <<wsetup, wins, image, fileSize, knownSize, wphase, durably, abandoned>>

Block(r) == r.ref .. (r.ref + r.size - 1)
WindowCells(w) == w.base .. (w.base + w.size - 1)
FlagCell == HeaderSize - 1
WholeHeader == [ref |-> 0, size |-> HeaderSize]

(* matches                                                                 *)
WindowMatches(w, r) == r.ref >= w.base /\ r.ref + r.size <= w.base + w.size

(* aligned_to_mmap_block                                                   *)
AlignedTo(ref) == (ref \div WindowAlignment) * WindowAlignment

(* known_file_size: asks the file only for what lies beyond the last       *)
(* answer.                                                                 *)
KnownFor(r) == IF r.ref + r.size > knownSize THEN fileSize ELSE knownSize

(* get_window_size: up to the request, at least the alignment, never past  *)
(* the end of the file.                                                    *)
WindowSizeFor(r) ==
  LET base == AlignedTo(r.ref)
      wanted == IF r.ref + r.size - base < WindowAlignment THEN WindowAlignment
                ELSE r.ref + r.size - base
  IN IF wanted > KnownFor(r) - base THEN KnownFor(r) - base ELSE wanted

(* The first window that holds the request or can be extended to it; 0 is  *)
(* none.                                                                   *)
CanServe(w, r) == WindowMatches(w, r) \/ w.base = AlignedTo(r.ref)
ServingWindow(r) ==
  IF \E i \in DOMAIN wins : CanServe(wins[i], r)
  THEN CHOOSE i \in DOMAIN wins : CanServe(wins[i], r) /\ \A j \in 1..(i - 1) : ~CanServe(wins[j], r)
  ELSE 0

(* sync() of one window on a given image: what it holds privately is       *)
(* flushed; then fsync of the whole file when encrypted, else msync of     *)
(* the window.                                                             *)
SyncWindow(w, im) == IF wsetup.encrypted THEN {} ELSE im \ WindowCells(w)
FlushWindow(w, im) == im \cup w.private

-----------------------------------------------------------------------------
(* The window i at the front, marked as touched.                           *)
ToFront(i, w) == <<w>> \o SubSeq(wins, 1, i - 1) \o SubSeq(wins, i + 1, Len(wins))

(* extends_to_match: the mapping is replaced by a larger one; the old one  *)
(* is synced first, or in unsafe mode only flushed.                        *)
ExtendedImage(w) ==
  IF w.touched /\ ~wsetup.unsafe THEN SyncWindow(w, FlushWindow(w, image))
  ELSE FlushWindow(w, image)
Extended(w, r) == [base |-> w.base, size |-> WindowSizeFor(r), touched |-> TRUE, private |-> {}]

(* The least recently used window goes when the cache is full: synced if   *)
(* anything was written through it, else flushed.                          *)
EvictedImageUnsynced == IF Len(wins) = MaxWindows THEN FlushWindow(wins[Len(wins)], image) ELSE image
EvictedImage ==
  IF Len(wins) # MaxWindows THEN image
  ELSE LET w == wins[Len(wins)] IN
       IF w.touched THEN SyncWindow(w, FlushWindow(w, image)) ELSE FlushWindow(w, image)
Kept == IF Len(wins) = MaxWindows THEN SubSeq(wins, 1, MaxWindows - 1) ELSE wins
NewWindow(r) == [base |-> AlignedTo(r.ref), size |-> WindowSizeFor(r), touched |-> TRUE, private |-> {}]

(* get_window(r) gives the windows, the window in front, and the image.    *)
Got(ws, im) == [wins |-> ws, image |-> im]
Touch(i) == [wins[i] EXCEPT !.touched = TRUE]
GetWindow(r) ==
  LET i == ServingWindow(r)
  IN IF i = 0 THEN Got(<<NewWindow(r)>> \o Kept, EvictedImage)
     ELSE IF WindowMatches(wins[i], r) THEN Got(ToFront(i, Touch(i)), image)
     ELSE Got(ToFront(i, Extended(wins[i], r)), ExtendedImage(wins[i]))

(* Writing cells through the window in front of g.                         *)
Through(g, cells) ==
  IF wsetup.encrypted THEN /\ wins' = [g.wins EXCEPT ![1].private = @ \cup cells]
                           /\ image' = g.image
  ELSE wins' = g.wins /\ image' = g.image \cup cells

AllPrivate(ws) == UNION {ws[i].private : i \in DOMAIN ws}

(* flush_all_mappings passes over windows nothing touched.                 *)
FlushAll ==
  /\ image' = image \cup UNION {wins[i].private : i \in {j \in DOMAIN wins : wins[j].touched}}
  /\ wins' = [i \in DOMAIN wins |->
                IF wins[i].touched THEN [wins[i] EXCEPT !.private = {}] ELSE wins[i]]

(* sync_all_mappings, when every sync succeeds: the windows and the image. *)
TouchedWindows == {i \in DOMAIN wins : wins[i].touched}
AllSynced ==
  [i \in DOMAIN wins |->
     IF wins[i].touched THEN [wins[i] EXCEPT !.private = {}, !.touched = FALSE] ELSE wins[i]]
SyncedImage ==
  IF wsetup.encrypted THEN IF TouchedWindows = {} THEN image ELSE {}
  ELSE image \ UNION {WindowCells(wins[i]) : i \in TouchedWindows}

-----------------------------------------------------------------------------
WWInit == /\ wsetup \in WindowSetups
          /\ wins = <<>> /\ image = {} /\ knownSize = 0 /\ fileSize = FirstFileSize
          /\ wphase = "write" /\ durably = ~wsetup.unsafe /\ abandoned = {}

(* write_array, write_bytes and the free lists: a block of the file.       *)
WriteBlock(r) ==
  /\ wphase = "write" /\ r.ref + r.size <= fileSize
  /\ \E g \in {GetWindow(r)} : Through(g, Block(r))
  /\ knownSize' = KnownFor(r)
  /\ UNCHANGED <<wsetup, fileSize, wphase, durably, abandoned>>

(* A build without encryption writes arrays past the windows.              *)
PositionalWrite(r) ==
  /\ wphase = "write" /\ wsetup.pwrite /\ r.ref + r.size <= fileSize
  /\ image' = image \cup Block(r)
  /\ UNCHANGED <<wsetup, wins, fileSize, knownSize, wphase, durably, abandoned>>

GrowFile ==
  /\ wphase = "write" /\ fileSize + GrowBy <= MaxFileSize
  /\ fileSize' = fileSize + GrowBy
  /\ UNCHANGED <<wsetup, wins, image, knownSize, wphase, durably, abandoned>>

(* A commit that goes through the journal: its record is among the blocks  *)
(* written; one flush, one barrier.                                        *)
JournalFlush ==
  /\ wphase = "write" /\ FlushAll /\ wphase' = "recorded"
  /\ durably' = ~wsetup.unsafe
  /\ UNCHANGED <<wsetup, fileSize, knownSize, abandoned>>
JournalBarrier ==
  /\ wphase = "recorded"
  /\ IF durably THEN image' = {} /\ abandoned' = {} ELSE UNCHANGED <<image, abandoned>>
  /\ wphase' = "acked"
  /\ UNCHANGED <<wsetup, wins, fileSize, knownSize, durably>>

(* A commit that flips the header: sync_according_to_durability,           *)
SyncData ==
  /\ wphase = "write" /\ durably' = ~wsetup.unsafe /\ wphase' = "slot"
  /\ IF wsetup.unsafe THEN UNCHANGED <<wins, image>>
     ELSE wins' = AllSynced /\ image' = SyncedImage
  /\ UNCHANGED <<wsetup, fileSize, knownSize, abandoned>>
(* or complete_async_commit, which syncs whatever the database's           *)
(* durability is;                                                          *)
StartAsyncCompletion ==
  /\ wphase = "write" /\ durably' = TRUE /\ wphase' = "slot"
  /\ UNCHANGED <<wsetup, wins, image, fileSize, knownSize, abandoned>>
(* then GroupCommitter::commit: the unused top-ref slot,                   *)
WriteSlot ==
  /\ wphase = "slot" /\ wphase' = "slotWritten"
  /\ \E g \in {GetWindow(WholeHeader)} : Through(g, Block(WholeHeader) \ {FlagCell})
  /\ knownSize' = KnownFor(WholeHeader)
  /\ UNCHANGED <<wsetup, fileSize, durably, abandoned>>
(* flush_all_mappings,                                                     *)
FlushForCommit ==
  /\ wphase = "slotWritten" /\ FlushAll /\ wphase' = "flushed"
  /\ UNCHANGED <<wsetup, fileSize, knownSize, durably, abandoned>>
(* sync_all_mappings and the barrier,                                      *)
SyncForCommit ==
  /\ wphase = "flushed" /\ wphase' = "stable"
  /\ IF durably THEN wins' = AllSynced /\ image' = {} /\ abandoned' = {}
     ELSE UNCHANGED <<wins, image, abandoned>>
  /\ UNCHANGED <<wsetup, fileSize, knownSize, durably>>
(* the selector bit, flushed through the same window,                      *)
FlipSelector ==
  /\ wphase = "stable" /\ wphase' = "flipped"
  /\ image' = FlushWindow(wins[1], image) \cup {FlagCell}
  /\ wins' = [wins EXCEPT ![1].private = {}]
  /\ UNCHANGED <<wsetup, fileSize, knownSize, durably, abandoned>>
(* and the second sync.                                                    *)
SyncSelector ==
  /\ wphase = "flipped" /\ wphase' = "acked"
  /\ IF durably THEN image' = {} /\ abandoned' = {} ELSE UNCHANGED <<image, abandoned>>
  /\ UNCHANGED <<wsetup, wins, fileSize, knownSize, durably>>

NextCommit ==
  /\ wphase = "acked" /\ wphase' = "write" /\ durably' = ~wsetup.unsafe
  /\ UNCHANGED <<wsetup, wins, image, fileSize, knownSize, abandoned>>

(* A mapping or a sync that fails ends the commit: clear_failed_mappings.  *)
(* Unmapping flushes what an encrypted mapping holds.                      *)
CommitFails ==
  /\ wphase \notin {"acked", "write"} \/ (wphase = "write" /\ wins # <<>>)
  /\ wins' = <<>> /\ knownSize' = 0
  /\ image' = image \cup AllPrivate(wins)
  /\ abandoned' = image'
  /\ wphase' = "write" /\ durably' = ~wsetup.unsafe
  /\ UNCHANGED <<wsetup, fileSize>>

WWNext == \/ \E r \in WindowRequests : WriteBlock(r) \/ PositionalWrite(r)
          \/ GrowFile
          \/ JournalFlush \/ JournalBarrier
          \/ SyncData \/ StartAsyncCompletion \/ WriteSlot \/ FlushForCommit
          \/ SyncForCommit \/ FlipSelector \/ SyncSelector
          \/ NextCommit \/ CommitFails

WWSpec == WWInit /\ [][WWNext]_wwVars

-----------------------------------------------------------------------------
(* "Make sure that that all data relating to the new snapshot is written   *)
(* to stable storage before flipping the slot selector": once the selector *)
(* bit can reach the device, nothing else of the commit is still on its    *)
(* way there.                                                              *)
SelectorFlipsLast ==
  wphase = "flipped" /\ durably => image \subseteq {FlagCell} /\ AllPrivate(wins) = {}

(* A durable commit that has returned, by the journal or by the header,    *)
(* has left nothing in a private mapping or in the image: no window that   *)
(* outlived an earlier commit is passed over.                              *)
AckedIsDurable ==
  wphase = "acked" /\ durably => image = {} /\ AllPrivate(wins) = {}

(* "Once evicted, a window cannot participate in a later async durable     *)
(* completion": what is not on the device yet, and not abandoned by a      *)
(* failed commit, is covered by a window that the next sync_all_mappings   *)
(* syncs, also after evictions and extensions in unsafe mode.              *)
PendingCovered ==
  ~wsetup.pwrite /\ wphase # "flipped" =>
     image \ abandoned \subseteq UNION {WindowCells(wins[i]) : i \in TouchedWindows}

(* The cache never maps the same aligned block twice, never holds more     *)
(* than num_map_windows windows, and never maps past the end of the file.  *)
CacheWellFormed ==
  /\ Len(wins) <= MaxWindows
  /\ \A i, j \in DOMAIN wins : wins[i].base = wins[j].base => i = j
  /\ \A i \in DOMAIN wins : wins[i].base + wins[i].size <= fileSize

\* What a commit wrote through its windows is on the device when it must be,
\* through evictions, extensions and failures.
WindowsSound ==
    /\ SelectorFlipsLast
    /\ AckedIsDurable
    /\ PendingCovered
    /\ CacheWellFormed
=============================================================================

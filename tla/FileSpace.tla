----------------------------- MODULE FileSpace -----------------------------
(***************************************************************************)
(* GroupWriter's management of the space of the file, chunk by chunk: how  *)
(* a commit finds room for its arrays, how the file grows, how the free    *)
(* lists make room for themselves, and how the end of the file is          *)
(* evacuated so that it can shrink (group_writer.cpp, cow_outliers of      *)
(* transaction.cpp).  Back-dating is in PageReuse; here an entry is free   *)
(* when the oldest reachable version has caught up with it.                *)
(*                                                                         *)
(* Positions and sizes are counted in cells (eight bytes each).  A chunk   *)
(* is [ref, size]; an entry of the free lists also has the version that    *)
(* released it.  The free lists and the top array lie side by side in one  *)
(* chunk, as they do in the file.                                          *)
(***************************************************************************)
EXTENDS Integers, Sequences, FiniteSets, FiniteSetsExt, SequencesExt

CONSTANTS FileHeader,      \* cells of the file header
          FilePage,        \* cells of a page
          FileSection,     \* cells of a mapping section
          GrowthBoundary,  \* growth_boundary
          MinCompaction,   \* minimal_compaction_size
          MinEvacLimit,    \* minimal_evac_limit
          TopCells,        \* largest top array
          EntryCells,      \* size_per_free_list_entry
          SpareEntries,    \* entries the last reservation may add
          ScanBackoff,     \* commits between two scans
          GiveUpBackoff,   \* commits after giving up
          EvacCells,       \* the array of the evacuation point
          FirstFiles,      \* files to start from
          Requests,        \* what a transaction may write: sequences of sizes
          MaxFileCells,    \* bound: larger files exceed the size limit
          MaxSpaceVersion  \* bound on the commits of a behaviour

VARIABLES snap,      \* newest snapshot: what its top array leads to
          alive,     \* retained versions and the cells they use
          physical,  \* size of the file
          gw         \* the GroupWriter of the running commit

fsVars == <<snap, alive, physical, gw>>

Chunk(ref, size) == [ref |-> ref, size |-> size]
Entry(c, v) == [ref |-> c.ref, size |-> c.size, version |-> v]
CellsOf(c) == c.ref .. c.ref + c.size - 1
AllCells(S) == UNION {CellsOf(c) : c \in S}
Sizes(S) == MapThenSumSet(LAMBDA c : c.size, S)

NoEvacuation == [kind |-> "none", limit |-> 0, backoff |-> 0,
                 more |-> FALSE, place |-> {}]

\* Everything the newest snapshot occupies.
Occupied(s) == s.used \cup {s.lists} \cup s.evac.place

Done == [pc |-> "idle", map |-> <<>>, locked |-> {}, under |-> {},
         freed |-> {}, todo |-> <<>>, new |-> {}, limit |-> 0, backoff |-> 0,
         more |-> FALSE, saved |-> NoEvacuation, logical |-> 0,
         bytes |-> 0, need |-> 0, fresh |-> 0, slack |-> 0, used |-> {}]

Newest == Max({a.version : a \in alive})

-----------------------------------------------------------------------------
(* Chunks *)

RoundUpTo(n, unit) == ((n + unit - 1) \div unit) * unit
EndOfSection(pos) == (pos \div FileSection + 1) * FileSection

\* merge_adjacent_entries_in_freelist: maximal runs of adjacent chunks.
Merged(S) ==
    LET refs == {c.ref : c \in S}
        ends == {c.ref + c.size : c \in S}
    IN  {Chunk(r, Min({e \in ends \ refs : e > r}) - r) : r \in refs \ ends}

\* The multimap from sizes to positions keeps equal sizes in the order of
\* their insertion.
Emplaced(map, c) ==
    LET n == Cardinality({i \in 1 .. Len(map) : map[i].size <= c.size})
    IN  SubSeq(map, 1, n) \o <<c>> \o SubSeq(map, n + 1, Len(map))

ByPosition(S) ==
    [i \in 1 .. Cardinality(S) |->
        CHOOSE c \in S : Cardinality({d \in S : d.ref < c.ref}) = i - 1]

EmplacedAll(map, S) ==
    FoldLeft(Emplaced, map, ByPosition(S))

\* find_section_in_range: the first place in the chunk where the request
\* does not cross a section boundary, 0 if there is none.
FindSection(c, size) ==
    LET starts == {c.ref} \cup {p \in CellsOf(c) : p % FileSection = 0}
        fits == {p \in starts : /\ p + size <= c.ref + c.size
                                /\ p + size <= EndOfSection(p)}
    IN  IF fits = {} THEN 0 ELSE Min(fits)

-----------------------------------------------------------------------------
(* reserve_free_space and get_free_space *)

\* search_free_space_in_part_of_freelist accepts a perfect match or a chunk
\* of at least twice the size; a chunk the file was just extended with only
\* has to hold the request.
Acceptable(c, size) ==
    /\ c.size = size \/ c.size >= 2 * size \/ c.ref = gw.fresh
    /\ FindSection(c, size) # 0

Found(size) == {i \in 1 .. Len(gw.map) : Acceptable(gw.map[i], size)}

\* split_freelist_chunk: the chunk now starts where the request is placed.
Split(map, i, size) ==
    LET c == map[i]
        pos == FindSection(c, size)
        rest == RemoveAt(map, i)
    IN  IF pos = c.ref THEN map
        ELSE Emplaced(Emplaced(rest, Chunk(c.ref, pos - c.ref)),
                      Chunk(pos, c.ref + c.size - pos))

\* The chunk of the request leaves the map, what it does not need returns.
Claimed(map, pos, size) ==
    LET i == CHOOSE j \in 1 .. Len(map) : map[j].ref = pos
        c == map[i]
    IN  IF c.size = size THEN RemoveAt(map, i)
        ELSE Emplaced(RemoveAt(map, i), Chunk(pos + size, c.size - size))

\* The request being served: the next array, then the array of the
\* evacuation point, then the free lists with the top array, which ask for
\* one cell more than they can need.
Request ==
    CASE gw.pc = "arrays" /\ gw.todo # <<>> -> Head(gw.todo)
      [] gw.pc = "evac" -> EvacCells
      [] gw.pc = "lists" -> gw.need + 1
      [] OTHER -> 0

\* Too little room below the evacuation limit: what was held back is released.
GiveUpEvacuation ==
    /\ Request > 0 /\ Found(Request) = {} /\ gw.under # {}
    /\ gw' = [gw EXCEPT !.map = EmplacedAll(@, gw.under), !.under = {},
                        !.limit = 0, !.backoff = GiveUpBackoff]
    /\ UNCHANGED <<snap, alive, physical>>

NewSize(size) ==
    LET grown == IF gw.logical < GrowthBoundary THEN 2 * gw.logical
                 ELSE gw.logical + Max({GrowthBoundary,
                                        gw.bytes + gw.bytes \div 8})
        least == Max({grown, physical, gw.logical + size})
    IN  Min({RoundUpTo(least, FilePage), RoundUpTo(least, FileSection)})

ExtendFreeSpace ==
    /\ Request > 0 /\ Found(Request) = {} /\ gw.under = {}
    /\ NewSize(Request) <= MaxFileCells
    /\ physical' = Max({physical, NewSize(Request)})
    /\ gw' = [gw EXCEPT
                !.map = Emplaced(@, Chunk(gw.logical,
                                          NewSize(Request) - gw.logical)),
                !.fresh = gw.logical,
                !.logical = NewSize(Request)]
    /\ UNCHANGED <<snap, alive>>

\* MaximumFileSizeExceeded, or prealloc fails: the transaction is rolled back,
\* the file keeps the size it has reached.
ExtendFails ==
    /\ Request > 0 /\ Found(Request) = {} /\ gw.under = {}
    /\ gw' = Done
    /\ UNCHANGED <<snap, alive, physical>>

-----------------------------------------------------------------------------
(* The commit *)

\* prepare_evacuation: the tag of a new evacuation becomes an array, a waiting
\* one counts down, and free lists above the limit end it.
Prepared ==
    LET e == snap.evac
    IN  CASE e.kind = "none" -> e
          [] e.kind = "tag" -> [e EXCEPT !.kind = "array"]
          [] e.kind = "array" /\ e.limit > 0 /\ snap.lists.ref > e.limit ->
               [e EXCEPT !.limit = 0, !.backoff = GiveUpBackoff,
                         !.more = e.more /\ e.backoff = 0]
          [] OTHER ->
               [e EXCEPT !.backoff = IF @ > 0 THEN @ - 1 ELSE 0,
                         !.more = e.more /\ e.backoff = 0]

\* cow_outliers moves the arrays that reach above the limit; a scan that runs
\* out of its work limit moves some of them and remembers where it was.
Scanning(e) == e.limit > 0 /\ e.backoff = 0

Outliers(limit, frees) ==
    {c \in snap.used \ frees : c.ref + c.size > limit}

\* read_in_freelist: what a retained version may still use is locked, what
\* lies above the evacuation limit is held back, the rest can be allocated.
Unlocked(oldest) == {e \in snap.free : e.version <= oldest}

Locked(oldest) == {e \in snap.free : e.version > oldest}

Below(e, limit) ==
    IF limit = 0 \/ e.ref + e.size <= limit THEN {Chunk(e.ref, e.size)}
    ELSE IF e.ref < limit THEN {Chunk(e.ref, limit - e.ref)} ELSE {}

Above(e, limit) ==
    IF limit = 0 \/ e.ref + e.size <= limit THEN {}
    ELSE IF e.ref < limit THEN {Chunk(limit, e.ref + e.size - limit)}
    ELSE {Chunk(e.ref, e.size)}

SizesOf(S) ==
    [i \in 1 .. Cardinality(S) |-> ByPosition(S)[i].size]

\* The transaction has replaced some arrays and wants to write others; the
\* clearing of the free lists releases their chunk and the top array's.
BeginCommit(frees, request, oldest) ==
    /\ gw.pc = "idle" /\ Newest < MaxSpaceVersion
    /\ frees \subseteq snap.used
    /\ oldest \in {a.version : a \in alive}
    /\ \E e \in {Prepared} :
       \E moved \in IF Scanning(e) THEN SUBSET Outliers(e.limit, frees)
                    ELSE {{}} :
       \E more \in IF ~Scanning(e) THEN {e.more}
                   ELSE IF e.more \/ moved = Outliers(e.limit, frees)
                   THEN BOOLEAN ELSE {TRUE} :
            gw' = [Done EXCEPT
              !.pc = "arrays",
              !.map = EmplacedAll(<<>>, Merged(
                        UNION {Below(f, e.limit) : f \in Unlocked(oldest)})),
              !.under = Merged(
                        UNION {Above(f, e.limit) : f \in Unlocked(oldest)}),
              !.locked = Locked(oldest),
              !.freed = Merged(frees \cup moved \cup {snap.lists}),
              !.todo = request \o SizesOf(moved),
              !.limit = e.limit, !.backoff = e.backoff,
              !.more = more,
              !.saved = e,
              !.logical = snap.logical,
              !.bytes = FoldLeft(LAMBDA a, b : a + b, 0,
                                 request \o SizesOf(moved)),
              !.used = snap.used \ (frees \cup moved)]
    /\ alive' = {a \in alive : a.version >= oldest}
    /\ UNCHANGED <<snap, physical>>

\* get_free_space for one array.
Place(size) ==
    LET i == Min(Found(size))
        pos == FindSection(gw.map[i], size)
    IN  [map |-> Claimed(Split(gw.map, i, size), pos, size), at |-> Chunk(pos, size)]

WriteArray ==
    /\ gw.pc = "arrays" /\ gw.todo # <<>> /\ Found(Request) # {}
    /\ \E p \in {Place(Request)} :
         gw' = [gw EXCEPT !.map = p.map, !.new = @ \cup {p.at},
                          !.used = @ \cup {p.at}, !.todo = Tail(@),
                          !.fresh = 0]
    /\ UNCHANGED <<snap, alive, physical>>

\* The evacuation point after the arrays: its array is changed and so written
\* anew, with a long wait after a complete scan, or is destroyed.
EvacuationPoint ==
    /\ gw.pc = "arrays" /\ gw.todo = <<>>
    /\ LET goesOn == gw.saved.kind = "array" /\ (gw.limit > 0 \/ gw.backoff > 0)
           backoff == IF goesOn /\ gw.backoff = 0 /\ ~gw.more
                      THEN ScanBackoff ELSE gw.backoff
       IN  gw' = [gw EXCEPT
                    !.freed = Merged(@ \cup gw.saved.place),
                    !.backoff = backoff,
                    !.saved = IF goesOn
                              THEN [kind |-> "array", limit |-> gw.limit,
                                    backoff |-> backoff, more |-> gw.more,
                                    place |-> {}]
                              ELSE NoEvacuation,
                    !.pc = IF goesOn THEN "evac" ELSE "sum"]
    /\ UNCHANGED <<snap, alive, physical>>

\* What the array says was decided before room for it was looked for.
WriteEvacuationPoint ==
    /\ gw.pc = "evac" /\ Found(Request) # {}
    /\ \E p \in {Place(Request)} :
         gw' = [gw EXCEPT !.map = p.map, !.new = @ \cup {p.at},
                          !.saved.place = {p.at}, !.fresh = 0, !.pc = "sum"]
    /\ UNCHANGED <<snap, alive, physical>>

\* The upper bound on what the free lists and the top array will need.
MaxNeeded ==
    TopCells + EntryCells * (Len(gw.map) + Cardinality(gw.freed)
                             + Cardinality(gw.locked) + Cardinality(gw.under)
                             + SpareEntries)

SumUp ==
    /\ gw.pc = "sum"
    /\ gw' = [gw EXCEPT !.need = MaxNeeded, !.pc = "lists"]
    /\ UNCHANGED <<snap, alive, physical>>

\* The only chunk held back ends the file: the file shrinks to it, and the
\* evacuation is over.
Shrinks(under) ==
    /\ Cardinality(under) = 1
    /\ \A c \in under : c.ref + c.size = gw.logical

ShrunkTo(under) ==
    IF Shrinks(under)
    THEN RoundUpTo((CHOOSE c \in under : TRUE).ref, FilePage)
    ELSE gw.logical

HeldBackWhole(under, logical) ==
    {d \in {Chunk(c.ref, c.size) : c \in under} :
        d.size > 0}

HeldBack(under, logical) ==
    {d \in {Chunk(c.ref, Min({c.ref + c.size, logical}) - c.ref) : c \in under} :
        d.size > 0}

\* recreate_freelist: the entries of the new snapshot, the reserved chunk with
\* them.  Chunks released by this transaction carry its version.
Recreated(map, freed, held, version) ==
    {Entry(c, 0) : c \in Range(map) \cup held}
      \cup gw.locked
      \cup {Entry(c, version) : c \in freed}

\* A new evacuation when more than two thirds of the file is free.
Compactable(logical, free, reserved, locked) ==
    LET freeSpace == Sizes({e \in free : e.ref # reserved.ref})
                       + reserved.size - gw.need - locked
        usedSpace == logical - freeSpace
    IN  IF freeSpace > 2 * usedSpace
        THEN Max({MinEvacLimit,
                  RoundUpTo(usedSpace + usedSpace \div 2, FilePage)})
        ELSE 0

\* The free lists and the top array are written at the start of the reserved
\* chunk; what they leave of it is free.  A top array is shorter than it may
\* become while it has no evacuation point.
WriteLists ==
    /\ gw.pc = "lists" /\ Found(Request) # {}
    /\ \E i \in {Min(Found(Request))} :
       \E map \in {Split(gw.map, i, Request)} :
       \E reserved \in {c \in Range(map) :
                          c.ref = FindSection(gw.map[i], Request)} :
       \E ends \in {Shrinks(gw.under)} :
       \E logical \in {ShrunkTo(gw.under)} :
       \E freed \in {IF ends THEN Merged(gw.freed \cup gw.saved.place)
                     ELSE gw.freed} :
       \E free \in {Recreated(map, freed, HeldBack(gw.under, logical),
                              Newest + 1)} :
       \E start \in {IF /\ logical >= MinCompaction
                        /\ gw.limit = 0 \/ ends
                        /\ gw.backoff = 0
                     THEN Compactable(logical, free, reserved,
                                      Sizes(gw.locked) + Sizes(freed))
                     ELSE 0} :
       \E size \in {TopCells + EntryCells * Cardinality(free)} :
         LET lists == Chunk(reserved.ref, size)
             next == [logical |-> logical,
                      free |-> (free \ {Entry(reserved, 0)})
                                 \cup {[ref |-> reserved.ref + size,
                                        size |-> reserved.size - size,
                                        version |-> 0]},
                      used |-> gw.used,
                      lists |-> lists,
                      evac |-> IF start > 0
                               THEN [NoEvacuation EXCEPT !.kind = "tag",
                                                         !.limit = start]
                               ELSE IF ends THEN NoEvacuation ELSE gw.saved]
         IN  /\ snap' = next
             /\ alive' = alive \cup {[version |-> Newest + 1,
                                      cells |-> AllCells(Occupied(next))]}
             /\ gw' = [Done EXCEPT !.new = gw.new \cup {lists},
                                   !.slack = gw.need - size]
    /\ UNCHANGED physical

\* DB::reserve: the file is preallocated, its logical size stays.
ReserveDisk(n) ==
    /\ gw.pc = "idle" /\ physical < RoundUpTo(n, FilePage)
    /\ physical' = RoundUpTo(n, FilePage)
    /\ UNCHANGED <<snap, alive, gw>>

\* A new session: nobody reads old versions any more, and the initiator cuts
\* the file to the logical size (align_filesize_for_mmap).
Reattach ==
    /\ gw.pc = "idle"
    /\ alive' = {a \in alive : a.version = Newest}
    /\ physical' = Min({physical, RoundUpTo(snap.logical, FilePage)})
    /\ UNCHANGED <<snap, gw>>

-----------------------------------------------------------------------------
(* Group::verify *)

\* MemUsageVerifier::canonicalize asserts that no two chunks overlap.
Apart(S) ==
    \A a, b \in S : \/ a = b
                    \/ a.ref + a.size <= b.ref
                    \/ b.ref + b.size <= a.ref

\* check_total_coverage: together the arrays and the free entries are the
\* whole file after its header.
VerifyGroup(s) ==
    LET listed == {Chunk(e.ref, e.size) : e \in s.free}
        all == listed \cup Occupied(s)
    IN  /\ \A c \in all : c.size > 0
        /\ Cardinality(listed) = Cardinality(s.free)
        /\ Apart(all)
        /\ AllCells(all) = FileHeader .. s.logical - 1

-----------------------------------------------------------------------------
(* Specification *)

\* A snapshot with the arrays, the lists and the evacuation point of f; all
\* its free space was released long ago.
FirstSnapshot(f) ==
    LET taken == f.used \cup {f.lists}
        rest == (FileHeader .. f.logical - 1) \ AllCells(taken)
    IN  [logical |-> f.logical, used |-> f.used, lists |-> f.lists,
         evac |-> [NoEvacuation EXCEPT !.kind = IF f.limit > 0 THEN "tag"
                                                ELSE "none",
                                       !.limit = f.limit],
         free |-> {Entry(c, 0) : c \in Merged({Chunk(r, 1) : r \in rest})}]

FSInit ==
    \E f \in FirstFiles :
      /\ snap = FirstSnapshot(f)
      /\ alive = {[version |-> 1, cells |-> AllCells(Occupied(snap))]}
      /\ physical = f.logical
      /\ gw = Done

FSNext ==
    \/ \E frees \in SUBSET snap.used, request \in Requests,
          oldest \in {a.version : a \in alive} :
            BeginCommit(frees, request, oldest)
    \/ GiveUpEvacuation
    \/ ExtendFreeSpace
    \/ ExtendFails
    \/ WriteArray
    \/ EvacuationPoint
    \/ WriteEvacuationPoint
    \/ SumUp
    \/ WriteLists
    \/ \E n \in {MaxFileCells \div 2} : ReserveDisk(n)
    \/ Reattach

FSSpec == FSInit /\ [][FSNext]_fsVars

-----------------------------------------------------------------------------
(* Properties *)

\* Group::verify accepts every committed snapshot: through merging, splitting,
\* extension, failed commits, the self-accounting of the free lists and the
\* shrinking of the file, no cell is lost and none is listed twice.
GroupVerifies == gw.pc = "idle" => VerifyGroup(snap)

\* A commit writes nothing that a retained version uses, never the same cell
\* twice, and never outside the file; a file that shrinks loses nothing a
\* retained version uses.
NothingClobbered ==
    /\ \A a \in alive : /\ gw.pc # "idle" => a.cells \cap AllCells(gw.new) = {}
                        /\ a.cells \subseteq 0 .. snap.logical - 1
    /\ Apart(gw.new)
    /\ gw.pc # "idle" => AllCells(gw.new) \subseteq 0 .. gw.logical - 1
    /\ snap.logical <= physical

\* No array crosses a section boundary: every section is mapped on its own.
WithinSection ==
    \A c \in gw.new : c.ref + c.size <= EndOfSection(c.ref)

\* The reserved chunk holds the free lists and the top array, whatever the
\* reservation itself added to the lists (LLBT_ASSERT_3 on end_ref and rest).
ListsFit == gw.slack >= 0

\* The space of the file is handed out once: every snapshot accounts for all of
\* it, commits write only where no retained version reads, and the lists fit in
\* what was reserved for them.
SpaceSound ==
    /\ GroupVerifies
    /\ NothingClobbered
    /\ WithinSection
    /\ ListsFit
=============================================================================

----------------------------- MODULE ReaderView -----------------------------
(***************************************************************************)
(* The view one process has of the growing database file: the mapped       *)
(* sections (m_mappings), the table translate() reads without a lock       *)
(* (m_ref_translation_ptr), and the replaced mappings and tables kept for  *)
(* the transactions that may still use them (alloc_slab.cpp).  Threads of  *)
(* the process start and end read transactions and dereference refs, one   *)
(* of them writes, and another process may commit to the same file.        *)
(***************************************************************************)
EXTENDS Integers, Sequences, FiniteSets

CONSTANTS
    ReaderThreads,
    ViewSection,   \* 1 << section_shift
    ViewSizes,     \* the logical file sizes versions may have
    ViewVersions,  \* bound: versions made in one behaviour
    ViewSlabs,     \* bound: slabs of one write transaction
    ViewTables,    \* bound: tables put aside at a time by growing slabs
    ViewSetups     \* records [others, shrinks, extends]: does another process
                   \* commit, may the logical size shrink, can a mapping be
                   \* extended in place

VARIABLES
    rvSetup,
    sizes,       \* logical file size of every version, by version number
    checkpoint,  \* the version the file header points at
    view,        \* the allocator: see RVInit
    reader,      \* the threads that read
    writer       \* the thread that writes

rvVars == <<rvSetup, sizes, checkpoint, view, reader, writer>>

RVRoundUp(n) == ((n + ViewSection - 1) \div ViewSection) * ViewSection
RVSections(n) == RVRoundUp(n) \div ViewSection
Latest == Len(sizes)

Smallest(S) == CHOOSE x \in S : \A y \in S : x <= y

\* the length of the mapping of section k of a file of n units
MappedLength(k, n) == IF n >= k * ViewSection THEN ViewSection ELSE n - (k - 1) * ViewSection

\* Mappings and tables are named by numbers; a name is taken again only when
\* nobody, not even a thread that should not, refers to its old bearer.
OpenMaps == {view.maps[k].id : k \in DOMAIN view.maps} \cup {m.id : m \in view.oldMaps}
OpenTables == {view.table.id} \cup {t.table.id : t \in view.oldTables}

KnownMaps == OpenMaps \cup UNION {reader[t].held : t \in ReaderThreads}
             \cup UNION {{reader[t].table.maps[k] : k \in DOMAIN reader[t].table.maps} : t \in ReaderThreads}
KnownTables == OpenTables \cup {reader[t].table.id : t \in ReaderThreads}

MapName(i) == CHOOSE m \in 1 .. 20 : m \notin KnownMaps /\ Cardinality((1 .. m) \ KnownMaps) = i
TableName == Smallest((1 .. 20) \ KnownTables)

FreshMaps(from, to, n) == [k \in 1 .. to - from |-> [id |-> MapName(k), len |-> MappedLength(from + k, n)]]

-----------------------------------------------------------------------------
(* The allocator. *)

Ids(maps) == [k \in DOMAIN maps |-> maps[k].id]

\* A table maps the sections of the file to mappings; its slab entries do not
\* matter to readers, only their number does.
Table(id, maps, slabs) == [id |-> id, maps |-> Ids(maps), slabs |-> slabs]

\* the current table is put aside for the threads that may be reading it
Retired(v) == v.oldTables \cup {[table |-> v.table, at |-> v.youngest]}

RetiredMaps(v, replace) ==
    IF replace THEN v.oldMaps \cup {[id |-> v.maps[Len(v.maps)].id, at |-> v.youngest]} ELSE v.oldMaps

\* try_extend_to() on the last mapping
ExtendedLast(maps, n) == [maps EXCEPT ![Len(maps)].len = MappedLength(Len(maps), n)]

\* update_reader_view(): extend or replace the last, partial mapping, map the
\* new sections, move the baseline; a new table if anything in it changed
UpdatedView(v, n) ==
    LET had == Len(v.maps)
        partial == v.base < RVRoundUp(v.base)
        replace == partial /\ ~ rvSetup.extends
        kept == IF replace THEN SubSeq(v.maps, 1, had - 1)
                ELSE IF partial THEN ExtendedLast(v.maps, n)
                ELSE v.maps
        maps == kept \o FreshMaps(Len(kept), RVSections(n), n)
        rebuild == replace \/ Len(maps) > had
    IN [v EXCEPT !.base = n,
                 !.maps = maps,
                 !.oldMaps = RetiredMaps(v, replace),
                 !.oldTables = IF rebuild THEN Retired(v) ELSE @,
                 !.table = IF rebuild THEN Table(TableName, maps, v.slabs) ELSE @]

ShowFile(n) ==
    IF n <= view.base THEN UNCHANGED <<view>>
    ELSE view' = UpdatedView(view, n)

\* extend_fast_mapping_with_slab() in grow_slab()
WithSlab(v) ==
    [v EXCEPT !.slabs = @ + 1, !.dirty = TRUE, !.oldTables = Retired(v),
              !.table = Table(TableName, v.maps, v.slabs + 1)]

\* reset_free_space_tracking(): at most one slab, and no new table
WithoutSlabs(v) == [v EXCEPT !.slabs = IF @ > 1 THEN 1 ELSE @, !.dirty = FALSE]

\* mutant: a table replaced while the oldest version was the youngest goes too
PurgedEarly(v, oldest, youngest) ==
    [v EXCEPT !.oldMaps = {m \in @ : m.at > oldest}, !.oldTables = {t \in @ : t.at > oldest}, !.youngest = youngest]

\* purge_old_mappings()
Purged(v, oldest, youngest) ==
    [v EXCEPT !.oldMaps = {m \in @ : m.at >= oldest}, !.oldTables = {t \in @ : t.at >= oldest}, !.youngest = youngest]

-----------------------------------------------------------------------------
(* Threads. *)

Idle == [pc |-> "idle", version |-> 0, table |-> [id |-> 0, maps |-> << >>, slabs |-> 0], held |-> {}]

RVInit ==
    /\ rvSetup \in ViewSetups
    /\ sizes = <<Smallest(ViewSizes)>>
    /\ checkpoint = 1
    /\ LET n == Smallest(ViewSizes)
           maps == [k \in 1 .. RVSections(n) |-> [id |-> k, len |-> MappedLength(k, n)]]
       IN view = [base |-> n, maps |-> maps, table |-> Table(0, maps, 0), oldMaps |-> {}, oldTables |-> {},
                  youngest |-> 1, slabs |-> 0, dirty |-> FALSE]
    /\ reader = [t \in ReaderThreads |-> Idle]
    /\ writer = Idle

Grabbed(v) == [Idle EXCEPT !.pc = "grabbed", !.version = v]

\* DB::start_read(): the read lock first ...
GrabReadLock(t) ==
    /\ reader[t].pc = "idle"
    /\ reader' = [reader EXCEPT ![t] = Grabbed(Latest)]
    /\ UNCHANGED <<rvSetup, sizes, checkpoint, view, writer>>

\* ... then Group::attach_shared() brings the view up to its file size
AttachShared(t) ==
    /\ reader[t].pc = "grabbed"
    /\ ShowFile(sizes[reader[t].version])
    /\ reader' = [reader EXCEPT ![t].pc = "reading"]
    /\ UNCHANGED <<rvSetup, sizes, checkpoint, writer>>

\* translate(): the table pointer is loaded ...
LoadTable(t) ==
    /\ reader[t].pc = "reading"
    /\ reader' = [reader EXCEPT ![t].pc = "translating", ![t].table = view.table]
    /\ UNCHANGED <<rvSetup, sizes, checkpoint, view, writer>>

\* ... and an entry read through it; accessors keep the address they get
Translate(t) ==
    /\ reader[t].pc = "translating"
    /\ \E k \in 1 .. RVSections(sizes[reader[t].version]) :
          reader' = [reader EXCEPT ![t].pc = "reading", ![t].table = Idle.table, ![t].held = @ \cup {reader[t].table.maps[k]}]
    /\ UNCHANGED <<rvSetup, sizes, checkpoint, view, writer>>

EndRead(t) ==
    /\ reader[t].pc = "reading"
    /\ reader' = [reader EXCEPT ![t] = Idle]
    /\ UNCHANGED <<rvSetup, sizes, checkpoint, view, writer>>

\* Transaction::internal_advance_read(): the new lock is held before the old
\* one goes; the accessors are translated anew
AdvanceRead(t) ==
    /\ reader[t].pc = "reading"
    /\ reader[t].version < Latest
    /\ ShowFile(sizes[Latest])
    /\ reader' = [reader EXCEPT ![t] = [Idle EXCEPT !.pc = "reading", !.version = Latest]]
    /\ UNCHANGED <<rvSetup, sizes, checkpoint, writer>>

\* DB::start_write() under the write lock
GrabForWrite ==
    /\ writer.pc = "idle"
    /\ Latest < ViewVersions
    /\ writer' = Grabbed(Latest)
    /\ UNCHANGED <<rvSetup, sizes, checkpoint, view, reader>>

\* init_mapping_management()
AttachedAt(v, version) == [v EXCEPT !.youngest = version]

AttachForWrite ==
    /\ writer.pc = "grabbed"
    /\ LET n == sizes[writer.version] IN
       IF n <= view.base THEN view' = AttachedAt(view, writer.version)
       ELSE view' = AttachedAt(UpdatedView(view, n), writer.version)
    /\ writer' = [writer EXCEPT !.pc = "writing"]
    /\ UNCHANGED <<rvSetup, sizes, checkpoint, reader>>

AllocSlab ==
    /\ writer.pc = "writing"
    /\ view.slabs < ViewSlabs
    /\ Cardinality(view.oldTables) < ViewTables
    /\ view' = WithSlab(view)
    /\ UNCHANGED <<rvSetup, sizes, checkpoint, reader, writer>>

\* an allocation that the slabs at hand satisfy
AllocBlock ==
    /\ writer.pc = "writing"
    /\ view.slabs > 0
    /\ ~ view.dirty
    /\ view' = [view EXCEPT !.dirty = TRUE]
    /\ UNCHANGED <<rvSetup, sizes, checkpoint, reader, writer>>

Pinned == {reader[t].version : t \in {u \in ReaderThreads : reader[u].pc # "idle"}}

\* low_level_commit(): what the versions still bound need is kept, and so is
\* the version the header points at
Purge ==
    /\ writer.pc = "writing"
    /\ view' = Purged(view, Smallest(Pinned \cup {writer.version, checkpoint}), writer.version + 1)
    /\ writer' = [writer EXCEPT !.pc = "committing"]
    /\ UNCHANGED <<rvSetup, sizes, checkpoint, reader>>

NewSizes == {n \in ViewSizes : rvSetup.shrinks \/ n >= sizes[Latest]}

\* the allocator is reset before the version is published
Published(v) == WithoutSlabs(v)

PublishVersion(n, checkpoints) ==
    /\ writer.pc = "committing"
    /\ n \in NewSizes
    /\ sizes' = Append(sizes, n)
    /\ checkpoint' = IF checkpoints THEN Latest + 1 ELSE checkpoint
    /\ view' = Published(view)
    /\ writer' = Idle
    /\ UNCHANGED <<rvSetup, reader>>

Rollback ==
    /\ writer.pc = "writing"
    /\ view' = WithoutSlabs(view)
    /\ writer' = Idle
    /\ UNCHANGED <<rvSetup, sizes, checkpoint, reader>>

\* another process commits: only the version list tells
OtherCommit(n, checkpoints) ==
    /\ rvSetup.others
    /\ writer.pc = "idle"
    /\ Latest < ViewVersions
    /\ n \in NewSizes
    /\ sizes' = Append(sizes, n)
    /\ checkpoint' = IF checkpoints THEN Latest + 1 ELSE checkpoint
    /\ UNCHANGED <<rvSetup, view, reader, writer>>

RVNext ==
    \/ \E t \in ReaderThreads : GrabReadLock(t) \/ AttachShared(t) \/ LoadTable(t) \/ Translate(t) \/ EndRead(t)
                                \/ AdvanceRead(t)
    \/ GrabForWrite \/ AttachForWrite \/ AllocSlab \/ AllocBlock \/ Purge \/ Rollback
    \/ \E n \in ViewSizes, c \in BOOLEAN : PublishVersion(n, c) \/ OtherCommit(n, c)

RVSpec == RVInit /\ [][RVNext]_rvVars

-----------------------------------------------------------------------------
(* Properties. *)

\* No transaction is left with a mapping that has been closed, and no thread
\* reads a table that has been freed: purge_old_mappings() waits for every
\* version that could have seen them.  The stamp it compares with follows
\* only the commits of this process, so this is about a process that alone
\* writes to the file.
NothingDangles ==
    ~ rvSetup.others => \A t \in ReaderThreads :
        /\ reader[t].held \subseteq OpenMaps
        /\ reader[t].pc = "translating" => reader[t].table.id \in OpenTables

\* Every table kept, old or current, leads only to mappings that are open
\* (verify_old_translations(), which only debug builds run).
TablesLeadSomewhere ==
    \A table \in {view.table} \cup {t.table : t \in view.oldTables} :
        \A k \in DOMAIN table.maps : table.maps[k] \in OpenMaps

\* A thread that has attached sees its whole file, whatever the other threads
\* have done to the view since.
WholeFileVisible ==
    \A t \in ReaderThreads :
        reader[t].pc \in {"reading", "translating"} =>
            LET n == sizes[reader[t].version] IN
            /\ n <= view.base
            /\ \A k \in 1 .. RVSections(n) : view.maps[k].len >= MappedLength(k, n)
            /\ reader[t].pc = "translating" => Len(reader[t].table.maps) >= RVSections(n)

\* The view moves only while the allocator is clean: moving it rebuilds the
\* free lists and shifts the slabs under whoever holds nodes in them.
MovesOnlyWhenClean == [][view.base' # view.base => ~ view.dirty]_rvVars

\* What transactions use stays mapped, what they need is mapped, and the view
\* moves only while the allocator is clean.
ViewSound ==
    /\ [](NothingDangles /\ TablesLeadSomewhere /\ WholeFileVisible)
    /\ MovesOnlyWhenClean
=============================================================================

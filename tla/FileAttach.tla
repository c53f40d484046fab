----------------------------- MODULE FileAttach -----------------------------
(***************************************************************************)
(* The database file from DB::open to the crash: attaching and creating it *)
(* (SlabAlloc::attach_file), validating header and top array, restoring    *)
(* and making backups, recovering the journalled top, converting the       *)
(* streaming form, aligning the file size, format upgrade, the commits     *)
(* that change header, journal or size, compaction and joining a session.  *)
(*                                                                         *)
(* Sizes are in units; PageUnits of them make a page.  The header is unit  *)
(* 0, a top array is one unit, the streaming footer the last unit.  `file' *)
(* is what processes see; `disk' is what a power failure may bring back.   *)
(***************************************************************************)
EXTENDS Integers, Sequences, SequencesExt

CONSTANTS
    PageUnits,
    MaxUnits,       \* bound: the largest file
    TopRefs, LogicalSizes, \* bounds: where a commit puts its top, and the logical sizes it may leave
    Scenes,         \* records [file, openers, last]: a stored file, the openers that try it, and the last
                    \* version they commit (a bound)
    Opens,          \* bound: openings
    JournaledShrink \* whether a journalled commit may lower the logical size

ASSUME FileAttachAssumption ==
    /\ PageUnits \in Nat \ {0}
    /\ MaxUnits \in Nat /\ MaxUnits % PageUnits = 0
    /\ TopRefs \subseteq 1..(MaxUnits - 1) /\ LogicalSizes \subseteq 2..MaxUnits

VARIABLES
    file, disk,
    backups, \* file format -> [name.vN.backup.barq]
    part,    \* the backup being copied, [..].part
    spare,   \* name.tmp_compaction_space
    db,      \* the process that opens, and its session
    guest,   \* a second DB object that joins the session
    acked,   \* the newest version a commit has returned
    openings, scene

faVars == <<file, disk, backups, part, spare, db, guest, acked, openings, scene>>

Refs == 1..(MaxUnits - 1)
Streaming == -1
NoFooter == -1
NoTop == [logical |-> 0, ver |-> 0, hist |-> 0, schema |-> 0]
NoFile == [here |-> FALSE, size |-> 0, magic |-> FALSE, top |-> [s \in 0..1 |-> 0], fmt |-> [s \in 0..1 |-> 0], sel |-> 0,
           foot |-> NoFooter, tops |-> [r \in Refs |-> NoTop], chain |-> <<>>, key |-> 0]

round_up_to_page_size(n) == ((n + PageUnits - 1) \div PageUnits) * PageUnits

\* File::resize, File::prealloc: what lies past the end is gone, the last unit is another one
Resized(f, n) ==
    [f EXCEPT !.size = n,
              !.foot = IF n = f.size THEN @ ELSE NoFooter,
              !.tops = [r \in Refs |-> IF r < n THEN f.tops[r] ELSE NoTop]]

is_file_on_streaming_form(f) == f.sel = 0 /\ f.top[0] = Streaming
get_top_ref(f) == IF is_file_on_streaming_form(f) THEN f.foot ELSE f.top[f.sel]
get_committed_file_format_version(f) == f.fmt[f.sel]
empty_file_header(f) == [f EXCEPT !.magic = TRUE, !.top = NoFile.top, !.fmt = NoFile.fmt, !.sel = 0]

\* read_and_validate_header; a file read with another key does not decrypt
validate_header(f, key) ==
    /\ f.size >= 1
    /\ f.key = key
    /\ f.magic
    /\ is_file_on_streaming_form(f) => f.size >= 2 /\ f.foot # NoFooter
    /\ get_top_ref(f) < f.size

\* Group::validate_top_array: an array of a valid size whose logical file size is not past the end
validate_top_array(f, r) == r = 0 \/ (f.tops[r].ver > 0 /\ f.tops[r].logical <= f.size)

get_target_file_format_version_for_session(fmt, hist) == IF hist = 0 /\ fmt = 24 THEN 24 ELSE 25

\* get_version_and_history_info: version 0 is not a legal initial version
VersionOf(f, r) == IF r = 0 \/ f.tops[r].ver = 0 THEN 1 ELSE f.tops[r].ver

\* The journal's records, by their place; records are of one size here (CommitJournal has others), so
\* that the n-th continues the chain of those before it.  A word of zeros is no record; of a torn one
\* only the magic number is there.
Zeros == [ver |-> 0, top |-> 0]
Torn == [ver |-> -1, top |-> 0]
FirstWordCleared(chain) == [i \in DOMAIN chain |-> IF i = 1 THEN Zeros ELSE chain[i]]

\* CommitRecovery::scan passes records up to the checkpoint and those behind it whose arrays are intact
IsRecord(f, i) == i <= Len(f.chain) /\ f.chain[i] # Zeros
Passes(f, r, i) ==
    /\ IsRecord(f, i) /\ f.chain[i] # Torn
    /\ f.chain[i].ver > VersionOf(f, r) => f.tops[f.chain[i].top].ver = f.chain[i].ver
Scanned(f, r) == CHOOSE n \in 0..Len(f.chain) :
    (\A i \in 1..n : Passes(f, r, i)) /\ ~Passes(f, r, n + 1)
\* it throws at a torn header, and at damaged arrays when another record follows
ChainBroken(f, r) ==
    LET next == Scanned(f, r) + 1
    IN IsRecord(f, next) /\ (f.chain[next] = Torn \/ IsRecord(f, next + 1))
CheckpointTop(f, r) == r
RecoveredTop(f, r) ==
    LET behind == {i \in 1..Scanned(f, r) : f.chain[i].ver > VersionOf(f, r)}
    IN IF behind = {} THEN r
       ELSE f.chain[CHOOSE i \in behind : \A j \in behind : f.chain[j].ver <= f.chain[i].ver].top

Closed == [pc |-> "closed", cfg |-> [create |-> FALSE], top |-> 0, tail |-> 0, fmt |-> 0, why |-> ""]

FAInit ==
    /\ scene \in Scenes
    /\ file = scene.file /\ disk = scene.file
    /\ backups = [v \in {23, 24} |-> NoFile]
    /\ part = NoFile /\ spare = NoFile
    /\ db = Closed /\ guest = "none"
    /\ acked = IF validate_header(file, file.key) /\ get_top_ref(file) # 0
               THEN file.tops[get_top_ref(file)].ver ELSE 0
    /\ openings = Opens

At(pc) == db.pc = pc
Go(pc) == db' = [db EXCEPT !.pc = pc]
Refuse(why) == db' = [db EXCEPT !.pc = "refused", !.why = why]
Synced == disk' = file'

\* DB::open as session initiator, and the config it attaches with
FABegin ==
    /\ At("closed") /\ openings > 0
    /\ openings' = openings - 1
    /\ \E c \in scene.openers : db' = [Closed EXCEPT !.pc = "attach", !.cfg = c]
    /\ UNCHANGED <<file, disk, backups, part, spare, guest, acked, scene>>

MustClear(c) == c.memonly \/ (c.clear_on_error /\ file.size > 0 /\ ~validate_header(file, c.key))

\* attach_file, m_file.open: create_Never and no file
AttachMissing ==
    /\ At("attach") /\ ~file.here /\ ~db.cfg.create
    /\ Refuse("NotFound")
    /\ UNCHANGED <<file, disk, backups, part, spare, guest, acked, openings, scene>>

\* m_file.resize(0), by request or because the header is no good
AttachClear ==
    /\ At("attach") /\ file.here /\ MustClear(db.cfg)
    /\ file' = [NoFile EXCEPT !.here = TRUE, !.key = db.cfg.key]
    /\ acked' = 0
    /\ Go("create")
    /\ UNCHANGED <<disk, backups, part, spare, guest, openings, scene>>

AttachEmpty ==
    /\ At("attach") /\ file.size = 0 /\ (file.here => ~MustClear(db.cfg)) /\ (file.here \/ db.cfg.create)
    /\ file' = [file EXCEPT !.here = TRUE, !.key = db.cfg.key]
    /\ Go("create")
    /\ UNCHANGED <<disk, backups, part, spare, guest, acked, openings, scene>>

AttachStored ==
    /\ At("attach") /\ file.size > 0 /\ ~MustClear(db.cfg)
    /\ Go("header")
    /\ UNCHANGED <<file, disk, backups, part, spare, guest, acked, openings, scene>>

CreatePrealloc ==
    /\ At("create")
    /\ file' = Resized(file, PageUnits)
    /\ Go("create header")
    /\ UNCHANGED <<disk, backups, part, spare, guest, acked, openings, scene>>

CreateHeader ==
    /\ At("create header")
    /\ file' = empty_file_header(file)
    /\ Go("create sync")
    /\ UNCHANGED <<disk, backups, part, spare, guest, acked, openings, scene>>

CreateSync ==
    /\ At("create sync")
    /\ disk' = file
    /\ Go("header")
    /\ UNCHANGED <<file, backups, part, spare, guest, acked, openings, scene>>

\* the rest of attach_file
AttachHeader ==
    /\ At("header")
    /\ IF validate_header(file, db.cfg.key)
       THEN db' = [db EXCEPT !.pc = "attached", !.top = get_top_ref(file),
                             !.fmt = get_committed_file_format_version(file)]
       ELSE Refuse("InvalidDatabase")
    /\ UNCHANGED <<file, disk, backups, part, spare, guest, acked, openings, scene>>

Accepted(fmt) == fmt \in db.cfg.accepted
BackupToRestore == {v \in db.cfg.accepted \cap DOMAIN backups : backups[v].here}
Newest(S) == CHOOSE v \in S : \A w \in S : w <= v
MustRestore == db.fmt # 0 /\ ~Accepted(db.fmt) /\ BackupToRestore # {}

\* must_restore_from_backup, restore_from_backup: the backup is moved over the file; retry
RestoreBackup ==
    /\ At("attached") /\ MustRestore
    /\ LET v == Newest(BackupToRestore) IN
       /\ file' = backups[v]
       /\ Synced
       /\ backups' = [backups EXCEPT ![v] = NoFile]
       /\ acked' = IF get_top_ref(backups[v]) = 0 THEN 0 ELSE VersionOf(backups[v], get_top_ref(backups[v]))
    /\ Go("attach")
    /\ UNCHANGED <<part, spare, guest, openings, scene>>

\* cleanup_backups: those whose time is up; then the validation of the top array
CheckTop ==
    /\ At("attached") /\ ~MustRestore
    /\ \E old \in SUBSET (DOMAIN backups \ {24}) :
          backups' = [v \in DOMAIN backups |-> IF v \in old THEN NoFile ELSE backups[v]]
    /\ IF validate_top_array(file, db.top) THEN Go("backup") ELSE Refuse("InvalidDatabase")
    /\ UNCHANGED <<file, disk, part, spare, guest, acked, openings, scene>>

TargetFormat == get_target_file_format_version_for_session(db.fmt, db.cfg.hist)
WantsBackup ==
    /\ db.cfg.backup
    /\ db.fmt # 0 /\ db.fmt < TargetFormat
    /\ ~backups[db.fmt].here

\* backup_barq_if_needed: there is none to make, or no room for it, or the copying fails
SkipBackup ==
    /\ At("backup")
    /\ Go("format")
    /\ part' = NoFile
    /\ UNCHANGED <<file, disk, backups, spare, guest, acked, openings, scene>>

BackupCopy ==
    /\ At("backup") /\ WantsBackup
    /\ part' \in {file, Resized(file, 1)}   \* the copy is under way or complete
    /\ IF part' = file THEN Go("backup move") ELSE UNCHANGED db
    /\ UNCHANGED <<file, disk, backups, spare, guest, acked, openings, scene>>

BackupMove ==
    /\ At("backup move")
    /\ backups' = [backups EXCEPT ![db.fmt] = part]
    /\ part' = NoFile
    /\ Go("format")
    /\ UNCHANGED <<file, disk, spare, guest, acked, openings, scene>>

FormatOk == IF db.fmt = 0 THEN db.top = 0 ELSE Accepted(db.fmt)
WithJournal == db.fmt = 25 /\ db.top # 0
SessionTop == IF WithJournal THEN RecoveredTop(file, db.top) ELSE db.top
Stored == IF SessionTop = 0 THEN NoTop ELSE file.tops[SessionTop]
GoodHistory ==
    /\ db.cfg.hist = 0 => Stored.hist = 0
    /\ Stored.schema <= db.cfg.schema
NeedSchemaUpgrade == Stored.schema < db.cfg.schema /\ SessionTop # 0
NeedFormatUpgrade == db.fmt < TargetFormat /\ SessionTop # 0
Upgradable == Stored.schema \in {1, 2, 3} \* RootsReplication::is_upgradable_history_schema

\* the file format, the journal, the version and the history of the top that the session starts from
CheckSession ==
    /\ At("format")
    /\ IF ~FormatOk THEN Refuse("UnsupportedFormat")
       ELSE IF WithJournal /\ ChainBroken(file, db.top) THEN Refuse("InvalidJournal")
       ELSE IF ~GoodHistory \/ (NeedSchemaUpgrade /\ ~Upgradable) THEN Refuse("IncompatibleHistories")
       ELSE IF ~db.cfg.upgrade /\ (NeedSchemaUpgrade \/ NeedFormatUpgrade) THEN Refuse("UpgradeRequired")
       ELSE db' = [db EXCEPT !.pc = "convert", !.top = SessionTop,
                             !.tail = IF WithJournal THEN Scanned(file, db.top) ELSE 0]
    /\ UNCHANGED <<file, disk, backups, part, spare, guest, acked, openings, scene>>

\* convert_from_streaming_form: the second slot and a sync, then the select bit and a sync
SlotFilled(f, r) == [f EXCEPT !.top[1] = r, !.fmt[1] = f.fmt[0]]
Selected(f, s) == [f EXCEPT !.sel = s]

ConvertSlot ==
    /\ At("convert") /\ is_file_on_streaming_form(file)
    /\ file' = SlotFilled(file, db.top)
    /\ Synced
    /\ Go("convert select")
    /\ UNCHANGED <<backups, part, spare, guest, acked, openings, scene>>

ConvertSelect ==
    /\ \/ At("convert select") /\ Go("align")
       \/ At("compact select") /\ Go("compact clear")
    /\ file' = Selected(file, 1)
    /\ Synced
    /\ UNCHANGED <<backups, part, spare, guest, acked, openings, scene>>

NothingToConvert ==
    /\ At("convert") /\ ~is_file_on_streaming_form(file)
    /\ Go("align")
    /\ UNCHANGED <<file, disk, backups, part, spare, guest, acked, openings, scene>>

\* align_filesize_for_mmap: the logical size of the session's top, rounded up
ExpectedSize(f, r) == IF r = 0 THEN MaxUnits ELSE round_up_to_page_size(f.tops[r].logical)

AlignShrink ==
    /\ At("align") /\ ExpectedSize(file, db.top) < file.size
    /\ file' = Resized(file, ExpectedSize(file, db.top))
    /\ Go("attach")   \* retry
    /\ UNCHANGED <<disk, backups, part, spare, guest, acked, openings, scene>>

AlignExtend ==
    /\ At("align") /\ ExpectedSize(file, db.top) >= file.size
    /\ file.size # round_up_to_page_size(file.size)
    /\ file' = Resized(file, round_up_to_page_size(file.size))
    /\ Go("attach")   \* retry
    /\ UNCHANGED <<disk, backups, part, spare, guest, acked, openings, scene>>

\* the session is published in the lock file; then upgrade_file_format
StartSession ==
    /\ At("align") /\ ExpectedSize(file, db.top) >= file.size
    /\ file.size = round_up_to_page_size(file.size)
    /\ IF db.fmt = 0 THEN db' = [db EXCEPT !.pc = "session", !.fmt = TargetFormat]
       ELSE IF db.fmt < TargetFormat \/ NeedSchemaUpgrade
       THEN IF db.fmt \in {24, TargetFormat} THEN db' = [db EXCEPT !.pc = "write", !.fmt = TargetFormat]
            ELSE Refuse("UpgradeRequired")   \* Transaction::upgrade_file_format
       ELSE Go("session")
    /\ UNCHANGED <<file, disk, backups, part, spare, guest, acked, openings, scene>>

\* the tops a commit may not overwrite: the durable one and every one journalled since
InUse == {file.top[file.sel], db.top} \cup
         {file.chain[i].top : i \in {j \in 1..db.tail : file.chain[j].ver > VersionOf(file, file.top[file.sel])}}
NewVersion == VersionOf(file, db.top) + 1
LogicalNow == IF db.top = 0 THEN 1 ELSE file.tops[db.top].logical
NewTop(logical) == [logical |-> logical, ver |-> NewVersion, hist |-> db.cfg.hist, schema |-> db.cfg.schema]

\* a commit places its top and, before that, extends the file (resize_file); a lower logical size is
\* the end of an evacuation, GroupWriter::write_group, when everything in use lies below it
Placed(r, logical) ==
    LET grown == IF round_up_to_page_size(logical) > file.size
                 THEN Resized(file, round_up_to_page_size(logical)) ELSE file
    IN [grown EXCEPT !.tops[r] = NewTop(logical)]
MayPlace(r, logical) ==
    /\ NewVersion <= scene.last
    /\ r \notin InUse /\ r < logical
    /\ logical < LogicalNow => /\ \A u \in InUse : u < logical
                               /\ logical = round_up_to_page_size(logical)

\* DB::low_level_commit: the arrays and, at the tail, the record are in the file; nothing is synced
JournalAppend ==
    /\ At("session") /\ db.fmt = 25 /\ ~db.cfg.memonly
    /\ file.fmt[file.sel] = 25 /\ file.top[file.sel] # 0 /\ file.tops[file.top[file.sel]].hist # 0
    /\ \E r \in TopRefs, logical \in LogicalSizes :
          /\ MayPlace(r, logical)
          /\ JournaledShrink \/ logical >= LogicalNow
          /\ LET record == [ver |-> NewVersion, top |-> r]
             IN file' = [Placed(r, logical) EXCEPT
                           !.chain = IF db.tail = Len(@) THEN Append(@, record)
                                     ELSE [@ EXCEPT ![db.tail + 1] = record]]
    /\ Go("append")
    /\ UNCHANGED <<disk, backups, part, spare, guest, acked, openings, scene>>

\* one sync for all of it, commit_append, and the commit returns
JournalSync ==
    /\ At("append")
    /\ disk' = file
    /\ LET record == file.chain[db.tail + 1]
       IN /\ db' = [db EXCEPT !.pc = "session", !.top = record.top, !.tail = @ + 1]
          /\ acked' = record.ver
    /\ UNCHANGED <<file, backups, part, spare, guest, openings, scene>>

\* GroupCommitter::commit: the other slot is filled, everything is synced, the select bit flips
OtherSlot == 1 - file.sel
CheckpointSlot(f, r, fmt) == [f EXCEPT !.top[OtherSlot] = r, !.fmt[OtherSlot] = fmt]

CheckpointFill ==
    /\ (At("session") /\ ~db.cfg.memonly) \/ At("write")
    /\ \E r \in TopRefs, logical \in LogicalSizes :
          /\ MayPlace(r, logical)
          /\ file' = CheckpointSlot(Placed(r, logical), r, db.fmt)
          /\ db' = [db EXCEPT !.pc = "flip", !.top = r]
    /\ Synced
    /\ UNCHANGED <<backups, part, spare, guest, acked, openings, scene>>

CheckpointFlip ==
    /\ At("flip")
    /\ file' = Selected(file, OtherSlot)
    /\ Synced
    /\ Go("reset")
    /\ UNCHANGED <<backups, part, spare, guest, acked, openings, scene>>

\* reset_after_checkpoint: the journal's first word, not synced; the commit returns.  Behind the first
\* word the old records stay
CheckpointDone ==
    /\ At("reset")
    /\ file' = [file EXCEPT !.chain = FirstWordCleared(@)]
    /\ acked' = VersionOf(file, db.top)
    /\ db' = [db EXCEPT !.pc = "session", !.tail = 0]
    /\ UNCHANGED <<disk, backups, part, spare, guest, openings, scene>>

\* DB::compact, alone in the session: Group::write streams the live data, journal included
Streamed(f, r, ver) ==
    LET at == IF r = 0 THEN 0 ELSE 1 IN
    [NoFile EXCEPT !.here = TRUE, !.magic = TRUE, !.top[0] = Streaming, !.key = f.key,
                   !.fmt[0] = IF r = 0 THEN 0 ELSE db.fmt,
                   !.foot = at,
                   !.size = IF f.key = 0 THEN at + 2 ELSE round_up_to_page_size(at + 2),
                   !.tops = [q \in Refs |-> IF q = at THEN [f.tops[r] EXCEPT !.logical = at + 1, !.ver = ver]
                                            ELSE NoTop],
                   !.chain = IF r = 0 \/ f.tops[r].hist = 0 THEN <<>> ELSE f.chain]

CompactWrite ==
    /\ At("session") /\ guest # "joined"
    /\ spare' \in {Streamed(file, db.top, VersionOf(file, db.top)), [NoFile EXCEPT !.here = TRUE]}
    /\ IF spare'.magic THEN Go("compact move") ELSE UNCHANGED db   \* failed: try_remove, or a leftover
    /\ UNCHANGED <<file, disk, backups, part, guest, acked, openings, scene>>

CompactMove ==
    /\ At("compact move")
    /\ file' = spare
    /\ spare' = NoFile
    /\ Go("compact attach")
    /\ UNCHANGED <<disk, backups, part, guest, acked, openings, scene>>

CompactAttach ==
    /\ At("compact attach")
    /\ IF validate_header(file, file.key)
       THEN /\ db' = [db EXCEPT !.pc = "compact select", !.top = get_top_ref(file)]
            /\ file' = SlotFilled(file, get_top_ref(file))
            /\ Synced
       ELSE Refuse("InvalidDatabase") /\ UNCHANGED <<file, disk>>
    /\ UNCHANGED <<backups, part, spare, guest, acked, openings, scene>>

\* clear_after_compaction, flushed and synced
CompactClear ==
    /\ At("compact clear")
    /\ file' = [file EXCEPT !.chain = FirstWordCleared(@)]
    /\ Synced
    /\ db' = [db EXCEPT !.pc = "session", !.tail = 0]
    /\ UNCHANGED <<backups, part, spare, guest, acked, openings, scene>>

\* DB::open by a second DB object, under the control mutex that opening and compaction hold
JoinOutcome(c) ==
    LET fmt == get_committed_file_format_version(file)
        top == get_top_ref(file)
    IN IF ~validate_header(file, c.key) \/ ~validate_top_array(file, top) THEN "InvalidDatabase"
       ELSE IF ~(IF fmt = 0 THEN top = 0 ELSE fmt \in c.accepted) THEN "UnsupportedFormat"
       ELSE IF fmt = 25 /\ top # 0 /\ ChainBroken(file, top) THEN "InvalidJournal"
       ELSE IF c.memonly # db.cfg.memonly \/ c.hist # db.cfg.hist \/ c.schema # db.cfg.schema
       THEN "IncompatibleSession"
       ELSE IF get_target_file_format_version_for_session(fmt, c.hist) # db.fmt THEN "IncompatibleLockFile"
       ELSE "joined"

Join ==
    /\ db.pc \in {"session", "append", "write", "flip", "reset"} /\ guest = "none"
    /\ \E c \in scene.openers :
          /\ c.key = db.cfg.key /\ c.accepted = db.cfg.accepted   \* the same build and key
          /\ guest' = JoinOutcome(c)
    /\ UNCHANGED <<file, disk, backups, part, spare, db, acked, openings, scene>>

Leave ==
    /\ guest # "none"
    /\ guest' = "none"
    /\ UNCHANGED <<file, disk, backups, part, spare, db, acked, openings, scene>>

\* DB::close; a MemOnly file goes with its session.  Or the exception of an opening is caught
CloseSession ==
    /\ At("session") \/ At("refused")
    /\ guest = "none"
    /\ file' = IF At("session") /\ db.cfg.memonly THEN NoFile ELSE file
    /\ disk' = IF At("session") /\ db.cfg.memonly THEN NoFile ELSE disk
    /\ db' = Closed
    /\ UNCHANGED <<backups, part, spare, guest, acked, openings, scene>>

\* the process is killed or the power fails.  Of a commit in the journal any part may have reached the
\* disk: the arrays, the record, or the first word of the record
Left ==
    {file, disk} \cup
    (IF At("append") \/ At("session")
     THEN {[file EXCEPT !.chain = disk.chain], [disk EXCEPT !.chain = file.chain]} ELSE {}) \cup
    (IF At("append") THEN {[disk EXCEPT !.chain = [file.chain EXCEPT ![db.tail + 1] = Torn]]} ELSE {})
Crash ==
    /\ ~At("closed")
    /\ file' \in Left
    /\ Synced
    /\ db' = Closed /\ guest' = "none"
    /\ UNCHANGED <<backups, part, spare, acked, openings, scene>>

OpenStep ==
    \/ AttachMissing \/ AttachClear \/ AttachEmpty \/ AttachStored
    \/ CreatePrealloc \/ CreateHeader \/ CreateSync \/ AttachHeader
    \/ RestoreBackup \/ CheckTop \/ SkipBackup \/ BackupCopy \/ BackupMove \/ CheckSession
    \/ ConvertSlot \/ ConvertSelect \/ NothingToConvert
    \/ AlignShrink \/ AlignExtend \/ StartSession

FANext ==
    \/ FABegin \/ OpenStep
    \/ JournalAppend \/ JournalSync \/ CheckpointFill \/ CheckpointFlip \/ CheckpointDone
    \/ CompactWrite \/ CompactMove \/ CompactAttach \/ CompactClear
    \/ Join \/ Leave \/ CloseSession \/ Crash

\* the opening thread runs on: nothing in DB::open waits for another opener once it has the mutex
FASpec == FAInit /\ [][FANext]_faVars /\ WF_faVars(OpenStep)

-----------------------------------------------------------------------------
Images == {file, disk}

\* Once a commit has returned, no crash of an opening, a commit or a compaction leaves a file whose
\* header or top array DB::open rejects.  CommitRecovery::scan does reject files that a crash in the
\* middle of a journalled commit left behind, but never over a commit that has returned: by then it has
\* passed all of those.
CommittedFileOpens ==
    At("refused") /\ db.cfg.key = file.key =>
        /\ db.why = "InvalidDatabase" => acked = 0
        /\ db.why = "InvalidJournal" => VersionOf(file, RecoveredTop(file, db.top)) >= acked

\* The top a session starts from, from the header, the footer or the journal, is never older than the
\* last commit that returned.
OpensNewest == db.pc \in {"convert", "align", "session"} => VersionOf(file, db.top) >= acked

\* The size of a file on streaming form is not changed: its footer would no longer be at the end.
FooterKept == \A f \in Images : is_file_on_streaming_form(f) => f.foot # NoFooter

\* A file with the name of a backup is the whole file of that format, whatever interrupted the copying.
BackupsWhole == \A v \in DOMAIN backups :
    LET b == backups[v] IN
    b.here => /\ validate_header(b, b.key)
              /\ get_committed_file_format_version(b) = v
              /\ validate_top_array(b, get_top_ref(b))

\* A second DB object that opens the file during a session, between any two steps of a commit, does
\* not find it invalid.
JoinerFindsValidFile == guest \notin {"InvalidDatabase", "InvalidJournal"}

\* Opening ends: the file is not resized back and forth, and no restored backup is rejected for ever.
OpeningEnds == db.pc = "attach" ~> db.pc \in {"session", "write", "refused", "closed"}

\* Whatever was interrupted, opening a file ends: at the newest commit that
\* returned, or refused over one that had not; footers and backups are never left half made.
OpeningSound ==
    /\ [](CommittedFileOpens /\ OpensNewest /\ FooterKept /\ BackupsWhole /\ JoinerFindsValidFile)
    /\ OpeningEnds
=============================================================================

--------------------------- MODULE CommitJournal ---------------------------
(***************************************************************************)
(* Durability of a commit: the commit journal and its recovery             *)
(* (core/commit_journal.cpp, core/commit_recovery.cpp), the two slots of   *)
(* the file header (GroupCommitter::commit), and the order in which        *)
(* DB::low_level_commit writes and synchronises them.                      *)
(*                                                                         *)
(* A commit appends one record to the journal and synchronises once; a     *)
(* checkpoint moves the header to the new snapshot instead and starts the  *)
(* journal anew by clearing its first word.  Opening a file starts from    *)
(* the header's snapshot and follows the chain of records.                 *)
(*                                                                         *)
(* A snapshot is the set of the commits it contains, and its version is    *)
(* their number.  The journal is an array of words; a record of n words    *)
(* fills n of them, so that a new record can cover parts of old ones.      *)
(* Everything is written to the operating system's view of the file first  *)
(* and reaches the disk with the next synchronisation, or in any part      *)
(* before it if the power fails.  That arrays of journal records are not   *)
(* overwritten is PageReuse's subject, and taken for granted here.         *)
(***************************************************************************)
EXTENDS Naturals, FiniteSets

CONSTANTS Participant,  \* DB objects that open the file
          Capacity,     \* words of the journal
          Limit,        \* three quarters of it: fuller means checkpoint
          Sizes,        \* possible record sizes in words
          MaxCommits,   \* bound on the commits a behaviour attempts
          FaultSets     \* what may go wrong in one behaviour, a choice of:
                        \* "power", "kill" for the process, "io" for storage
                        \* calls, "lastsync" for the last of a checkpoint

ASSUME CommitJournalAssumption ==
    /\ Capacity \in Nat \ {0} /\ Limit \in 0 .. Capacity
    /\ Sizes \subseteq Nat \ {0} /\ MaxCommits \in Nat
    /\ FaultSets \subseteq SUBSET {"power", "kill", "io", "lastsync"}

VARIABLES
    cells, disk,     \* words of the journal: as seen, and on the disk
    hdr, hdrDisk,    \* the file header: two slots and the select bit
    pages, pagesDisk,\* commits whose arrays are in the file
    open,            \* participants of the session
    latest,          \* the session's newest snapshot (VersionList.newest)
    critical,        \* SharedInfo.commit_in_critical_phase
    jrn,             \* the CommitJournal object of each participant
    committer,       \* who holds the write lock
    stage, snap,     \* how far its commit is, and the snapshot it makes
    commits,         \* commits attempted so far
    acked,           \* commits whose caller has been told they are done
    refused,         \* how recovery last refused the file, if it did
    faults           \* what may go wrong in this behaviour

image   == <<cells, hdr, pages>>
stable  == <<disk, hdrDisk, pagesDisk>>
session == <<open, latest, critical>>
commit  == <<committer, stage, snap>>
cjVars  == <<cells, disk, hdr, hdrDisk, pages, pagesDisk, open, latest,
             critical, jrn, committer, stage, snap, commits, acked, refused,
             faults>>

Word     == 0 .. Capacity - 1
Commit   == 1 .. MaxCommits
NoRecord == Capacity         \* previous_offset of the first record
Empty    == [size |-> 0]     \* what a cleared word holds, as a record
Cleared  == [rec |-> Empty, pos |-> 0]
None     == "none"

VersionOf(s) == Cardinality(s)

\* The snapshot the header selects.
Selected(h) == h.slot[h.sel]

-----------------------------------------------------------------------------
(* Recovery *)

\* The record that starts at word o, if all its words are there (header and
\* footer magic, size and CRC are right).
Whole(c, o) ==
    LET r == c[o].rec
    IN /\ c[o].pos = 0 /\ r # Empty
       /\ o + r.size <= Capacity
       /\ \A k \in 0 .. r.size - 1 : c[o + k] = [rec |-> r, pos |-> k]

Magic(c, o) == o < Capacity /\ c[o].pos = 0 /\ c[o].rec # Empty

\* The magic number is there and the format fields behind it are not: the
\* header of a longer record can lie on both sides of a word boundary.
HeaderTorn(c, o) ==
    /\ Magic(c, o) /\ c[o].rec.size > 1
    /\ o + 1 < Capacity => c[o + 1].pos # 1

ArraysTrusted(pg, ckpt, r) == TRUE

\* The arrays of a record behind the checkpoint are in the file, by checksum.
ArraysValid(pg, ckpt, r) == VersionOf(r.snap) > VersionOf(ckpt) => r.commit \in pg

\* One round of CommitRecovery::scan: stop at anything that is not a record,
\* refuse a broken header and a record that does not continue the chain, stop at a record whose
\* arrays are damaged unless another record follows.  Records up to the
\* checkpoint only carry the chain on.
ScanRecord(c, pg, ckpt, s) ==
    LET r == c[s.tail].rec
    IN IF s.tail < Capacity /\ HeaderTorn(c, s.tail)
       THEN [s EXCEPT !.state = "header"]
       ELSE IF ~(s.tail < Capacity /\ Whole(c, s.tail))
       THEN [s EXCEPT !.state = "done"]
       ELSE IF r.seq # s.seq + 1 \/ r.prev # s.prev
       THEN [s EXCEPT !.state = "chain"]
       ELSE IF ~ArraysValid(pg, ckpt, r)
       THEN [s EXCEPT !.state = IF Magic(c, s.tail + r.size)
                                THEN "interior" ELSE "done"]
       ELSE [s EXCEPT !.tail = s.tail + r.size, !.seq = r.seq,
                      !.prev = s.tail,
                      !.snap = IF VersionOf(r.snap) > VersionOf(s.snap)
                               THEN r.snap ELSE s.snap]

Scan(c, pg, ckpt) ==
    LET step[k \in 0 .. Capacity + 1] ==
          IF k = 0
          THEN [tail |-> 0, seq |-> 0, prev |-> NoRecord, snap |-> ckpt,
                state |-> "scan"]
          ELSE LET s == step[k - 1]
               IN IF s.state # "scan" THEN s ELSE ScanRecord(c, pg, ckpt, s)
    IN step[Capacity + 1]

NoJournal == [tail |-> 0, seq |-> 0, prev |-> NoRecord, ckpt |-> {}]

CJInit ==
    /\ cells = [o \in Word |-> Cleared] /\ disk = cells
    /\ hdr = [slot |-> [i \in {0, 1} |-> {}], sel |-> 0] /\ hdrDisk = hdr
    /\ pages = {} /\ pagesDisk = {}
    /\ open = {} /\ latest = {} /\ critical = FALSE
    /\ jrn = [p \in Participant |-> NoJournal]
    /\ committer = None /\ stage = "idle" /\ snap = {}
    /\ commits = 0 /\ acked = {} /\ refused = "no"
    /\ faults \in FaultSets

\* DB::open: the first participant starts a session with the recovered
\* snapshot, the others join it; each reads the journal for itself.
Open(p) ==
    LET found == Scan(cells, pages, Selected(hdr))
    IN /\ p \notin open
       /\ IF found.state = "done"
          THEN /\ open' = open \cup {p}
               /\ latest' = IF open = {} THEN found.snap ELSE latest
               /\ jrn' = [jrn EXCEPT ![p] =
                            [tail |-> found.tail, seq |-> found.seq,
                             prev |-> found.prev, ckpt |-> Selected(hdr)]]
               /\ UNCHANGED refused
          ELSE /\ refused' = found.state
               /\ UNCHANGED <<open, latest, jrn>>
       /\ UNCHANGED <<faults, image, stable, critical, commit, commits, acked>>

-----------------------------------------------------------------------------
(* A commit of participant p *)

\* What a synchronisation of the file leaves on the disk.
Sync == disk' = cells /\ hdrDisk' = hdr /\ pagesDisk' = pages

\* write_group: the arrays of the new snapshot are in the file.
WriteArrays(p) ==
    /\ p \in open /\ committer = None /\ ~critical /\ commits < MaxCommits
    /\ commits' = commits + 1
    /\ committer' = p
    /\ stage' = "written"
    /\ snap' = latest \cup {commits + 1}
    /\ pages' = pages \cup {commits + 1}
    /\ UNCHANGED <<faults, cells, hdr, stable, session, jrn, acked, refused>>

Record(p, size) ==
    [seq |-> jrn[p].seq + 1, prev |-> jrn[p].prev, snap |-> snap,
     commit |-> commits, size |-> size]

Written(p, size) ==
    [o \in Word |-> IF o \in jrn[p].tail .. jrn[p].tail + size - 1
                    THEN [rec |-> Record(p, size), pos |-> o - jrn[p].tail]
                    ELSE cells[o]]

\* needs_checkpoint for the fill level; the number of commits and of bytes
\* since the last checkpoint may ask for one at any time.
Full(p, size) == jrn[p].tail + size > Limit

\* prepare_append writes the record at the tail this participant knows.
PrepareAppend(p) ==
    /\ committer = p /\ stage = "written"
    /\ \E size \in Sizes : ~Full(p, size) /\ cells' = Written(p, size)
    /\ stage' = "appended"
    /\ critical' = TRUE
    /\ UNCHANGED <<faults, hdr, pages, stable, open, latest, jrn, committer, snap,
                   commits, acked, refused>>

\* flush, one synchronisation, commit_append.
SyncAppend(p) ==
    /\ committer = p /\ stage = "appended"
    /\ Sync
    /\ jrn' = [jrn EXCEPT ![p].tail = @ + cells[@].rec.size,
                          ![p].seq = @ + 1, ![p].prev = jrn[p].tail]
    /\ stage' = "durable"
    /\ UNCHANGED <<faults, image, session, committer, snap, commits, acked, refused>>

\* add_version, and the caller is told.
PublishVersion(p) ==
    /\ committer = p /\ stage = "durable"
    /\ latest' = snap
    /\ acked' = acked \cup {commits}
    /\ critical' = FALSE
    /\ committer' = None /\ stage' = "idle" /\ snap' = {}
    /\ UNCHANGED <<faults, image, stable, open, jrn, commits, refused>>

-----------------------------------------------------------------------------
(* A commit that is a checkpoint *)

\* The arrays are synchronised (sync_according_to_durability), then
\* GroupCommitter::commit gives the new top to the slot not selected.
WriteSlot(p) ==
    /\ committer = p /\ stage = "written"
    /\ Sync
    /\ hdr' = [hdr EXCEPT !.slot[1 - hdr.sel] = snap]
    /\ stage' = "slot"
    /\ UNCHANGED <<faults, cells, pages, session, jrn, committer, snap, commits,
                   acked, refused>>

SlotUnsynced(p) ==
    /\ committer = p /\ stage = "slot"
    /\ stage' = "slotDurable"
    /\ UNCHANGED <<faults, image, stable, session, jrn, committer, snap, commits, acked,
                   refused>>

SyncSlot(p) ==
    /\ committer = p /\ stage = "slot"
    /\ Sync
    /\ stage' = "slotDurable"
    /\ UNCHANGED <<faults, image, session, jrn, committer, snap, commits, acked, refused>>

FlipSelect(p) ==
    /\ committer = p /\ stage = "slotDurable"
    /\ hdr' = [hdr EXCEPT !.sel = 1 - @]
    /\ stage' = "flipped"
    /\ UNCHANGED <<faults, cells, pages, stable, session, jrn, committer, snap, commits,
                   acked, refused>>

\* The last synchronisation, then reset_after_checkpoint: its write stays in
\* the operating system's hands.
SyncSelect(p) ==
    /\ committer = p /\ stage = "flipped"
    /\ Sync
    /\ cells' = [cells EXCEPT ![0] = Cleared]
    /\ jrn' = [jrn EXCEPT ![p] = [NoJournal EXCEPT !.ckpt = snap]]
    /\ stage' = "durable"
    /\ critical' = TRUE
    /\ UNCHANGED <<faults, hdr, pages, open, latest, committer, snap, commits, acked,
                   refused>>

-----------------------------------------------------------------------------
(* Ends and failures *)

\* Nothing has been promised yet: rollback, or an exception in write_group.
Abandon(p) ==
    /\ committer = p /\ stage = "written"
    /\ committer' = None /\ stage' = "idle" /\ snap' = {}
    /\ UNCHANGED <<faults, image, stable, session, jrn, commits, acked, refused>>

\* A storage call throws.  On the way to the header nothing forbids the next
\* commit; with a record in the journal the critical flag ends the session.
IOError(p) ==
    /\ committer = p
    /\ \/ "io" \in faults /\ stage \in {"appended", "slot", "slotDurable"}
       \/ "lastsync" \in faults /\ stage = "flipped"
    /\ committer' = None /\ stage' = "idle" /\ snap' = {}
    /\ UNCHANGED <<faults, image, stable, session, jrn, commits, acked, refused>>

\* prepare_append throws in the middle of the record.
PartialAppend(p) ==
    /\ "io" \in faults
    /\ committer = p /\ stage = "written"
    /\ \E size \in Sizes : \E n \in 1 .. size - 1 :
         /\ ~Full(p, size)
         /\ cells' = [o \in Word |-> IF o < jrn[p].tail + n
                                     THEN Written(p, size)[o] ELSE cells[o]]
    /\ committer' = None /\ stage' = "idle" /\ snap' = {}
    /\ UNCHANGED <<faults, hdr, pages, stable, session, jrn, commits, acked, refused>>

\* The last participant to leave ends the session.
Close(p) ==
    /\ p \in open /\ committer # p
    /\ open' = open \ {p}
    /\ jrn' = [jrn EXCEPT ![p] = NoJournal]
    /\ IF open = {p}
       THEN latest' = {} /\ critical' = FALSE
       ELSE UNCHANGED <<latest, critical>>
    /\ UNCHANGED <<faults, image, stable, commit, commits, acked, refused>>

Gone ==
    /\ open' = {} /\ latest' = {} /\ critical' = FALSE
    /\ jrn' = [p \in Participant |-> NoJournal]
    /\ committer' = None /\ stage' = "idle" /\ snap' = {}

\* The process dies; what it wrote stays with the operating system.
Kill ==
    /\ "kill" \in faults
    /\ Gone
    /\ UNCHANGED <<faults, image, stable, commits, acked, refused>>

\* The power fails and any part of what was not synchronised is lost.
PowerFailure ==
    /\ "power" \in faults
    /\ \E lost \in SUBSET {o \in Word : cells[o] # disk[o]} :
         cells' = [o \in Word |-> IF o \in lost THEN disk[o] ELSE cells[o]]
    /\ \E lost \in SUBSET (pages \ pagesDisk) : pages' = pages \ lost
    /\ \E slots \in {hdr.slot, hdrDisk.slot}, sel \in {hdr.sel, hdrDisk.sel} :
         hdr' = [slot |-> slots, sel |-> sel]
    /\ disk' = cells' /\ hdrDisk' = hdr' /\ pagesDisk' = pages'
    /\ Gone
    /\ UNCHANGED <<faults, commits, acked, refused>>

CJNext ==
    \/ \E p \in Participant :
         \/ Open(p) \/ WriteArrays(p) \/ PrepareAppend(p) \/ SyncAppend(p)
         \/ PublishVersion(p) \/ WriteSlot(p) \/ SyncSlot(p) \/ FlipSelect(p)
         \/ SyncSelect(p) \/ Abandon(p) \/ IOError(p)
         \/ PartialAppend(p) \/ Close(p)
    \/ Kill \/ PowerFailure

CJSpec == CJInit /\ [][CJNext]_cjVars
-----------------------------------------------------------------------------
(* Properties *)

\* Every variable has its type, and no record reaches past the journal.
CJTypeOK ==
    /\ \A c \in {cells, disk} : \A o \in Word : c[o].pos \in Word
    /\ \A h \in {hdr, hdrDisk} :
         h.sel \in {0, 1} /\ \A i \in {0, 1} : h.slot[i] \subseteq Commit
    /\ pages \subseteq Commit /\ pagesDisk \subseteq Commit
    /\ open \subseteq Participant /\ latest \subseteq Commit
    /\ critical \in BOOLEAN
    /\ \A p \in Participant :
         /\ jrn[p].tail \in 0 .. Capacity
         /\ jrn[p].prev \in 0 .. Capacity
    /\ committer \in Participant \cup {None}
    /\ snap \subseteq Commit
    /\ commits \in 0 .. MaxCommits /\ acked \subseteq 1 .. commits
    /\ refused \in {"no", "header", "chain", "interior"}

\* What opening the file would find now: the state of the recovery when it ends.
Found == Scan(cells, pages, Selected(hdr))

\* CommitRecovery::scan never refuses a file: whatever commits were made, it
\* reaches the end of the chain.  Not so; see AcknowledgedSurvive.
RecoveryAccepts == Found.state = "done"

\* Every commit that was ever acknowledged is in the session; and in every
\* state, with or without a session, recovery has come past all of them by the
\* time it ends, also where it ends by refusing the file.  It refuses only when
\* a write was cut off in the middle of a record's header, or when records from
\* before a checkpoint lie behind the end of the chain, since the checkpoint
\* clears the first word alone.
AcknowledgedSurvive ==
    /\ open # {} => acked \subseteq latest
    /\ LET found == Found
       IN /\ acked \subseteq found.snap
          /\ found.state = "header" => faults # {}
          /\ found.state \in {"chain", "interior"} => Selected(hdr) # {}

\* What a session works on is completely in the file: recovery never settles
\* on a snapshot some of whose arrays were lost.
SnapshotComplete == open # {} => latest \subseteq pages

\* The header, as seen and on the disk, selects a snapshot that is complete
\* there, in every state a crash can leave behind.
HeaderComplete ==
    /\ Selected(hdr) \subseteq pages
    /\ Selected(hdrDisk) \subseteq pagesDisk

\* Neither a session nor the header ever stands for a snapshot with arrays
\* missing, and no record reaches past the end of the journal.
RecoveredComplete == CJTypeOK /\ SnapshotComplete /\ HeaderComplete
=============================================================================

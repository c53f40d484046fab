--------------------------- MODULE EncryptedPages ---------------------------
(***************************************************************************)
(* The encrypted file: AESCryptor keeps for every page two IVs and HMACs   *)
(* in a table, EncryptedFileMapping keeps decrypted copies of pages and    *)
(* their states.  Several processes share the file; each one holds its     *)
(* EncryptedFile's mutex in every operation, so that only the reads and    *)
(* writes of the file itself interleave.                                   *)
(*                                                                         *)
(* There are four cells.  Version n is written to one cell, a snapshot     *)
(* needs the cells of its last two versions, and MVCC keeps a writer away  *)
(* from the cells that live snapshots need.  Cipher texts and HMACs are    *)
(* symbolic: equal only where what they are made from is equal.            *)
(***************************************************************************)
EXTENDS Integers, FiniteSets

CONSTANTS
    Procs,
    Maps,         \* mapping -> the process it belongs to
    Windows,      \* the mappings that are write windows: they have no observer
    NPages,       \* pages that are written, all of one metadata block; four cells in all
    IVMod,        \* 2^32: IVs wrap, and 0 is skipped
    MaxCalls,     \* calls_since_last_writer_observed at which a reader stops looking out
    Retries,      \* the attempts of AESCryptor::read
    Scenes        \* [maps, elsewhere, failures, versions]: the mappings there are, whether
                  \* the processes read other pages too, and bounds on kills and power
                  \* failures and on versions published

ASSUME EncryptedPagesAssumption == NPages \in {1, 2, 4} /\ IVMod > 2 /\ MaxCalls > 0 /\ Retries > 0

VARIABLES
    table, data,  \* the file: page -> IVTable, page -> cipher text
    dtable, ddata,\* what a power failure leaves
    buf,          \* process -> m_iv_buffer, NotRead where m_iv_blocks_read is unset
    cache,        \* process -> m_iv_buffer_cache
    open,         \* the mappings that exist
    state,        \* mapping -> page -> m_page_state
    mem,          \* mapping -> page -> decrypted copy
    task,         \* process -> the operation under its file mutex
    viewOf,         \* process -> version of its snapshot
    pageWriter,       \* the process that holds the write lock, or "none"
    latest,       \* newest published version
    marker,       \* SharedInfo: writing_page_offset # 0
    quiet,        \* process -> EncryptionMarkerObserver: has write_counter changed, and
                  \* calls_since_last_writer_observed
    failures,
    shuffled,     \* history: pages of which the disk has a table and a text that the file
                  \* never had together
    lost,         \* history: pages that were shuffled when the power failed
    early,        \* history: <<process, page>>s such that the process has remembered the table
                  \* of the page from before another one wrote its text, and not decrypted it since
    scene

epVars == <<table, data, dtable, ddata, buf, cache, open, state, mem, task, viewOf, pageWriter, latest,
            marker, quiet, failures, shuffled, lost, early, scene>>
fileVars == <<table, data, dtable, ddata, shuffled, lost>>
cryptorVars == <<buf, cache, early>>
sharedVars == <<viewOf, pageWriter, latest, marker>>

Pages == 1..NPages
Cells == 1..(4 \div NPages)
PageOf(n) == 1 + (n % NPages)
CellIn(n) == 1 + ((n \div NPages) % (4 \div NPages))
Needed(v) == {n \in 1..v : n > v - 2}

Blank == [c \in Cells |-> 0]
\* crypt, in the mode that encrypts
Cipher(iv, text) == [iv |-> iv, text |-> text]
\* calculate_hmac
Hmac(cipher) == [hmac |-> cipher]
\* A page that was never written, and the HMAC field of its table
Zeros == Cipher(0, Blank)
NoHmac == [hmac |-> Zeros]
NoTable == [iv1 |-> 0, h1 |-> NoHmac, iv2 |-> 0, h2 |-> NoHmac]
NotRead == <<>>
MapsOf(p) == {m \in open : Maps[m] = p}
Present == {Maps[m] : m \in scene.maps}
\* The processes that read, and so have an observer
Observers == {Maps[m] : m \in scene.maps \ Windows}
RestingTask == [op |-> "none"]

EPInit ==
    /\ scene \in Scenes
    /\ shuffled = {} /\ lost = {} /\ early = {}
    /\ table = [q \in Pages |-> NoTable] /\ dtable = table
    /\ data = [q \in Pages |-> Zeros] /\ ddata = data
    /\ buf = [p \in Procs |-> NotRead] /\ cache = [p \in Procs |-> table]
    /\ open = {}
    /\ state = [m \in DOMAIN Maps |-> [q \in Pages |-> {}]]
    /\ mem = [m \in DOMAIN Maps |-> [q \in Pages |-> Blank]]
    /\ task = [p \in Procs |-> RestingTask]
    /\ viewOf = [p \in Procs |-> 0]
    /\ pageWriter = "none" /\ latest = 0
    /\ marker = FALSE
    /\ quiet = [p \in Procs |-> [changed |-> FALSE, calls |-> 0]]
    /\ failures = scene.failures

TaskIdle(p) == task[p] = RestingTask
\* Another process is between the table and the text of a page
BeingWritten(p, q) == \E o \in Procs \ {p} : task[o].op = "flush" /\ task[o].page = q

\* Windows are made and evicted by the writer
Movable(m) == TaskIdle(Maps[m]) /\ (m \in Windows => pageWriter = Maps[m])

\* EncryptedFile::add_mapping; every page is Clean
AddMapping(m) ==
    /\ m \in scene.maps \ open /\ Movable(m)
    /\ open' = open \cup {m}
    /\ state' = [state EXCEPT ![m] = [q \in Pages |-> {}]]
    /\ mem' = [mem EXCEPT ![m] = [q \in Pages |-> Blank]]
    /\ UNCHANGED <<fileVars, cryptorVars, task, sharedVars, quiet, failures, scene>>

\* ~EncryptedFileMapping of a mapping with nothing to flush
RemoveMapping(m) ==
    /\ m \in open /\ Movable(m)
    /\ \A q \in Pages : state[m][q] \cap {"Writable", "Dirty"} = {}
    /\ open' = open \ {m}
    /\ state' = [state EXCEPT ![m] = [q \in Pages |-> {}]]
    /\ mem' = [mem EXCEPT ![m] = [q \in Pages |-> Blank]]
    /\ UNCHANGED <<fileVars, cryptorVars, task, sharedVars, quiet, failures, scene>>

\* mark_pages_for_iv_check
Stale(s) == IF "UpToDate" \in s /\ s \cap {"Dirty", "Writable"} = {} THEN (s \ {"UpToDate"}) \cup {"StaleIV"} ELSE s

\* The tables in memory are taken for current
MarkedOnly(p) ==
    /\ UNCHANGED buf
    /\ state' = [m \in DOMAIN Maps |-> IF m \in MapsOf(p) THEN [q \in Pages |-> Stale(state[m][q])] ELSE state[m]]

\* update_reader_view, EncryptedFile::mark_data_as_possibly_stale
MarkedStale(p) ==
    /\ buf' = [buf EXCEPT ![p] = NotRead]
    /\ state' = [m \in DOMAIN Maps |-> IF m \in MapsOf(p) THEN [q \in Pages |-> Stale(state[m][q])] ELSE state[m]]

UpdateReaderView(p) ==
    /\ TaskIdle(p) /\ p \in Observers
    /\ viewOf' = [viewOf EXCEPT ![p] = latest]
    /\ MarkedStale(p)
    /\ UNCHANGED <<fileVars, cache, open, mem, task, pageWriter, latest, marker, quiet, failures, early, scene>>

--------------------------------------------------------------------------------

\* get_iv_table with IVLookupMode::UseCache: read_iv_block, where the block is not
\* known to be current
Fetched(p) == IF buf[p] = NotRead THEN table ELSE buf[p]

\* no_concurrent_writer_seen: what it answers and what it remembers
Observed(p) ==
    [changed |-> FALSE,
     calls |-> IF marker \/ quiet[p].changed THEN 0 ELSE IF quiet[p].calls < MaxCalls THEN quiet[p].calls + 1 ELSE MaxCalls]
NoWriterSeen(p) == Observed(p).calls >= MaxCalls

\* copy_up_to_date_page takes the page of another mapping
Copyable(m, q) == {o \in MapsOf(Maps[m]) \ {m} : "UpToDate" \in state[o][q] /\ "Writable" \notin state[o][q]}

Modify(s, modify) == IF modify THEN s \cup {"Writable"} ELSE s

\* read_barrier of a page that needs no refresh
ReadBarrier(m, q, modify) ==
    /\ "UpToDate" \in state[m][q]
    /\ state' = [state EXCEPT ![m][q] = Modify(@, modify)]
    /\ UNCHANGED <<fileVars, cryptorVars, open, mem, task, sharedVars, quiet, failures, scene>>

CopyUpToDatePage(m, q, modify) ==
    /\ "UpToDate" \notin state[m][q]
    /\ \E o \in Copyable(m, q) :
        /\ mem' = [mem EXCEPT ![m][q] = mem[o][q]]
        /\ state' = [state EXCEPT ![m][q] = Modify((@ \ {"StaleIV"}) \cup {"UpToDate"}, modify)]
    /\ UNCHANGED <<fileVars, cryptorVars, open, task, sharedVars, quiet, failures, scene>>

\* refresh_iv and the page states that follow from it, in every mapping
Checked(s, same) == IF "StaleIV" \in s THEN (s \ {"StaleIV"}) \cup (IF same THEN {"UpToDate"} ELSE {}) ELSE s

Reading(m, q, modify, how) == [op |-> "read", map |-> m, page |-> q, modify |-> modify, how |-> how, tries |-> 0,
                             raced |-> BeingWritten(Maps[m], q)]

CheckPossiblyStalePage(m, q, modify) ==
    LET p == Maps[m]
        now == Fetched(p)
        same == now[q] = cache[p][q]
    IN  /\ "StaleIV" \in state[m][q] /\ Copyable(m, q) = {}
        /\ buf' = [buf EXCEPT ![p] = now]
        /\ cache' = [cache EXCEPT ![p][q] = now[q]]
        /\ state' = [o \in DOMAIN Maps |->
                        IF o \notin MapsOf(p) THEN state[o]
                        ELSE [state[o] EXCEPT ![q] = IF o = m /\ same THEN Modify(Checked(@, same), modify)
                                                      ELSE Checked(@, same)]]
        /\ task' = IF same THEN task ELSE [task EXCEPT ![p] = Reading(m, q, modify, "start")]
        /\ UNCHANGED <<fileVars, open, mem, sharedVars, quiet, failures, early, scene>>

RefreshPage(m, q, modify) ==
    /\ state[m][q] \cap {"UpToDate", "StaleIV"} = {} /\ Copyable(m, q) = {}
    /\ task' = [task EXCEPT ![Maps[m]] = Reading(m, q, modify, "start")]
    /\ UNCHANGED <<fileVars, cryptorVars, open, state, mem, sharedVars, quiet, failures, scene>>

\* The barrier before a page is touched: a reader touches those of its snapshot,
\* the writer the one that its next version goes to
Barrier(m, q, modify) ==
    /\ m \in open /\ TaskIdle(Maps[m]) /\ "Writable" \notin state[m][q]
    /\ \/ modify /\ m \in Windows /\ pageWriter = Maps[m] /\ q = PageOf(latest + 1)
       \/ ~modify /\ m \notin Windows /\ \E n \in Needed(viewOf[Maps[m]]) : q = PageOf(n)
    /\ \/ ReadBarrier(m, q, modify)
       \/ CopyUpToDatePage(m, q, modify)
       \/ CheckPossiblyStalePage(m, q, modify)
       \/ RefreshPage(m, q, modify)

\* AESCryptor::read: one attempt, or attempts until the page decrypts
BeginRead(p) ==
    LET t == task[p]
        now == Fetched(p)
    IN  /\ t.op = "read" /\ t.how = "start"
        /\ quiet' = IF t.map \in Windows THEN quiet ELSE [quiet EXCEPT ![p] = Observed(p)]
        /\ task' = [task EXCEPT ![p].how = IF t.map \in Windows \/ NoWriterSeen(p) THEN "once" ELSE "retry"]
        /\ buf' = [buf EXCEPT ![p] = now]
        /\ cache' = [cache EXCEPT ![p][t.page] = now[t.page]]
        /\ UNCHANGED <<fileVars, open, state, mem, sharedVars, failures, early, scene>>

\* A read of a page that nobody writes, of another block: only the observer notices
ReadElsewhere(p) ==
    /\ TaskIdle(p) /\ MapsOf(p) \ Windows # {} /\ scene.elsewhere
    /\ quiet' = [quiet EXCEPT ![p] = Observed(p)]
    /\ UNCHANGED <<fileVars, cryptorVars, open, state, mem, task, sharedVars, failures, scene>>

\* get_iv_table with IVLookupMode::Refetch
Refetch(p) ==
    LET t == task[p]
    IN  /\ t.op = "read" /\ t.how = "refetch"
        /\ task' = [task EXCEPT ![p].how = "retry"]
        /\ buf' = [buf EXCEPT ![p] = table]
        /\ cache' = [cache EXCEPT ![p][t.page] = table[t.page]]
        /\ UNCHANGED <<fileVars, open, state, mem, sharedVars, quiet, failures, early, scene>>

\* attempt_read after the table: what the cipher text says
ReadResult(tab, text) ==
    CASE tab.iv1 = 0 -> "Uninitialized"
      [] tab.iv1 # 0 /\ Hmac(text) = tab.h1 -> "Success"
      [] tab.iv1 # 0 /\ Hmac(text) # tab.h1 /\ tab.iv2 = 0 -> "InterruptedFirstWrite"
      [] tab.iv1 # 0 /\ Hmac(text) # tab.h1 /\ tab.iv2 # 0 /\ Hmac(text) = tab.h2 -> "Unbump"
      [] OTHER -> IF text = Zeros THEN "StaleHmac" ELSE "Failed"

\* "Un-bump the IV since the write with the bumped IV never actually happened"
Unbumped(tab) == [tab EXCEPT !.iv1 = tab.iv2, !.h1 = tab.h2]

Final(result) == result \in {"Success", "Unbump", "Uninitialized"}
\* refresh_page: the results that do not throw; only the first two fill the page
Accepted(result, modify) ==
    result \in {"Success", "Unbump", "StaleHmac"} \/ (modify /\ result \in {"Uninitialized", "InterruptedFirstWrite"})

\* An attempt; one that fails and is not the first may find that five seconds
\* have passed, which throws
AttemptRead(p, late) ==
    LET t == task[p]
        tab == buf[p][t.page]
        result == ReadResult(tab, data[t.page])
        done == Final(result) \/ t.how = "once"
        more == ~done /\ ~late /\ t.tries + 1 < Retries /\ ~NoWriterSeen(p)
        outdated == (t.how = "once" \/ NoWriterSeen(p)) /\ tab # table[t.page]
        accepted == ~late /\ Accepted(result, t.modify)
    IN  /\ t.op = "read" /\ t.how \in {"once", "retry"}
        /\ late => ~done /\ t.tries > 0
        /\ quiet' = IF done \/ late THEN quiet ELSE [quiet EXCEPT ![p] = Observed(p)]
        /\ buf' = IF result = "Unbump" THEN [buf EXCEPT ![p][t.page] = Unbumped(tab)] ELSE buf
        /\ mem' = IF result \in {"Success", "Unbump"} THEN [mem EXCEPT ![t.map][t.page] = data[t.page].text] ELSE mem
        /\ state' = IF ~more /\ accepted
                    THEN [state EXCEPT ![t.map][t.page] = Modify(@ \cup {"UpToDate"}, t.modify)] ELSE state
        /\ task' = [task EXCEPT ![p] = IF more THEN [t EXCEPT !.how = "refetch", !.tries = @ + 1]
                                        ELSE IF accepted THEN RestingTask
                                        ELSE [op |-> "thrown", page |-> t.page, excused |-> t.raced \/ outdated]]
        /\ early' = IF result = "Success" THEN early \ {<<p, t.page>>} ELSE early
        /\ UNCHANGED <<fileVars, cache, open, sharedVars, failures, scene>>

\* DecryptionFailed reaches the caller
Caught(p) ==
    /\ task[p].op = "thrown"
    /\ task' = [task EXCEPT ![p] = RestingTask]
    /\ UNCHANGED <<fileVars, cryptorVars, open, state, mem, sharedVars, quiet, failures, scene>>

--------------------------------------------------------------------------------

\* The writer takes the write lock and grabs the newest version
BeginWrite(p) ==
    /\ TaskIdle(p) /\ pageWriter = "none" /\ latest < scene.versions /\ \E m \in Windows \cap scene.maps : Maps[m] = p
    /\ pageWriter' = p
    /\ viewOf' = [viewOf EXCEPT ![p] = latest]
    /\ MarkedStale(p)
    /\ UNCHANGED <<fileVars, cache, open, mem, task, latest, marker, quiet, failures, early, scene>>

\* write_and_update_all: the bytes written, or the page where the copy may be stale
Propagated(m, q, o, cell, n) ==
    LET new == [mem[m][q] EXCEPT ![cell] = n]
    IN  IF o = m \/ "StaleIV" \in state[o][q] THEN new
        ELSE IF "UpToDate" \in state[o][q] THEN [mem[o][q] EXCEPT ![cell] = n]
        ELSE mem[o][q]

WriteBarrier(m) ==
    LET p == Maps[m]
        n == latest + 1
        q == PageOf(n)
    IN  /\ m \in open /\ TaskIdle(p) /\ pageWriter = p /\ "Writable" \in state[m][q]
        /\ \A o \in Present : viewOf[o] >= n - 2
        /\ mem' = [o \in DOMAIN Maps |->
                    IF o \in MapsOf(p) THEN [mem[o] EXCEPT ![q] = Propagated(m, q, o, CellIn(n), n)] ELSE mem[o]]
        /\ state' = [o \in DOMAIN Maps |->
                    IF o = m THEN [state[o] EXCEPT ![q] = (@ \ {"Writable"}) \cup {"Dirty"}]
                    ELSE IF o \in MapsOf(p) THEN [state[o] EXCEPT ![q] = Checked(@, TRUE)] ELSE state[o]]
        /\ UNCHANGED <<fileVars, cryptorVars, open, task, sharedVars, quiet, failures, scene>>

\* AESCryptor::write: the IVs and HMACs of the next cipher text
NextIV(iv) == IF (iv + 1) % IVMod = 0 THEN 1 ELSE iv + 1
Bumped(tab, text) ==
    LET iv == NextIV(tab.iv1)
    IN  [iv1 |-> iv, h1 |-> Hmac(Cipher(iv, text)), iv2 |-> tab.iv1, h2 |-> tab.h1]

\* What a power failure would leave after a write.  "doesn't this need a barrier?":
\* the disk may have any of the tables and texts written since the last sync.
Persisted ==
    /\ \E ts, ds \in IF failures = 0 THEN {{}} ELSE SUBSET Pages :
        /\ dtable' = [q \in Pages |-> IF q \in ts THEN table'[q] ELSE dtable[q]]
        /\ ddata' = [q \in Pages |-> IF q \in ds THEN data'[q] ELSE ddata[q]]
    /\ shuffled' = {q \in Pages : /\ <<dtable'[q], ddata'[q]>> # <<table'[q], data'[q]>>
                                  /\ q \in shuffled \/ <<dtable'[q], ddata'[q]>> # <<dtable[q], ddata[q]>>}
    /\ UNCHANGED lost

\* The reads of a page that another process is writing
Raced(p, q) == [o \in Procs |-> IF o # p /\ task[o].op = "read" /\ task[o].page = q
                                THEN [task[o] EXCEPT !.raced = TRUE] ELSE task[o]]

\* mark and unmark count the write, which every observer notices
Counted == [p \in Procs |-> [quiet[p] EXCEPT !.changed = p \in Observers]]

\* do_flush: marker->mark and the table of the page
FlushTable(m, q) ==
    LET p == Maps[m]
        tab == Bumped(Fetched(p)[q], mem[m][q])
    IN  /\ m \in open /\ TaskIdle(p) /\ "Dirty" \in state[m][q]
        /\ marker' = TRUE /\ quiet' = Counted
        /\ buf' = [buf EXCEPT ![p] = [Fetched(p) EXCEPT ![q] = tab]]
        /\ cache' = [cache EXCEPT ![p][q] = Fetched(p)[q]]
        /\ table' = [table EXCEPT ![q] = tab]
        /\ UNCHANGED data /\ Persisted
        /\ task' = [Raced(p, q) EXCEPT ![p] = [op |-> "flush", map |-> m, page |-> q]]
        /\ UNCHANGED <<open, state, mem, viewOf, pageWriter, latest, failures, early, scene>>

\* The page itself, marker->unmark, and the cached table
FlushData(p) ==
    LET t == task[p]
    IN  /\ t.op = "flush"
        /\ data' = [data EXCEPT ![t.page] = Cipher(buf[p][t.page].iv1, mem[t.map][t.page])]
        /\ UNCHANGED table /\ Persisted
        /\ marker' = FALSE /\ quiet' = Counted
        /\ cache' = [cache EXCEPT ![p][t.page] = buf[p][t.page]]
        /\ state' = [state EXCEPT ![t.map][t.page] = @ \ {"Dirty"}]
        /\ task' = [Raced(p, t.page) EXCEPT ![p] = RestingTask]
        /\ early' = early \cup {<<o, t.page>> : o \in {o \in Procs \ {p} : cache[o][t.page] = table[t.page]}}
        /\ UNCHANGED <<buf, open, mem, viewOf, pageWriter, latest, failures, scene>>

\* do_sync, then the new version is published and the write lock released
Publish(p) ==
    /\ TaskIdle(p) /\ pageWriter = p
    /\ \E m \in MapsOf(p) \cap Windows : mem[m][PageOf(latest + 1)][CellIn(latest + 1)] = latest + 1
    /\ \A m \in MapsOf(p) : \A q \in Pages : state[m][q] \cap {"Dirty", "Writable"} = {}
    /\ dtable' = table /\ ddata' = data /\ shuffled' = {}
    /\ latest' = latest + 1 /\ viewOf' = [viewOf EXCEPT ![p] = latest + 1]
    /\ pageWriter' = "none"
    /\ MarkedStale(p)
    /\ UNCHANGED <<table, data, lost, cache, open, mem, task, marker, quiet, failures, early, scene>>

--------------------------------------------------------------------------------

Forgotten(ps) ==
    /\ open' = {m \in open : Maps[m] \notin ps}
    /\ state' = [m \in DOMAIN Maps |-> IF Maps[m] \in ps THEN [q \in Pages |-> {}] ELSE state[m]]
    /\ mem' = [m \in DOMAIN Maps |-> IF Maps[m] \in ps THEN [q \in Pages |-> Blank] ELSE mem[m]]
    /\ task' = [p \in Procs |-> IF p \in ps THEN RestingTask ELSE task[p]]
    /\ buf' = [p \in Procs |-> IF p \in ps THEN NotRead ELSE buf[p]]
    /\ cache' = [p \in Procs |-> IF p \in ps THEN [q \in Pages |-> NoTable] ELSE cache[p]]
    /\ viewOf' = [p \in Procs |-> IF p \in ps THEN latest ELSE viewOf[p]]
    /\ quiet' = [p \in Procs |-> IF p \in ps THEN [changed |-> FALSE, calls |-> 0] ELSE quiet[p]]
    /\ early' = {e \in early : e[1] \notin ps}
    /\ failures' = failures - 1 /\ UNCHANGED scene

\* A process dies; the operating system keeps what it wrote and releases its lock
Kill(p) ==
    /\ failures > 0
    /\ Forgotten({p})
    /\ pageWriter' = IF pageWriter = p THEN "none" ELSE pageWriter
    /\ UNCHANGED <<fileVars, latest, marker>>

PowerFailure ==
    /\ failures > 0
    /\ Forgotten(Procs)
    /\ table' = dtable /\ data' = ddata
    /\ shuffled' = {} /\ lost' = lost \cup shuffled
    /\ pageWriter' = "none" /\ marker' = FALSE
    /\ UNCHANGED <<dtable, ddata, latest>>

EPNext ==
    \/ \E m \in DOMAIN Maps :
        \/ AddMapping(m) \/ RemoveMapping(m) \/ WriteBarrier(m)
        \/ \E q \in Pages : FlushTable(m, q) \/ \E modify \in BOOLEAN : Barrier(m, q, modify)
    \/ \E p \in Present :
        \/ UpdateReaderView(p) \/ ReadElsewhere(p) \/ BeginRead(p) \/ Refetch(p) \/ \E late \in BOOLEAN : AttemptRead(p, late)
        \/ Caught(p)
        \/ BeginWrite(p) \/ FlushData(p) \/ Publish(p) \/ Kill(p)
    \/ PowerFailure

EPSpec == EPInit /\ [][EPNext]_epVars

--------------------------------------------------------------------------------

\* A mapping's page shows every version that the process's snapshot has in it
Shows(m, q) == \A n \in Needed(viewOf[Maps[m]]) : PageOf(n) = q => mem[m][q][CellIn(n)] = n

\* "UpToDate = 1, // the page is fully up to date": the pages that
\* mark_pages_for_iv_check has marked "will be refetched and re-decrypted by
\* later calls to read_barrier", so that a page a mapping takes for up to date
\* shows the process's snapshot, whichever process wrote it.
PagesRefetched == \A m \in open : \A q \in Pages : "UpToDate" \in state[m][q] => Shows(m, q)

\* The same, apart from the pages whose new table a reader has seen before the
\* text was written, and those that a power failure has left with a table that
\* does not go with their text.
SnapshotDecrypted ==
    \A m \in open : \A q \in Pages \ lost :
        "UpToDate" \in state[m][q] /\ <<Maps[m], q>> \notin early => Shows(m, q)

\* A reader that needs a page of its snapshot is never told that the page is
\* corrupt or was never written, unless another process writes that page while
\* it is being read, or the reader trusts a table that it read before the last
\* write, having seen no writer for a while, or the power failure got the page.
ReadsSucceed ==
    \A p \in Procs : task[p].op = "thrown" =>
        task[p].excused \/ \A n \in Needed(viewOf[p]) : PageOf(n) = task[p].page => PageOf(n) \in lost

\* The assertions of refresh_page: a page with unsaved bytes is always up to
\* date, so that no refresh ever decrypts over bytes that are not in the file.
UnsavedIsCurrent ==
    \A m \in open : \A q \in Pages : state[m][q] \cap {"Dirty", "Writable"} # {} => "UpToDate" \in state[m][q]

\* A mapping shows the decrypted bytes of its snapshot, no needed page is ever
\* refused, and unsaved bytes are never decrypted over.
PagesSound == SnapshotDecrypted /\ ReadsSucceed /\ UnsavedIsCurrent
=============================================================================

------------------------------- MODULE FileIO -------------------------------
(***************************************************************************)
(* The operations of File on the file system: opening with and without     *)
(* creation, transfers that the operating system may cut short or refuse,  *)
(* preallocation with its fallback, copying, removing and renaming, and    *)
(* the output buffer File::Streambuf.  A byte is a number, 0 is what a     *)
(* file is filled with.                                                    *)
(***************************************************************************)
EXTENDS Naturals, Sequences, FiniteSets

CONSTANTS
    Handles,     \* File objects
    Names,       \* paths
    NoName,
    ChunkSize,   \* 4096: the buffer of copy and of the fallback of prealloc
    BufferSize,  \* the buffer of Streambuf
    MaxLen,      \* bound: length of a file
    MaxNode,     \* bound: inodes
    IOScenes     \* which calls a behaviour makes

VARIABLES
    fs,          \* path -> inode, 0 where there is none
    content,     \* inode -> bytes
    fh,          \* File -> [node, append, pos, created]: node 0 is not attached
    ioJob,       \* File -> the call in progress
    sbuf,        \* File -> bytes in the buffer of its Streambuf
    put,         \* File -> bytes given to its Streambuf
    ioScene

ioVars == <<fs, content, fh, ioJob, sbuf, put, ioScene>>

NoFile == [node |-> 0, append |-> FALSE, pos |-> 0, created |-> FALSE]
NoJob == [op |-> "none"]
Nodes == 1..MaxNode
UsedNodes == {fs[n] : n \in Names} \cup {fh[h].node : h \in Handles}
Zeroed(n) == [i \in 1..n |-> 0]

FIOInit ==
    /\ ioScene \in IOScenes
    /\ content \in {[i \in Nodes |-> IF i = 1 THEN s ELSE <<>>] : s \in ioScene.start}
    /\ fs = [n \in Names |-> IF n = ioScene.origin THEN 1 ELSE 0]
    /\ fh = [h \in Handles |-> NoFile]
    /\ ioJob = [h \in Handles |-> NoJob]
    /\ sbuf = [h \in Handles |-> <<>>]
    /\ put = [h \in Handles |-> <<>>]

Free(h) == ioJob[h] = NoJob /\ h \in ioScene.users
Does(call) == call \in ioScene.calls
Length(n) == Len(content[n])

\* pwrite of bytes at pos: what is between the end and pos reads as zero
Written(old, pos, bytes) ==
    [i \in 1..(IF pos + Len(bytes) > Len(old) THEN pos + Len(bytes) ELSE Len(old)) |->
        IF i > pos /\ i <= pos + Len(bytes) THEN bytes[i - pos] ELSE IF i <= Len(old) THEN old[i] ELSE 0]

Attached(h, n, append, created) ==
    fh' = [fh EXCEPT ![h] = [NoFile EXCEPT !.node = n, !.append = append, !.created = created]]

--------------------------------------------------------------------------------
\* open_internal: what ::open does for a create mode and the truncate flag
OpenExisting(h, n, trunc, append) ==
    /\ fs[n] # 0
    /\ Attached(h, fs[n], append, FALSE)
    /\ content' = IF trunc THEN [content EXCEPT ![fs[n]] = <<>>] ELSE content
    /\ UNCHANGED fs

OpenNew(h, n, append) ==
    /\ fs[n] = 0
    /\ \E i \in Nodes \ UsedNodes :
        /\ fs' = [fs EXCEPT ![n] = i]
        /\ content' = [content EXCEPT ![i] = <<>>]
        /\ Attached(h, i, append, TRUE)

\* open(path, Mode): mode_Read and mode_Update throw where there is no file
Open(h, n, mode) ==
    /\ Does("open") /\ Free(h) /\ fh[h].node = 0
    /\ \/ OpenExisting(h, n, mode = "Write", mode = "Append")
       \/ mode \in {"Write", "Append"} /\ OpenNew(h, n, mode = "Append")
    /\ UNCHANGED <<ioJob, sbuf, put, ioScene>>

\* open(path, was_created): create_Must and create_Never in turn
OpenCreating(h, n) ==
    /\ Does("create") /\ Free(h) /\ fh[h].node = 0
    /\ ioJob' = [ioJob EXCEPT ![h] = [op |-> "must", name |-> n]]
    /\ UNCHANGED <<fs, content, fh, sbuf, put, ioScene>>

CreateMust(h) ==
    /\ ioJob[h].op = "must"
    /\ LET n == ioJob[h].name
       IN  \/ /\ OpenNew(h, n, FALSE)
              /\ ioJob' = [ioJob EXCEPT ![h] = NoJob]
           \/ /\ fs[n] # 0
              /\ ioJob' = [ioJob EXCEPT ![h].op = "never"]
              /\ UNCHANGED <<fs, content, fh>>
    /\ UNCHANGED <<sbuf, put, ioScene>>

CreateNever(h) ==
    /\ ioJob[h].op = "never"
    /\ LET n == ioJob[h].name
       IN  \/ /\ OpenExisting(h, n, FALSE, FALSE)
              /\ ioJob' = [ioJob EXCEPT ![h] = NoJob]
           \/ /\ fs[n] = 0
              /\ ioJob' = [ioJob EXCEPT ![h].op = "must"]
              /\ UNCHANGED <<fs, content, fh>>
    /\ UNCHANGED <<sbuf, put, ioScene>>

Close(h) ==
    /\ Free(h) /\ fh[h].node # 0 /\ ~Does("stream")
    /\ fh' = [fh EXCEPT ![h] = NoFile]
    /\ UNCHANGED <<fs, content, ioJob, sbuf, put, ioScene>>

\* try_remove and move: the descriptors that are open keep the inode
RemoveFile(n) ==
    /\ Does("remove") /\ fs[n] # 0
    /\ fs' = [fs EXCEPT ![n] = 0]
    /\ UNCHANGED <<content, fh, ioJob, sbuf, put, ioScene>>

Move(n, m) ==
    /\ Does("move") /\ n # m /\ fs[n] # 0
    /\ fs' = [fs EXCEPT ![m] = fs[n], ![n] = 0]
    /\ UNCHANGED <<content, fh, ioJob, sbuf, put, ioScene>>

--------------------------------------------------------------------------------
\* write_static: pwrite takes some of the bytes, or fails; O_APPEND ignores pos
Writing(pos, bytes, then) == [op |-> "write", pos |-> pos, bytes |-> bytes, then |-> then]

WriteSome(h) ==
    LET j == ioJob[h]
        n == fh[h].node
        at == IF fh[h].append THEN Length(n) ELSE j.pos
    IN  /\ j.op = "write" /\ j.bytes # <<>>
        /\ \E k \in 1..Len(j.bytes) :
            /\ content' = [content EXCEPT ![n] = Written(@, at, SubSeq(j.bytes, 1, k))]
            /\ ioJob' = [ioJob EXCEPT ![h].pos = @ + k, ![h].bytes = SubSeq(j.bytes, k + 1, Len(j.bytes))]
        /\ UNCHANGED <<fs, fh, sbuf, put, ioScene>>

\* OutOfDiskSpace or SystemError leaves the call
WriteFails(h) ==
    /\ ioJob[h].op = "write" /\ ioJob[h].bytes # <<>> /\ Does("fail")
    /\ ioJob' = [ioJob EXCEPT ![h] = NoJob]
    /\ UNCHANGED <<fs, content, fh, sbuf, put, ioScene>>

Resize(h, size) ==
    /\ Does("resize") /\ Free(h) /\ fh[h].node # 0
    /\ content' = [content EXCEPT ![fh[h].node] =
                    IF size < Len(@) THEN SubSeq(@, 1, size) ELSE Written(@, Len(@), Zeroed(size - Len(@)))]
    /\ UNCHANGED <<fs, fh, ioJob, sbuf, put, ioScene>>

\* The fallback starts at the beginning
PreallocFrom0(h, size) == Writing(0, Zeroed(size), [op |-> "prealloc", old |-> content[fh[h].node], size |-> size])

\* manually_consume_space: zeros from the end of the file on
PreallocFrom(h, size) ==
    Writing(Length(fh[h].node), Zeroed(size - Length(fh[h].node)), [op |-> "prealloc", old |-> content[fh[h].node], size |-> size])

Prealloc(h, size) ==
    LET n == fh[h].node
    IN  /\ Does("prealloc") /\ Free(h) /\ n # 0 /\ size > Length(n)
        /\ \/ /\ Does("fallocate")
              /\ content' = [content EXCEPT ![n] = @ \o Zeroed(size - Len(@))]
              /\ ioJob' = [ioJob EXCEPT ![h] = [op |-> "preallocated", old |-> content[n], size |-> size]]
           \/ /\ ~Does("fallocate")
              /\ ioJob' = [ioJob EXCEPT ![h] = PreallocFrom(h, size)]
              /\ UNCHANGED content
        /\ UNCHANGED <<fs, fh, sbuf, put, ioScene>>

PreallocDone(h) ==
    LET j == ioJob[h]
    IN  /\ j.op = "write" /\ j.bytes = <<>> /\ j.then.op = "prealloc"
        /\ ioJob' = [ioJob EXCEPT ![h] = [op |-> "preallocated", old |-> j.then.old, size |-> j.then.size]]
        /\ UNCHANGED <<fs, content, fh, sbuf, put, ioScene>>

--------------------------------------------------------------------------------
\* copy: did_create says whether there was a target, whose bytes stay (old is what
\* the target had); a chunk that comes short ends it
Copy(h, n, m, overwrite) ==
    /\ Does("copy") /\ Free(h) /\ fh[h].node = 0 /\ n # m /\ fs[n] # 0
    /\ LET job(old) == [op |-> "copy", from |-> fs[n], pos |-> 0, buf |-> <<>>, old |-> old]
       IN  \/ /\ OpenNew(h, m, FALSE)
              /\ ioJob' = [ioJob EXCEPT ![h] = job(<<>>)]
           \/ /\ overwrite /\ OpenExisting(h, m, FALSE, FALSE)
              /\ ioJob' = [ioJob EXCEPT ![h] = job(content[fs[m]])]
    /\ UNCHANGED <<sbuf, put, ioScene>>

\* read_static into the buffer: pread returns some bytes, and none at the end
CopyRead(h) ==
    LET j == ioJob[h]
        rest == SubSeq(content[j.from], j.pos + Len(j.buf) + 1, Length(j.from))
    IN  /\ j.op = "copy" /\ Len(j.buf) < ChunkSize /\ rest # <<>>
        /\ \E k \in 1..(IF Len(rest) < ChunkSize - Len(j.buf) THEN Len(rest) ELSE ChunkSize - Len(j.buf)) :
            ioJob' = [ioJob EXCEPT ![h].buf = @ \o SubSeq(rest, 1, k)]
        /\ UNCHANGED <<fs, content, fh, sbuf, put, ioScene>>

\* A chunk that is not full is the last
CopyEnds(j) == Len(j.buf) < ChunkSize

CopyWrite(h) ==
    LET j == ioJob[h]
    IN  /\ j.op = "copy"
        /\ Len(j.buf) = ChunkSize \/ j.pos + Len(j.buf) >= Length(j.from)
        /\ ioJob' = [ioJob EXCEPT ![h] = Writing(j.pos, j.buf, j)]
        /\ UNCHANGED <<fs, content, fh, sbuf, put, ioScene>>

CopyNext(h) ==
    LET j == ioJob[h]
    IN  /\ j.op = "write" /\ j.bytes = <<>> /\ j.then.op = "copy"
        /\ ioJob' = [ioJob EXCEPT ![h] = IF CopyEnds(j.then) THEN [j.then EXCEPT !.op = "copied"]
                                          ELSE [j.then EXCEPT !.pos = @ + Len(j.then.buf), !.buf = <<>>]]
        /\ UNCHANGED <<fs, content, fh, sbuf, put, ioScene>>

\* The call returns; a copy closes its files
IOReturn(h) ==
    /\ ioJob[h].op \in {"preallocated", "copied"}
    /\ fh' = IF ioJob[h].op = "copied" THEN [fh EXCEPT ![h] = NoFile] ELSE fh
    /\ ioJob' = [ioJob EXCEPT ![h] = NoJob]
    /\ UNCHANGED <<fs, content, sbuf, put, ioScene>>

--------------------------------------------------------------------------------
\* std::ostream gives a byte to Streambuf; overflow flushes first
Put(h, byte) ==
    /\ Does("stream") /\ Free(h) /\ fh[h].node # 0 /\ Len(sbuf[h]) < BufferSize /\ Len(put[h]) < MaxLen
    /\ sbuf' = [sbuf EXCEPT ![h] = Append(@, byte)]
    /\ put' = [put EXCEPT ![h] = Append(@, byte)]
    /\ UNCHANGED <<fs, content, fh, ioJob, ioScene>>

\* overflow and sync: write at the position of the descriptor
StreamFlush(h) ==
    /\ Does("stream") /\ Free(h) /\ sbuf[h] # <<>>
    /\ ioJob' = [ioJob EXCEPT ![h] = Writing(fh[h].pos, sbuf[h], [op |-> "stream", bytes |-> sbuf[h]])]
    /\ UNCHANGED <<fs, content, fh, sbuf, put, ioScene>>

\* setp, then seek past what was written
StreamFlushed(h) ==
    /\ ioJob[h].op = "write" /\ ioJob[h].bytes = <<>> /\ ioJob[h].then.op = "stream"
    /\ sbuf' = [sbuf EXCEPT ![h] = <<>>]
    /\ fh' = [fh EXCEPT ![h].pos = @ + Len(ioJob[h].then.bytes)]
    /\ ioJob' = [ioJob EXCEPT ![h] = NoJob]
    /\ UNCHANGED <<fs, content, put, ioScene>>

FIOStep(h) ==
    \/ CreateMust(h) \/ CreateNever(h) \/ WriteSome(h) \/ WriteFails(h) \/ PreallocDone(h)
    \/ CopyRead(h) \/ CopyWrite(h) \/ CopyNext(h) \/ IOReturn(h) \/ StreamFlushed(h)

FIONext ==
    \/ \E n, m \in Names : RemoveFile(n) \/ Move(n, m)
    \/ \E h \in Handles :
        \/ FIOStep(h) \/ Close(h) \/ StreamFlush(h) \/ \E b \in 1..2 : Put(h, b)
        \/ \E n, m \in Names :
            \/ OpenCreating(h, n)
            \/ \E mode \in {"Update", "Write", "Append"} : Open(h, n, mode)
            \/ \E overwrite \in BOOLEAN : Copy(h, n, m, overwrite)
        \/ \E size \in 0..MaxLen : Resize(h, size) \/ Prealloc(h, size)

FIOSpec == FIOInit /\ [][FIONext]_ioVars

--------------------------------------------------------------------------------
\* open(path, was_created): "an indication of whether a new file was created, or
\* an existing file was opened": of all who open one file, one created it,
\* however creation, removal and the two attempts interleave.
OneCreator ==
    \A h, g \in Handles : h # g /\ fh[h].node # 0 /\ fh[h].node = fh[g].node => ~(fh[h].created /\ fh[g].created)

\* prealloc keeps every byte the file had, adds zeros and reaches the size, whether
\* the system preallocates or the bytes are written in pieces.
PreallocKeeps ==
    \A h \in Handles : LET j == ioJob[h] IN
        j.op = "preallocated" => content[fh[h].node] = j.old \o Zeroed(j.size - Len(j.old))

\* copy: "Copy the file at the specified origin path to the specified target path"
\* (file.hpp).  The target has exactly the bytes of the origin, however the reads
\* and writes are cut, with one exception: copy does not truncate a longer target,
\* and exactly what the target had beyond the length of the origin stays behind.
CopyWhole ==
    \A h \in Handles : LET j == ioJob[h] IN
        j.op = "copied" =>
            content[fh[h].node] = content[j.from] \o SubSeq(j.old, Length(j.from) + 1, Len(j.old))

\* Streambuf: the file up to the position of the descriptor and the buffer are
\* together what was put into the stream, after failed flushes too.
StreamInOrder ==
    Does("stream") => \A h \in Handles : fh[h].node # 0 /\ Free(h) =>
        SubSeq(content[fh[h].node], 1, fh[h].pos) \o sbuf[h] = put[h]

\* Of all who open a file one created it, and preallocation, copies and streams
\* keep every byte in its place however the calls are cut.
FilesSound == OneCreator /\ PreallocKeeps /\ CopyWhole /\ StreamInOrder
=============================================================================

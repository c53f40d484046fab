------------------------------ MODULE SlabAlloc ------------------------------
(***************************************************************************)
(* The scratch memory of a write transaction (alloc_slab.cpp): slabs cut   *)
(* into blocks by boundary tags (BetweenBlocks), one circular free list    *)
(* per block size (m_block_map), the map of file chunks the transaction    *)
(* has freed (m_free_read_only), and the rebuilding of all of it when the  *)
(* transaction ends or the file has grown.                                 *)
(*                                                                         *)
(* The unit of size is 8 bytes.  A block is identified by its slab and the *)
(* offset of its first unit; `ref' is the field stored in a FreeBlock.     *)
(***************************************************************************)
EXTENDS Integers, Sequences, FiniteSets, TLC

CONSTANTS
    TagSize,      \* sizeof(BetweenBlocks)
    FreeBlockSize,\* sizeof(FreeBlock), the smallest block
    MinimalAlloc, \* minimal_alloc
    SectionSize,  \* 1 << section_shift, also maximal_alloc
    MaxRef,       \* where ref_end overflows
    AllocSizes,   \* the sizes requested
    FileNodes,    \* the nodes of the attached file: records [ref, size]
    FileSizes,    \* the sizes of the file a reader may see, in order
    SlabCalls     \* bound on the calls of one behaviour

ASSUME SlabAssumption ==
    /\ MinimalAlloc <= SectionSize
    /\ \A n \in AllocSizes : n > 0 /\ n + 2 * TagSize <= SectionSize
    /\ \A n \in FileNodes : n.ref > 0 /\ n.ref + n.size <= FileSizes[1]

VARIABLES
    saBaseline,   \* m_baseline
    heap,         \* [slabs |-> m_slabs with their contents, map |-> m_block_map]
    freeReadOnly, \* m_free_read_only: ref -> size
    freeState,    \* m_free_space_state
    commitSize,   \* m_commit_size
    live,         \* what the callers hold: ref -> [slab, off, size] in slabs
    fileLive,     \* the file nodes in use
    fileFreed,    \* the file nodes freed by this transaction
    saCallsLeft

saVars == <<saBaseline, heap, freeReadOnly, freeState, commitSize, live, fileLive, fileFreed, saCallsLeft>>

NoEntry == << >>   \* a function with an empty domain

\* align_size_to_section_boundary()
AlignToSection(n) == ((n + SectionSize - 1) \div SectionSize) * SectionSize

\* the ref of the first unit of slab k
SlabStart(base, slabs, k) == AlignToSection(IF k = 1 THEN base ELSE slabs[k - 1].end)

-----------------------------------------------------------------------------
(* Boundary tags. *)

Tag(h, k, o) == h.slabs[k].tags[o]

\* size_from_block(): negative for a block in use
BlockSize(h, b) == Tag(h, b.slab, b.off - TagSize).after

\* bb_after()
TagAfter(h, b) == b.off + BlockSize(h, b)

WithTag(h, k, o, tag) == [h EXCEPT !.slabs[k].tags = (o :> tag) @@ @]

WithoutTag(h, k, o) ==
    [h EXCEPT !.slabs[k].tags = [p \in DOMAIN @ \ {o} |-> @[p]]]

\* both tags around block b record the size n (negated: in use)
Sized(h, b, n) ==
    LET end == b.off + (IF n < 0 THEN -n ELSE n) IN
    [h EXCEPT !.slabs[b.slab].tags[b.off - TagSize].after = n,
              !.slabs[b.slab].tags[end].before = n]

-----------------------------------------------------------------------------
(* Free lists: the head of the circular list is the head of the sequence. *)

Least(S) == CHOOSE x \in S : \A y \in S : x <= y

MapPut(map, n, list) ==
    IF list = << >> THEN [m \in DOMAIN map \ {n} |-> map[m]] ELSE (n :> list) @@ map

push_freelist_entry(h, b) ==
    LET n == BlockSize(h, b)
        old == IF n \in DOMAIN h.map THEN h.map[n] ELSE << >>
    IN [h EXCEPT !.map = MapPut(@, n, <<b>> \o old)]

pop_freelist_entry(h, n) == [h EXCEPT !.map = MapPut(@, n, Tail(@[n]))]

\* the entry is found by its place; its links give its neighbours in the list
remove_freelist_entry(h, b) ==
    LET n == BlockSize(h, b) IN
    [h EXCEPT !.map = MapPut(@, n, SelectSeq(@[n], LAMBDA e : <<e.slab, e.off>> # <<b.slab, b.off>>))]

\* the FreeBlock stored at a place, found through its free list
EntryAt(h, k, o) ==
    CHOOSE e \in UNION {{h.map[n][i] : i \in DOMAIN h.map[n]} : n \in DOMAIN h.map} : e.slab = k /\ e.off = o

\* break_block(): the second part, when it can hold a FreeBlock, is pushed
break_block(h, b, n) ==
    LET rest == BlockSize(h, b) - (n + TagSize)
        mid == b.off + n
        last == TagAfter(h, b)
    IN IF rest < FreeBlockSize THEN h
       ELSE push_freelist_entry(
                WithTag([h EXCEPT !.slabs[b.slab].tags[last].before = rest,
                                  !.slabs[b.slab].tags[b.off - TagSize].after = n],
                        b.slab, mid, [before |-> n, after |-> rest]),
                [slab |-> b.slab, off |-> mid + TagSize, ref |-> b.ref + n + TagSize])

\* merge_blocks(): the tag between the two is given up
merge_blocks(h, first, last) ==
    LET n == BlockSize(h, first) + BlockSize(h, last) + TagSize IN
    Sized(WithoutTag(h, first.slab, last.off - TagSize), first, n)

-----------------------------------------------------------------------------
(* Slabs. *)

\* slab_to_entry(): one free block between two tags
OneBlock(start, s) ==
    LET n == s.end - start - 2 * TagSize IN
    [s EXCEPT !.tags = (0 :> [before |-> 0, after |-> n])
                       @@ (TagSize + n :> [before |-> n, after |-> 0])]

FirstBlock(start, k) == [slab |-> k, off |-> TagSize, ref |-> start + TagSize]

\* rebuild_freelists_from_slab(): every slab one free block, pushed in order
RECURSIVE Refilled(_, _, _)
Refilled(base, h, k) ==
    IF k > Len(h.slabs) THEN h
    ELSE LET start == SlabStart(base, h.slabs, k)
             one == [h EXCEPT !.slabs[k] = OneBlock(start, @)]
         IN Refilled(base, push_freelist_entry(one, FirstBlock(start, k)), k + 1)

rebuild_freelists_from_slab(base, slabs) == Refilled(base, [slabs |-> slabs, map |-> NoEntry], 1)

RECURSIVE TotalSize(_)
TotalSize(slabs) == IF slabs = << >> THEN 0 ELSE slabs[1].size + TotalSize(Tail(slabs))

\* the size of the next slab: whole multiples of the minimum, as much as is
\* already there, at most a section
SlabSize(h, n) ==
    LET need == n + 2 * TagSize
        steps == ((need + MinimalAlloc - 1) \div MinimalAlloc) * MinimalAlloc
        more == IF steps < TotalSize(h.slabs) THEN TotalSize(h.slabs) ELSE steps
    IN IF more > SectionSize THEN SectionSize ELSE more

NewSlabRef(base, h) == SlabStart(base, h.slabs, Len(h.slabs) + 1)

\* grow_slab(): the heap with the new slab; its block is not in a free list
Grown(base, h, n) ==
    LET ref == NewSlabRef(base, h)
        s == [end |-> ref + SlabSize(h, n), size |-> SlabSize(h, n), tags |-> NoEntry]
    IN [h EXCEPT !.slabs = Append(@, OneBlock(ref, s))]

-----------------------------------------------------------------------------
(* allocate_block() and free_block(). *)

\* find_larger(): what is left of a larger block must hold a FreeBlock
NeededSize(n) == n + TagSize + FreeBlockSize

Rounded(n) == IF n < FreeBlockSize THEN FreeBlockSize ELSE n

Exact(h, n) == n \in DOMAIN h.map
Larger(h, n) == {m \in DOMAIN h.map : m >= NeededSize(n)}
MustGrow(h, n) == ~ Exact(h, n) /\ Larger(h, n) = {}
Overflows(base, h, n) == MustGrow(h, n) /\ NewSlabRef(base, h) + SlabSize(h, n) > MaxRef

\* the block taken and the heap without it, before it is marked in use
allocate_block(base, h, n) ==
    IF Exact(h, n) THEN [block |-> h.map[n][1], heap |-> pop_freelist_entry(h, n)]
    ELSE IF Larger(h, n) # {}
    THEN LET m == Least(Larger(h, n)) IN
         [block |-> h.map[m][1], heap |-> break_block(pop_freelist_entry(h, m), h.map[m][1], n)]
    ELSE LET g == Grown(base, h, n)
             b == FirstBlock(NewSlabRef(base, h), Len(g.slabs))
         IN [block |-> b, heap |-> break_block(g, b, n)]

mark_allocated(h, b) == Sized(h, b, -BlockSize(h, b))

mark_freed(h, b) ==
    LET n == -BlockSize(h, b) IN Sized(h, b, n)

\* get_prev_block_if_mergeable() and get_next_block_if_mergeable()
MergePrev(h, b) ==
    LET n == Tag(h, b.slab, b.off - TagSize).before IN
    IF n <= 0 THEN [heap |-> h, block |-> b]
    ELSE LET prev == EntryAt(h, b.slab, b.off - TagSize - n) IN
         [heap |-> merge_blocks(remove_freelist_entry(h, prev), prev, b), block |-> prev]

\* mutant: the block merged with stays in its free list
MergeNextListed(h, b) ==
    LET t == TagAfter(h, b) IN
    IF Tag(h, b.slab, t).after <= 0 THEN h
    ELSE merge_blocks(h, b, EntryAt(h, b.slab, t + TagSize))

MergeNext(h, b) ==
    LET t == TagAfter(h, b) IN
    IF Tag(h, b.slab, t).after <= 0 THEN h
    ELSE LET next == EntryAt(h, b.slab, t + TagSize) IN
         merge_blocks(remove_freelist_entry(h, next), b, next)

free_block(h, b) ==
    LET p == MergePrev(h, b) IN push_freelist_entry(MergeNext(p.heap, p.block), p.block)

-----------------------------------------------------------------------------
(* m_free_read_only: the chunks of the file freed by this transaction. *)

\* do_free() of a read-only ref: first absorb the chunk that follows, then
\* grow the chunk that ends here, or add a chunk
Joined(chunks, ref, n) ==
    LET next == ref + n \in DOMAIN chunks
        size == IF next THEN n + chunks[ref + n] ELSE n
        rest == IF next THEN [r \in DOMAIN chunks \ {ref + n} |-> chunks[r]] ELSE chunks
        below == {r \in DOMAIN rest : r < ref /\ r + rest[r] = ref}
    IN IF below # {} THEN LET r == CHOOSE r \in below : TRUE IN [rest EXCEPT ![r] = @ + size]
       ELSE (ref :> size) @@ rest

-----------------------------------------------------------------------------
(* Operations. *)

SAInit ==
    /\ saBaseline = FileSizes[1]
    /\ heap = [slabs |-> << >>, map |-> NoEntry]
    /\ freeReadOnly = NoEntry
    /\ freeState = "clean"
    /\ commitSize = 0
    /\ live = NoEntry
    /\ fileLive = FileNodes
    /\ fileFreed = {}
    /\ saCallsLeft = SlabCalls

SACounts == saCallsLeft > 0 /\ saCallsLeft' = saCallsLeft - 1

\* do_alloc(): the state is dirty and the size counted before a slab is made
SAAlloc(n) ==
    /\ SACounts
    /\ freeState # "invalid"
    /\ freeState' = "dirty"
    /\ commitSize' = commitSize + n
    /\ IF Overflows(saBaseline, heap, Rounded(n))
       THEN UNCHANGED <<heap, live>>   \* MaximumFileSizeExceeded
       ELSE LET a == allocate_block(saBaseline, heap, Rounded(n)) IN
            /\ heap' = mark_allocated(a.heap, a.block)
            /\ live' = (a.block.ref :> [slab |-> a.block.slab, off |-> a.block.off, size |-> n]) @@ live
    /\ UNCHANGED <<saBaseline, freeReadOnly, fileLive, fileFreed>>

\* do_free() of a node in a slab; when the free lists are lost it does nothing
SAFree(r) ==
    /\ SACounts
    /\ live' = [q \in DOMAIN live \ {r} |-> live[q]]
    /\ IF freeState = "invalid" THEN UNCHANGED <<heap, commitSize>>
       ELSE LET b == [slab |-> live[r].slab, off |-> live[r].off, ref |-> r] IN
            /\ heap' = free_block(mark_freed(heap, b), b)
            /\ commitSize' = commitSize - live[r].size
    /\ UNCHANGED <<saBaseline, freeReadOnly, freeState, fileLive, fileFreed>>

\* do_free() of a node of the file; recording it may run out of memory
SAFreeFile(node, fails) ==
    /\ SACounts
    /\ fileLive' = fileLive \ {node}
    /\ fileFreed' = fileFreed \cup {node}
    /\ IF freeState = "invalid" THEN UNCHANGED <<freeReadOnly, freeState>>
       ELSE IF fails THEN freeState' = "invalid" /\ UNCHANGED freeReadOnly
       ELSE freeState' = "dirty" /\ freeReadOnly' = Joined(freeReadOnly, node.ref, node.size)
    /\ UNCHANGED <<saBaseline, heap, commitSize, live>>

\* do_realloc() of a node in a slab: allocate, copy, free the old one
SARealloc(r, n) ==
    /\ SACounts
    /\ freeState = "dirty"
    /\ LET old == live[r]
           b == [slab |-> old.slab, off |-> old.off, ref |-> r]
       IN IF Overflows(saBaseline, heap, Rounded(n))
          THEN commitSize' = commitSize + n /\ UNCHANGED <<heap, live>>
          ELSE LET a == allocate_block(saBaseline, heap, Rounded(n))
                   h == mark_allocated(a.heap, a.block)
               IN /\ heap' = free_block(mark_freed(h, b), b)
                  /\ live' = (a.block.ref :> [slab |-> a.block.slab, off |-> a.block.off, size |-> n])
                             @@ [q \in DOMAIN live \ {r} |-> live[q]]
                  /\ commitSize' = commitSize + n - old.size
    /\ UNCHANGED <<saBaseline, freeReadOnly, freeState, fileLive, fileFreed>>

\* the slabs kept over the end of a transaction: the first, if it is minimal
KeptSlabs(slabs) == IF slabs # << >> /\ slabs[1].size <= MinimalAlloc THEN SubSeq(slabs, 1, 1) ELSE << >>

\* reset_free_space_tracking() at a commit or a rollback; the nodes of the
\* transaction are gone with it, and those it freed in the file are history
SAReset(commits) ==
    /\ SACounts
    /\ freeState # "clean"
    /\ heap' = rebuild_freelists_from_slab(saBaseline, KeptSlabs(heap.slabs))
    /\ freeReadOnly' = NoEntry
    /\ freeState' = "clean"
    /\ commitSize' = 0
    /\ live' = NoEntry
    /\ fileLive' = IF commits THEN fileLive ELSE fileLive \cup fileFreed
    /\ fileFreed' = {}
    /\ UNCHANGED saBaseline

\* update_reader_view(): the slabs move up with the end of the file
SAUpdateView(size) ==
    /\ SACounts
    /\ freeState = "clean"
    /\ size > saBaseline
    /\ saBaseline' = size
    /\ LET shift == AlignToSection(size) - AlignToSection(saBaseline) IN
       heap' = rebuild_freelists_from_slab(size, [k \in DOMAIN heap.slabs |-> [heap.slabs[k] EXCEPT !.end = @ + shift]])
    /\ UNCHANGED <<freeReadOnly, freeState, commitSize, live, fileLive, fileFreed>>

SARest == saCallsLeft = 0 /\ UNCHANGED saVars

SANext ==
    \/ \E n \in AllocSizes : SAAlloc(n)
    \/ \E r \in DOMAIN live : SAFree(r)
    \/ \E node \in fileLive, fails \in BOOLEAN : SAFreeFile(node, fails)
    \/ \E r \in DOMAIN live, n \in AllocSizes : SARealloc(r, n)
    \/ \E commits \in BOOLEAN : SAReset(commits)
    \/ \E i \in DOMAIN FileSizes : SAUpdateView(FileSizes[i])
    \/ SARest

SASpec == SAInit /\ [][SANext]_saVars

-----------------------------------------------------------------------------
(* Properties. *)

\* The blocks of slab k, as the tags tell them: [off, size, used].
RECURSIVE BlocksFrom(_, _)
BlocksFrom(tags, o) ==
    LET n == tags[o].after
        size == IF n < 0 THEN -n ELSE n
    IN IF n = 0 THEN {} ELSE {[off |-> o + TagSize, size |-> size, used |-> n < 0]} \cup BlocksFrom(tags, o + TagSize + size)

SlabBlocks(k) == BlocksFrom(heap.slabs[k].tags, 0)

\* The boundary tags tile every slab from end to end: each tag repeats, on
\* its other side, the size and the use recorded by the tag before it, and no
\* two free blocks are neighbours (free_block() merges on both sides).
TagsTile ==
    \A k \in DOMAIN heap.slabs :
        LET s == heap.slabs[k] IN
        /\ DOMAIN s.tags = {0} \cup {b.off + b.size : b \in SlabBlocks(k)}
        /\ s.tags[s.size - TagSize].after = 0
        /\ \A b \in SlabBlocks(k) :
              /\ s.tags[b.off + b.size].before = (IF b.used THEN -b.size ELSE b.size)
              /\ b.size >= FreeBlockSize
              /\ ~ (~ b.used /\ s.tags[b.off + b.size].after > 0)

\* The free lists hold every free block once, under its size, with the ref
\* that translates to it, and nothing else.
FreeListsExact ==
    LET listed(n) == {heap.map[n][i] : i \in DOMAIN heap.map[n]}
        free == UNION {{<<k, b>> : b \in {x \in SlabBlocks(k) : ~ x.used}} : k \in DOMAIN heap.slabs}
    IN /\ \A n \in DOMAIN heap.map : Cardinality(listed(n)) = Len(heap.map[n])
       /\ UNION {{<<n, e>> : e \in listed(n)} : n \in DOMAIN heap.map} =
          {<<kb[2].size, [slab |-> kb[1], off |-> kb[2].off,
                          ref |-> SlabStart(saBaseline, heap.slabs, kb[1]) + kb[2].off]>> : kb \in free}

\* The memory handed out: every node a caller holds lies in a block in use of
\* its own, at the address its ref translates to, above the file and inside
\* one section; mark_freed() will accept its size.
NodesApart ==
    /\ \A r \in DOMAIN live :
          LET e == live[r]
              start == SlabStart(saBaseline, heap.slabs, e.slab)
              b == CHOOSE b \in SlabBlocks(e.slab) : b.off = e.off
          IN /\ \E x \in SlabBlocks(e.slab) : x.off = e.off
             /\ b.used /\ Rounded(e.size) <= b.size /\ b.size <= Rounded(e.size) + FreeBlockSize + TagSize
             /\ r = start + e.off /\ r >= saBaseline
             /\ r \div SectionSize = (r + e.size - 1) \div SectionSize
    /\ freeState # "invalid" =>
          Cardinality(DOMAIN live) = Cardinality({<<k, b>> \in UNION {{k} \X SlabBlocks(k) : k \in DOMAIN heap.slabs} : b.used})

\* What the writer of the commit will add to the file's free lists is exactly
\* the space of the nodes freed in the file, in chunks that do not touch.
FreedInFile ==
    freeState # "invalid" =>
       /\ UNION {r .. r + freeReadOnly[r] - 1 : r \in DOMAIN freeReadOnly} =
          UNION {n.ref .. n.ref + n.size - 1 : n \in fileFreed}
       /\ \A r \in DOMAIN freeReadOnly : r + freeReadOnly[r] \notin DOMAIN freeReadOnly

\* Boundary tags, free lists and the nodes in use describe the same slabs, and
\* the space freed in the file is exactly accounted for.
SlabsSound == TagsTile /\ FreeListsExact /\ NodesApart /\ FreedInFile
=============================================================================

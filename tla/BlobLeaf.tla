------------------------------ MODULE BlobLeaf ------------------------------
(***************************************************************************)
(* A leaf of binary values (ArrayBinary) or of strings (ArrayString).  A   *)
(* leaf starts in a compact representation and is rewritten as another one *)
(* when a value arrives that the present one does not take:                *)
(*                                                                         *)
(*   short   ArrayStringShort: cells of one width, padded, the last byte   *)
(*           counting the padding;                                         *)
(*   small   ArraySmallBlobs: one blob of all bytes, the end offset of     *)
(*           each value, and which values are null;                        *)
(*   big     ArrayBigBlobs: a blob for each value, or a chain of blobs     *)
(*           when one node cannot hold it;                                 *)
(*   packed  ArrayPackedBlobs: immutable base blocks, delta blocks for     *)
(*           what changed since, a location for each slot and the order    *)
(*           of the slots.                                                 *)
(*                                                                         *)
(* A value is a sequence of bytes or Null.  live counts the nodes that     *)
(* were allocated for the leaf and not freed.                              *)
(***************************************************************************)
EXTENDS Integers, Sequences, FiniteSets

CONSTANTS
    ShortMax,       \* small_string_max_size
    MediumMax,      \* medium_string_max_size
    SmallMax,       \* small_blob_max_size
    PackAbove,      \* total size above which a bulk write packs (4096 in the code)
    NodeHeader, BlockHeader, DirectoryEntry,    \* sizes of the parts of a block
    BlockTarget, InlineMax,     \* target_block_size, max_inline_block_size
    MaxBinary,      \* max_binary_size: what one node can hold
    MaxValues,      \* bound on the values of a leaf
    LeafSetups      \* [type, elems, values, pairs, bulk, calls]: what a behaviour starts with and does

VARIABLES
    leaf,           \* the leaf, in one of the representations
    blOther,        \* the leaf a split moved values to
    blSetup,        \* the chosen member of LeafSetups
    blCall,         \* the call made last, as in ElementList
    blCallsLeft     \* bound on the calls that are still to come

blVars == <<leaf, blOther, blSetup, blCall, blCallsLeft>>

Null == <<-1>>

SizeOf(v) == IF v = Null THEN 0 ELSE Len(v)

\* What is stored of a value: a string gets a terminating zero.
Stored(v, term) == (IF v = Null THEN <<>> ELSE v) \o (IF term THEN <<0>> ELSE <<>>)

Without(s, n) == SubSeq(s, 1, n) \o SubSeq(s, n + 2, Len(s))

With(s, n, e) == SubSeq(s, 1, n) \o <<e>> \o SubSeq(s, n + 1, Len(s))

Smaller(a, b) == IF a < b THEN a ELSE b

RECURSIVE Total(_)
Total(vs) == IF vs = <<>> THEN 0 ELSE SizeOf(Head(vs)) + Total(Tail(vs))

-----------------------------------------------------------------------------
(* ArrayStringShort.                                                       *)

ShortEmpty == [kind |-> "short", width |-> 0, cells |-> <<>>, live |-> 1]

RECURSIVE PowerFrom(_, _)
PowerFrom(p, size) == IF p >= size THEN p ELSE PowerFrom(2 * p, size)

round_up(size) == IF size <= 2 THEN size ELSE PowerFrom(4, size)

Zeros(n) == [i \in 1..n |-> 0]

\* Mutation: the count of a cell is copied as it was.
WidenPayload(cell, old, new) ==
    IF old = 0 THEN Zeros(new - 1) \o <<new>>
    ELSE SubSeq(cell, 1, old - 1) \o Zeros(new - old) \o <<cell[old]>>

\* A cell of the old width in the new one.  The count grows with the padding,
\* and so does the count that marks a null, which is the width itself.
Widen(cell, old, new) ==
    IF old = 0 THEN Zeros(new - 1) \o <<new>>
    ELSE SubSeq(cell, 1, old - 1) \o Zeros(new - old) \o <<cell[old] + (new - old)>>

ShortCell(v, width) ==
    IF v = Null THEN Zeros(width - 1) \o <<width>>
    ELSE v \o Zeros(width - 1 - Len(v)) \o <<width - 1 - Len(v)>>

ShortSet(l, n, v) ==
    LET width == IF l.width <= SizeOf(v) THEN round_up(SizeOf(v) + 1) ELSE l.width
        cells == IF width = l.width THEN l.cells
                 ELSE [i \in DOMAIN l.cells |-> Widen(l.cells[i], l.width, width)]
    IN IF v = Null /\ l.width = 0 THEN l
       ELSE [l EXCEPT !.width = width, !.cells = [cells EXCEPT ![n + 1] = ShortCell(v, width)]]

\* The gap holds what was there before, until set() overwrites it.
ShortInsert(l, n, v) ==
    ShortSet([l EXCEPT !.cells = With(@, n, Zeros(l.width))], n, v)

ShortGet(l, n) ==
    LET cell == l.cells[n + 1]
        size == (l.width - 1) - cell[l.width]
    IN IF l.width = 0 \/ size = -1 THEN Null ELSE SubSeq(cell, 1, size)

\* Array::truncate drops the width when nothing is left.
ShortTruncate(l, n) ==
    [l EXCEPT !.cells = SubSeq(@, 1, n), !.width = IF n = 0 THEN 0 ELSE @]

ShortMatches(l, v, n) ==
    LET cell == l.cells[n + 1]
        size == (l.width - 1) - cell[l.width]
    IN CASE l.width = 0 -> v = Null
         [] l.width > 0 /\ l.width <= SizeOf(v) -> FALSE
         [] l.width > SizeOf(v) /\ v = Null -> ShortGet(l, n) = Null
         [] l.width > SizeOf(v) /\ v = <<>> -> size = 0
         [] OTHER -> SubSeq(cell, 1, Len(v)) = v /\ size = Len(v)

-----------------------------------------------------------------------------
(* ArraySmallBlobs.                                                        *)

SmallEmpty == [kind |-> "small", offsets |-> <<>>, blob |-> <<>>, nulls |-> <<>>, live |-> 4]

StartOf(l, n) == IF n = 0 THEN 0 ELSE l.offsets[n]

\* Array::adjust from position n to the end.
Shift(offsets, n, diff) ==
    [i \in DOMAIN offsets |-> IF i > n THEN offsets[i] + diff ELSE offsets[i]]

\* ArrayBlob::replace within one node.
ReplaceBytes(bytes, begin, end, new) ==
    SubSeq(bytes, 1, begin) \o new \o SubSeq(bytes, end + 1, Len(bytes))

SmallAdd(l, v, term) ==
    [l EXCEPT !.blob = @ \o Stored(v, term),
              !.offsets = Append(@, StartOf(l, Len(@)) + Len(Stored(v, term))),
              !.nulls = Append(@, v = Null)]

SmallSet(l, n, v, term) ==
    LET start == StartOf(l, n)
        end == l.offsets[n + 1]
    IN [l EXCEPT !.blob = ReplaceBytes(@, start, end, Stored(v, term)),
                 !.offsets = Shift(@, n, start + Len(Stored(v, term)) - end),
                 !.nulls[n + 1] = (v = Null)]

SmallInsert(l, n, v, term) ==
    LET pos == StartOf(l, n)
        size == Len(Stored(v, term))
    IN [l EXCEPT !.blob = ReplaceBytes(@, pos, pos, Stored(v, term)),
                 !.offsets = Shift(With(@, n, pos + size), n + 1, size),
                 !.nulls = With(@, n, v = Null)]

SmallErase(l, n) ==
    LET start == StartOf(l, n)
        end == l.offsets[n + 1]
    IN [l EXCEPT !.blob = ReplaceBytes(@, start, end, <<>>),
                 !.offsets = Shift(Without(@, n), n, start - end),
                 !.nulls = Without(@, n)]

SmallTruncate(l, n) ==
    [l EXCEPT !.blob = SubSeq(@, 1, StartOf(l, n)),
              !.offsets = SubSeq(@, 1, n),
              !.nulls = SubSeq(@, 1, n)]

SmallGet(l, n, term) ==
    IF l.nulls[n + 1] THEN Null
    ELSE SubSeq(l.blob, StartOf(l, n) + 1, l.offsets[n + 1] - (IF term THEN 1 ELSE 0))

\* find_first compares sizes before bytes; a null has no bytes to compare.
SmallMatches(l, v, n, term) ==
    LET full == SizeOf(v) + (IF term THEN 1 ELSE 0)
    IN IF v = Null THEN l.nulls[n + 1]
       ELSE /\ ~l.nulls[n + 1]
            /\ l.offsets[n + 1] - StartOf(l, n) = full
            /\ SubSeq(l.blob, StartOf(l, n) + 1, StartOf(l, n) + Len(v)) = v

-----------------------------------------------------------------------------
(* ArrayBlob and ArrayBigBlobs.                                            *)

BigEmpty == [kind |-> "big", refs |-> <<>>, live |-> 1]

NoBlob == [chained |-> FALSE, ro |-> FALSE, parts |-> <<>>]

\* The nodes of a value: its root and, when it is chained, the parts.
Nodes(b) == IF b.chained THEN 1 + Len(b.parts) ELSE Len(b.parts)

RECURSIVE Chunks(_)
Chunks(bytes) ==
    IF bytes = <<>> THEN <<>>
    ELSE LET n == Smaller(MaxBinary, Len(bytes))
         IN <<SubSeq(bytes, 1, n)>> \o Chunks(SubSeq(bytes, n + 1, Len(bytes)))

\* What a new, empty blob becomes when the value is added to it: it stays the
\* first part when a new root is put over it.  A chain has no terminating zero.
NewBlob(v, term) ==
    IF v = Null THEN NoBlob
    ELSE IF Len(Stored(v, term)) > MaxBinary
    THEN [chained |-> TRUE, ro |-> FALSE, parts |-> Chunks(v)]
    ELSE [chained |-> FALSE, ro |-> FALSE, parts |-> <<Stored(v, term)>>]

BigInsert(l, n, v, term) ==
    [l EXCEPT !.refs = With(@, n, NewBlob(v, term)), !.live = @ + Nodes(NewBlob(v, term))]

\* Nodes that set() frees: nothing for a null; all of a value that becomes null;
\* the one node of a value in the file, for which a new one was made; the chain
\* and its root when a chain is replaced; for a value that outgrows its node,
\* the new root over it and the node itself, unless it was empty and becomes the
\* first part.
SetFrees(old, new) ==
    CASE old = NoBlob -> 0
      [] old # NoBlob /\ new = NoBlob -> Nodes(old)
      [] old # NoBlob /\ new # NoBlob /\ old.chained -> Nodes(old)
      [] old # NoBlob /\ new # NoBlob /\ ~old.chained /\ old.ro -> 1
      [] OTHER -> IF new.chained /\ Len(old.parts[1]) > 0 THEN 2 ELSE 0

\* Nodes that set() allocates.  A value that fits is written in its old node.
SetMakes(old, new) ==
    CASE old = NoBlob \/ new = NoBlob -> Nodes(new)
      [] old # NoBlob /\ new # NoBlob /\ (old.chained \/ old.ro) -> Nodes(new)
      [] OTHER -> IF ~new.chained THEN 0
                  ELSE IF Len(old.parts[1]) > 0 THEN 1 + Nodes(new) ELSE Nodes(new) - 1

BigSet(l, n, v, term) ==
    LET old == l.refs[n + 1]
        new == NewBlob(v, term)
    IN [l EXCEPT !.refs[n + 1] = new, !.live = @ + SetMakes(old, new) - SetFrees(old, new)]

\* Array::destroy_deep of the value at position n.
DeepNodes(refs, n) == Nodes(refs[n + 1])

BigErase(l, n) == [l EXCEPT !.refs = Without(@, n), !.live = @ - DeepNodes(l.refs, n)]

RECURSIVE AllNodes(_)
AllNodes(refs) == IF refs = <<>> THEN 0 ELSE Nodes(Head(refs)) + AllNodes(Tail(refs))

BigTruncate(l, n) ==
    [l EXCEPT !.refs = SubSeq(@, 1, n), !.live = @ - AllNodes(SubSeq(l.refs, n + 1, Len(l.refs)))]

\* Unterminated(bytes, term): StringData without its zero.
Unterminated(bytes, term) == IF term THEN SubSeq(bytes, 1, Len(bytes) - 1) ELSE bytes

\* ArrayBigBlobs::get answers null for a chain.
BigGet(l, n, term) ==
    LET b == l.refs[n + 1]
    IN IF b = NoBlob \/ b.chained THEN Null ELSE Unterminated(b.parts[1], term)

\* ArrayBlob::get_at: the rest of the part that holds position pos, and the next
\* position, zero after the last part.
RECURSIVE GetAt(_, _, _)
GetAt(parts, pos, base) ==
    IF pos < base + Len(Head(parts))
    THEN [bytes |-> SubSeq(Head(parts), pos - base + 1, Len(Head(parts))),
          next |-> IF Len(parts) = 1 THEN 0 ELSE base + Len(Head(parts))]
    ELSE IF Len(parts) = 1 THEN [bytes |-> <<>>, next |-> 0]
    ELSE GetAt(Tail(parts), pos, base + Len(Head(parts)))

RECURSIVE ReadFrom(_, _)
ReadFrom(parts, pos) ==
    LET got == GetAt(parts, pos, 0)
    IN IF got.next = 0 THEN got.bytes ELSE got.bytes \o ReadFrom(parts, got.next)

\* For a chain the code compares with the refs in its root, whose outcome is not
\* modelled: FindsAgree is about leaves without one.
BigMatches(l, v, n, term) ==
    LET b == l.refs[n + 1]
    IN IF v = Null THEN b = NoBlob
       ELSE /\ b # NoBlob /\ ~b.chained
            /\ Len(b.parts[1]) = Len(Stored(v, term))
            /\ SubSeq(b.parts[1], 1, Len(v)) = v

-----------------------------------------------------------------------------
(* ArrayPackedBlobs.                                                       *)

\* Values from the first on that go in one block.
RECURSIVE BlockEnd(_, _, _)
BlockEnd(vs, n, used) ==
    IF n = Len(vs) THEN n
    ELSE LET need == DirectoryEntry + SizeOf(vs[n + 1])
             standalone == SizeOf(vs[n + 1]) > InlineMax
         IN IF n # 0 /\ (standalone \/ used + need > BlockTarget) THEN n
            ELSE IF n = 0 /\ standalone THEN 1
            ELSE BlockEnd(vs, n + 1, used + need)

RECURSIVE Blocks(_)
Blocks(vs) ==
    IF vs = <<>> THEN <<>>
    ELSE LET n == BlockEnd(vs, 0, BlockHeader)
         IN <<SubSeq(vs, 1, n)>> \o Blocks(SubSeq(vs, n + 1, Len(vs)))

can_pack(vs) ==
    /\ vs # <<>>
    /\ \A i \in DOMAIN vs : SizeOf(vs[i]) <= MaxBinary - (NodeHeader + BlockHeader + DirectoryEntry)

\* create_block throws for what does not fit in one node.
BlockFits(block) == BlockHeader + Len(block) * DirectoryEntry + Total(block) <= MaxBinary

\* append and set_many write block after block: the values of the blocks before the
\* one for which create_block throws.
RECURSIVE Fitting(_)
Fitting(blocks) ==
    IF blocks = <<>> \/ ~BlockFits(Head(blocks)) THEN <<>> ELSE Head(blocks) \o Fitting(Tail(blocks))

RECURSIVE Ends(_, _)
Ends(blocks, before) ==
    IF blocks = <<>> THEN <<>>
    ELSE LET end == before + Len(Head(blocks)) IN <<end>> \o Ends(Tail(blocks), end)

PackedCreate(vs) ==
    [kind |-> "packed", base |-> Blocks(vs), ends |-> Ends(Blocks(vs), 0), delta |-> <<>>,
     overrides |-> [i \in DOMAIN vs |-> 0], order |-> [i \in DOMAIN vs |-> i - 1],
     live |-> 6 + Len(Blocks(vs))]

\* A location is a block and a row, stored with one added so that zero means
\* the base block still holds the slot.
RowBits == 2^4

Location(block, row) == block * RowBits + row + 1

\* The locations of the values of new delta blocks.
RECURSIVE Locations(_, _)
Locations(blocks, first) ==
    IF blocks = <<>> THEN <<>>
    ELSE [row \in DOMAIN Head(blocks) |-> Location(first, row - 1)]
         \o Locations(Tail(blocks), first + 1)

AddDeltas(l, blocks) == [l EXCEPT !.delta = @ \o blocks, !.live = @ + Len(blocks)]

PackedAppend(l, vs) ==
    LET slots == Len(l.overrides)
    IN [AddDeltas(l, Blocks(vs)) EXCEPT
            !.overrides = @ \o Locations(Blocks(vs), Len(l.delta)),
            !.order = @ \o [i \in DOMAIN vs |-> slots + i - 1]]

PackedInsert(l, n, v) ==
    [AddDeltas(l, <<<<v>>>>) EXCEPT
        !.overrides = Append(@, Location(Len(l.delta), 0)),
        !.order = With(@, n, Len(l.overrides))]

\* positions are in the order of vs.
RECURSIVE Override(_, _, _, _)
Override(overrides, order, positions, locations) ==
    IF positions = <<>> THEN overrides
    ELSE Override([overrides EXCEPT ![order[Head(positions) + 1] + 1] = Head(locations)],
                  order, Tail(positions), Tail(locations))

PackedSetMany(l, positions, vs) ==
    [AddDeltas(l, Blocks(vs)) EXCEPT
        !.overrides = Override(@, l.order, positions, Locations(Blocks(vs), Len(l.delta)))]

PackedTruncate(l, n) == [l EXCEPT !.order = SubSeq(@, 1, n)]

PackedErase(l, n) == [l EXCEPT !.order = Without(@, n)]

\* get_slot: the delta the slot was last written to, or the base block whose
\* end is the first above the slot.
PackedGet(l, n) ==
    LET slot == l.order[n + 1]
        at == l.overrides[slot + 1] - 1
        b == CHOOSE i \in DOMAIN l.ends :
                 slot < l.ends[i] /\ \A j \in 1..(i - 1) : slot >= l.ends[j]
    IN IF at >= 0 THEN l.delta[(at \div RowBits) + 1][(at % RowBits) + 1]
       ELSE l.base[b][slot - (IF b = 1 THEN 0 ELSE l.ends[b - 1]) + 1]

needs_normalize(l) ==
    LET size == IF l.ends = <<>> THEN 0 ELSE l.ends[Len(l.ends)]
    IN \/ l.delta # <<>>
       \/ Len(l.order) # size \/ Len(l.overrides) # size
       \/ \E i \in DOMAIN l.order : l.order[i] # i - 1 \/ l.overrides[i] # 0

-----------------------------------------------------------------------------
(* ArrayBinary and ArrayString: the representation in use.                 *)

Count(l) ==
    CASE l.kind = "short" -> Len(l.cells)
      [] l.kind = "small" -> Len(l.offsets)
      [] l.kind = "big" -> Len(l.refs)
      [] l.kind = "packed" -> Len(l.order)

NodesIn(l) ==
    CASE l.kind = "short" -> 1
      [] l.kind = "small" -> 4
      [] l.kind = "big" -> 1 + AllNodes(l.refs)
      [] l.kind = "packed" -> 6 + Len(l.base) + Len(l.delta)

GetValue(l, n, term) ==
    CASE l.kind = "short" -> ShortGet(l, n)
      [] l.kind = "small" -> SmallGet(l, n, term)
      [] l.kind = "big" -> BigGet(l, n, term)
      [] l.kind = "packed" -> PackedGet(l, n)

GetAll(l, term) == [i \in 1..Count(l) |-> GetValue(l, i - 1, term)]

\* The old nodes are destroyed once the new representation is complete.
ReplaceLeaf(l, new) == [new EXCEPT !.live = @ + l.live - NodesIn(l)]

AddOne(l, v, term) ==
    CASE l.kind = "short" -> ShortInsert(l, Len(l.cells), v)
      [] l.kind = "small" -> SmallAdd(l, v, term)
      [] l.kind = "big" -> BigInsert(l, Len(l.refs), v, term)
      [] l.kind = "packed" -> PackedAppend(l, <<v>>)

RECURSIVE AddValues(_, _, _)
AddValues(l, vs, term) ==
    IF vs = <<>> THEN l ELSE AddValues(AddOne(l, Head(vs), term), Tail(vs), term)

\* upgrade_leaf of ArrayBinary (term is FALSE) and of ArrayString.
Target(l, size, term) ==
    CASE l.kind \in {"big", "packed"} -> l.kind
      [] l.kind = "small" -> IF size <= (IF term THEN MediumMax ELSE SmallMax) THEN "small" ELSE "big"
      [] l.kind = "short" -> IF size <= ShortMax THEN "short"
                             ELSE IF size <= MediumMax THEN "small" ELSE "big"

UpgradeLeaf(l, size, term) ==
    LET to == Target(l, size, term)
    IN IF to = l.kind THEN l
       ELSE ReplaceLeaf(l, AddValues(IF to = "small" THEN SmallEmpty ELSE BigEmpty,
                                     GetAll(l, term), term))

InsertBlob(l, n, v, term) ==
    LET u == UpgradeLeaf(l, SizeOf(v), term)
    IN CASE u.kind = "short" -> ShortInsert(u, n, v)
         [] u.kind = "small" -> SmallInsert(u, n, v, term)
         [] u.kind = "big" -> BigInsert(u, n, v, term)
         [] u.kind = "packed" -> PackedInsert(u, n, v)

SetBlob(l, n, v, term) ==
    LET u == UpgradeLeaf(l, SizeOf(v), term)
    IN CASE u.kind = "short" -> ShortSet(u, n, v)
         [] u.kind = "small" -> SmallSet(u, n, v, term)
         [] u.kind = "big" -> BigSet(u, n, v, term)
         [] u.kind = "packed" -> PackedSetMany(u, <<n>>, <<v>>)

RECURSIVE SetEach(_, _, _, _)
SetEach(l, positions, vs, term) ==
    IF vs = <<>> THEN l
    ELSE SetEach(SetBlob(l, Head(positions), Head(vs), term), Tail(positions), Tail(vs), term)

SetBlobs(l, positions, vs, term) ==
    IF l.kind = "packed" THEN PackedSetMany(l, positions, vs) ELSE SetEach(l, positions, vs, term)

EraseBlob(l, n) ==
    CASE l.kind = "short" -> [l EXCEPT !.cells = Without(@, n)]
      [] l.kind = "small" -> SmallErase(l, n)
      [] l.kind = "big" -> BigErase(l, n)
      [] l.kind = "packed" -> PackedErase(l, n)

TruncateBlobs(l, n) ==
    CASE l.kind = "short" -> ShortTruncate(l, n)
      [] l.kind = "small" -> SmallTruncate(l, n)
      [] l.kind = "big" -> BigTruncate(l, n)
      [] l.kind = "packed" -> PackedTruncate(l, n)

ClearBlobs(l) ==
    IF l.kind = "packed" THEN ReplaceLeaf(l, SmallEmpty) ELSE TruncateBlobs(l, 0)

RECURSIVE AddEachBlob(_, _, _)
AddEachBlob(l, vs, term) ==
    IF vs = <<>> THEN l
    ELSE AddEachBlob(AddOne(UpgradeLeaf(l, SizeOf(Head(vs)), term), Head(vs), term), Tail(vs), term)

\* ArrayBinary::append packs what is there together with what is added.
AppendBlobs(l, vs, term) ==
    LET all == GetAll(l, term) \o vs
        large == \E i \in DOMAIN all : SizeOf(all[i]) > SmallMax
    IN IF l.kind = "packed" THEN PackedAppend(l, vs)
       ELSE IF ~term /\ large /\ Total(all) > PackAbove /\ can_pack(all)
       THEN ReplaceLeaf(l, PackedCreate(all))
       ELSE AddEachBlob(l, vs, term)

\* ArrayBinary::create(values), and a string leaf that was filled one by one.
CreateBlobs(vs, term) ==
    IF term THEN AddEachBlob(ShortEmpty, vs, term)
    ELSE IF \A i \in DOMAIN vs : SizeOf(vs[i]) <= SmallMax THEN AddValues(SmallEmpty, vs, FALSE)
    ELSE IF Total(vs) > PackAbove /\ can_pack(vs) THEN PackedCreate(vs)
    ELSE AddValues(BigEmpty, vs, FALSE)

\* A leaf that holds a value no base block takes is left alone: create() throws
\* and the transaction that compacts is rolled back.
NormalizePacked(l) ==
    IF l.kind # "packed" \/ ~needs_normalize(l) THEN l
    ELSE IF Count(l) = 0 THEN ReplaceLeaf(l, SmallEmpty)
    ELSE IF can_pack(GetAll(l, FALSE)) THEN ReplaceLeaf(l, PackedCreate(GetAll(l, FALSE)))
    ELSE l

-----------------------------------------------------------------------------
(* The calls.                                                              *)

IsText == blSetup.type = "string"

NoBlobCall == [op |-> "none", at |-> {}, elems |-> <<>>]

BLInit ==
    \E s \in LeafSetups :
        /\ blSetup = s
        /\ leaf = CreateBlobs(s.elems, s.type = "string")
        /\ blOther = SmallEmpty
        /\ blCall = NoBlobCall
        /\ blCallsLeft = s.calls

Calls(l, op, at, elems) ==
    /\ blCallsLeft > 0
    /\ blCallsLeft' = blCallsLeft - 1
    /\ leaf' = l
    /\ blCall' = [op |-> op, at |-> at, elems |-> elems]
    /\ UNCHANGED blSetup

\* What the leaf has taken of the values when the call returns or throws.
Taken(vs) == IF leaf.kind = "packed" THEN Fitting(Blocks(vs)) ELSE vs

Takes(vs) == Taken(vs) = vs

BLInsert ==
    /\ Count(leaf) < MaxValues
    /\ \E n \in 0..Count(leaf), v \in blSetup.values :
           /\ Takes(<<v>>)
           /\ Calls(InsertBlob(leaf, n, v, IsText), "insert", {n}, <<v>>)
    /\ UNCHANGED blOther

BLSet ==
    /\ \E n \in 0..(Count(leaf) - 1), v \in blSetup.values :
           /\ Takes(<<v>>)
           /\ Calls(SetBlob(leaf, n, v, IsText), "set", {n}, <<v>>)
    /\ UNCHANGED blOther

BLSetMany ==
    /\ \E n \in 0..(Count(leaf) - 1), m \in 0..(Count(leaf) - 1), vs \in blSetup.pairs :
           /\ n < m
           /\ LET taken == Taken(vs)
                  at == SubSeq(<<n, m>>, 1, Len(taken))
              IN Calls(SetBlobs(leaf, at, taken, IsText), "set", {at[i] : i \in DOMAIN at}, taken)
    /\ UNCHANGED blOther

\* A single value no block takes: the call throws before it changes the leaf.
BLRefused ==
    /\ \E v \in blSetup.values : ~Takes(<<v>>)
    /\ Calls(leaf, "none", {}, <<>>)
    /\ UNCHANGED blOther

BLAppend ==
    /\ blSetup.bulk
    /\ Count(leaf) + 2 <= MaxValues
    /\ \E vs \in blSetup.pairs : Calls(AppendBlobs(leaf, Taken(vs), IsText), "append", {}, Taken(vs))
    /\ UNCHANGED blOther

BLErase ==
    /\ \E n \in 0..(Count(leaf) - 1) : Calls(EraseBlob(leaf, n), "erase", {n}, <<>>)
    /\ UNCHANGED blOther

\* A leaf splits: the values from n on go to the end of an empty leaf.
BLMove ==
    /\ blSetup.bulk
    /\ \E n \in 0..(Count(leaf) - 1) :
           /\ blOther' = AppendBlobs(IF IsText THEN ShortEmpty ELSE SmallEmpty,
                                     SubSeq(GetAll(leaf, IsText), n + 1, Count(leaf)), IsText)
           /\ Calls(TruncateBlobs(leaf, n), "erase", n..(Count(leaf) - 1), <<>>)

BLClear ==
    /\ Calls(ClearBlobs(leaf), "erase", 0..(Count(leaf) - 1), <<>>)
    /\ UNCHANGED blOther

BLNormalize ==
    /\ leaf.kind = "packed"
    /\ Calls(NormalizePacked(leaf), "none", {}, <<>>)
    /\ UNCHANGED blOther

\* The leaf is committed: its blobs are in the file and read-only.
BLCommit ==
    /\ leaf.kind = "big"
    /\ Calls([leaf EXCEPT !.refs = [i \in DOMAIN @ |-> IF @[i] = NoBlob THEN NoBlob
                                                       ELSE [@[i] EXCEPT !.ro = TRUE]]],
             "none", {}, <<>>)
    /\ UNCHANGED blOther

\* The bound on the calls is reached.
BLRest == blCallsLeft = 0 /\ UNCHANGED blVars

BLNext ==
    \/ BLInsert \/ BLSet \/ BLSetMany \/ BLRefused \/ BLAppend \/ BLErase
    \/ BLMove \/ BLClear \/ BLNormalize \/ BLCommit \/ BLRest

BLSpec == BLInit /\ [][BLNext]_blVars

BLView == <<leaf, blOther, blSetup, blCallsLeft>>

-----------------------------------------------------------------------------
(* Properties.                                                             *)

\* The values of a leaf; a chain is read part by part with get_at.
Held(l) ==
    [i \in 1..Count(l) |->
        IF l.kind = "big" /\ l.refs[i].chained THEN ReadFrom(l.refs[i].parts, 0)
        ELSE GetValue(l, i - 1, IsText)]

Blobs == INSTANCE ElementList WITH list <- Held(leaf), call <- blCall, Elem <- Seq(Int)

\* Every call leaves the sequence of values it should, through every change of
\* representation, widening of cells, delta block and compaction of a leaf; a bulk
\* call that throws leaves an initial part of its values, and not half a block.
BlobsImplementList == [][Blobs!ListNext]_blVars

\* Every node allocated for the leaf is still part of it or was freed, once:
\* upgrades, chains that are replaced and blocks that are repacked included.
NoNodeLost == leaf.live = NodesIn(leaf)

\* A split moves exactly the values it removes, and in order.
BlobsMovedIntact ==
    [][blOther' # blOther =>
           Held(blOther') = SubSeq(Held(leaf), Count(leaf') + 1, Count(leaf))]_blVars

Matches(l, v, n) ==
    CASE l.kind = "short" -> ShortMatches(l, v, n)
      [] l.kind = "small" -> SmallMatches(l, v, n, IsText)
      [] l.kind = "big" -> BigMatches(l, v, n, IsText)
      [] l.kind = "packed" -> PackedGet(l, n) = v

\* The comparison of find_first, which looks at the stored form, holds for
\* exactly the elements that are equal: null is not the empty value, and
\* padding or a terminating zero is not part of a value.
FindsAgree ==
    (leaf.kind = "big" => \A i \in DOMAIN leaf.refs : ~leaf.refs[i].chained) =>
        \A n \in 0..(Count(leaf) - 1), v \in blSetup.values :
            Matches(leaf, v, n) <=> Held(leaf)[n + 1] = v

\* Compaction of a packed leaf leaves no delta block and no payload that is not
\* a value of the leaf: compact() folds them in fresh base blocks "before the
\* physical copy, otherwise compact() would preserve stale payload bytes".
NormalizeFolds ==
    [][BLNormalize /\ Count(leaf) > 0 =>
           /\ leaf'.kind = "packed" /\ leaf'.delta = <<>>
           /\ Len(leaf'.overrides) = Count(leaf')]_blVars

\* A leaf of blobs or strings is a sequence of values in every representation,
\* loses and leaks no node, and finds exactly the equal values.
BlobsSound ==
    /\ [](NoNodeLost /\ FindsAgree)
    /\ BlobsImplementList
    /\ BlobsMovedIntact
    /\ NormalizeFolds
=============================================================================

----------------------------- MODULE BPlusTree -----------------------------
(***************************************************************************)
(* The B+tree every column of a database is stored in: leaves of at most   *)
(* MaxNode elements below inner nodes of at most MaxNode children.  An     *)
(* inner node is compact while every child but the last holds the same     *)
(* number of elements, and becomes general, with an array of offsets, when *)
(* anything but an append happens below it.  The tree keeps one leaf in a  *)
(* cache, with the range of positions it stands for.                       *)
(***************************************************************************)
EXTENDS Integers, FiniteSets, FiniteSetsExt, Sequences, SequencesExt

CONSTANTS MaxNode,   \* LLBT_MAX_BPNODE_SIZE
          MaxSize    \* bound on the elements of a tree

ASSUME BTAssumption == MaxNode \in Nat \ {0, 1} /\ MaxSize \in Nat

VARIABLES root,    \* the tree
          size,    \* m_size
          cached,  \* the cached leaf: first position, one past the last, elements
          called   \* the call made last, with what it returned

btVars == <<root, size, cached, called>>

NPos == 1000

NoNode == [leaf |-> TRUE, elems |-> <<0>>]

NoCache == [begin |-> NPos, end |-> NPos, elems |-> <<>>]

Leaf(es) == [leaf |-> TRUE, elems |-> es]

\* perChild is 0 in a node on the general form, the one with offsets.
Inner(perChild, offsets, kids, total) ==
    [leaf |-> FALSE, perChild |-> perChild, offsets |-> offsets,
     kids |-> kids, total |-> total]

IsCompact(node) == node.leaf \/ node.perChild # 0

NodeSize(node) == IF node.leaf THEN Len(node.elems) ELSE Len(node.kids)

TreeSize(node) == IF node.leaf THEN Len(node.elems) ELSE node.total

EnsureOffsets(node) ==
    IF ~IsCompact(node) THEN node
    ELSE Inner(0, [i \in 1..(Len(node.kids) - 1) |-> i * node.perChild],
               node.kids, node.total)

\* The child that holds position n, and the position its first element has.
ChildOf(node, n) ==
    IF IsCompact(node) THEN 1 + n \div node.perChild
    ELSE 1 + Cardinality({i \in DOMAIN node.offsets : node.offsets[i] <= n})

OffsetOf(node, c) ==
    IF IsCompact(node) THEN (c - 1) * node.perChild
    ELSE IF c = 1 THEN 0 ELSE node.offsets[c - 1]

\* Positions from first on are moved; one later in the mutant.
AdjustedOffsets(offsets, first, diff) ==
    [i \in DOMAIN offsets |-> IF i >= first THEN offsets[i] + diff ELSE offsets[i]]

CacheOf(leaf, offset) ==
    [begin |-> offset, end |-> offset + Len(leaf.elems), elems |-> leaf.elems]

AfterSplit(cache) == NoCache

---------------------------------------------------------------------------
\* Insertion.  The elements es go to position n, NPos for the end; whole is a
\* leaf to hang in after the last one, or NoNode.  The result is the node, the
\* sibling a split made, where the split is, and the cached leaf.
LeafInserted(leaf, n, es, whole, cache) ==
    LET sz == Len(leaf.elems)
        at == IF n > sz THEN sz ELSE n
        result(node, sibling, offset, total, cache2) ==
            [node |-> node, sibling |-> sibling, offset |-> offset,
             total |-> total, cache |-> cache2]
        before == SubSeq(leaf.elems, 1, at)
        after == SubSeq(leaf.elems, at + 1, sz)
        grown == before \o es \o after
    IN  CASE whole # NoNode -> result(leaf, whole, sz, sz + Len(es), cache)
          [] whole = NoNode /\ sz < MaxNode ->
                result(Leaf(grown), NoNode, 0, 0,
                       IF cache = NoCache THEN NoCache
                       ELSE [cache EXCEPT !.end = @ + Len(es), !.elems = grown])
          [] whole = NoNode /\ sz >= MaxNode /\ at = sz ->
                result(leaf, Leaf(es), at, sz + 1, cache)
          [] OTHER -> result(Leaf(before \o es), Leaf(after), at + 1, sz + 1, AfterSplit(cache))

\* The inner node takes the sibling in after child c, or is split itself.
InsertNode(node, c, r, count) ==
    LET sz == Len(node.kids)
        offset == OffsetOf(node, c)
        split == offset + r.offset
    IN  IF sz < MaxNode
        THEN [r EXCEPT !.sibling = NoNode,
                       !.node = [node EXCEPT
                           !.kids = InsertAt(node.kids, c + 1, r.sibling),
                           !.total = @ + count,
                           !.offsets = IF IsCompact(node) THEN @
                                       ELSE AdjustedOffsets(InsertAt(@, c, split), c + 1, count)]]
        ELSE IF c = sz
        THEN [r EXCEPT !.node = [node EXCEPT !.total = split],
                       !.sibling = Inner(node.perChild, <<>>, <<r.sibling>>,
                                         r.total - r.offset),
                       !.offset = split,
                       !.total = offset + r.total]
        ELSE LET cut == offset + r.total
                 moved == [i \in 1..(sz - c - 1) |-> node.offsets[c + i] - (cut - 1)]
             IN  [r EXCEPT !.node = Inner(0, Append(SubSeq(node.offsets, 1, c - 1), split),
                                          Append(SubSeq(node.kids, 1, c), r.sibling), cut),
                           !.sibling = Inner(0, moved, SubSeq(node.kids, c + 1, sz),
                                             node.total + 1 - cut),
                           !.offset = cut,
                           !.total = node.total + 1]

RECURSIVE NodeInsert(_, _, _, _, _, _)
NodeInsert(node, n, es, whole, cache, mine) ==
    IF node.leaf
    THEN LeafInserted(node, n, es, whole, cache)
    ELSE LET nd == IF n = NPos THEN node ELSE EnsureOffsets(node)
             c == IF n = NPos THEN Len(nd.kids) ELSE ChildOf(nd, n)
             offset == OffsetOf(nd, c)
             kid == nd.kids[c]
             r == NodeInsert(kid, IF n = NPos THEN NPos ELSE n - offset, es, whole,
                             IF kid.leaf THEN CacheOf(kid, mine + offset) ELSE cache,
                             mine + offset)
             kept == [nd EXCEPT !.kids[c] = r.node]
         IN  IF r.sibling = NoNode
             THEN [r EXCEPT !.node = [kept EXCEPT !.total = @ + Len(es),
                                                  !.offsets = AdjustedOffsets(@, c, Len(es))]]
             ELSE InsertNode(kept, c, r, Len(es))

\* A tree that was split at the root gets a new root.
TreeInsert(tree, n, es, whole) ==
    LET at == IF n = TreeSize(tree.root) THEN NPos ELSE n
        r == NodeInsert(tree.root, at, es, whole, tree.cached, 0)
        compact == at = NPos /\ IsCompact(tree.root)
        top == IF r.sibling = NoNode THEN r.node
               ELSE Inner(IF compact THEN r.offset ELSE 0,
                          IF compact THEN <<>> ELSE <<r.offset>>,
                          <<r.node, r.sibling>>, r.total)
    IN  [root |-> top, cached |-> r.cache, size |-> tree.size + Len(es)]

---------------------------------------------------------------------------
\* Removal.  left is the number of elements or children the node is left with.
DropOffset(offsets, c) ==
    IF offsets = <<>> THEN offsets
    ELSE RemoveAt(offsets, IF c <= Len(offsets) THEN c ELSE Len(offsets))

Destroyed(node, c) ==
    [node EXCEPT !.kids = RemoveAt(@, c), !.offsets = DropOffset(@, c)]

\* The offset after child c becomes that of the sibling it swallows; forgotten
\* in the mutant.
OwnOffset(offsets, c) == offsets

SiblingOffset(offsets, c) ==
    IF c + 1 <= Len(offsets) THEN [offsets EXCEPT ![c] = offsets[c + 1]] ELSE offsets

\* Child c takes over what its right sibling holds.
Merged(node, c) ==
    LET a == node.kids[c]
        b == node.kids[c + 1]
        ga == EnsureOffsets(a)
        gb == EnsureOffsets(b)
        diff == node.offsets[c] - OffsetOf(node, c)
        one == IF a.leaf THEN Leaf(a.elems \o b.elems)
               ELSE Inner(0, ga.offsets \o <<diff>> \o [i \in DOMAIN gb.offsets |-> gb.offsets[i] + diff],
                          a.kids \o b.kids, a.total + b.total)
    IN  Destroyed([node EXCEPT !.kids[c] = one, !.offsets = SiblingOffset(@, c)], c + 1)

RECURSIVE NodeErase(_, _, _, _)
NodeErase(node, n, cache, mine) ==
    IF node.leaf
    THEN [node |-> Leaf(RemoveAt(node.elems, n + 1)), left |-> Len(node.elems) - 1,
          cache |-> cache]
    ELSE LET nd == EnsureOffsets(node)
             c == ChildOf(nd, n)
             offset == OffsetOf(nd, c)
             kid == nd.kids[c]
             r == NodeErase(kid, n - offset, cache, mine + offset)
             kids == Len(nd.kids)
             kept == [nd EXCEPT !.kids[c] = r.node, !.total = @ - 1,
                                !.offsets = AdjustedOffsets(@, c, -1)]
             cache2 == IF ~kid.leaf THEN r.cache
                       ELSE IF r.left = 0 THEN NoCache
                       ELSE CacheOf(r.node, mine + offset)
             merge == /\ r.left # 0
                      /\ r.left < MaxNode \div 2
                      /\ c < kids
                      /\ NodeSize(nd.kids[c + 1]) + r.left < (MaxNode * 3) \div 4
         IN  CASE r.left = 0 /\ kids = 1 -> [node |-> kept, left |-> 0, cache |-> cache2]
               [] r.left = 0 /\ kids > 1 ->
                     [node |-> Destroyed(kept, c), left |-> kids - 1, cache |-> cache2]
               [] merge -> [node |-> Merged(kept, c), left |-> kids - 1,
                            cache |-> IF kid.leaf THEN NoCache ELSE cache2]
               [] OTHER -> [node |-> kept, left |-> kids, cache |-> cache2]

\* A root with one child is replaced by it.
RECURSIVE Lowered(_, _)
Lowered(node, left) ==
    IF ~node.leaf /\ left = 1
    THEN Lowered(node.kids[1], NodeSize(node.kids[1])) ELSE node

TreeErase(tree, n) ==
    LET r == NodeErase(tree.root, n, tree.cached, 0)
    IN  [root |-> Lowered(r.node, r.left), cached |-> r.cache, size |-> tree.size - 1]

---------------------------------------------------------------------------
\* The leaf that holds position n, with the position of its first element.
RECURSIVE Descend(_, _, _)
Descend(node, n, mine) ==
    IF node.leaf THEN [leaf |-> node, offset |-> mine]
    ELSE LET c == ChildOf(node, n)
             offset == OffsetOf(node, c)
         IN  Descend(node.kids[c], n - offset, mine + offset)

\* All the leaves in order, each with the position it is told to start at;
\* LeavesFrom starts with child c.
RECURSIVE LeavesFrom(_, _, _)
LeavesFrom(node, c, mine) ==
    CASE node.leaf -> <<[leaf |-> node, offset |-> mine]>>
      [] ~node.leaf /\ c > Len(node.kids) -> <<>>
      [] OTHER -> LeavesFrom(node.kids[c], 1, mine + OffsetOf(node, c))
                      \o LeavesFrom(node, c + 1, mine)

Leaves(node) == LeavesFrom(node, 1, 0)

RECURSIVE FlatFrom(_, _)
FlatFrom(node, c) ==
    CASE node.leaf -> node.elems
      [] ~node.leaf /\ c > Len(node.kids) -> <<>>
      [] OTHER -> FlatFrom(node.kids[c], 1) \o FlatFrom(node, c + 1)

Flat(node) == FlatFrom(node, 1)

RECURSIVE Replace(_, _, _)
Replace(node, n, e) ==
    IF node.leaf THEN Leaf([node.elems EXCEPT ![n + 1] = e])
    ELSE LET c == ChildOf(node, n)
         IN  [node EXCEPT !.kids[c] = Replace(@, n - OffsetOf(node, c), e)]

RECURSIVE ReplaceEach(_, _, _)
ReplaceEach(node, at, es) ==
    IF at = <<>> THEN node
    ELSE ReplaceEach(Replace(node, at[1], es[1]), Tail(at), Tail(es))

\* A leaf reached through an inner root goes through the cache.
CachedAt(tree, n) ==
    LET d == Descend(tree.root, n, 0)
    IN  IF tree.root.leaf THEN tree.cached ELSE CacheOf(d.leaf, d.offset)

Hit(n) == cached.begin <= n /\ n < cached.end

TreeGet(n) ==
    IF Hit(n) THEN cached.elems[n - cached.begin + 1]
    ELSE LET d == Descend(root, n, 0) IN d.leaf.elems[n - d.offset + 1]

TreeSet(tree, n, e) ==
    LET changed == [tree EXCEPT !.root = Replace(tree.root, n, e)]
    IN  [changed EXCEPT !.cached = CachedAt(changed, n)]

---------------------------------------------------------------------------
\* Appending many elements: an empty tree is built bottom up from full leaves.
Chunk(es, i) == SubSeq(es, (i - 1) * MaxNode + 1, Min({i * MaxNode, Len(es)}))

LeafChunks(es) == [i \in 1..((Len(es) + MaxNode - 1) \div MaxNode) |-> Chunk(es, i)]

RECURSIVE Levels(_, _, _)
Levels(level, perChild, total) ==
    IF Len(level) <= 1 THEN level[1]
    ELSE LET groups == LeafChunks(level)
             first(g) == (g - 1) * MaxNode * perChild
             whole(g) == Len(groups[g]) * perChild
         IN  Levels([g \in DOMAIN groups |->
                        Inner(perChild, <<>>, groups[g],
                              IF g < Len(groups) THEN whole(g) ELSE total - first(g))],
                    perChild * MaxNode, total)

BulkAdopt(es) ==
    [root |-> Levels([i \in DOMAIN LeafChunks(es) |-> Leaf(LeafChunks(es)[i])], MaxNode, Len(es)),
     cached |-> NoCache, size |-> Len(es)]

\* How many elements the next step takes: a leaf, or what the last one has room
\* for.
Room(tail) == IF tail = MaxNode THEN MaxNode ELSE MaxNode - tail

\* Otherwise the last leaf is filled up and further leaves are hung in whole.
\* Finding out how full it is leaves it in the cache.
RECURSIVE AddFrom(_, _)
AddFrom(tree, es) ==
    IF es = <<>> THEN tree
    ELSE IF tree.size = 0 THEN BulkAdopt(es)
    ELSE LET tail == Len(Descend(tree.root, tree.size - 1, 0).leaf.elems)
             looked == [tree EXCEPT !.cached = CachedAt(tree, tree.size - 1)]
             n == Min({Len(es), Room(tail)})
             now == SubSeq(es, 1, n)
         IN  AddFrom(TreeInsert(looked, NPos, now, IF tail = MaxNode THEN Leaf(now) ELSE NoNode),
                     SubSeq(es, n + 1, Len(es)))

---------------------------------------------------------------------------
BTInit ==
    /\ root = Leaf(<<>>)
    /\ size = 0
    /\ cached = NoCache
    /\ called = [op |-> "none", at |-> {}, elems |-> <<>>]

Tree == [root |-> root, cached |-> cached, size |-> size]

Becomes(tree, op, at, es) ==
    /\ root' = tree.root
    /\ cached' = tree.cached
    /\ size' = tree.size
    /\ called' = [op |-> op, at |-> at, elems |-> es]

Ascending(S) == SelectSeq([i \in 1..(3 * MaxSize) |-> i - 1], LAMBDA x : x \in S)

\* Elements that are not in the tree, so that each can be told from the others.
Fresh(k) ==
    LET used == ToSet(Flat(root)) IN SubSeq(Ascending((1..(MaxSize + k)) \ used), 1, k)

BTInsert(n) ==
    /\ n <= size /\ size < MaxSize
    /\ Becomes(TreeInsert(Tree, n, Fresh(1), NoNode), "insert", {n}, Fresh(1))

BTAddRange(k) ==
    /\ size + k <= MaxSize
    /\ Becomes(AddFrom(Tree, Fresh(k)), "append", {}, Fresh(k))

BTErase(n) ==
    /\ n < size
    /\ Becomes(TreeErase(Tree, n), "erase", {n}, <<>>)

RECURSIVE EraseLast(_, _)
EraseLast(tree, at) ==
    IF at = {} THEN tree ELSE EraseLast(TreeErase(tree, Max(at)), at \ {Max(at)})

\* erase_many goes through its sorted positions from the last.
BTEraseMany(at) ==
    /\ \A n \in at : n < size
    /\ Becomes(EraseLast(Tree, at), "erase", at, <<>>)

BTSet(n) ==
    /\ n < size
    /\ Becomes(TreeSet(Tree, n, Fresh(1)[1]), "set", {n}, Fresh(1))

\* set_many visits the leaves in order and forgets the cached one.
BTSetMany(at) ==
    /\ at # {} /\ \A n \in at : n < size
    /\ LET es == Fresh(Cardinality(at))
       IN  Becomes([Tree EXCEPT !.root = ReplaceEach(root, Ascending(at), es),
                                !.cached = NoCache], "set", at, es)

BTSwap(n, m) ==
    /\ n < size /\ m < size /\ n < m
    /\ LET a == TreeGet(n)
           b == Flat(root)[m + 1]
       IN  Becomes(TreeSet(TreeSet(Tree, n, b), m, a), "set", {n, m}, <<b, a>>)

\* A tree of one leaf is cleared in place, any other is destroyed and created.
BTClear ==
    Becomes([root |-> Leaf(<<>>), size |-> 0,
             cached |-> IF root.leaf THEN cached ELSE NoCache],
            "erase", 0..(size - 1), <<>>)

\* Reading moves the cache when it does not hit it.
BTGet(n) ==
    /\ n < size
    /\ Becomes([Tree EXCEPT !.cached = IF Hit(n) THEN @ ELSE CachedAt(Tree, n)],
               "get", {n}, <<TreeGet(n)>>)

\* get_range never uses the cache, and leaves the last leaf it visits in it.
RECURSIVE RangeFrom(_, _)
RangeFrom(n, k) ==
    IF k = 0 THEN <<>>
    ELSE LET d == Descend(root, n, 0)
             copied == Min({k, Len(d.leaf.elems) - (n - d.offset)})
         IN  SubSeq(d.leaf.elems, n - d.offset + 1, n - d.offset + copied)
                 \o RangeFrom(n + copied, k - copied)

BTGetRange(n, k) ==
    /\ k > 0 /\ n + k <= size
    /\ Becomes([Tree EXCEPT !.cached = CachedAt(Tree, n + k - 1)],
               "get", n..(n + k - 1), RangeFrom(n, k))

\* find_first walks the leaves up to the one that holds the element, the
\* position being counted from where that leaf is told to start.
BTFind(n) ==
    /\ n < size
    /\ LET e == Flat(root)[n + 1]
           l == SelectSeq(Leaves(root), LAMBDA m : Contains(m.leaf.elems, e))[1]
           i == CHOOSE i \in DOMAIN l.leaf.elems : l.leaf.elems[i] = e
       IN  Becomes([Tree EXCEPT !.cached = IF root.leaf THEN @ ELSE CacheOf(l.leaf, l.offset)],
                   "find", {l.offset + i - 1}, <<e>>)

BTNext ==
    \/ BTClear
    \/ \E n \in 0..MaxSize :
          BTInsert(n) \/ BTErase(n) \/ BTSet(n) \/ BTGet(n) \/ BTFind(n)
    \/ \E n \in 0..MaxSize :
          BTSwap(n, size - 1) \/ BTGetRange(n, size - n) \/ BTSetMany({n, size - 1})
    \/ \E k \in {2, MaxNode + 1} : BTAddRange(k)
    \/ \E n, m \in 0..MaxSize : n < m /\ BTEraseMany(n..m)

BTSpec == BTInit /\ [][BTNext]_btVars

---------------------------------------------------------------------------
\* lower_bound(v) in a tree its user keeps sorted: at every level the child
\* before the first one that starts with an element not below v.
RECURSIVE FirstOf(_)
FirstOf(node) == IF node.leaf THEN node.elems[1] ELSE FirstOf(node.kids[1])

\* The first number in lo..hi, hi included, that low does not hold for, found
\* by halving.
RECURSIVE Halve(_, _, _)
Halve(lo, hi, low) ==
    IF lo >= hi THEN lo
    ELSE LET mid == lo + (hi - lo) \div 2
         IN  IF mid \in low THEN Halve(mid + 1, hi, low) ELSE Halve(lo, mid, low)

\* Children are numbered from zero here, as the code has it.
BoundChild(node, v) ==
    Halve(1, Len(node.kids), {c \in 1..(Len(node.kids) - 1) : FirstOf(node.kids[c + 1]) < v})

RECURSIVE LowerBound(_, _)
LowerBound(node, v) ==
    IF node.leaf
    THEN Halve(0, Len(node.elems), {i \in 0..(Len(node.elems) - 1) : node.elems[i + 1] < v})
    ELSE LET c == BoundChild(node, v)
         IN  OffsetOf(node, c) + LowerBound(node.kids[c], v)

\* The same tree with its elements renamed by their positions.
RECURSIVE Renamed(_, _)
Renamed(node, name) ==
    IF node.leaf THEN Leaf([i \in DOMAIN node.elems |-> name[node.elems[i]]])
    ELSE [node EXCEPT !.kids = [c \in DOMAIN @ |-> Renamed(@[c], name)]]

Positions ==
    LET flat == Flat(root)
    IN  [e \in ToSet(flat) |-> CHOOSE i \in DOMAIN flat : flat[i] = e]

\* Elements are told apart by where they are only: two states that differ in
\* the names of the elements are one.
BTView ==
    LET at == Positions
    IN  <<Renamed(root, at), size, cached.begin, cached.end,
          [i \in DOMAIN cached.elems |->
              IF cached.elems[i] \in DOMAIN at THEN at[cached.elems[i]] ELSE 0]>>

---------------------------------------------------------------------------
List == INSTANCE ElementList WITH list <- Flat(root), call <- called, Elem <- Nat

\* Whatever is inserted, appended in bulk, replaced, removed or read, through
\* the cached leaf or down the tree, the tree behaves as a sequence
\* (BPlusTree::insert, add_from, set, set_many, swap, erase, erase_many, clear,
\* get, get_range, find_first).
BTImplementsList == List!ListSpec

\* The invariants array.cpp states and BPlusTreeInner::verify() tests, at
\* every level: inner nodes have children, leaves elements and the same depth;
\* offsets and totals are exact; a compact node's children are full, of a power
\* of MaxNode; a general node has no compact parent; no node is too large.
RECURSIVE Depth(_)
Depth(node) == IF node.leaf THEN 0 ELSE 1 + Depth(node.kids[1])

RECURSIVE Sound(_)
Sound(node) ==
    \/ node.leaf /\ Len(node.elems) \in 1..MaxNode
    \/ /\ ~node.leaf
       /\ Len(node.kids) \in 1..MaxNode
       /\ \A c \in DOMAIN node.kids :
             /\ Sound(node.kids[c])
             /\ Depth(node.kids[c]) = Depth(node.kids[1])
             /\ ~IsCompact(node.kids[c]) => ~IsCompact(node)
             /\ TreeSize(node.kids[c]) =
                    (IF c < Len(node.kids) THEN OffsetOf(node, c + 1) ELSE node.total)
                    - OffsetOf(node, c)
       /\ IsCompact(node) =>
             /\ node.perChild = MaxNode ^ Depth(node)
             /\ TreeSize(Last(node.kids)) <= node.perChild
       /\ ~IsCompact(node) => Len(node.offsets) = Len(node.kids) - 1

BTVerify ==
    /\ root = Leaf(<<>>) \/ Sound(root)
    /\ ~root.leaf => Len(root.kids) > 1
    /\ size = TreeSize(root)

\* The cached leaf is the one at the positions it is cached for: get() would
\* otherwise answer from a leaf that was split, merged or freed.
BTCacheCurrent ==
    cached # NoCache =>
        /\ ~root.leaf
        /\ CachedAt(Tree, cached.begin) = cached

\* With the elements sorted, several of them equal, lower_bound finds the first
\* one that is not below the value asked for, also where equal elements span two
\* nodes.
BTLowerBound ==
    LET at == Positions
        sorted == Renamed(root, [e \in DOMAIN at |-> (at[e] + 1) \div 3])
        flat == Flat(sorted)
    IN  size > 0 => \A v \in 0..(size + 1) :
            LowerBound(sorted, v) = Cardinality({i \in 1..size : flat[i] < v})

\* A B+-tree is a sequence, its nodes satisfy verify() at every level, its
\* cached leaf is current and lower_bound finds the first place.
TreeSound ==
    /\ [](BTVerify /\ BTCacheCurrent /\ BTLowerBound)
    /\ BTImplementsList
=============================================================================

------------------------------ MODULE StoreApi ------------------------------
(***************************************************************************)
(* The store as its C interface shows it: transactions and the registry of *)
(* named roots in them, tree handles and cursors, llbt_write callbacks on  *)
(* a borrowed transaction, and the status every call returns.  Callers     *)
(* keep the rules of the header: trees go before their transaction, one    *)
(* handle per root in a write transaction, none across erase_root.         *)
(* A structure is the sequence of its values under one reference: inside   *)
(* a write transaction the first change of a committed one copies it.      *)
(* Every call that allocates may throw between two of its steps; what was  *)
(* done by then stays in the transaction, which the caller may roll back,  *)
(* use further or commit.  Trees have one leaf.                            *)
(***************************************************************************)
EXTENDS Naturals, Sequences, SequencesExt, FiniteSets

CONSTANTS
    Txns, Raw,
    Refs,        \* references, as many as the file has room for
    Clients,     \* [names, values, long, modes, raw, scan, goesOn]: what a client uses: names of roots,
                 \* typed values, the longest tree, transactions, structures of its own, cursors; and
                 \* whether it uses names further after a call that broke off
    LeafSize,    \* LLBT_MAX_BPNODE_SIZE
    NoPosition   \* LLBT_NPOS, the largest position

VARIABLES
    committed,   \* the registry of the newest version
    heap,        \* reference -> [type, items], or Unused
    txn,         \* transaction handle -> [mode, reg]
    tree,        \* the tree handle that is open, with its m_size, or NoTree
    cursor,      \* [pos, seen, dir] of the cursor on it, or NoCursor
    rawRef,      \* a structure built in raw mode that has no root yet, 0 if none
    released,    \* committed references the write transaction has freed
    status,      \* what the last call returned
    callback,    \* the handle given to the llbt_write callback that runs, if any
    client

store == <<committed, heap, txn, tree, cursor, rawRef, released>>
apiVars == <<store, status, callback, client>>

Unused == [type |-> "unused", items |-> <<>>]
NoTree == [tx |-> "none"]
NoCursor == [dir |-> "none"]
NoTx == [mode |-> "none"]
\* torn: how calls of this version, or of one before it, broke off: half way, or with an entry
\* left that refers to a destroyed structure
EmptyRegistry == [names |-> <<>>, roots |-> <<>>, types |-> <<>>, torn |-> {}]
Whole(reg) == reg.torn = {}

SAInit ==
    /\ client \in Clients
    /\ committed = EmptyRegistry
    /\ heap = [r \in Refs |-> Unused]
    /\ txn = [x \in Txns |-> NoTx]
    /\ tree = NoTree /\ cursor = NoCursor /\ rawRef = 0
    /\ released = {} /\ callback = {} /\ status = "OK"

Open(x) == txn[x].mode # "none"
Writable(x) == txn[x].mode \in {"write", "borrowed"}
Writer == {x \in Txns : Writable(x)}
Roots(reg) == {reg.roots[i] : i \in DOMAIN reg.roots} \ {0}
Answers(s) == status' = s

\* Registry::find
Find(reg, name) == {i \in DOMAIN reg.names : reg.names[i] = name}

\* Registry::add: the three arrays grow by one
AddRoot(reg, name, type) ==
    [reg EXCEPT !.names = Append(@, name), !.roots = Append(@, 0), !.types = Append(@, type)]

\* What is left when an allocation throws on the way, or behind it before the root is made
AddRootBreaks(reg, name, type) ==
    LET all == [AddRoot(reg, name, type) EXCEPT !.torn = @ \cup {"half"}]
    IN  {all, [all EXCEPT !.types = reg.types], [all EXCEPT !.types = reg.types, !.roots = reg.roots]}

\* Registry::erase
RemoveRoot(reg, i) ==
    [reg EXCEPT !.names = RemoveAt(@, i), !.roots = RemoveAt(@, i), !.types = RemoveAt(@, i)]

\* The structure is destroyed first
RemoveRootBreaks(reg, i) ==
    LET all == [RemoveRoot(reg, i) EXCEPT !.torn = @ \cup {"dangling"}]
    IN  {[all EXCEPT !.types = reg.types, !.torn = reg.torn \cup {"half"}],
         [all EXCEPT !.types = reg.types, !.roots = reg.roots],
         [reg EXCEPT !.torn = all.torn]}

\* The lowest reference that is free
FreshRef == LET free == {r \in Refs : heap[r] = Unused} IN {r \in free : \A q \in free : r <= q}

\* Freed at once, the last version notwithstanding
HeapWithoutNow(h, ref) == [h EXCEPT ![ref] = Unused]

Parallel(reg) == Len(reg.names) = Len(reg.roots) /\ Len(reg.names) = Len(reg.types)

\* What the allocator does with a freed reference: one of the last version waits for the commit
HeapWithout(h, ref) == IF ref \in Roots(committed) THEN h ELSE [h EXCEPT ![ref] = Unused]
ReleasedWith(ref) == IF ref \in Roots(committed) THEN released \cup {ref} ELSE released

\* Calls find entries by name.  Behind a call that broke off in the registry an array ends before
\* its entry or a root is destroyed; what a later call reads there is not modelled.
Usable(x) ==
    \/ Whole(txn[x].reg)
    \/ client.goesOn /\ Parallel(txn[x].reg) /\ "dangling" \notin txn[x].reg.torn

--------------------------------------------------------------------------------
\* Tx::Tx: the registry is bound to the newest version
Bound(mode) == [mode |-> mode, reg |-> committed]

\* begin_read and begin_write; the writer waits while another one is open
Begin(x, mode) ==
    /\ ~Open(x)
    /\ mode # "read" => Writer = {}
    /\ txn' = [txn EXCEPT ![x] = Bound(mode)]
    /\ callback' = IF mode = "borrowed" THEN {x} ELSE callback
    /\ Answers("OK")
    /\ UNCHANGED <<committed, heap, tree, cursor, rawRef, released>>

\* t_closure_store: inside a callback another begin_write or write of this thread is refused
NestedBegin ==
    /\ \E x \in Txns : txn[x].mode = "borrowed"
    /\ Answers("WRONG_TXN_STATE")
    /\ UNCHANGED store

\* References a read transaction or the newest version still shows
Kept(newest, x) ==
    Roots(newest) \cup (IF Writable(x) THEN {} ELSE {rawRef}) \cup UNION {Roots(txn[y].reg) : y \in {z \in Txns \ {x} : Open(z)}}

Publish(x) ==
    /\ committed' = txn[x].reg
    /\ heap' = [r \in Refs |-> IF r \in Kept(txn[x].reg, x) THEN heap[r] ELSE Unused]

\* The newest version stays, and what only the transaction made is free again
Discard(x) ==
    /\ heap' = [r \in Refs |-> IF r \in Kept(committed, x) THEN heap[r] ELSE Unused]
    /\ UNCHANGED committed

Ended(x) ==
    /\ txn' = [txn EXCEPT ![x] = NoTx]
    /\ released' = IF Writable(x) THEN {} ELSE released
    /\ rawRef' = IF Writable(x) THEN 0 ELSE rawRef
    /\ UNCHANGED <<tree, cursor>>

\* llbt_txn_commit: the handle is freed on every path but the borrowed one
Commit(x) ==
    /\ Open(x) /\ tree.tx # x
    /\ \/ /\ txn[x].mode = "borrowed" /\ Answers("WRONG_TXN_STATE")
          /\ UNCHANGED store
       \/ txn[x].mode = "read" /\ Discard(x) /\ Ended(x) /\ Answers("WRONG_TXN_STATE")
       \/ txn[x].mode = "write" /\ Publish(x) /\ Ended(x) /\ Answers("OK")
       \/ txn[x].mode = "write" /\ Discard(x) /\ Ended(x) /\ Answers("IO")

\* llbt_txn_abort: does nothing to a borrowed transaction
Abort(x) ==
    /\ Open(x) /\ tree.tx # x /\ txn[x].mode # "borrowed"
    /\ Discard(x) /\ Ended(x) /\ UNCHANGED status

\* llbt_write: the callback returns; any status but LLBT_OK rolls its changes back
CallbackReturns(x, s) ==
    /\ txn[x].mode = "borrowed" /\ tree.tx # x
    /\ callback' = {}
    /\ IF s = "OK" THEN Publish(x) ELSE Discard(x)
    /\ Ended(x) /\ Answers(s)

--------------------------------------------------------------------------------
\* llbt_txn_erase_root
EraseRoot(x, name) ==
    /\ Open(x) /\ tree.tx # x /\ Usable(x)
    /\ LET reg == txn[x].reg
       IN  \/ ~Writable(x) /\ Answers("WRONG_TXN_STATE") /\ UNCHANGED <<txn, heap, released>>
           \/ Writable(x) /\ Find(reg, name) = {} /\ Answers("OK") /\ UNCHANGED <<txn, heap, released>>
           \/ \E i \in Find(reg, name) :
                 /\ Writable(x)
                 /\ \/ Answers("OK") /\ txn' = [txn EXCEPT ![x].reg = RemoveRoot(reg, i)]
                    \/ Answers("UNKNOWN") /\ \E r \in RemoveRootBreaks(reg, i) : txn' = [txn EXCEPT ![x].reg = r]
                 /\ heap' = IF reg.roots[i] = 0 THEN heap ELSE HeapWithout(heap, reg.roots[i])
                 /\ released' = IF reg.roots[i] = 0 THEN released ELSE ReleasedWith(reg.roots[i])
    /\ UNCHANGED <<committed, tree, cursor, rawRef>>

\* Raw mode: a structure is built with the allocator of the transaction
BuildRaw(x) ==
    /\ client.raw /\ Writable(x) /\ rawRef = 0
    /\ \E r \in FreshRef :
                       /\ heap' = [heap EXCEPT ![r] = [type |-> Raw, items |-> <<>>]]
                       /\ rawRef' = r
    /\ Answers("OK")
    /\ UNCHANGED <<committed, txn, tree, cursor, released>>

\* Registry::set_root_ref: the old structure is destroyed before the entry is written, or is not
Anchored(x, i, ref, torn) ==
    LET old == txn[x].reg.roots[i]
    IN  /\ txn' = IF torn THEN [txn EXCEPT ![x].reg.torn = @ \cup {"dangling"}] ELSE [txn EXCEPT ![x].reg.roots[i] = ref]
        /\ heap' = IF old \in {0, ref} THEN heap ELSE HeapWithout(heap, old)
        /\ released' = IF old \in {0, ref} THEN released ELSE ReleasedWith(old)

\* Tx::set_root with the new structure, or again with the one that is there
SetRoot(x, name) ==
    /\ Open(x) /\ tree.tx # x /\ Usable(x)
    /\ LET reg == txn[x].reg
       IN  \/ ~Writable(x) /\ Answers("WRONG_TXN_STATE") /\ UNCHANGED <<txn, heap, released, rawRef>>
           \/ /\ Writable(x) /\ rawRef # 0 /\ Find(reg, name) = {}
              /\ \/ /\ Answers("OK") /\ rawRef' = 0
                    /\ txn' = [txn EXCEPT ![x].reg = [AddRoot(reg, name, Raw) EXCEPT !.roots[Len(reg.roots) + 1] = rawRef]]
                 \/ /\ Answers("UNKNOWN") /\ UNCHANGED rawRef
                    /\ \E r \in AddRootBreaks(reg, name, Raw) : txn' = [txn EXCEPT ![x].reg = r]
              /\ UNCHANGED <<heap, released>>
           \/ \E i \in Find(reg, name) : /\ Writable(x) /\ reg.types[i] # Raw
                                         /\ Answers("ILLEGAL_OP") /\ UNCHANGED <<txn, heap, released, rawRef>>
           \/ \E i \in Find(reg, name) : \E ref \in {rawRef, reg.roots[i]} \ {0} :
                /\ Writable(x) /\ reg.types[i] = Raw
                /\ \/ /\ Answers("OK") /\ Anchored(x, i, ref, FALSE)
                      /\ rawRef' = IF ref = rawRef THEN 0 ELSE rawRef
                   \/ ref = rawRef /\ Answers("UNKNOWN") /\ Anchored(x, i, ref, TRUE) /\ UNCHANGED rawRef
    /\ UNCHANGED <<committed, tree, cursor>>

--------------------------------------------------------------------------------
\* init_from_ref: the size of a root that is a leaf
Handle(x, type, i, ref) == [tx |-> x, type |-> type, slot |-> i, ref |-> ref, size |-> Len(heap[ref].items)]

\* BPlusTree::create under the entry i, which is in the registry already
Created(x, reg, i, type) ==
    \E r \in FreshRef :
        /\ Answers("OK")
        /\ heap' = [heap EXCEPT ![r] = [type |-> type, items |-> <<>>]]
        /\ txn' = [txn EXCEPT ![x].reg = [reg EXCEPT !.roots[i] = r]]
        /\ tree' = [tx |-> x, type |-> type, slot |-> i, ref |-> r, size |-> 0]

\* Tx::tree: the root is found, or registered and made by a writer
TxTree(x, name, type) ==
    LET reg == txn[x].reg
        fails(s) == Answers(s) /\ UNCHANGED <<heap, txn, tree>>
    IN  \/ Find(reg, name) = {} /\ ~Writable(x) /\ fails("WRONG_TXN_STATE")
        \/ Find(reg, name) = {} /\ Writable(x) /\ Created(x, AddRoot(reg, name, type), Len(reg.roots) + 1, type)
        \/ /\ Find(reg, name) = {} /\ Writable(x) /\ Answers("UNKNOWN") /\ UNCHANGED <<heap, tree>>
           /\ \E r \in AddRootBreaks(reg, name, type) : txn' = [txn EXCEPT ![x].reg = r]
        \/ \E i \in Find(reg, name) :
             \/ reg.types[i] # type /\ fails("ILLEGAL_OP")
             \/ reg.types[i] = type /\ reg.roots[i] = 0 /\ Writable(x) /\ Created(x, reg, i, type)
             \/ reg.types[i] = type /\ reg.roots[i] = 0 /\ fails(IF Writable(x) THEN "UNKNOWN" ELSE "WRONG_TXN_STATE")
             \/ /\ reg.types[i] = type /\ reg.roots[i] # 0 /\ Answers("OK")
                /\ tree' = Handle(x, type, i, reg.roots[i])
                /\ UNCHANGED <<heap, txn>>

\* llbt_tree_open
TreeOpen(x, name, type) ==
    /\ Open(x) /\ tree = NoTree /\ Usable(x)
    /\ TxTree(x, name, type)
    /\ UNCHANGED <<committed, cursor, rawRef, released>>

TreeDestroy ==
    /\ tree # NoTree
    /\ tree' = NoTree /\ cursor' = NoCursor
    /\ UNCHANGED <<committed, heap, txn, rawRef, released, status>>

ItemsOf == heap[tree.ref].items

\* Copy on write: a committed structure gets a new reference, and its parent the reference
Edited(items, size, torn) ==
    IF tree.ref \notin Roots(committed)
    THEN /\ heap' = [heap EXCEPT ![tree.ref].items = items]
         /\ txn' = [txn EXCEPT ![tree.tx].reg.torn = @ \cup torn]
         /\ tree' = [tree EXCEPT !.size = size]
         /\ UNCHANGED released
    ELSE \E r \in FreshRef :
         /\ heap' = [heap EXCEPT ![r] = [type |-> tree.type, items |-> items]]
         /\ released' = released \cup {tree.ref}
         /\ txn' = [txn EXCEPT ![tree.tx].reg.roots[tree.slot] = r, ![tree.tx].reg.torn = @ \cup torn]
         /\ tree' = [tree EXCEPT !.ref = r, !.size = size]

State(items, size) == [items |-> items, size |-> size]

\* What every call that changes a tree does: the checks of the C function, then those of Tree and
\* BPlusTree, then the change; or an allocation throws before it, behind the copy, or in one of the
\* states between its steps.  The runs do not scan across a change.
Change(check, after, between) ==
    /\ tree # NoTree
    /\ \/ check # "OK" /\ Answers(check) /\ UNCHANGED <<heap, txn, tree, released>>
       \/ check = "OK" /\ ~Writable(tree.tx) /\ Answers("WRONG_TXN_STATE") /\ UNCHANGED <<heap, txn, tree, released>>
       \/ /\ check = "OK" /\ Writable(tree.tx)
          /\ \/ Len(after.items) <= client.long /\ Answers("OK") /\ Edited(after.items, after.size, {})
             \/ Answers("UNKNOWN") /\ Edited(ItemsOf, tree.size, {})
             \/ \E s \in between : /\ Len(s.items) <= client.long
                                   /\ Answers("UNKNOWN") /\ Edited(s.items, s.size, {"half"})
    /\ cursor' = NoCursor
    /\ UNCHANGED <<committed, rawRef>>

TypeCheck(vs) == IF \A i \in DOMAIN vs : vs[i].type = tree.type THEN "OK" ELSE "TYPE_MISMATCH"
Within(ok, check) == IF ok THEN check ELSE "OUT_OF_BOUNDS"
Unwrapped(vs) == [i \in DOMAIN vs |-> vs[i].item]

Add(v) == Change(TypeCheck(<<v>>), State(Append(ItemsOf, v.item), tree.size + 1), {})

\* add_from: an empty tree gets leaves that are built before it is changed.  Otherwise the last
\* leaf is filled value by value and counted when it is, and a further leaf is built apart.
AddedBefore(vs) ==
    LET room == LeafSize - Len(ItemsOf)
    IN  IF tree.size = 0 THEN {}
        ELSE {State(ItemsOf \o SubSeq(vs, 1, k), IF k = room THEN tree.size + k ELSE tree.size) :
                  k \in {n \in 1..(Len(vs) - 1) : n <= room}}

\* llbt_tree_add_range: all values are converted first
AddRange(vs) ==
    Change(TypeCheck(vs),
           State((IF tree.size = 0 THEN <<>> ELSE ItemsOf) \o Unwrapped(vs), tree.size + Len(vs)),
           AddedBefore(Unwrapped(vs)))

Insert(n, v) ==
    Change(Within(n <= tree.size, TypeCheck(<<v>>)), State(InsertAt(ItemsOf, n + 1, v.item), tree.size + 1), {})

WithItems(ns, item) == [i \in DOMAIN ItemsOf |-> IF i - 1 \in ns THEN item ELSE ItemsOf[i]]

Set(n, v) == Change(Within(n < tree.size, TypeCheck(<<v>>)), State(WithItems({n}, v.item), tree.size), {})

WithoutItems(ns) ==
    LET left == SelectSeq([i \in DOMAIN ItemsOf |-> i], LAMBDA i : i - 1 \notin ns)
    IN  State([j \in DOMAIN left |-> ItemsOf[left[j]]], tree.size - Cardinality(ns))

Erase(n) == Change(Within(n < tree.size, "OK"), WithoutItems({n}), {})

Clear == Change("OK", State(<<>>, 0), {})

\* BPlusTree::set_many and erase_many throw std exceptions, which become LLBT_E_UNKNOWN,
\* before anything changes; for a reader the transaction state is found first
ManyCheck(ns) == IF Writable(tree.tx) /\ ~(\A n \in ns : n < tree.size) THEN "UNKNOWN" ELSE "OK"

\* From the first position on
SetMany(ns, v) ==
    Change(IF TypeCheck(<<v>>) = "OK" THEN ManyCheck(ns) ELSE "TYPE_MISMATCH",
           State(WithItems(ns, v.item), tree.size),
           {State(WithItems({n \in ns : n < m}, v.item), tree.size) : m \in {k \in ns : \E n \in ns : n < k}})

\* From the last position on
EraseMany(ns) ==
    Change(ManyCheck(ns), WithoutItems(ns),
           {WithoutItems({n \in ns : n > m}) : m \in {k \in ns : \E n \in ns : n > k}})

\* Calls that change nothing: get, find_first, lower_bound, and root_name on a transaction
Query(check) == tree # NoTree /\ Answers(check) /\ UNCHANGED store
GetItem(n) == Query(Within(n < tree.size, "OK"))
Search(v) == Query(TypeCheck(<<v>>))

RootName(x, i) ==
    /\ Open(x) /\ Answers(Within(i < Len(txn[x].reg.names), "OK")) /\ UNCHANGED store

--------------------------------------------------------------------------------
\* The cursor: positions are size_t, and NPos + 1 is 0
MoveTo(pos, dir, seen) ==
    /\ cursor' = [pos |-> pos, dir |-> dir, seen |-> seen]
    /\ UNCHANGED <<committed, heap, txn, tree, rawRef, released, status>>

Valid(pos) == pos < tree.size
Value(pos) == IF Valid(pos) THEN <<ItemsOf[pos + 1]>> ELSE <<>>

CursorFirst == client.scan /\ tree # NoTree /\ MoveTo(0, "forth", Value(0))

LastPos(n) == IF n = 0 THEN 0 ELSE n - 1

CursorLast == client.scan /\ tree # NoTree /\ MoveTo(LastPos(tree.size), "back", Value(LastPos(tree.size)))

\* A caller scans while llbt_cursor_valid
CursorNext ==
    /\ cursor.dir = "forth" /\ Valid(cursor.pos)
    /\ MoveTo((cursor.pos + 1) % (NoPosition + 1), "forth", cursor.seen \o Value(cursor.pos + 1))

PrevPos(pos) == IF pos = 0 THEN NoPosition ELSE pos - 1

CursorPrev ==
    /\ cursor.dir = "back" /\ Valid(cursor.pos)
    /\ MoveTo(PrevPos(cursor.pos), "back", cursor.seen \o Value(PrevPos(cursor.pos)))

Calling ==
    \/ \E x \in Txns :
        \/ Commit(x) \/ Abort(x) \/ BuildRaw(x) \/ \E i \in {0, 1} : RootName(x, i)
        \/ \E name \in client.names :
            EraseRoot(x, name) \/ SetRoot(x, name) \/ \E v \in client.values : TreeOpen(x, name, v.type)
    \/ NestedBegin \/ TreeDestroy
    \/ tree # NoTree /\
        (\/ \E v \in client.values : Search(v) \/ Add(v) \/ \E w \in client.values : AddRange(<<v, w>>)
         \/ \E n \in 0..(tree.size + 1) : GetItem(n) \/ Erase(n) \/ \E v \in client.values : Insert(n, v) \/ Set(n, v)
         \/ \E ns \in {{0, 1}, {0, 2}} : EraseMany(ns) \/ \E v \in client.values : SetMany(ns, v)
         \/ Clear \/ CursorFirst \/ CursorLast \/ CursorNext \/ CursorPrev)

SANext ==
    /\ \/ Calling /\ UNCHANGED callback
       \/ \E x \in DOMAIN client.modes : \E mode \in client.modes[x] : Begin(x, mode)
       \/ \E x \in Txns, s \in {"OK", "UNKNOWN"} : CallbackReturns(x, s)
    /\ UNCHANGED client

SASpec == SAInit /\ [][SANext]_apiVars

--------------------------------------------------------------------------------
Registries == {committed} \cup {txn[x].reg : x \in {y \in Txns : Open(y)}}

\* In the newest version and in every open transaction the three arrays of the
\* registry describe the same roots: one entry each per name, structures that are
\* distinct and allocated, each of the type its tag says, and a handle counts the
\* values its leaf holds.  A call that broke off is the only thing that changes this.
RegistryAligned ==
    /\ \A reg \in Registries : Whole(reg) =>
        /\ Parallel(reg)
        /\ \A i, j \in DOMAIN reg.names : i # j => reg.names[i] # reg.names[j] /\ reg.roots[i] # reg.roots[j]
        /\ \A i \in DOMAIN reg.names : reg.roots[i] # 0 /\ heap[reg.roots[i]].type = reg.types[i]
    /\ tree # NoTree /\ Whole(txn[tree.tx].reg) => tree.size = Len(ItemsOf)

\* Every allocated structure is a root of the newest version, of an open transaction, or
\* the one a writer is building, also behind a call that broke off; and the writer
\* reaches nothing that it has freed.
NothingLost ==
    /\ \A r \in Refs : heap[r] # Unused => r = rawRef \/ \E reg \in Registries : r \in Roots(reg)
    /\ \A x \in Writer : Whole(txn[x].reg) =>
        /\ released \cap Roots(txn[x].reg) = {}
        /\ \A r \in Roots(committed) : r \in released \/ r \in Roots(txn[x].reg)

\* What a registry shows under a name
Shown(reg, h, name) ==
    {IF i > Len(reg.roots) \/ i > Len(reg.types) THEN <<"incomplete", <<>>>>
     ELSE <<reg.types[i], IF reg.roots[i] = 0 THEN <<>> ELSE h[reg.roots[i]].items>> : i \in Find(reg, name)}

Names == UNION {c.names : c \in Clients}

\* The newest version changes in one step only, the commit of a write transaction that answers
\* LLBT_OK, and then shows under every name what the transaction showed: "Any other status fails
\* THIS entry alone - its changes roll back", whatever calls of the transaction broke off half way.
\* Only a version committed with an entry left dangling has roots that change.
CommitsWhole ==
    [][\/ /\ committed' = committed
          /\ "dangling" \notin committed.torn => \A r \in Roots(committed) : heap'[r] = heap[r]
       \/ \E x \in Txns : /\ Writable(x) /\ txn'[x].mode = "none" /\ status' = "OK"
                          /\ \A name \in Names :
                                 Shown(committed', heap', name) = Shown(txn[x].reg, heap, name)]_apiVars

\* A call that fails and does not end its transaction changes nothing that any transaction shows,
\* unless it broke off half way in the writer; then the writer still shows every root but the one
\* of the call as before, unless it was between the parallel arrays of the registry, whose entries
\* behind the one of the call are then out of step.
FailureContained ==
    [][status' # "OK" /\ (\A x \in Txns : Open(x) => txn'[x].mode # "none") =>
        \A x \in Txns : Open(x) =>
            \/ \A name \in Names : Shown(txn'[x].reg, heap', name) = Shown(txn[x].reg, heap, name)
            \/ /\ Writable(x) /\ ~Whole(txn'[x].reg)
               /\ Parallel(txn'[x].reg) =>
                  \E own \in Names : \A name \in Names \ {own} :
                         Shown(txn'[x].reg, heap', name) = Shown(txn[x].reg, heap, name)]_apiVars

\* "readers are wait-free snapshots": what a read transaction sees under its roots is
\* the same from its first step to its last.
SnapshotsStable ==
    [][\A x \in Txns : txn[x].mode = "read" /\ txn'[x].mode = "read" =>
        /\ txn'[x].reg = txn[x].reg
        /\ \A r \in Roots(txn[x].reg) : heap'[r] = heap[r]]_apiVars

\* "the txn belongs to the batch, so llbt_txn_commit / llbt_txn_abort on it are rejected":
\* the transaction a callback was given is open, and the only writer, until it returns.
CallbackKeepsTxn == \A x \in callback : txn[x].mode = "borrowed" /\ Writer = {x}

\* A scan with first and next, or last and prev, while the cursor is valid, gives every
\* value once, in order, and ends: prev at 0 goes to LLBT_NPOS, which is not a position.
ScanSeesEachOnce ==
    cursor # NoCursor =>
        LET shown == SubSeq(ItemsOf, 1, tree.size)
            whole == IF cursor.dir = "forth" THEN shown ELSE Reverse(shown)
        IN  IsPrefix(cursor.seen, whole) /\ (~Valid(cursor.pos) => cursor.seen = whole)

\* The roots of every transaction are consistent and complete, versions change by
\* whole commits, a call that fails or breaks off reaches no other root, transaction
\* or version, read transactions see one snapshot, callbacks keep their transaction
\* and scans see every value once.
FacadeSound ==
    /\ [](RegistryAligned /\ NothingLost /\ CallbackKeepsTxn /\ ScanSeesEachOnce)
    /\ CommitsWhole
    /\ FailureContained
    /\ SnapshotsStable
=============================================================================

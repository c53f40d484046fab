----------------------------- MODULE TypedLeaves -----------------------------
(***************************************************************************)
(* The leaves of a B+tree that hold typed elements which may be null, each *)
(* with its own way to say so:                                             *)
(*   int     ArrayIntNull: slot 0 of the array holds an integer that means *)
(*           null and changes whenever an element collides with it;        *)
(*   time    ArrayTimestamp: such an array of seconds beside a plain array *)
(*           of nanoseconds;                                               *)
(*   bytes   ArrayFixedBytesNull: blocks of cells behind a byte of null    *)
(*           bits;                                                         *)
(*   dec     ArrayDecimal128: cells of 0, 4, 8 or 16 bytes, the cells of   *)
(*           width 0 all zero or all null as the context flag says;        *)
(*   float   BasicArrayNull: one NaN pattern means null.                   *)
(* Two leaves of one kind are edited together, since a split moves the     *)
(* tail of one to the other.  held is what a reader should find in them.   *)
(* An element is a tuple: <<>> is null.                                    *)
(***************************************************************************)
EXTENDS Integers, Sequences, FiniteSets

CONSTANTS LeafKinds,    \* the kinds of leaves explored
          LeafRoom,     \* elements the two leaves hold together at most
          BlockCells,   \* cells behind one byte of null bits, 8 in the code
          CellBytes,    \* bytes of a fixed size cell, 12 or 16 in the code
          Ints,         \* the integers and seconds stored
          Nanos,        \* the nanoseconds stored
          Decimals      \* the decimals stored, names of DecNumber

VARIABLES kind,         \* what both leaves hold
          leaves,       \* the two leaves as they are represented
          held,         \* the elements they should hold
          strayed       \* leaves of width 0 have met whose cells differ in meaning

tlVars == <<kind, leaves, held, strayed>>

NullElem == <<>>

NotFound == -1

Spliced(s, n, x) == SubSeq(s, 1, n) \o <<x>> \o SubSeq(s, n + 1, Len(s))

WithoutElem(s, n) == SubSeq(s, 1, n) \o SubSeq(s, n + 2, Len(s))

Wider(a, b) == IF a > b THEN a ELSE b

(***************************************************************************)
(* Integers.  The widths are numbered; those of the code are 0, 1, 2, 4,   *)
(* 8, 16, 32 and 64 bits, and the last is the one where any integer may    *)
(* have to stand for null.                                                 *)
(***************************************************************************)
IntLow == <<0, 0, -4, -8>>

IntHigh == <<0, 1, 3, 7>>

TopWidth == Len(IntHigh)

IntWidth(v) == CHOOSE w \in 1..TopWidth :
                  /\ v \in IntLow[w]..IntHigh[w]
                  /\ \A u \in 1..(w - 1) : v \notin IntLow[u]..IntHigh[u]

EmptyInts == [slots |-> <<0>>, width |-> 1]

null_value(a) == a.slots[1]

IntSize(a) == Len(a.slots) - 1

IntGet(a, n) == IF a.slots[n + 2] = null_value(a) THEN NullElem ELSE <<a.slots[n + 2]>>

\* choose_random_null starts from the address of a local variable and adds a
\* number of 32 bits, so that what it tries needs all the bits there are.
RandomNulls(a, incoming) ==
    {c \in (IntHigh[TopWidth - 1] + 1)..IntHigh[TopWidth] :
        c # incoming /\ (c = null_value(a) \/ \A i \in DOMAIN a.slots : a.slots[i] # c)}

NullsReplaced(a, n) ==
    [slots |-> [i \in DOMAIN a.slots |->
                  IF a.slots[i] = null_value(a) THEN n ELSE a.slots[i]],
     width |-> Wider(a.width, IntWidth(n))]

\* The width whose upper bound is to stand for null once v is stored.
NullWidth(v) ==
    IF IntWidth(v) < TopWidth /\ v = IntHigh[IntWidth(v)]
    THEN IntWidth(v) + 1 ELSE IntWidth(v)

\* The leaf with a null that v does not collide with: any of these.
NullAvoids(a, v) ==
    IF a.width = TopWidth
    THEN IF v = null_value(a)
         THEN {NullsReplaced(a, c) : c \in RandomNulls(a, v)} ELSE {a}
    ELSE IF v \in IntLow[a.width]..(IntHigh[a.width] - 1) THEN {a}
    ELSE IF NullWidth(v) = TopWidth
         THEN {NullsReplaced(a, c) : c \in RandomNulls(a, v)}
    ELSE {NullsReplaced(a, IntHigh[NullWidth(v)])}

Slotted(a, slots, v) == [slots |-> slots, width |-> Wider(a.width, IntWidth(v))]

\* A bug to be caught: an element written without looking for a collision.
IntInsertBlind(a, n, e) ==
    LET v == IF e = NullElem THEN null_value(a) ELSE e[1]
    IN  {Slotted(a, Spliced(a.slots, n + 1, v), v)}

IntInsert(a, n, e) ==
    IF e = NullElem
    THEN {Slotted(a, Spliced(a.slots, n + 1, null_value(a)), null_value(a))}
    ELSE {Slotted(b, Spliced(b.slots, n + 1, e[1]), e[1]) : b \in NullAvoids(a, e[1])}

IntSet(a, n, e) ==
    IF e = NullElem
    THEN {[a EXCEPT !.slots[n + 2] = null_value(a)]}
    ELSE {Slotted(b, [b.slots EXCEPT ![n + 2] = e[1]], e[1]) : b \in NullAvoids(a, e[1])}

IntErase(a, n) == [a EXCEPT !.slots = WithoutElem(@, n + 1)]

RECURSIVE IntAppend(_, _)
IntAppend(dst, es) ==
    IF es = <<>> THEN {dst}
    ELSE UNION {IntAppend(b, Tail(es)) : b \in IntInsert(dst, IntSize(dst), Head(es))}

\* The leaves a move from position n on may leave.
IntMove(a, dst, n) ==
    {<<[a EXCEPT !.slots = SubSeq(@, 1, n + 1)], b>> :
        b \in IntAppend(dst, [i \in 1..(IntSize(a) - n) |-> IntGet(a, n + i - 1)])}

Conditions == {"==", "!=", "<", "<=", ">", ">="}

\* The conditions of query_conditions.hpp on values and their null marks.
Holds(c, v1, v2, null1, null2) ==
    CASE c = "==" -> (null1 /\ null2) \/ (~null1 /\ ~null2 /\ v1 = v2)
      [] c = "!=" -> IF null1 \/ null2 THEN ~(null1 /\ null2) ELSE v1 # v2
      [] c = "<"  -> ~null1 /\ ~null2 /\ v1 < v2
      [] c = ">"  -> ~null1 /\ ~null2 /\ v1 > v2
      [] c = "<=" -> (null1 /\ null2) \/ (~null1 /\ ~null2 /\ v1 <= v2)
      [] c = ">=" -> (null1 /\ null2) \/ (~null1 /\ ~null2 /\ v1 >= v2)

FirstIn(from, to, Test(_)) ==
    IF \E i \in from..(to - 1) : Test(i)
    THEN CHOOSE i \in from..(to - 1) : Test(i) /\ \A j \in from..(i - 1) : ~Test(j)
    ELSE NotFound

IntFind(c, a, e, from, to) ==
    LET null == null_value(a)
        v == IF e = NullElem THEN null ELSE e[1]
    IN  IF to - from = 1
        THEN LET got == IntGet(a, from)
             IN  IF Holds(c, IF got = NullElem THEN 0 ELSE got[1], v,
                          got = NullElem, e = NullElem)
                 THEN from ELSE NotFound
        ELSE IF c = "=="
        THEN IF e # NullElem /\ v = null THEN NotFound
             ELSE FirstIn(from, to, LAMBDA i : a.slots[i + 2] = v)
        ELSE FirstIn(from, to, LAMBDA i :
                Holds(c, a.slots[i + 2], v, a.slots[i + 2] = null, e = NullElem))

IntFindRange(a, low, high, from, to) ==
    IF IntHigh[a.width] >= low /\ IntLow[a.width] <= high
    THEN FirstIn(from, to, LAMBDA i :
            IntGet(a, i) # NullElem /\ IntGet(a, i)[1] \in low..high)
    ELSE NotFound

(***************************************************************************)
(* Timestamps.                                                             *)
(***************************************************************************)
EmptyTimes == [secs |-> EmptyInts, nanos |-> <<>>]

Second(e) == IF e = NullElem THEN NullElem ELSE <<e[1]>>

TimeGet(a, n) ==
    IF IntGet(a.secs, n) = NullElem THEN NullElem
    ELSE <<IntGet(a.secs, n)[1], a.nanos[n + 1]>>

TimeInsert(a, n, e) ==
    {[secs |-> s, nanos |-> Spliced(a.nanos, n, IF e = NullElem THEN 0 ELSE e[2])] :
        s \in IntInsert(a.secs, n, Second(e))}

\* The nanoseconds of an element set to null are left as they are.
TimeSet(a, n, e) ==
    {[secs |-> s, nanos |-> IF e = NullElem THEN a.nanos
                            ELSE [a.nanos EXCEPT ![n + 1] = e[2]]] :
        s \in IntSet(a.secs, n, Second(e))}

TimeErase(a, n) == [secs |-> IntErase(a.secs, n), nanos |-> WithoutElem(a.nanos, n)]

TimeMove(a, dst, n) ==
    {<<[secs |-> s[1], nanos |-> SubSeq(a.nanos, 1, n)],
       [secs |-> s[2], nanos |-> dst.nanos \o SubSeq(a.nanos, n + 1, Len(a.nanos))]>> :
        s \in IntMove(a.secs, dst.secs, n)}

\* The search of the seconds that a search of timestamps starts with.
SecondsCondition(c) == CASE c = ">" -> ">=" [] c = "<" -> "<=" [] OTHER -> c

\* The seconds settle the comparison, or the nanoseconds do.
TimeSettled(c, a, e, i) ==
    \/ c \in {"<", "<=", ">", ">="} /\ IntGet(a.secs, i)[1] # e[1]
    \/ Holds(c, a.nanos[i + 1], e[2], FALSE, FALSE)

RECURSIVE TimeFind(_, _, _, _, _)
TimeFind(c, a, e, from, to) ==
    IF e = NullElem
    THEN IF c \in {"<", ">"} THEN NotFound
         ELSE IntFind(IF c = "!=" THEN "!=" ELSE "==", a.secs, e, from, to)
    ELSE IF from >= to THEN NotFound
    ELSE IF c = "!="
    THEN FirstIn(from, to, LAMBDA i :
            IntGet(a.secs, i) # Second(e) \/ a.nanos[i + 1] # e[2])
    ELSE LET at == IntFind(SecondsCondition(c), a.secs, Second(e), from, to)
         IN  IF at = NotFound \/ TimeSettled(c, a, e, at) THEN at
             ELSE TimeFind(c, a, e, at + 1, to)

InRange(low, high, sec, nano) ==
    /\ low[1] < sec \/ low[2] <= nano
    /\ high[1] > sec \/ nano <= high[2]

RECURSIVE TimeFindRange(_, _, _, _, _)
TimeFindRange(a, low, high, from, to) ==
    IF from >= to THEN NotFound
    ELSE LET at == IntFindRange(a.secs, low[1], high[1], from, to)
         IN  IF at = NotFound THEN NotFound
             ELSE IF InRange(low, high, IntGet(a.secs, at)[1], a.nanos[at + 1]) THEN at
             ELSE TimeFindRange(a, low, high, at + 1, to)

(***************************************************************************)
(* Fixed size cells.  The cells and the null bits are functions of the     *)
(* whole memory of the node, so that what lies beyond the size shows.      *)
(***************************************************************************)
Cells == 0..(LeafRoom + BlockCells)

RoundUp(n, d) == (n + d - 1) \div d

BlockBytes == BlockCells * CellBytes + 1

calc_required_bytes(n) == n * CellBytes + RoundUp(n, BlockCells)

ByteSize(a) == (a.bytes - RoundUp(a.bytes, BlockBytes)) \div CellBytes

\* Memory of a node not yet used holds anything; set bits are the worst.
EmptyBytes(garbage) ==
    [bytes |-> 0, bit |-> [i \in Cells |-> garbage], cell |-> [i \in Cells |-> 0]]

SameBlock(i, j) == i \div BlockCells = j \div BlockCells

\* The null bits with those of the block of cell i cleared.
Cleared(bit, i) == [j \in Cells |-> bit[j] /\ ~SameBlock(i, j)]

ByteGet(a, n) == IF a.bit[n] THEN NullElem ELSE <<a.cell[n]>>

ByteWrite(a, n, e) ==
    [a EXCEPT !.cell[n] = IF e = NullElem THEN 9 ELSE e[1],
              !.bit[n] = (e = NullElem)]

ByteInsert(a, n, e) ==
    LET size == ByteSize(a)
        clean == IF size % BlockCells = 0 THEN Cleared(a.bit, size) ELSE a.bit
        up(f) == [j \in Cells |-> IF j \in (n + 1)..size THEN f[j - 1] ELSE f[j]]
    IN  ByteWrite([bytes |-> calc_required_bytes(size + 1),
                   bit |-> up(clean), cell |-> up(a.cell)], n, e)

ByteErase(a, n) ==
    LET last == ByteSize(a) - 1
        down(f) == [j \in Cells |-> IF j \in n..(last - 1) THEN f[j + 1] ELSE f[j]]
    IN  [bytes |-> calc_required_bytes(last), bit |-> down(a.bit), cell |-> down(a.cell)]

\* The destination's null bits before n cells are appended to its old ones.
MoveClears(dst, old, n) ==
    IF old = 0 \/ ~SameBlock(old - 1, old + n - 1)
    THEN Cleared(dst.bit, old + n - 1) ELSE dst.bit

ByteMove(a, dst, n) ==
    LET old == ByteSize(dst)
        count == ByteSize(a) - n
        over(f, g) == [j \in Cells |->
                          IF j \in old..(old + count - 1) THEN g[n + j - old] ELSE f[j]]
    IN  <<[a EXCEPT !.bytes = calc_required_bytes(n)],
          [bytes |-> calc_required_bytes(old + count),
           bit |-> over(MoveClears(dst, old, count), a.bit),
           cell |-> over(dst.cell, a.cell)]>>

NullBitFound(at, to) == IF at >= to THEN NotFound ELSE at

\* The bit vectors are looked at a block at a time.
RECURSIVE find_first_null(_, _, _)
find_first_null(a, from, to) ==
    IF from >= to THEN NotFound
    ELSE LET ends == (from \div BlockCells + 1) * BlockCells
             at == FirstIn(from, ends, LAMBDA i : a.bit[i])
         IN  IF at # NotFound THEN NullBitFound(at, to) ELSE find_first_null(a, ends, to)

ByteFind(a, e, from, to) ==
    IF e = NullElem THEN find_first_null(a, from, to)
    ELSE FirstIn(from, to, LAMBDA i : ~a.bit[i] /\ a.cell[i] = e[1])

(***************************************************************************)
(* Decimals, told apart by the number they are and by the bytes their      *)
(* digits and exponent need.  zeroE is a zero with an exponent, and        *)
(* smallLong the number small written with more digits than four bytes     *)
(* hold.                                                                   *)
(***************************************************************************)
DecNumber == [zero |-> 0, zeroE |-> 0, small |-> 1, smallLong |-> 1,
              large |-> 2]

DecBytes == [zero |-> 4, zeroE |-> 4, small |-> 4, smallLong |-> 8,
             large |-> 16]

DecSame(d, e) ==
    IF d = NullElem \/ e = NullElem THEN d = e ELSE DecNumber[d[1]] = DecNumber[e[1]]

min_width(e, zero_width_is_zero) ==
    IF e = NullElem THEN (IF zero_width_is_zero THEN 4 ELSE 0)
    ELSE IF e[1] = "zero" /\ zero_width_is_zero THEN 0
    ELSE DecBytes[e[1]]

EmptyDecs == [width |-> 0, zero |-> FALSE, data |-> <<>>]

DecFill(a) == IF a.zero THEN <<"zero">> ELSE NullElem

DecGet(a, n) == IF a.width = 0 THEN DecFill(a) ELSE a.data[n + 1]

\* upgrade_leaf.  From 8 bytes the only way is up to 16.
Upgraded(a, width) ==
    IF width <= a.width THEN a
    ELSE [a EXCEPT !.width = width,
                   !.data = IF a.width # 0 THEN @ ELSE [i \in DOMAIN @ |-> DecFill(a)]]

DecSet(a, n, e) ==
    LET b == Upgraded(a, min_width(e, a.zero))
    IN  IF b.width = 0 THEN b ELSE [b EXCEPT !.data[n + 1] = e]

DecInsert(a, n, e) ==
    LET meant == [a EXCEPT !.zero = @ \/ (a.data = <<>> /\ DecSame(e, <<"zero">>))]
        b == Upgraded(meant, min_width(e, meant.zero))
    IN  [b EXCEPT !.data = Spliced(@, n, e)]

DecErase(a, n) == [a EXCEPT !.data = WithoutElem(@, n)]

DecTruncate(a, n) ==
    [a EXCEPT !.data = SubSeq(@, 1, n), !.width = IF n = 0 THEN 0 ELSE @]

RECURSIVE DecAppend(_, _)
DecAppend(dst, es) ==
    IF es = <<>> THEN dst
    ELSE DecAppend(DecInsert(dst, Len(dst.data), Head(es)), Tail(es))

\* Cells of equal width are copied as they are, and an empty leaf takes the
\* width of the source but keeps its own context flag.
DecMove(a, dst, n) ==
    LET tail == SubSeq(a.data, n + 1, Len(a.data))
        up == Upgraded(dst, a.width)
    IN  <<DecTruncate(a, n),
          IF tail = <<>> THEN dst
          ELSE IF a.width >= dst.width THEN [up EXCEPT !.data = @ \o tail]
          ELSE DecAppend(dst, [i \in DOMAIN tail |-> DecGet(a, n + i - 1)])>>

DecFind(a, e, from, to) ==
    CASE a.width = 0 -> IF DecSame(e, DecFill(a)) THEN 0 ELSE NotFound
      [] a.width \in {4, 8} /\ min_width(e, a.zero) > a.width -> NotFound
      [] OTHER -> FirstIn(from, to, LAMBDA i : DecSame(a.data[i + 1], e))

(***************************************************************************)
(* Floating point.  null is one of the NaN patterns.                       *)
(***************************************************************************)
FloatEqual(x, y) ==
    x \notin {"nan", "null"} /\ (x = y \/ {x, y} = {"zero", "minusZero"})

FloatGet(a, n) == IF a[n + 1] = "null" THEN NullElem ELSE <<a[n + 1]>>

FloatPattern(e) == IF e = NullElem THEN "null" ELSE e[1]

FloatSet(a, n, e) ==
    IF FloatEqual(a[n + 1], FloatPattern(e)) THEN a
    ELSE [a EXCEPT ![n + 1] = FloatPattern(e)]

FloatFind(a, e, from, to) ==
    IF e = NullElem THEN FirstIn(from, to, LAMBDA i : a[i + 1] = "null")
    ELSE FirstIn(from, to, LAMBDA i : FloatEqual(a[i + 1], e[1]))

(***************************************************************************)
(* The two leaves.                                                         *)
(***************************************************************************)
Elems(k) ==
    CASE k = "int" -> {NullElem} \cup {<<v>> : v \in Ints}
      [] k = "time" -> {NullElem} \cup {<<v, n>> : v \in {0, 1}, n \in Nanos}
      [] k = "bytes" -> {NullElem, <<1>>, <<9>>}
      [] k = "dec" -> {NullElem} \cup {<<d>> : d \in Decimals}
      [] k = "float" -> {NullElem, <<"zero">>, <<"minusZero">>, <<"one">>, <<"nan">>}

Size(a) ==
    CASE kind = "int" -> IntSize(a)
      [] kind = "time" -> IntSize(a.secs)
      [] kind = "bytes" -> ByteSize(a)
      [] kind = "dec" -> Len(a.data)
      [] kind = "float" -> Len(a)

ElemAt(a, n) ==
    CASE kind = "int" -> IntGet(a, n)
      [] kind = "time" -> TimeGet(a, n)
      [] kind = "bytes" -> ByteGet(a, n)
      [] kind = "dec" -> DecGet(a, n)
      [] kind = "float" -> FloatGet(a, n)

Empties(k) ==
    CASE k = "int" -> {EmptyInts}
      [] k = "time" -> {EmptyTimes}
      [] k = "bytes" -> {EmptyBytes(g) : g \in BOOLEAN}
      [] k = "dec" -> {EmptyDecs}
      [] k = "float" -> {<<>>}

TLInit == /\ kind \in LeafKinds
          /\ \E empty \in Empties(kind) : leaves = <<empty, empty>>
          /\ held = <<<<>>, <<>>>>
          /\ strayed = FALSE

LeafInsert(t, n, e) ==
    /\ Len(held[1]) + Len(held[2]) < LeafRoom
    /\ \E a \in CASE kind = "int" -> IntInsert(leaves[t], n, e)
                  [] kind = "time" -> TimeInsert(leaves[t], n, e)
                  [] kind = "bytes" -> {ByteInsert(leaves[t], n, e)}
                  [] kind = "dec" -> {DecInsert(leaves[t], n, e)}
                  [] kind = "float" -> {Spliced(leaves[t], n, FloatPattern(e))} :
          leaves' = [leaves EXCEPT ![t] = a]
    /\ held' = [held EXCEPT ![t] = Spliced(@, n, e)]
    /\ UNCHANGED <<kind, strayed>>

LeafSet(t, n, e) ==
    /\ \E a \in CASE kind = "int" -> IntSet(leaves[t], n, e)
                  [] kind = "time" -> TimeSet(leaves[t], n, e)
                  [] kind = "bytes" -> {ByteWrite(leaves[t], n, e)}
                  [] kind = "dec" -> {DecSet(leaves[t], n, e)}
                  [] kind = "float" -> {FloatSet(leaves[t], n, e)} :
          leaves' = [leaves EXCEPT ![t] = a]
    /\ held' = [held EXCEPT ![t][n + 1] = e]
    /\ UNCHANGED <<kind, strayed>>

LeafErase(t, n) ==
    /\ leaves' = [leaves EXCEPT ![t] =
                    CASE kind = "int" -> IntErase(@, n)
                      [] kind = "time" -> TimeErase(@, n)
                      [] kind = "bytes" -> ByteErase(@, n)
                      [] kind = "dec" -> DecErase(@, n)
                      [] kind = "float" -> WithoutElem(@, n)]
    /\ held' = [held EXCEPT ![t] = WithoutElem(@, n)]
    /\ UNCHANGED <<kind, strayed>>

\* Leaves of width 0 whose cells mean different elements.
CellsDiffer(a, b) == kind = "dec" /\ a.width = 0 /\ b.width = 0 /\ a.zero # b.zero

LeafMove(n) ==
    /\ \E p \in CASE kind = "int" -> IntMove(leaves[1], leaves[2], n)
                  [] kind = "time" -> TimeMove(leaves[1], leaves[2], n)
                  [] kind = "bytes" -> {ByteMove(leaves[1], leaves[2], n)}
                  [] kind = "dec" -> {DecMove(leaves[1], leaves[2], n)}
                  [] kind = "float" ->
                        {<<SubSeq(leaves[1], 1, n),
                           leaves[2] \o SubSeq(leaves[1], n + 1, Len(leaves[1]))>>} :
          leaves' = p
    /\ held' = <<SubSeq(held[1], 1, n), held[2] \o SubSeq(held[1], n + 1, Len(held[1]))>>
    /\ strayed' = (strayed \/ CellsDiffer(leaves[1], leaves[2]))
    /\ UNCHANGED kind

LeafClear(t) ==
    /\ leaves' = [leaves EXCEPT ![t] =
                    CASE kind = "int" -> EmptyInts
                      [] kind = "time" -> EmptyTimes
                      [] kind = "bytes" -> [@ EXCEPT !.bytes = 0]
                      [] kind = "dec" -> DecTruncate(@, 0)
                      [] kind = "float" -> <<>>]
    /\ held' = [held EXCEPT ![t] = <<>>]
    /\ UNCHANGED <<kind, strayed>>

TLNext ==
    \/ \E t \in 1..2, e \in Elems(kind) : \E n \in 0..Len(held[t]) : LeafInsert(t, n, e)
    \/ \E t \in 1..2, e \in Elems(kind) : \E n \in 0..(Len(held[t]) - 1) : LeafSet(t, n, e)
    \/ \E t \in 1..2 : \E n \in 0..(Len(held[t]) - 1) : LeafErase(t, n)
    \/ \E n \in 0..(Len(held[1]) - 1) : LeafMove(n)
    \/ \E t \in 1..2 : held[t] # <<>> /\ LeafClear(t)

TLSpec == TLInit /\ [][TLNext]_tlVars

(***************************************************************************)
(* Properties.                                                             *)
(***************************************************************************)
\* A float set to a zero of the other sign keeps the sign it had.
SameElem(d, e) ==
    d = e \/ (kind = "float" /\ {d, e} = {<<"zero">>, <<"minusZero">>})

\* Whether the two leaves read back as what was stored in them.
ReadBack ==
    \A t \in 1..2 : /\ Size(leaves[t]) = Len(held[t])
                    /\ \A n \in 1..Len(held[t]) : SameElem(ElemAt(leaves[t], n - 1), held[t][n])

\* Every typed leaf reads back exactly the elements and the nulls stored in it,
\* through collisions with the null integer, stale null bits, widened cells and
\* the split that moves a tail to a fresh leaf; until decimal leaves of width 0
\* that mean different elements have met.
LeavesHold == strayed \/ ReadBack

\* The comparison a search is for, on the elements themselves.
Compares(c, d, e) ==
    CASE kind \in {"bytes"} -> d = e
      [] kind = "dec" -> DecSame(d, e)
      [] kind = "float" -> IF d = NullElem \/ e = NullElem THEN d = e
                           ELSE FloatEqual(d[1], e[1])
      [] kind = "int" -> Holds(c, IF d = NullElem THEN 0 ELSE d[1],
                               IF e = NullElem THEN 0 ELSE e[1], d = NullElem, e = NullElem)
      [] kind = "time" -> LET rank(x) == IF x = NullElem THEN 0 ELSE x[1] * 10 + x[2]
                          IN  Holds(c, rank(d), rank(e), d = NullElem, e = NullElem)

LeafFind(c, a, e, from, to) ==
    CASE kind = "int" -> IntFind(c, a, e, from, to)
      [] kind = "time" -> TimeFind(c, a, e, from, to)
      [] kind = "bytes" -> ByteFind(a, e, from, to)
      [] kind = "dec" -> DecFind(a, e, from, to)
      [] kind = "float" -> FloatFind(a, e, from, to)

\* A decimal leaf of width 0 answers without looking at the range, and one of
\* 4 or 8 bytes gives up on a value whose digits need more.
SearchExact(a, e) ==
    kind = "dec" => a.width # 0 /\ (a.width = 16 \/ min_width(e, a.zero) <= a.width)

\* A search of a leaf for each condition and each part of it answers the first
\* element that satisfies the condition, nulls included, whatever integer, bit
\* or pattern stands for null at the time.
LeafFindsFirst ==
    strayed \/ \A from \in 0..Len(held[1]) : \A to \in from..Len(held[1]) :
        \A e \in Elems(kind), c \in IF kind \in {"int", "time"} THEN Conditions ELSE {"=="} :
            SearchExact(leaves[1], e) =>
                LeafFind(c, leaves[1], e, from, to) =
                    FirstIn(from, to, LAMBDA i : Compares(c, held[1][i + 1], e))

\* The search of a range of timestamps answers the first that lies in it.
RangeFindsFirst ==
    kind = "time" => \A low, high \in Elems(kind) \ {NullElem} :
        TimeFindRange(leaves[1], low, high, 0, Len(held[1])) =
            FirstIn(0, Len(held[1]), LAMBDA i :
                /\ held[1][i + 1] # NullElem
                /\ Compares(">=", held[1][i + 1], low)
                /\ Compares("<=", held[1][i + 1], high))

\* Typed leaves read back what was stored and their searches find the first
\* element that qualifies.
TypedSound == LeavesHold /\ LeafFindsFirst /\ RangeFindsFirst
=============================================================================

----------------------------- MODULE PackedArray -----------------------------
(***************************************************************************)
(* One array node, Array (signed, widths from zero bits) or ArrayUnsigned  *)
(* (unsigned, widths from eight bits): elements packed at the smallest     *)
(* width that holds them all, in memory whose capacity grows by doubling.  *)
(* A node of the committed file is read-only and is copied before the      *)
(* first change.  Memory that was just allocated holds junk.               *)
(*                                                                         *)
(* Sizes in bytes are scaled with the words: a header is one word long and *)
(* an aligned size a multiple of a word, as they are in the code.          *)
(***************************************************************************)
EXTENDS PackedWords

CONSTANTS
    InitialCapacity,    \* Node::initial_capacity, in bytes
    Slack,              \* room do_copy_on_write adds, in bytes (64 in the code)
    MaxCapacity,        \* max_array_payload_aligned, in bytes
    MaxElements,        \* bound on the elements of an array
    SignedValues, UnsignedValues, Diffs,    \* what is stored, what adjust adds
    Starts              \* elements an array may start with, and the calls to follow

VARIABLES
    arr,        \* [kind, ro, words, width, size, junk]
    other,      \* the array that Array::move moved elements to, or NoArray
    paCall,     \* the call made last, as in ElementList
    callsLeft   \* bound on the calls that are still to come

paVars == <<arr, other, paCall, callsLeft>>

WordBytes == WordBits \div 8

IsUnsigned(a) == a.kind = "ArrayUnsigned"

ValueAt(a, w, words, i) ==
    IF IsUnsigned(a) THEN Fetch(words, w, i) ELSE Signed(w, Fetch(words, w, i))

Get(a, i) == ValueAt(a, a.width, a.words, i)

Elements(a) == [i \in 1..a.size |-> Get(a, i - 1)]

LowerLimit(a) == IF IsUnsigned(a) THEN 0 ELSE lbound(a.width)

UpperLimit(a) == IF IsUnsigned(a) THEN 2^a.width - 1 ELSE ubound(a.width)

Fits(a, v) == LowerLimit(a) <= v /\ v <= UpperLimit(a)

bit_width(a, v) ==
    IF IsUnsigned(a) THEN (IF v < 2^8 THEN 8 ELSE 16)
    ELSE IF v \in 0..15
    THEN <<0, 1, 2, 2, 4, 4, 4, 4, 4, 4, 4, 4, 4, 4, 4, 4>>[v + 1]
    ELSE LET x == IF v < 0 THEN -v - 1 ELSE v
         IN IF x \div 2^7 # 0 THEN 16 ELSE 8

-----------------------------------------------------------------------------
(* Node: capacity and copy-on-write.                                       *)

Aligned(bytes) == ((bytes + WordBytes - 1) \div WordBytes) * WordBytes

Capacity(a) == WordBytes + WordBytes * Len(a.words)

calc_byte_len(n, w) == WordBytes + (n * w + 7) \div 8

\* Memory of the given capacity that starts with the given words.
Memory(words, bytes, junk) ==
    [i \in 1..((bytes - WordBytes) \div WordBytes) |->
        IF i <= Len(words) THEN words[i] ELSE junk]

do_copy_on_write(a, minimum) ==
    LET used == Aligned(calc_byte_len(a.size, a.width))
        bytes == Aligned(IF used > minimum THEN used ELSE minimum) + Slack
    IN [a EXCEPT !.ro = FALSE,
                 !.words = Memory(SubSeq(a.words, 1, (used - WordBytes) \div WordBytes),
                                  bytes, a.junk)]

copy_on_write(a) == IF a.ro THEN do_copy_on_write(a, 0) ELSE a

GrownCapacity(capacity, needed) ==
    LET doubled == IF capacity * 2 > MaxCapacity THEN MaxCapacity ELSE capacity * 2
    IN IF doubled < needed THEN Aligned(needed) ELSE doubled

Alloc(a, n, w) ==
    LET needed == calc_byte_len(n, w)
        b == IF a.ro THEN do_copy_on_write(a, needed) ELSE a
        words == IF Capacity(b) < needed
                 THEN Memory(b.words, GrownCapacity(Capacity(b), needed), b.junk)
                 ELSE b.words
    IN [b EXCEPT !.words = words, !.width = w, !.size = n]

-----------------------------------------------------------------------------
(* Moving elements inside the memory of a node.                            *)

\* From the last to the first, elements first..i-1 of width w become elements
\* of width v, `shift' places up.
RECURSIVE MoveUp(_, _, _, _, _, _, _)
MoveUp(a, words, w, v, i, first, shift) ==
    IF i = first THEN words
    ELSE MoveUp(a, Store(words, v, i - 1 + shift, ValueAt(a, w, words, i - 1)),
                w, v, i - 1, first, shift)

\* From the first to the last, elements i..end-1 go to position `to'.
RECURSIVE MoveDown(_, _, _, _, _)
MoveDown(words, w, i, end, to) ==
    IF i >= end THEN words
    ELSE MoveDown(Store(words, w, to, Fetch(words, w, i)), w, i + 1, end, to + 1)

\* Mutant: the words above the first are shifted from the lowest up.
GapFromBelow(words, k, first, w) ==
    [j \in DOMAIN words |->
        IF j - 1 \in (first + 1)..k
        THEN (words[j] * 2^w) % 2^WordBits ELSE words[j]]

\* The words first+1..k, shifted by w bits, each taking in the top of the one below.
GapAbove(words, k, first, w) ==
    [j \in DOMAIN words |->
        IF j - 1 \in (first + 1)..k
        THEN ((words[j] * 2^w) % 2^WordBits) + words[j - 1] \div 2^(WordBits - w)
        ELSE words[j]]

open_bit_gap(words, used, pos, w) ==
    LET first == pos \div WordBits
        shifted == GapAbove(words, (used + w - 1) \div WordBits, first, w)
        word == words[first + 1]
        keep == 2^(pos % WordBits)
    IN [shifted EXCEPT ![first + 1] =
            (word % keep) + (((word - (word % keep)) * 2^w) % 2^WordBits)]

Widened(a, v) ==
    LET b == Alloc(a, a.size, bit_width(a, v))
    IN [b EXCEPT !.words = MoveUp(b, b.words, a.width, b.width, b.size, 0, 0)]

ensure_minimum_width(a, v) == IF Fits(a, v) THEN a ELSE Widened(a, v)

-----------------------------------------------------------------------------
(* Operations: the array each one leaves.                                  *)

Inserted(a, n, v) ==
    LET expand == ~Fits(a, v)
        w == IF expand THEN bit_width(a, v) ELSE a.width
        b == Alloc(IF IsUnsigned(a) THEN copy_on_write(a) ELSE a, a.size + 1, w)
        above == IF ~expand /\ w < 8
                 THEN IF w = 0 \/ n = a.size THEN b.words
                      ELSE open_bit_gap(b.words, a.size * w, n * w, w)
                 ELSE MoveUp(b, b.words, a.width, w, a.size, n, 1)
        placed == Store(above, w, n, v)
    IN [b EXCEPT !.words = IF expand THEN MoveUp(b, placed, a.width, w, n, 0, 0) ELSE placed]

Written(a, n, v) ==
    IF ~IsUnsigned(a) /\ Get(a, n) = v THEN a
    ELSE LET c == ensure_minimum_width(copy_on_write(a), v)
         IN [c EXCEPT !.words = Store(c.words, c.width, n, v)]

\* Array::erase moves the elements behind the range, then corrects the size.
Erased(a, begin, end) ==
    IF begin = end THEN a
    ELSE LET b == copy_on_write(a)
         IN [b EXCEPT !.words = MoveDown(b.words, b.width, end, b.size, begin),
                      !.size = b.size - (end - begin)]

\* ArrayUnsigned sets its size first, so that a copy takes no more than is kept.
Truncated(a, n) ==
    IF ~IsUnsigned(a) /\ n = a.size THEN a
    ELSE LET b == copy_on_write(IF IsUnsigned(a) THEN [a EXCEPT !.size = n] ELSE a)
         IN [b EXCEPT !.size = n,
                      !.width = IF n = 0 THEN (IF IsUnsigned(a) THEN 8 ELSE 0) ELSE @]

RECURSIVE WriteEach(_, _, _, _)
WriteEach(a, i, end, diff) ==
    IF i = end THEN a
    ELSE LET v == Get(a, i) + diff
         IN WriteEach(Written(a, i, IF IsUnsigned(a) THEN v % 2^WordBits ELSE v), i + 1, end, diff)

\* An unsigned value below zero wraps around and needs the largest width.
StillFits(a, v) == Fits(a, v)

RECURSIVE AddEach(_, _, _, _)
AddEach(a, i, end, diff) ==
    IF i = end THEN a
    ELSE AddEach([a EXCEPT !.words = Store(@, a.width, i, Get(a, i) + diff)], i + 1, end, diff)

Adjusted(a, begin, end, diff) ==
    IF diff = 0 \/ begin >= end THEN a
    ELSE IF \A i \in begin..(end - 1) : StillFits(a, Get(a, i) + diff)
    THEN AddEach(copy_on_write(a), begin, end, diff)
    ELSE WriteEach(a, begin, end, diff)

\* Array::move(Array& dst, ndx): the destination, then this array.
RECURSIVE Appended(_, _, _, _)
Appended(dst, at, a, i) ==
    IF i = a.size THEN dst
    ELSE Appended([dst EXCEPT !.words = Store(@, dst.width, at, Get(a, i))], at + 1, a, i + 1)

\* The destination can take any element of a.
WideEnough(dst, a) == ensure_minimum_width(copy_on_write(dst), ubound(a.width))

MovedTo(dst, a, n) ==
    LET b == WideEnough(dst, a)
    IN Appended(Alloc(b, b.size + a.size - n, b.width), b.size, a, n)

-----------------------------------------------------------------------------
(* Reading: eight elements at a time, and bisection.                       *)

Least(x, y) == IF x < y THEN x ELSE y

\* get_chunk: whole bytes as far as they are filled, then element by element.
GetChunk(a, n) ==
    LET w == a.width
        perByte == 8 \div w
        start == n \div perByte
        end == Least(a.size \div perByte, (n + 8 + perByte - 1) \div perByte)
        fromBytes == IF w \in {1, 2, 4} /\ end > start THEN Least(8, end * perByte - n) ELSE 0
    IN [i \in 0..7 |->
           IF i < fromBytes
           THEN \* the byte of element n + i, counted from the first byte read
                LET bit == (n - start * perByte + i) * w
                IN (Fetch(a.words, 8, start + bit \div 8) \div 2^(bit % 8)) % 2^w
           ELSE IF n + i < a.size THEN Get(a, n + i) ELSE 0]

\* The next start of a range of n elements, whose probe is below the value.
OtherLow(low, n, below) == IF below THEN low + (n - n \div 2) ELSE low

RECURSIVE Bisect(_, _, _, _, _)
Bisect(a, low, n, v, orEqual) ==
    IF n = 0 THEN low
    ELSE LET x == Get(a, low + n \div 2)
         IN Bisect(a, OtherLow(low, n, x < v \/ (orEqual /\ x = v)), n \div 2, v, orEqual)

lower_bound(a, v) == Bisect(a, 0, a.size, v, FALSE)

upper_bound(a, v) == Bisect(a, 0, a.size, v, TRUE)

-----------------------------------------------------------------------------
(* Behaviour.                                                              *)

Values == IF IsUnsigned(arr) THEN UnsignedValues ELSE SignedValues

NewArray(kind, junk) ==
    [kind |-> kind, ro |-> FALSE, junk |-> junk, size |-> 0,
     width |-> IF kind = "ArrayUnsigned" THEN 8 ELSE 0,
     words |-> [i \in 1..(InitialCapacity \div WordBytes - 1) |-> junk]]

NoArray == NewArray("none", 0)

RECURSIVE Filled(_, _)
Filled(a, es) == IF es = <<>> THEN a ELSE Filled(Inserted(a, a.size, Head(es)), Tail(es))

NoCall == [op |-> "none", at |-> {}, elems |-> <<>>]

PAInit ==
    \E s \in Starts, junk \in {0, Ones} :
        /\ arr = [Filled(NewArray(s.kind, junk), s.elems) EXCEPT !.ro = s.ro]
        /\ callsLeft = s.calls
        /\ other = NoArray
        /\ paCall = NoCall

Does(a, op, at, elems) ==
    /\ callsLeft > 0
    /\ callsLeft' = callsLeft - 1
    /\ arr' = a
    /\ paCall' = [op |-> op, at |-> at, elems |-> elems]

InsertValue ==
    /\ arr.size < MaxElements
    /\ \E n \in 0..arr.size, v \in Values :
           /\ Does(Inserted(arr, n, v), "insert", {n}, <<v>>)
           /\ UNCHANGED other

SetValue ==
    \E n \in 0..(arr.size - 1), v \in Values :
        /\ Does(Written(arr, n, v), "set", {n}, <<v>>)
        /\ UNCHANGED other

EraseValues ==
    \E begin \in 0..(arr.size - 1), end \in 1..arr.size :
        /\ begin < end
        /\ IsUnsigned(arr) => end = begin + 1
        /\ Does(Erased(arr, begin, end), "erase", begin..(end - 1), <<>>)
        /\ UNCHANGED other

Truncate ==
    \E n \in 0..arr.size :
        /\ Does(Truncated(arr, n), "erase", n..(arr.size - 1), <<>>)
        /\ UNCHANGED other

\* The sums stay within the integers of the code, whose width is a word's.
Adjust ==
    \E begin \in 0..arr.size, end \in {arr.size}, diff \in Diffs :
        /\ begin < end
        /\ ~IsUnsigned(arr) =>
               \A i \in begin..(end - 1) : Get(arr, i) + diff \in lbound(WordBits)..ubound(WordBits)
        /\ Does(Adjusted(arr, begin, end, diff), "set", begin..(end - 1),
                [i \in 1..(end - begin) |->
                    LET v == Get(arr, begin + i - 1) + diff
                    IN IF IsUnsigned(arr) THEN v % 2^WordBits ELSE v])
        /\ UNCHANGED other

\* The second half of a node goes to another one, new or in the file already.
MoveToOther ==
    \E n \in 0..(arr.size - 1), ro \in BOOLEAN, es \in {<<>>, <<1>>} :
        LET dst == [Filled(NewArray("Array", arr.junk), es) EXCEPT !.ro = ro]
        IN /\ ~IsUnsigned(arr)
           /\ Does(Truncated(arr, n), "erase", n..(arr.size - 1), <<>>)
           /\ other' = MovedTo(dst, arr, n)

\* The node is written to the file: what it uses, and no more.
WriteShallow ==
    /\ ~arr.ro
    /\ Does([arr EXCEPT !.ro = TRUE,
                        !.words = SubSeq(@, 1, (Aligned(calc_byte_len(arr.size, arr.width))
                                                - WordBytes) \div WordBytes)],
            "none", {}, <<>>)
    /\ UNCHANGED other

\* The bound on the calls is reached.
PARest == callsLeft = 0 /\ UNCHANGED paVars

PANext ==
    \/ InsertValue \/ SetValue \/ EraseValues \/ Truncate \/ Adjust \/ MoveToOther
    \/ WriteShallow \/ PARest

PASpec == PAInit /\ [][PANext]_paVars

\* What the bits between the elements and the capacity hold is all that the
\* view leaves out.
PAView == <<arr, other, callsLeft>>

-----------------------------------------------------------------------------
(* Properties.                                                             *)

Contents == INSTANCE ElementList WITH list <- Elements(arr), call <- paCall, Elem <- Int

\* Every operation leaves the sequence of elements it should, whatever the
\* widths it went through, the junk in new memory, and whether the node had to
\* be copied first: no element is cut, sign-extended wrongly, lost or moved.
PAImplementsList == [][Contents!ListNext]_paVars

\* A node in the file is not changed until it has been copied; copying it is
\* the only way out of being read-only.
FileNodeKept == [][arr.ro /\ arr'.ro => arr' = arr]_paVars

\* The elements fit in the capacity, and the capacity in the header field.
WithinCapacity ==
    /\ calc_byte_len(arr.size, arr.width) <= Capacity(arr)
    /\ Capacity(arr) <= MaxCapacity
    /\ calc_byte_len(other.size, other.width) <= Capacity(other)

\* Array::move hands over exactly the elements it removes.
MovedIntact ==
    [][other' # other =>
           LET n == arr'.size
               got == Elements(other')
           IN SubSeq(got, Len(got) - (arr.size - n) + 1, Len(got))
              = SubSeq(Elements(arr), n + 1, arr.size)]_paVars

\* Reading eight at a time gives the elements and zeros behind the last one;
\* the bisections of a sorted array agree with the definition of the bounds.
ReadsAgree ==
    LET es == Elements(arr)
    IN /\ ~IsUnsigned(arr) /\ arr.width > 0 =>
              \A n \in 0..(arr.size - 1) :
                  GetChunk(arr, n) =
                      [i \in 0..7 |-> IF n + i < arr.size THEN es[n + i + 1] ELSE 0]
       /\ (\A i \in 1..(arr.size - 1) : es[i] <= es[i + 1]) =>
              \A v \in Values :
                  LET low == lower_bound(arr, v)
                      high == upper_bound(arr, v)
                  IN \A i \in 1..arr.size : /\ es[i] < v <=> i <= low
                                            /\ es[i] <= v <=> i <= high

\* A packed array is a sequence of integers through every width, stays within
\* its block, and never changes a node that is part of the file.
PackedSound ==
    /\ [](WithinCapacity /\ ReadsAgree)
    /\ PAImplementsList
    /\ FileNodeKept
    /\ MovedIntact
=============================================================================

---------------------------- MODULE ArrayWithFind ----------------------------
(***************************************************************************)
(* The searches of a packed integer array: ArrayWithFind (find_optimized   *)
(* and the word at a time comparisons below it), Array::sum and            *)
(* Array::count.  An array of elements of `width' bits is a sequence of    *)
(* memory words; the searches look at whole words wherever they can.       *)
(*                                                                         *)
(* The code's words have 64 bits and its elements 0, 1, 2, 4, .. 64; here  *)
(* a word has WordBits = 16 bits and an element up to 16.  Width 8 stands  *)
(* for the code's 8 and 16 (signed, searched word by word), width 16 for   *)
(* its 32 and 64 (signed, searched one by one).  The SSE registers of 128  *)
(* bits are two words here as they are there.                              *)
(***************************************************************************)
EXTENDS PackedWords, Bitwise

CONSTANTS
    Arrays(_),      \* the arrays to be searched, for a width
    SearchWidths    \* the widths of the arrays to be searched

VARIABLES
    array,          \* [width, words, size, odd]: odd = its data starts at an odd word
    query,          \* the last search: [op, value, from, to, limit]
    found           \* its answer

wfVars == <<array, query, found>>

NoQuery == [op |-> "none", value |-> 0, from |-> 0, to |-> 0, limit |-> 0]

-----------------------------------------------------------------------------
(* Words and fields.                                                       *)

Inv(x) == Ones - x

Minus(x, y) == (x - y) % 2^WordBits

lower_bits(w) == Ones \div (2^w - 1)

Upper(w) == lower_bits(w) * 2^(w - 1)

Element(a, i) == Signed(a.width, Fetch(a.words, a.width, i))

-----------------------------------------------------------------------------
(* Equal and NotEqual in a word that was xor-ed with the searched value:   *)
(* find its zero (eq) or its non-zero (~eq) elements.                      *)

test_zero(w, v) == ((Minus(v, lower_bits(w)) & Inv(v)) & Upper(w)) # 0

RECURSIVE Scan(_, _, _, _)
Scan(eq, w, v, start) ==
    IF eq = (Field(v, w, start) # 0) THEN Scan(eq, w, v, start + 1) ELSE start

\* The part of the word below `bits' holds no match.
NoneBelow(eq, w, v, bits) ==
    IF eq THEN ~test_zero(w, v | (Ones - (2^bits - 1))) ELSE v % 2^bits = 0

find_zero(eq, w, v) ==
    LET half == WordBits \div 2
        quarter == WordBits \div 4
        start ==
            IF w > 8 THEN 0
            ELSE IF NoneBelow(eq, w, v, half)
            THEN PerWord(w) \div 2
                 + (IF w <= 4 /\ NoneBelow(eq, w, v, half + quarter)
                    THEN PerWord(w) \div 4 ELSE 0)
            ELSE IF w <= 4 /\ NoneBelow(eq, w, v, quarter)
            THEN PerWord(w) \div 4 ELSE 0
    IN IF eq = (v % 2^w = 0) THEN 0 ELSE Scan(eq, w, v, start)

RECURSIVE EqualIn(_, _, _, _)
EqualIn(eq, w, v2, a) ==
    IF ~(IF eq THEN test_zero(w, v2) ELSE v2 # 0) THEN <<>>
    ELSE LET t == find_zero(eq, w, v2)
             shift == (t + 1) * w
         IN IF a + t >= PerWord(w) THEN <<>>
            ELSE <<a + t>> \o
                 EqualIn(eq, w, IF shift < WordBits THEN v2 \div 2^shift ELSE 0, a + t + 1)

-----------------------------------------------------------------------------
(* Greater and Less in a word.                                             *)

\* The table look-up of first_set_bit, on the lowest bit that is set.
DeBruijn == <<0, 1, 28, 2, 29, 14, 24, 3, 30, 22, 20, 15, 25, 17, 4, 8,
              31, 27, 13, 23, 21, 19, 16, 7, 26, 12, 18, 6, 11, 5, 10, 9>>

first_set_bit(v) ==
    LET k == CHOOSE i \in 0..WordBits :
                 v % 2^(i + 1) # 0 /\ \A j \in 0..(i - 1) : v % 2^(j + 1) = 0
        c == IF k <= 5 THEN 125613361 ELSE 125613361 % 2^(32 - k)   \* 0x077CB531
    IN DeBruijn[1 + c \div 2^(27 - k)]

find_gtlt_magic(gt, w, v) ==
    LET mask2 == (2^w - 1) \div 2
    IN (lower_bits(w) * (IF gt THEN mask2 - v ELSE v)) % 2^WordBits

RECURSIVE SetBits(_, _, _)
SetBits(w, m, p) ==
    IF m = 0 THEN <<>>
    ELSE LET t == first_set_bit(m) \div w
         IN <<p + t>> \o SetBits(w, IF (t + 1) * w = WordBits THEN 0
                                    ELSE m \div 2^((t + 1) * w), p + t + 1)

find_gtlt_fast(gt, w, chunk, magic) ==
    SetBits(w, IF gt THEN (((chunk + magic) % 2^WordBits) | chunk) & Upper(w)
               ELSE (Minus(chunk, magic) & Inv(chunk)) & Upper(w), 0)

find_gtlt(gt, w, v, chunk) ==
    SelectSeq([i \in 1..PerWord(w) |-> i - 1],
              LAMBDA i : LET x == Signed(w, Field(chunk, w, i))
                         IN IF gt THEN x > v ELSE x < v)

\* Mutant: the comparison of the value with its own magic constant is left out.
FastAlways(gt, w, value, magic) ==
    value >= 0 /\ w >= 2 /\ value <= (2^w - 1) \div 2 - (IF gt THEN 1 ELSE 0)

\* The condition for the bit tricks of find_gtlt_fast.
FastAllowed(gt, w, value, magic) ==
    /\ value # (magic & (2^w - 1))
    /\ value >= 0
    /\ w >= 2
    /\ value <= (2^w - 1) \div 2 - (IF gt THEN 1 ELSE 0)

RelationIn(gt, w, value, chunk) ==
    LET magic == find_gtlt_magic(gt, w, value)
    IN IF FastAllowed(gt, w, value, magic) /\ (Upper(w) & chunk) = 0
       THEN find_gtlt_fast(gt, w, chunk, magic)
       ELSE find_gtlt(gt, w, value, chunk)

-----------------------------------------------------------------------------
(* Searching a range: element by element up to the first word boundary,    *)
(* then by words, then element by element.                                 *)

Holds(cond, x, v) ==
    CASE cond = "Equal" -> x = v
      [] cond = "NotEqual" -> x # v
      [] cond = "Greater" -> x > v
      [] cond = "Less" -> x < v

Linear(a, cond, value, from, to) ==
    SelectSeq([k \in 1..(to - from) |-> from + k - 1],
              LAMBDA i : Holds(cond, Element(a, i), value))

ChunkMatches(cond, w, value, chunk) ==
    IF cond \in {"Equal", "NotEqual"}
    THEN EqualIn(cond = "Equal", w, chunk ^^ (lower_bits(w) * (value % 2^w)), 0)
    ELSE RelationIn(cond = "Greater", w, value, chunk)

Shifted(s, n) == [k \in DOMAIN s |-> s[k] + n]

\* The words from p on that end before byte e + sizeof(word), and the rest.
RECURSIVE ByWord(_, _, _, _, _, _)
ByWord(a, cond, value, p, e, to) ==
    LET w == a.width
    IN IF p * (WordBits \div 8) < e
       THEN Shifted(ChunkMatches(cond, w, value, a.words[p + 1]), p * PerWord(w))
            \o ByWord(a, cond, value, p + 1, e, to)
       ELSE Linear(a, cond, value, p * PerWord(w), to)

RoundUp(n, unit) == ((n + unit - 1) \div unit) * unit

\* compare_equality and compare_relation
compare(a, cond, value, from, to) ==
    LET w == a.width
        up == RoundUp(from, PerWord(w))
        ee == IF up > to THEN to ELSE up
        rest == IF w = WordBits THEN Linear(a, cond, value, ee, to)
                ELSE ByWord(a, cond, value, ee \div PerWord(w),
                            (to * w) \div 8 - WordBits \div 8, to)
    IN Linear(a, cond, value, from, ee) \o (IF ee >= to THEN <<>> ELSE rest)

-----------------------------------------------------------------------------
(* The SSE search of aligned blocks of two words; its result mask has one  *)
(* bit for each byte.                                                      *)

BlockBytes == 2 * (WordBits \div 8)

RECURSIVE MaskBits(_, _, _)
MaskBits(w, mask, s) ==
    IF mask = 0 THEN <<>>
    ELSE LET idx == (first_set_bit(mask) * 8) \div w
         IN <<s + idx>> \o MaskBits(w, mask \div 2^(((idx + 1) * w) \div 8), s + idx + 1)

RECURSIVE BlockMask(_, _, _, _, _)
BlockMask(a, cond, value, first, byte) ==
    IF byte = BlockBytes THEN 0
    ELSE LET x == Element(a, first + (byte * 8) \div a.width)
             bit == IF cond = "NotEqual" THEN x = value ELSE Holds(cond, x, value)
         IN (IF bit THEN 2^byte ELSE 0) + BlockMask(a, cond, value, first, byte + 1)

find_sse(a, cond, value, first) ==
    LET mask == BlockMask(a, cond, value, first, 0)
    IN MaskBits(a.width, IF cond = "NotEqual" THEN 2^BlockBytes - 1 - mask ELSE mask, first)

RECURSIVE Blocks(_, _, _, _, _)
Blocks(a, cond, value, first, end) ==
    IF first >= end THEN <<>>
    ELSE find_sse(a, cond, value, first)
         \o Blocks(a, cond, value, first + (BlockBytes * 8) \div a.width, end)

SseAllowed(a, cond, from, to) ==
    /\ ~(cond = "Less" /\ a.width = WordBits)
    /\ to - from >= BlockBytes
    /\ a.width >= 8

SearchBlocks(a, cond, value, from, to) ==
    LET w == a.width
        base == IF a.odd THEN WordBits \div 8 ELSE 0
        start == RoundUp(base + (from * w) \div 8, BlockBytes) - base
        end == ((base + (to * w) \div 8) \div BlockBytes) * BlockBytes - base
    IN compare(a, cond, value, from, (start * 8) \div w)
       \o Blocks(a, cond, value, (start * 8) \div w, (end * 8) \div w)
       \o compare(a, cond, value, (end * 8) \div w, to)

-----------------------------------------------------------------------------
(* find_optimized: what the width alone decides comes first.               *)

can_match(cond, v, lo, hi) ==
    CASE cond = "Equal" -> v >= lo /\ v <= hi
      [] cond = "NotEqual" -> ~(v = 0 /\ hi = 0 /\ lo = 0)
      [] cond = "Greater" -> hi > v
      [] cond = "Less" -> lo < v

will_match(cond, v, lo, hi) ==
    CASE cond = "Equal" -> v = 0 /\ hi = 0 /\ lo = 0
      [] cond = "NotEqual" -> v > hi \/ v < lo
      [] cond = "Greater" -> lo > v
      [] cond = "Less" -> hi < v

\* QueryStateBase::match refuses to go on once `limit' matches are counted.
Limited(s, limit) == SubSeq(s, 1, IF limit < Len(s) THEN limit ELSE Len(s))

find_optimized(a, cond, value, from, to, limit) ==
    LET lo == lbound(a.width)
        hi == ubound(a.width)
        stop == IF to - from > limit THEN from + limit ELSE to
    IN IF ~(a.size > from /\ from < to) \/ ~can_match(cond, value, lo, hi) THEN <<>>
       ELSE IF will_match(cond, value, lo, hi)
       THEN [k \in 1..(stop - from) |-> from + k - 1]
       ELSE Limited(IF SseAllowed(a, cond, from, to)
                    THEN SearchBlocks(a, cond, value, from, to)
                    ELSE compare(a, cond, value, from, to), limit)

-----------------------------------------------------------------------------
(* Array::sum and Array::count add up the fields of a word in place.       *)

\* The constants m1, m2, m4: every other field of 1, 2, 4 bits.
Every(w) == (Ones \div (2^(2 * w) - 1)) * (2^w - 1)

AddFields(a, w) == (a & Every(w)) + ((a \div 2^w) & Every(w))

\* (a * h01) >> 56: the sum of the bytes, in the top byte of the product.
SumBytes(a) == ((a * lower_bits(8)) % 2^WordBits) \div 2^(WordBits - 8)

WordSum(w, v) ==
    CASE w = 1 -> SumBytes(AddFields(AddFields(AddFields(v, 1), 2), 4))
      [] w = 2 -> SumBytes(AddFields(AddFields(v, 2), 4))
      [] w = 4 -> SumBytes(AddFields(v, 4))

RECURSIVE LinearSum(_, _, _)
LinearSum(a, from, to) ==
    IF from >= to THEN 0 ELSE Element(a, from) + LinearSum(a, from + 1, to)

RECURSIVE WordSums(_, _, _)
WordSums(a, p, n) == IF n = 0 THEN 0 ELSE WordSum(a.width, a.words[p]) + WordSums(a, p + 1, n - 1)

sum(a, from, to) ==
    LET w == a.width
        base == IF a.odd THEN WordBits ELSE 0
        \* the first element at a block boundary
        up == (RoundUp(base + from * w, 2 * WordBits) - base) \div w
        first == IF up > to THEN to ELSE up
        chunks == IF w > 4 THEN 0 ELSE ((to - first) * w) \div WordBits
    IN IF w = 0 \/ from = to THEN 0
       ELSE LinearSum(a, from, first)
            + WordSums(a, 1 + (first * w) \div WordBits, chunks)
            + LinearSum(a, first + PerWord(w) * chunks, to)

\* a |= (a >> n) & c, where c has the low w - n bits of every field
CascadeStep(a, w, n) == a | ((a \div 2^n) & (lower_bits(w) * (2^(w - n) - 1)))

\* One bit for each field that is not zero.
Cascade(a, w) ==
    LET b == IF w >= 2 THEN CascadeStep(a, w, 1) ELSE a
        c == IF w >= 4 THEN CascadeStep(b, w, 2) ELSE b
        d == IF w >= 8 THEN CascadeStep(c, w, 4) ELSE c
    IN d & lower_bits(w)

\* Population count of one bit for each field.
CountBits(a, w) ==
    CASE w = 1 -> SumBytes(AddFields(AddFields(AddFields(a, 1), 2), 4))
      [] w = 2 -> SumBytes(AddFields(AddFields(a, 2), 4))
      [] w = 4 -> SumBytes((a + a \div 16) & Every(4))
      [] w = 8 -> SumBytes(a)

WordCount(w, value, v) ==
    CountBits(Cascade(v ^^ (lower_bits(w) * (value % 2^w)), w) ^^ lower_bits(w), w)

RECURSIVE WordCounts(_, _, _, _)
WordCounts(a, value, p, n) ==
    IF n = 0 THEN 0
    ELSE WordCount(a.width, value, a.words[p]) + WordCounts(a, value, p + 1, n - 1)

count(a, value) ==
    LET w == a.width
        chunks == IF w = WordBits THEN 0 ELSE a.size \div PerWord(w)
    IN IF w = 0 THEN (IF value = 0 THEN a.size ELSE 0)
       ELSE IF w <= 8 /\ (value > ubound(w) \/ value < lbound(w)) THEN 0
       ELSE WordCounts(a, value, 1, chunks)
            + Len(Linear(a, "Equal", value, chunks * PerWord(w), a.size))

-----------------------------------------------------------------------------
(* The searches.                                                           *)

Conditions == {"Equal", "NotEqual", "Greater", "Less"}

\* Values inside, at and beyond the bounds of the width.
SearchValues(w) ==
    {lbound(w) - 1, lbound(w), 0, 1, 3, ubound(w) \div 2, ubound(w) - 1, ubound(w), ubound(w) + 1}

WFInit ==
    /\ array \in UNION {Arrays(w) : w \in SearchWidths}
    /\ query = NoQuery
    /\ found = <<>>

Find ==
    \E cond \in Conditions, value \in SearchValues(array.width), from \in {0, 1},
       cut \in {0, 1} :
        LET to == array.size - cut
            limit == IF cut = 1 THEN 2 ELSE array.size
        IN /\ query = NoQuery
           /\ from <= to
           /\ query' = [op |-> cond, value |-> value, from |-> from, to |-> to, limit |-> limit]
           /\ found' = find_optimized(array, cond, value, from, to, limit)
           /\ UNCHANGED array

Sum ==
    \E from \in {0, 1} :
        /\ query = NoQuery
        /\ from <= array.size
        /\ query' = [NoQuery EXCEPT !.op = "sum", !.from = from, !.to = array.size]
        /\ found' = <<sum(array, from, array.size)>>
        /\ UNCHANGED array

Count ==
    \E value \in SearchValues(array.width) :
        /\ query = NoQuery
        /\ query' = [NoQuery EXCEPT !.op = "count", !.value = value]
        /\ found' = <<count(array, value)>>
        /\ UNCHANGED array

\* The caller has used the answer.
Answered == query # NoQuery /\ query' = NoQuery /\ found' = <<>> /\ UNCHANGED array

WFNext == Find \/ Sum \/ Count \/ Answered

WFSpec == WFInit /\ [][WFNext]_wfVars

-----------------------------------------------------------------------------
(* Properties.                                                             *)

\* find_optimized reports exactly the elements of the range that satisfy the
\* condition, each once and in ascending order, up to the limit: no match is
\* invented by a borrow or a carry between the fields of a word, by the zeros
\* shifted in at its top, or by a search that leaves the range.
FindAgrees ==
    query.op \in Conditions =>
        found = Limited(Linear(array, query.op, query.value, query.from, query.to), query.limit)

\* sum adds the elements of the range, count counts the elements of the value:
\* the additions in place never spill from one field into the next.
TotalsAgree ==
    /\ query.op = "sum" => found = <<LinearSum(array, query.from, query.to)>>
    /\ query.op = "count" =>
           found = <<Len(Linear(array, "Equal", query.value, 0, array.size))>>

\* Whole-word searches, sums and counts give what a loop over the elements
\* would.
SearchesExact == FindAgrees /\ TotalsAgree
=============================================================================

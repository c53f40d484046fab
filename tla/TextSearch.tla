----------------------------- MODULE TextSearch -----------------------------
(* The string conditions of a query: wildcard matching (matchlike in       *)
(* string_data.cpp, as the loop it is), search for a substring with a skip *)
(* table (string_data.hpp, unicode.cpp), the comparisons that ignore case  *)
(* (unicode.cpp) and the conditions built from them (query_conditions.hpp).*)
(* A string is a sequence of bytes; the byte classes are an ASCII letter   *)
(* in both cases, another ASCII byte, the two wildcards, and a two-byte    *)
(* character whose second byte carries the case.                           *)
EXTENDS Naturals, Sequences, SequencesExt

CONSTANTS
    Texts,      \* the strings that are searched
    Needles,    \* the strings that are searched for
    Patterns    \* the wildcard patterns

VARIABLES search
tsVars == <<search>>

LetterL == 1    \* a lower case letter
LetterU == 2    \* its upper case
Plain == 3      \* a byte without case
Star == 4
Quest == 5
Lead == 6       \* the first byte of a two-byte character
SecondL == 7    \* its second byte, in lower case
SecondU == 8    \* its second byte, in upper case

NullString == <<0>>
IsNull(s) == s = NullString
Size(s) == IF IsNull(s) THEN 0 ELSE Len(s)

HighBit(c) == c \in {Lead, SecondL, SecondU}
Continuation(c) == c \in {SecondL, SecondU}

-----------------------------------------------------------------------------
(* Case.                                                                   *)

UpperByte(c) == CASE c = LetterL -> LetterU [] c = SecondL -> SecondU [] OTHER -> c
LowerByte(c) == CASE c = LetterU -> LetterL [] c = SecondU -> SecondL [] OTHER -> c

\* A string that is not UTF-8: none, and the empty string when errors are ignored.
ValidUtf8(s) ==
    \A i \in 1..Len(s) :
        /\ s[i] = Lead => i < Len(s) /\ Continuation(s[i + 1])
        /\ Continuation(s[i]) => i > 1 /\ s[i - 1] = Lead
case_map(s, upper) ==
    IF IsNull(s) \/ ~ValidUtf8(s) THEN <<>>
    ELSE [i \in 1..Len(s) |-> IF upper THEN UpperByte(s[i]) ELSE LowerByte(s[i])]

\* The bytes of one character, from i: its first, and the continuations after it.
RECURSIVE CharEnd(_, _)
CharEnd(s, i) == IF i < Len(s) /\ Continuation(s[i + 1]) THEN CharEnd(s, i + 1) ELSE i

\* equal_sequence: the character at i is the same in both.
SameChar(h, n, i) ==
    /\ h[i] = n[i]
    /\ HighBit(h[i]) => \A j \in i..CharEnd(h, i) : h[j] = n[j]

\* Where the next character of h begins.
NextChar(h, i) == IF HighBit(h[i]) THEN CharEnd(h, i) + 1 ELSE i + 1

RECURSIVE CharsEqual(_, _, _, _)
CharsEqual(h, up, lo, i) ==
    \/ i > Len(h)
    \/ /\ SameChar(h, lo, i) \/ SameChar(h, up, i)
       /\ CharsEqual(h, up, lo, NextChar(h, i))

\* First the bytes, each with either case; then character by character.
equal_case_fold(h, up, lo) ==
    /\ \A i \in 1..Len(h) : lo[i] = h[i] \/ up[i] = h[i]
    /\ CharsEqual(h, up, lo, 1)

-----------------------------------------------------------------------------
(* Substrings.                                                             *)

\* substr(i, n), i from zero.
Sub(s, i, n) == SubSeq(s, i + 1, i + n)

\* The first place, or the size of the text.
RECURSIVE SearchFrom(_, _, _, _, _)
SearchFrom(h, up, lo, n, i) ==
    IF n > Len(h) - i THEN Len(h)
    ELSE IF equal_case_fold(Sub(h, i, n), up, lo) THEN i
    ELSE SearchFrom(h, up, lo, n, i + 1)
search_case_fold(h, up, lo, n) == SearchFrom(h, up, lo, n, 0)

\* The table of distances: from the last place of the character before the
\* last one to the end, zero for a character that does not occur.
LastBefore(n, c) == {i \in 1..(Len(n) - 1) : n[i] = c}
Distance(n, c) ==
    IF LastBefore(n, c) = {} THEN IF c = n[Len(n)] THEN Len(n) ELSE 0
    ELSE Len(n) - CHOOSE i \in LastBefore(n, c) : \A j \in LastBefore(n, c) : j <= i
\* For both cases: the smaller of the two distances.
Distances(up, lo) ==
    [c \in 1..8 |->
        LET d == {Distance(up, c), Distance(lo, c)} \ {0}
        IN IF d = {} THEN 0 ELSE CHOOSE x \in d : \A y \in d : x <= y]

\* The skip when the byte does not occur in the needle; one more than its size.
SkipAbsentFar(n) == n + 1
SkipAbsent(n) == n

RECURSIVE BoyerMoore(_, _, _, _, _)
BoyerMoore(h, up, lo, charmap, p) ==
    LET n == Len(up)
        c == h[p + 1]
    IN IF p >= Len(h) THEN FALSE
       ELSE \/ /\ c \in {up[n], lo[n]}
               /\ equal_case_fold(Sub(h, p - n + 1, n), up, lo)
            \/ BoyerMoore(h, up, lo, charmap,
                          p + IF charmap[c] = 0 THEN SkipAbsent(n) ELSE charmap[c])

\* contains_ins, and contains with a table, where both cases are the needle.
contains_ins(h, up, lo, charmap) ==
    IF Len(up) = 0 THEN Len(h) # 0 ELSE BoyerMoore(h, up, lo, charmap, Len(up) - 1)

begins_with(v2, v1) ==
    /\ IsNull(v2) => IsNull(v1)
    /\ Size(v1) <= Size(v2)
    /\ Size(v1) = 0 \/ Sub(v2, 0, Size(v1)) = v1
ends_with(v2, v1) ==
    /\ IsNull(v2) => IsNull(v1)
    /\ Size(v1) <= Size(v2)
    /\ Size(v1) = 0 \/ Sub(v2, Size(v2) - Size(v1), Size(v1)) = v1
contains(v2, v1) ==
    /\ IsNull(v2) => IsNull(v1)
    /\ Size(v1) = 0 \/ \E i \in 0..(Size(v2) - 1) :
                           i + Size(v1) <= Size(v2) /\ Sub(v2, i, Size(v1)) = v1

\* The conditions that ignore case, called without a prepared needle.
Folded(part, v1) == equal_case_fold(part, case_map(v1, TRUE), case_map(v1, FALSE))
EqualIns(v1, v2) ==
    /\ IsNull(v1) = IsNull(v2)
    /\ Size(v1) = Size(v2)
    /\ IsNull(v2) \/ Folded(v2, v1)
NotEqualIns(v1, v2) ==
    \/ IsNull(v1) # IsNull(v2)
    \/ Size(v1) # Size(v2)
    \/ ~IsNull(v2) /\ ~Folded(v2, v1)
BeginsWithIns(v1, v2) ==
    /\ IsNull(v2) => IsNull(v1)
    /\ Size(v1) <= Size(v2)
    /\ IsNull(v2) \/ Folded(Sub(v2, 0, Size(v1)), v1)
EndsWithIns(v1, v2) ==
    /\ IsNull(v2) => IsNull(v1)
    /\ Size(v1) <= Size(v2)
    /\ IsNull(v2) \/ Folded(Sub(v2, Size(v2) - Size(v1), Size(v1)), v1)
ContainsIns(v1, v2) ==
    /\ IsNull(v2) => IsNull(v1)
    /\ \/ Size(v1) = 0 /\ ~IsNull(v2)
       \/ /\ ~IsNull(v2)
          /\ search_case_fold(v2, case_map(v1, TRUE), case_map(v1, FALSE), Size(v1)) # Size(v2)

-----------------------------------------------------------------------------
(* Wildcards: the loop of matchlike.                                       *)

NoSearch == [op |-> "none"]
Idling == search = NoSearch

\* p1 and p2 count from zero; the stacks hold where to try again.
StartLike ==
    /\ Idling
    /\ \E t \in Texts \cup {NullString}, p \in Patterns \cup {NullString}, ins \in BOOLEAN :
           LET pattern == IF ins /\ ~IsNull(p) THEN case_map(p, FALSE) ELSE p
               alternate == IF ins /\ ~IsNull(p) THEN case_map(p, TRUE) ELSE p
               start == [op |-> "like", text |-> t, pattern |-> pattern, alternate |-> alternate,
                         p1 |-> 0, p2 |-> 0, textpos |-> <<>>, patternpos |-> <<>>,
                         result |-> "running"]
           IN search' =
                  IF IsNull(t) \/ IsNull(p)
                  THEN [start EXCEPT !.result = IF IsNull(t) /\ IsNull(p) THEN "match" ELSE "no match"]
                  ELSE start

Matching == search.op = "like" /\ search.result = "running"

AtEnd(s) == s.p1 = Len(s.text)

\* The text is used up, and so is the pattern but for one star.
Accepts(s) ==
    AtEnd(s) /\ \/ s.p2 = Len(s.pattern)
                \/ s.p2 + 1 = Len(s.pattern) /\ s.pattern[s.p2 + 1] = Star

\* The bytes that a '?' takes at p1.
CharBytes(s) ==
    IF ~HighBit(s.text[s.p1 + 1]) THEN 1 ELSE CharEnd(s.text, s.p1 + 1) - s.p1

ByteMatches(s) ==
    s.text[s.p1 + 1] \in {s.pattern[s.p2 + 1], s.alternate[s.p2 + 1]}


\* no_match: the next place for the last star, or, at the end of the text, for
\* the star before it.
Backtracked(s) ==
    LET tp == IF AtEnd(s) THEN Front(s.textpos) ELSE s.textpos
        pp == IF AtEnd(s) THEN Front(s.patternpos) ELSE s.patternpos
    IN IF s.textpos = <<>> \/ tp = <<>> THEN [s EXCEPT !.result = "no match"]
       ELSE [s EXCEPT !.textpos = Front(tp) \o <<Last(tp) + 1>>, !.patternpos = pp,
                      !.p1 = Last(tp) + 1, !.p2 = Last(pp)]
\* One turn of the loop.
Turn(s) ==
    IF Accepts(s) THEN [s EXCEPT !.result = "match"]
    ELSE IF AtEnd(s) \/ s.p2 = Len(s.pattern) THEN Backtracked(s)
    ELSE IF s.pattern[s.p2 + 1] = Star
         THEN [s EXCEPT !.textpos = Append(@, s.p1), !.patternpos = Append(@, s.p2 + 1),
                        !.p2 = @ + 1]
    ELSE IF s.pattern[s.p2 + 1] = Quest
         THEN [s EXCEPT !.p1 = @ + CharBytes(s), !.p2 = @ + 1]
    ELSE IF ByteMatches(s) THEN [s EXCEPT !.p1 = @ + 1, !.p2 = @ + 1]
    ELSE Backtracked(s)

MatchTurn == Matching /\ search' = Turn(search)

Returned == search.op # "none" /\ ~Matching /\ search' = NoSearch

\* The other searches, in one step each.
Search ==
    /\ Idling
    /\ \E t \in Texts, n \in Needles :
           LET up == case_map(n, TRUE)
               lo == case_map(n, FALSE)
           IN search' = [op |-> "find", text |-> t, needle |-> n,
                         at |-> search_case_fold(t, up, lo, Len(n)),
                         table |-> contains_ins(t, up, lo, Distances(up, lo)),
                         exact |-> contains_ins(t, n, n, Distances(n, n))]

TSInit == search = NoSearch
TSNext == StartLike \/ MatchTurn \/ Search \/ Returned
TSSpec == TSInit /\ [][TSNext]_tsVars /\ WF_tsVars(MatchTurn)

-----------------------------------------------------------------------------
(* Properties.                                                             *)

\* What the documentation says of a pattern: '?' is one character, '*' is any
\* number of them, every other byte is itself, in either case of the pattern.
RECURSIVE Denotes(_, _, _, _, _)
Denotes(t, p, alt, i, j) ==
    IF j > Len(p) THEN i > Len(t)
    ELSE IF p[j] = Star THEN \E k \in i..(Len(t) + 1) : Denotes(t, p, alt, k, j + 1)
    ELSE IF i > Len(t) THEN FALSE
    ELSE IF p[j] = Quest THEN Denotes(t, p, alt, CharEnd(t, i) + 1, j + 1)
    ELSE t[i] \in {p[j], alt[j]} /\ Denotes(t, p, alt, i + 1, j + 1)

DoubleStarEnd(p) == Len(p) > 1 /\ p[Len(p)] = Star /\ p[Len(p) - 1] = Star

Decided(s) == s.op = "like" /\ s.result # "running" /\ ~IsNull(s.text) /\ ~IsNull(s.pattern)
LikeRight(s) ==
    (s.result = "match") <=> Denotes(s.text, s.pattern, s.alternate, 1, 1)

\* matchlike with its stacks decides what the pattern means, whatever the
\* nesting of stars and wherever a star is tried again, for the patterns that
\* do not end in two stars.
LikeAgrees == (Decided(search) /\ ~DoubleStarEnd(search.pattern)) => LikeRight(search)

\* The backtracking always comes to a decision.
LikeEnds == Matching ~> (search.op = "none" \/ ~Matching)

\* A search with the skip table finds the needle when a search that tries
\* every place does: no jump passes over an occurrence.
SkipsNothing ==
    search.op = "find" =>
        /\ (Len(search.needle) > 0 \/ Len(search.text) > 0)
               => (search.table <=> ContainsIns(search.needle, search.text))
        /\ search.table /\ Len(search.needle) > 0 => search.at < Len(search.text)
        /\ Len(search.needle) > 0 => (search.exact <=> contains(search.text, search.needle))

\* Ignoring case is an equality of characters: two valid strings are equal when
\* their lower case forms are, a prefix and a suffix likewise, and the negated
\* condition is the negation.
FoldsAgree ==
    search.op = "find" =>
        LET t == search.text
            n == search.needle
        IN /\ EqualIns(n, t) <=> (case_map(n, FALSE) = case_map(t, FALSE))
           /\ NotEqualIns(n, t) <=> ~EqualIns(n, t)
           /\ BeginsWithIns(n, t) <=> begins_with(case_map(t, FALSE), case_map(n, FALSE))
           /\ EndsWithIns(n, t) <=> ends_with(case_map(t, FALSE), case_map(n, FALSE))
           /\ ContainsIns(n, t) <=> contains(case_map(t, FALSE), case_map(n, FALSE))

\* Patterns mean what the documentation says, searches with a skip table miss
\* nothing, case folding is an equality, and the backtracking ends.
TextSound ==
    /\ [](LikeAgrees /\ SkipsNothing /\ FoldsAgree)
    /\ LikeEnds
=============================================================================

----------------------------- MODULE PackedWords -----------------------------
(***************************************************************************)
(* Elements of equal width packed into memory words, the lowest bits       *)
(* first.  The code's words have 64 bits and its elements 0, 1, 2, 4, 8,   *)
(* 16, 32 or 64; a model with WordBits = 16 keeps the widths up to 16.     *)
(* Elements of eight bits and more are signed.                             *)
(***************************************************************************)
EXTENDS Integers, Sequences

CONSTANT WordBits       \* bits of a memory word

Ones == 2^WordBits - 1

PerWord(w) == WordBits \div w

Field(v, w, i) == (v \div 2^(w * i)) % 2^w

Signed(w, x) == IF w >= 8 /\ x >= 2^(w - 1) THEN x - 2^w ELSE x

lbound(w) == IF w < 8 THEN 0 ELSE -(2^(w - 1))

ubound(w) == IF w < 8 THEN 2^w - 1 ELSE 2^(w - 1) - 1

\* get_direct, without the sign, and set_direct.
Fetch(words, w, i) ==
    IF w = 0 THEN 0 ELSE Field(words[1 + i \div PerWord(w)], w, i % PerWord(w))

Store(words, w, i, x) ==
    IF w = 0 THEN words
    ELSE LET k == 1 + i \div PerWord(w)
             unit == 2^(w * (i % PerWord(w)))
         IN [words EXCEPT ![k] = @ + ((x % 2^w) - Field(@, w, i % PerWord(w))) * unit]

=============================================================================

---------------------------- MODULE ElementList ----------------------------
(***************************************************************************)
(* What a B+tree promises its users: a sequence of elements addressed by   *)
(* position, counted from zero.  call is the last call made: what it was,  *)
(* the positions it named and the elements it brought or returned, in the  *)
(* order of the positions.                                                 *)
(***************************************************************************)
EXTENDS Naturals, FiniteSets, Sequences

CONSTANT Elem

VARIABLES list, call

Insert(l, n, es) == SubSeq(l, 1, n) \o es \o SubSeq(l, n + 1, Len(l))

\* The elements of l at the positions of a set, in order.
At(l, positions) ==
    LET order == SelectSeq([p \in 1..Len(l) |-> p], LAMBDA p : p - 1 \in positions)
    IN  [i \in DOMAIN order |-> l[order[i]]]

\* l with the elements at the given positions replaced by es, in order.
Replaced(l, positions, es) ==
    [p \in 1..Len(l) |->
        IF p - 1 \in positions
        THEN es[1 + Cardinality({m \in positions : m < p - 1})]
        ELSE l[p]]

\* Whether the call, made on the list l, may leave the list m.
Allowed(l, c, m) ==
    \/ c.op = "insert" /\ \E n \in c.at : m = Insert(l, n, c.elems)
    \/ c.op = "append" /\ m = l \o c.elems
    \/ c.op = "set" /\ m = Replaced(l, c.at, c.elems)
    \/ c.op = "erase" /\ m = At(l, (0..(Len(l) - 1)) \ c.at)
    \/ c.op = "get" /\ m = l /\ c.elems = At(l, c.at)
    \/ c.op = "find" /\ m = l /\ \A n \in 0..(Len(l) - 1) :
                                     (n \in c.at) <=> <<l[n + 1]>> = c.elems
    \/ c.op = "none" /\ m = l

ListInit == list = <<>> /\ call = [op |-> "none", at |-> {}, elems |-> <<>>]

ListNext == Allowed(list, call', list')

ListSpec == ListInit /\ [][ListNext]_<<list, call>>
=============================================================================

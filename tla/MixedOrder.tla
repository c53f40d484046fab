----------------------------- MODULE MixedOrder -----------------------------
(* Mixed (mixed.cpp): a value of any type, compared with a value of any    *)
(* type. Numbers of different types are compared by value: integers with   *)
(* doubles without ever rounding the integer, decimals after the double    *)
(* has become a decimal of Rounded digits (a float, of FloatDigits).       *)
(* Values of types that cannot be compared are ordered by the rank of      *)
(* their types. Arithmetic takes the wider of the two types.               *)
EXTENDS Decimal

CONSTANTS
    IntBits,       \* bits of an integer; more than MantBits
    FloatDigits,   \* digits that a decimal made from a float keeps
    MixedValues    \* the values that are compared

ASSUME MixedAssumption ==
    /\ IntBits \in Nat /\ MantBits < IntBits
    /\ FloatDigits \in 1..Rounded

VARIABLES lhs, rhs, ordered, quotient
mixVars == <<lhs, rhs, ordered, quotient, ask, answer>>

\* A value is [t |-> type, v |-> what it holds].
Null == [t |-> "null", v |-> 0]

Types == {"null", "int", "bool", "string", "binary", "timestamp", "float", "double", "decimal",
          "objectid", "typedlink", "uuid", "list", "set", "dictionary"}
RankOf(t) ==
    CASE t = "null" -> -1 [] t = "bool" -> 0
      [] t \in {"int", "float", "double", "decimal"} -> 1
      [] t = "string" -> 2 [] t = "binary" -> 3 [] t = "timestamp" -> 4
      [] t = "objectid" -> 5 [] t = "uuid" -> 6 [] t = "typedlink" -> 7
      [] t = "list" -> 9 [] t = "set" -> 10 [] t = "dictionary" -> 11
\* The rank of the type: all numbers have the same.
sorting_rank == [t \in Types |-> RankOf(t)]

compare_generic(a, b) == IF a = b THEN 0 ELSE IF a < b THEN -1 ELSE 1

\* Bytes in order, then the length.
compare_binary(a, b) ==
    LET n == IF Len(a) < Len(b) THEN Len(a) ELSE Len(b)
        differ == {i \in 1..n : a[i] # b[i]}
    IN IF differ = {} THEN compare_generic(Len(a), Len(b))
       ELSE compare_generic(a[MinOf(differ)], b[MinOf(differ)])

\* A finite double times 2^4, which is whole for every value that is used.
Sixteenths(x) == (IF x.s = 1 THEN -1 ELSE 1) * (IF x.e >= -4 THEN x.m * 2^(x.e + 4) ELSE 0)
IeeeLess(x, y) ==
    CASE x.k = "inf" /\ y.k = "inf" -> x.s > y.s
      [] x.k = "inf" -> x.s = 1
      [] y.k = "inf" -> y.s = 0
      [] OTHER -> Sixteenths(x) < Sixteenths(y)

\* As IEEE numbers; NaNs come first, in the order of their bits.
BitsOf(x) == x.s * 100 + x.m
compare_float(x, y) ==
    IF x.k # "nan" /\ y.k # "nan"
    THEN IF IeeeLess(x, y) THEN -1 ELSE IF IeeeLess(y, x) THEN 1 ELSE 0
    ELSE IF x.k = "nan" /\ y.k = "nan" THEN compare_generic(BitsOf(x), BitsOf(y))
    ELSE IF x.k = "nan" THEN -1 ELSE 1

\* The double of an integer: rounded to MantBits bits, a tie to the even one.
ToDouble(n) ==
    LET a == IntAbs(n)
        e == IF a < 2^MantBits THEN 0 ELSE MinOf({i \in 1..IntBits : a < 2^(MantBits + i)})
        m == RoundHalfEven(a, 2^e)
    IN [k |-> "fin", s |-> IF n < 0 THEN 1 ELSE 0, m |-> m, e |-> e]

\* Truncation towards zero.
Truncated(x) ==
    (IF x.s = 1 THEN -1 ELSE 1) * (IF x.e >= 0 THEN x.m * 2^x.e ELSE x.m \div 2^(-x.e))

\* Integers up to 2^MantBits are doubles; the bound is taken one bit too high.
PreciseLate(n) == IntAbs(n) <= 2^(MantBits + 1)
\* Integers up to 2^MantBits are doubles.
Precise(n) == IntAbs(n) <= 2^MantBits

compare_long_to_double(n, x) ==
    LET bound == [k |-> "fin", s |-> 0, m |-> 1, e |-> IntBits - 1]
        low == [bound EXCEPT !.s = 1]
    IN IF x.k = "nan" THEN 1
       ELSE IF Precise(n) THEN compare_float(ToDouble(n), x)
       ELSE IF ~IeeeLess(x, bound) THEN -1
       ELSE IF IeeeLess(x, low) THEN 1
       ELSE compare_generic(n, Truncated(x))

\* export_to_type<Decimal128>.
AsDecimal(a) ==
    CASE a.t = "int" -> FromInt(a.v)
      [] a.t = "float" -> FromDouble(a.v, FloatDigits)
      [] a.t = "double" -> FromDouble(a.v, Rounded)
      [] a.t = "decimal" -> a.v

Binary == {"float", "double"}
Numeric == {"int", "decimal"} \cup Binary
Collections == {"list", "set", "dictionary"}

\* The fallback: the rank of the types.
ByRank(a, b) == IF sorting_rank[a.t] > sorting_rank[b.t] THEN 1 ELSE -1

\* A double on the left of an integer: the comparison the other way, negated.
DoubleToLong(x, n) == -compare_long_to_double(n, x)

compare_mixed(a, b) ==
    IF a.t = "null" THEN IF b.t = "null" THEN 0 ELSE -1
    ELSE IF b.t = "null" THEN 1
    ELSE IF a.t \in Numeric /\ b.t \in Numeric
         THEN CASE a.t = "int" /\ b.t = "int" -> compare_generic(a.v, b.v)
                [] a.t = "int" /\ b.t \in Binary -> compare_long_to_double(a.v, b.v)
                [] a.t \in Binary /\ b.t = "int" -> DoubleToLong(a.v, b.v)
                [] a.t \in Binary /\ b.t \in Binary -> compare_float(a.v, b.v)
                [] OTHER -> CompareDec(AsDecimal(a), AsDecimal(b))
    ELSE IF a.t = b.t
         THEN IF a.t \in Collections THEN 0
              ELSE IF a.t \in {"string", "binary"} THEN compare_binary(a.v, b.v)
              ELSE compare_generic(a.v, b.v)
    ELSE ByRank(a, b)

types_are_comparable(a, b) ==
    \/ a.t = b.t /\ a.t # "null"
    \/ a.t \in Numeric /\ b.t \in Numeric

Smallest == -(2^(IntBits - 1))
Largest == 2^(IntBits - 1) - 1

\* The quotient of two integers, truncated; of a division by zero, the largest
\* or the smallest integer.
Quotient(n, d) ==
    IF d = 0 THEN IF n < 0 THEN Smallest ELSE Largest
    ELSE (IF (n < 0) = (d < 0) THEN 1 ELSE -1) * (IntAbs(n) \div IntAbs(d))

\* The smallest integer by -1 overflows, which is undefined: the quotient wraps,
\* or the instruction traps and the process ends.
Overflows(n, d) == n = Smallest /\ d = -1
Trap == Largest + 1
Outcomes(n, d) == IF Overflows(n, d) THEN {Smallest, Trap} ELSE {Quotient(n, d)}

-----------------------------------------------------------------------------
(* The conditions of a query on two values.                                *)

BothNull(a, b) == a.t = "null" /\ b.t = "null"

CondEqual(a, b) == BothNull(a, b) \/ (types_are_comparable(a, b) /\ compare_mixed(a, b) = 0)

CondNotEqual(a, b) == ~CondEqual(a, b)

CondGreater(a, b) == types_are_comparable(a, b) /\ compare_mixed(a, b) > 0

CondLess(a, b) == types_are_comparable(a, b) /\ compare_mixed(a, b) < 0

CondLessEqual(a, b) == BothNull(a, b) \/ (types_are_comparable(a, b) /\ compare_mixed(a, b) <= 0)

CondGreaterEqual(a, b) == BothNull(a, b) \/ (types_are_comparable(a, b) /\ compare_mixed(a, b) >= 0)

-----------------------------------------------------------------------------
(* The behaviour: one comparison, or one division of integers, at a time.  *)

NoValue == [t |-> "none", v |-> 0]

MixInit == lhs = NoValue /\ rhs = NoValue /\ ordered = 0 /\ quotient = 0

Compare ==
    /\ lhs = NoValue
    /\ \E a \in MixedValues, b \in MixedValues :
           /\ lhs' = a /\ rhs' = b
           /\ ordered' = compare_mixed(a, b)
    /\ UNCHANGED quotient

\* operator/ of two integers.
Divide ==
    /\ lhs = NoValue
    /\ \E a \in MixedValues, b \in MixedValues :
           /\ a.t = "int" /\ b.t = "int"
           /\ lhs' = a /\ rhs' = b
           /\ quotient' \in Outcomes(a.v, b.v)
           /\ ordered' = compare_mixed(a, b)

Compared ==
    /\ lhs # NoValue
    /\ lhs' = NoValue /\ rhs' = NoValue /\ ordered' = 0 /\ quotient' = 0

MixNext == Compare \/ Divide \/ Compared

MixSpec == MixInit /\ DecInit /\ [][MixNext /\ UNCHANGED decVars]_mixVars

-----------------------------------------------------------------------------
(* Properties.                                                             *)

Mixing(S) == "decimal" \in S /\ S \cap Binary # {}

\* compare is an order: it is antisymmetric for every two values, and
\* transitive for every three of which none is a decimal compared with a
\* float or a double (those are compared after rounding).
MixedOrderConsistent ==
    lhs # NoValue =>
        /\ ordered = -compare_mixed(rhs, lhs)
        /\ \A c \in MixedValues :
               (~Mixing({lhs.t, rhs.t, c.t}) /\ ordered <= 0 /\ compare_mixed(rhs, c) <= 0)
                   => compare_mixed(lhs, c) <= 0

\* Integers and doubles compare as the numbers they are: no integer is rounded
\* to a double on the way, and no double outside the integers is cut to one.
NumbersCompareExactly ==
    (lhs.t = "int" /\ rhs.t \in Binary /\ rhs.v.k = "fin") =>
        ordered = compare_generic(16 * lhs.v, Sixteenths(rhs.v))

\* Values that can be compared are neighbours in the order: no value of a type
\* that cannot be compared with them lies between them.
ComparableTogether ==
    (lhs # NoValue /\ types_are_comparable(lhs, rhs)) =>
        \A c \in MixedValues :
            (~types_are_comparable(lhs, c) /\ ~types_are_comparable(c, rhs))
                => compare_mixed(lhs, c) = compare_mixed(rhs, c)

\* The six conditions of a query agree: exactly one of <, == and > holds of two
\* values that can be compared, none but != of two that cannot, and <= and >=
\* hold where == does or the strict condition does, nulls included.
ConditionsAgree ==
    lhs # NoValue =>
        LET eq == CondEqual(lhs, rhs)
            lt == CondLess(lhs, rhs)
            gt == CondGreater(lhs, rhs)
        IN  /\ CondNotEqual(lhs, rhs) = ~eq
            /\ Cardinality({c \in 1..3 : <<lt, eq, gt>>[c]}) =
                   IF types_are_comparable(lhs, rhs) \/ BothNull(lhs, rhs) THEN 1 ELSE 0
            /\ CondLessEqual(lhs, rhs) = (lt \/ eq)
            /\ CondGreaterEqual(lhs, rhs) = (gt \/ eq)
            /\ lt = CondGreater(rhs, lhs)

\* A division of integers truncates, whatever the divisor: the quotient is an
\* integer of IntBits bits, and times the divisor it misses the dividend by less
\* than the divisor and never overshoots it.  operator/ is noexcept and tests for
\* a divisor of 0; the one exception it leaves is the smallest integer by -1.
DivisionDefined ==
    (lhs.t = "int" /\ rhs.t = "int" /\ ~Overflows(lhs.v, rhs.v)) =>
        /\ quotient \in Smallest .. Largest
        /\ (rhs.v # 0 /\ quotient # 0) =>
               /\ IntAbs(quotient * rhs.v) <= IntAbs(lhs.v)
               /\ IntAbs(lhs.v - quotient * rhs.v) < IntAbs(rhs.v)

\* Values of any two types are ordered consistently, as the numbers they are,
\* and the conditions of queries and the division of integers agree with it.
MixedSound ==
    /\ MixedOrderConsistent
    /\ NumbersCompareExactly
    /\ ComparableTogether
    /\ ConditionsAgree
    /\ DivisionDefined
=============================================================================

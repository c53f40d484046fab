------------------------------ MODULE Decimal ------------------------------
(* Decimal128 (decimal128.cpp) in a smaller format: a decimal has Digits   *)
(* digits where the code has 34, a double has MantBits bits where the code *)
(* has 53, and a rounded decimal has Rounded digits where the code has 15. *)
(* The algorithms are those of the code: the conversion of a double with   *)
(* its exact cases, the multiplication of wide numbers by words and half   *)
(* words, the comparison, the equality of the 32-bit format and the text.  *)
(* The arithmetic that the Intel library does (quantize, quiet_less,       *)
(* quiet_greater, quiet_equal) is external.                                *)
EXTENDS Integers, Sequences, FiniteSets

CONSTANTS
    Digits,        \* digits of the coefficient of a decimal
    MantBits,      \* bits of the mantissa of a double
    MinExp,        \* the exponent of the last bit of the smallest doubles
    MaxExp,        \* the exponent of the last bit of the largest doubles
    Rounded,       \* digits that a decimal made from a double keeps
    ShortDigits,   \* digits of the short format (Bid32)
    HalfWord,      \* values of half a machine word
    TenBits,       \* bits of a word where wide numbers are multiplied by ten
    Parts          \* the words that wide numbers are made of

ASSUME DecimalAssumption ==
    /\ Digits \in Nat \ {0} /\ MantBits \in Nat \ {0}
    /\ Rounded \in 1..Digits /\ ShortDigits \in 1..Digits
    /\ HalfWord \in Nat \ {0, 1} /\ TenBits \in Nat /\ TenBits > 3
    /\ Parts \subseteq 0..(HalfWord * HalfWord - 1)

VARIABLES ask, answer
decVars == <<ask, answer>>

Fin(s, c, e) == [k |-> "fin", s |-> s, c |-> c, e |-> e]
Inf(s) == [k |-> "inf", s |-> s, c |-> 0, e |-> 0]
NaN(s, c) == [k |-> "nan", s |-> s, c |-> c, e |-> 0]

\* The payload that makes a NaN the null value.
NullPayload == 170
DecNull == NaN(0, NullPayload)

is_null(d) == d = DecNull
is_nan(d) == d.k = "nan"

IntAbs(n) == IF n < 0 THEN -n ELSE n
MinOf(S) == CHOOSE x \in S : \A y \in S : x <= y
MaxOf(S) == CHOOSE x \in S : \A y \in S : y <= x
CoeffLimit == 10^Digits

-----------------------------------------------------------------------------
(* Wide numbers: a word is a value below HalfWord^2, the least first.      *)

WordSize == HalfWord * HalfWord

\* The product of two words, from the four products of their halves.
WordProduct(x, y) ==
    LET xh == x \div HalfWord  xl == x % HalfWord
        yh == y \div HalfWord  yl == y % HalfWord
        pm0 == xh * yl
        ph == xh * yh + (pm0 \div HalfWord)
        pl == xl * yl
        pm == (pm0 % HalfWord) + xl * yh + (pl \div HalfWord)
    IN <<(((pm * HalfWord) % WordSize) + (pl % HalfWord)) % WordSize,
         (ph + (pm \div HalfWord)) % WordSize>>

\* The carry out of an addition, found by comparing.
CarryOut(x1, sum, carry) == sum < x1 \/ x1 < carry

CarriedSum(x, y, carry) ==
    LET x1 == (x + carry) % WordSize
        sum == (x1 + y) % WordSize
    IN <<sum, IF CarryOut(x1, sum, carry) THEN 1 ELSE 0>>

MulWords == [x, y \in 0..(WordSize - 1) |-> WordProduct(x, y)]
AddCarry == [x, y \in 0..(WordSize - 1), carry \in {0, 1} |-> CarriedSum(x, y, carry)]

\* A word times a number of four words: its four products, added to five words.
Products(x, y) == <<MulWords[x, y[1]], MulWords[x, y[2]], MulWords[x, y[3]], MulWords[x, y[4]]>>
MulRow(p) ==
    LET w2 == AddCarry[p[2][1], p[1][2], 0]
        w3 == AddCarry[p[3][1], p[2][2], w2[2]]
        w4 == AddCarry[p[4][1], p[3][2], w3[2]]
    IN <<p[1][1], w2[1], w3[1], w4[1], (p[4][2] + w4[2]) % WordSize>>

\* The row of word i added to the sum of the rows before it, i - 1 words up.
AddRow(sum, row, i) ==
    IF i = 1 THEN row
    ELSE LET w1 == AddCarry[row[1], sum[i], 0]
             w2 == AddCarry[row[2], sum[i + 1], w1[2]]
             w3 == AddCarry[row[3], sum[i + 2], w2[2]]
             w4 == AddCarry[row[4], sum[i + 3], w3[2]]
         IN SubSeq(sum, 1, i - 1)
                \o <<w1[1], w2[1], w3[1], w4[1], (row[5] + w4[2]) % WordSize>>

\* A word times ten plus a carry, done as eight times (z + z/4): <<word, carry>>.
TimesTen(z, carry) ==
    LET size == 2^TenBits
        s0 == (z + (z \div 4)) % size
        c0 == (IF s0 < z THEN 8 ELSE 0) + (s0 \div 2^(TenBits - 3))
        s1 == (((s0 * 8) % size) + (z % 4) * 2) % size
        w == (s1 + carry) % size
    IN <<w, IF w < s1 THEN c0 + 1 ELSE c0>>

-----------------------------------------------------------------------------
(* The exponents of the full format, where every double can be tried.      *)

\* The estimate of the decimal exponent (biased) of a quad significand * 2^e.
EstimateOut(e) ==
    LET p == e + 42152
    IN ((19728 * p + ((19779 * p) \div 65536)) \div 65536) - 6512

\* The binary exponent of ten to the k, as the tables hold it: inner entry i
\* is for k = i - 64, outer entry i for k = 128 * (i - 39).
TenExponent(k) == ((k * 217706) \div 65536) - 255

\* The shift that aligns the product of the significand and the reciprocal.
AlignShift(e) ==
    LET index == 11232 - EstimateOut(e)
        hi == index \div 128
        inner == TenExponent((index % 128) - 64)
        f == IF hi = 39 THEN inner ELSE inner + 256 + TenExponent(128 * (hi - 39))
    IN [outer |-> hi, shift |-> -(241 + e + f)]

-----------------------------------------------------------------------------
(* From a double.                                                          *)

\* A finite double is m * 2^e; the smallest are not normalized.
Doubles ==
    {[k |-> "fin", s |-> s, m |-> m, e |-> e] :
        s \in {0, 1}, m \in 2^(MantBits - 1)..(2^MantBits - 1), e \in MinExp..MaxExp}
    \cup {[k |-> "fin", s |-> s, m |-> m, e |-> MinExp] :
             s \in {0, 1}, m \in 0..(2^(MantBits - 1) - 1)}
SpecialDoubles ==
    {[k |-> "inf", s |-> s, m |-> 0, e |-> 0] : s \in {0, 1}}
    \cup {[k |-> "nan", s |-> s, m |-> m, e |-> 0] : s \in {0, 1}, m \in {1, 2}}

\* num/den to the nearest whole number, a tie to the even one.
RoundHalfEven(num, den) ==
    LET q == num \div den
        r == num % den
    IN IF 2 * r > den \/ (2 * r = den /\ q % 2 = 1) THEN q + 1 ELSE q

TrailingZeros(m) == MaxOf({t \in 0..MantBits : m % 2^t = 0})
LeadingShift(m) == MinOf({l \in 0..MantBits : m * 2^l >= 2^(MantBits - 1)})

\* The largest power of five below the limit of a coefficient.
MaxFive == MaxOf({a \in 0..(2 * Digits) : 5^a < CoeffLimit})

\* Bits that hold every coefficient.
QuadBits == MinOf({b \in 1..30 : 2^b >= CoeffLimit})

\* The largest decimal exponent of a value below 2^n (n may be negative).
DecadeBelow(n) == (n * 30103 - 1) \div 100000

\* m * 2^e / 10^t as <<numerator, denominator>>.
Scaled(m, e, t) ==
    LET up == IF e >= 0 THEN m * 2^e ELSE m
        down == IF e >= 0 THEN 1 ELSE 2^(-e)
    IN IF t >= 0 THEN <<up, down * 10^t>> ELSE <<up * 10^(-t), down>>

\* The rounded coefficient; one that spills into the next decade is corrected.
Packaged(s, frac, e) ==
    LET c == RoundHalfEven(frac[1], frac[2])
    IN IF c = CoeffLimit THEN Fin(s, CoeffLimit \div 10, e + 1) ELSE Fin(s, c, e)

\* The general path: the estimated exponent, one less when the significand is
\* below ten to the Digits - 1.
General(s, m, e, norm) ==
    LET top == DecadeBelow(norm + MantBits) - (Digits - 1)
        z == Scaled(m, e, top)
    IN IF z[1] < 10^(Digits - 1) * z[2]
       THEN Packaged(s, Scaled(m, e, top - 1), top - 1)
       ELSE Packaged(s, z, top)

\* A whole number that fits is its own coefficient.
WholePart(x) == IF x.e >= 0 THEN x.m * 2^x.e ELSE x.m \div 2^(-x.e)
ExactInteger(x, a) == a <= 0 /\ x.e + MantBits <= QuadBits /\ WholePart(x) < CoeffLimit

\* The limit is taken one power of five too high.
ExactFractionLoose(x, a, t) ==
    a > 0 /\ a <= MaxFive /\ (x.m \div 2^t) <= CoeffLimit \div 5^(a - 1)
\* A fraction of a bits that fits is multiplied by five to the a.
ExactFraction(x, a, t) ==
    a > 0 /\ a <= MaxFive /\ (x.m \div 2^t) <= CoeffLimit \div 5^a

binary64_to_bid128(x) ==
    IF x.k = "inf" THEN Inf(x.s)
    ELSE IF x.k = "nan" THEN NaN(x.s, x.m)
    ELSE IF x.m = 0 THEN Fin(x.s, 0, 0)
    ELSE LET denormal == x.m < 2^(MantBits - 1)
             l == LeadingShift(x.m)
             t == IF denormal THEN 0 ELSE TrailingZeros(x.m)
             a == -(x.e - l + t)
         IN IF ExactInteger(x, a) THEN Fin(x.s, WholePart(x), 0)
            ELSE IF ExactFraction(x, a, t) THEN Fin(x.s, (x.m \div 2^t) * 5^a, -a)
            ELSE General(x.s, x.m, x.e, x.e - l)

\* bid128_quantize: the same value with another exponent, rounded; NaN when
\* the coefficient would not fit.
Quantized(d, e) ==
    IF e >= d.e THEN Fin(d.s, RoundHalfEven(d.c, 10^(e - d.e)), e)
    ELSE IF d.c >= 10^(Digits - (d.e - e)) THEN NaN(0, 0)
    ELSE Fin(d.s, d.c * 10^(d.e - e), e)

\* The decimal exponent of 2^b, by the integer division that truncates.
BaseTen(b) == IF b < 0 THEN -((-b * 30103) \div 100000) - 1 ELSE (b * 30103) \div 100000

\* The second quantization, when the guess of the exponent was one off.
Requantized(q, d, base, n) == IF q.c > 10^n - 1 THEN Quantized(d, base - (n - 2)) ELSE q

\* Decimal128(double, n): rounded to n digits unless it has no more.
FromDouble(x, n) ==
    LET d == binary64_to_bid128(x)
        base == BaseTen(x.e - LeadingShift(x.m) + MantBits - 1)
    IN IF d.k # "fin" \/ d.c <= 10^n - 1 THEN d
       ELSE Requantized(Quantized(d, base - (n - 1)), d, base, n)

\* From an integer: its magnitude, and its sign.
FromInt(n) == Fin(IF n < 0 THEN 1 ELSE 0, IntAbs(n), 0)

-----------------------------------------------------------------------------
(* Comparing, and the two formats.                                         *)

\* quiet_less of the library: never with a NaN.
SignedCoefficient(d) == IF d.s = 1 THEN -d.c ELSE d.c
QuietLess(x, y) ==
    /\ ~is_nan(x) /\ ~is_nan(y)
    /\ LET low == IF x.e < y.e THEN x.e ELSE y.e
       IN CASE x.k = "inf" /\ y.k = "inf" -> x.s > y.s
            [] x.k = "inf" -> x.s = 1
            [] y.k = "inf" -> y.s = 0
            [] OTHER -> SignedCoefficient(x) * 10^(x.e - low) < SignedCoefficient(y) * 10^(y.e - low)

\* NaNs come before numbers and are ordered by their words, so that equal
\* means identical.
NaNWords(d) == d.s * 1000 + d.c
CompareDec(x, y) ==
    IF QuietLess(x, y) THEN -1
    ELSE IF QuietLess(y, x) THEN 1
    ELSE IF ~is_nan(x) /\ ~is_nan(y) THEN 0
    ELSE IF is_nan(x) /\ is_nan(y)
         THEN IF NaNWords(x) = NaNWords(y) THEN 0
              ELSE IF NaNWords(x) < NaNWords(y) THEN -1 ELSE 1
    ELSE IF is_nan(x) THEN -1 ELSE 1

\* operator==: null is equal to null, a NaN only to the same NaN.
EqualDec(x, y) ==
    \/ is_null(x) /\ is_null(y)
    \/ ~is_nan(x) /\ ~is_nan(y) /\ ~QuietLess(x, y) /\ ~QuietLess(y, x)
    \/ is_nan(x) /\ is_nan(y) /\ x = y

\* The scaling of the coefficient with the larger exponent: <<>> once it has
\* more digits than the short format.
RECURSIVE ScaledUp(_, _)
ScaledUp(sig, n) ==
    IF n = 0 THEN <<sig>>
    ELSE IF sig * 10 > 10^ShortDigits - 1 THEN <<>>
    ELSE ScaledUp(sig * 10, n - 1)

\* The exponents may differ by at most one less than the digits.
NearExponents(d) == d <= ShortDigits - 1

\* operator== of two finite short decimals.
EqualShort(x, y) ==
    LET hi == IF x.e > y.e THEN x ELSE y
        lo == IF x.e > y.e THEN y ELSE x
    IN \/ x = y
       \/ x.c = 0 /\ y.c = 0
       \/ /\ x.c # 0 /\ y.c # 0
          /\ x.s = y.s
          /\ NearExponents(hi.e - lo.e)
          /\ ScaledUp(hi.c, hi.e - lo.e) = <<lo.c>>

-----------------------------------------------------------------------------
(* The text of a decimal: its digits, those before the point, the exponent *)
(* that is written after them.                                             *)

RECURSIVE DigitCount(_)
DigitCount(c) == IF c < 10 THEN 1 ELSE 1 + DigitCount(c \div 10)

\* The exponent is counted towards zero from either side.
RECURSIVE PointPlaceNear(_, _)
PointPlaceNear(before, e) ==
    IF before > 1 /\ e # 0 THEN PointPlaceNear(before - 1, IF e > 0 THEN e - 1 ELSE e + 1)
    ELSE <<before, e>>
\* The point moves left, and the exponent up, until one or the other ends.
RECURSIVE PointPlace(_, _)
PointPlace(before, e) ==
    IF before > 1 /\ e # 0 THEN PointPlace(before - 1, e + 1) ELSE <<before, e>>

to_string(d) ==
    LET n == DigitCount(d.c)
        place == PointPlace(n, d.e)
    IN [s |-> d.s, digits |-> d.c, after |-> n - place[1], exp |-> place[2]]

\* What the text denotes: bid128_from_string.
Denoted(t) == Fin(t.s, t.digits, t.exp - t.after)

-----------------------------------------------------------------------------
(* The behaviour: one call at a time, its inputs from small sets.          *)

NoAsk == [op |-> "none"]

Wide(n) == [1..n -> Parts]

\* Finite decimals around the boundaries, with cohorts of one value.
SomeDecimals ==
    {Fin(s, c, e) : s \in {0, 1}, c \in {0, 1, 9, 10, 99, 100, 120, 1200, 10^ShortDigits - 1},
                    e \in {-2, -1, 0, 1, 2}}
    \cup {Inf(0), Inf(1), DecNull, NaN(0, 7), NaN(1, 7)}
ShortDecimals == {d \in SomeDecimals : d.k = "fin" /\ d.c < 10^ShortDigits}

DecInit == ask = NoAsk /\ answer = <<>>

Asked(question, result) == ask' = question /\ answer' = result

\* Two words, or four, times four words: c by r, r by the outer entry.
MultiplyWide ==
    /\ ask = NoAsk
    /\ \E x \in Wide(2) \cup Wide(4), y \in Wide(4) :
           Asked([op |-> "mul", x |-> x, y |-> y, row |-> 0], <<>>)

NextRow ==
    /\ ask.op = "mul"
    /\ ask.row < Len(ask.x)
    /\ ask' = [ask EXCEPT !.row = @ + 1]
    /\ \E p \in {Products(ask.x[ask.row + 1], ask.y)} : \E row \in {MulRow(p)} :
           answer' = AddRow(answer, row, ask.row + 1)

MultiplyTen ==
    /\ ask = NoAsk
    /\ \E z \in 0..(2^TenBits - 1), carry \in 0..9 :
           Asked([op |-> "ten", z |-> z, carry |-> carry], TimesTen(z, carry))

EstimateExponent ==
    /\ ask = NoAsk
    /\ \E e \in -1186..911 : Asked([op |-> "estimate", e |-> e], <<EstimateOut(e), AlignShift(e)>>)

ConvertDouble ==
    /\ ask = NoAsk
    /\ \E x \in Doubles \cup SpecialDoubles :
           Asked([op |-> "double", x |-> x], <<binary64_to_bid128(x), FromDouble(x, Rounded)>>)

CompareDecimals ==
    /\ ask = NoAsk
    /\ \E x \in SomeDecimals, y \in SomeDecimals :
           Asked([op |-> "compare", x |-> x, y |-> y], <<CompareDec(x, y), EqualDec(x, y)>>)

CompareShort ==
    /\ ask = NoAsk
    /\ \E x \in ShortDecimals, y \in ShortDecimals :
           Asked([op |-> "short", x |-> x, y |-> y], EqualShort(x, y))

WriteText ==
    /\ ask = NoAsk
    /\ \E d \in {v \in SomeDecimals : v.k = "fin"} : Asked([op |-> "text", x |-> d], to_string(d))

\* The caller has used the answer.
DecDone ==
    /\ ask # NoAsk
    /\ ask.op = "mul" => ask.row = Len(ask.x)
    /\ ask' = NoAsk /\ answer' = <<>>

DecNext ==
    \/ MultiplyWide \/ NextRow \/ MultiplyTen \/ EstimateExponent \/ ConvertDouble
    \/ CompareDecimals \/ CompareShort \/ WriteText \/ DecDone

DecSpec == DecInit /\ [][DecNext]_decVars

-----------------------------------------------------------------------------
(* Properties.                                                             *)

RECURSIVE NumberOf(_, _)
NumberOf(w, i) == IF i > Len(w) THEN 0 ELSE w[i] + WordSize * NumberOf(w, i + 1)

\* The products of the expanded macros are the products of the numbers: no
\* carry between words, half words or rows is lost or counted twice; and the
\* multiplication by ten keeps every carry of its shifts.
WideProductsExact ==
    /\ ask.op = "mul" =>
           NumberOf(answer, 1) = NumberOf(SubSeq(ask.x, 1, ask.row), 1) * NumberOf(ask.y, 1)
    /\ ask.op = "ten" => answer[1] + answer[2] * 2^TenBits = 10 * ask.z + ask.carry

\* For every exponent of a double the estimate is the decade of the largest
\* significand, the outer table has an entry for it, and the shift that aligns
\* the product is one that C++ defines for a 64-bit word.
ExponentEstimated ==
    ask.op = "estimate" =>
        /\ answer[1] = ((ask.e + 113) * 30103 - 1) \div 100000 - 33 + 6176
        /\ answer[2].outer \in 0..79
        /\ answer[2].shift \in 1..63

\* A double becomes the decimal nearest to it, exactly when one of Digits
\* digits is equal to it; an exact whole number has exponent zero.
NearestDecimal ==
    (ask.op = "double" /\ ask.x.k = "fin" /\ ask.x.m # 0) =>
        LET d == answer[1]
            frac == Scaled(ask.x.m, ask.x.e, d.e)
        IN /\ d.k = "fin" /\ d.s = ask.x.s
           /\ d.c < CoeffLimit
           /\ 2 * IntAbs(d.c * frac[2] - frac[1]) <= frac[2]
           /\ d.c < 10^(Digits - 1) => d.c * frac[2] = frac[1]

\* The constructor leaves at most Rounded digits, and those are the nearest
\* to the decimal that the double became.
RoundedNearest ==
    (ask.op = "double" /\ ask.x.k = "fin") =>
        LET d == answer[1]
            r == answer[2]
        IN /\ r.k = "fin" /\ r.c < 10^Rounded
           /\ r # d =>
                  /\ r.c >= 10^(Rounded - 1)
                  /\ 2 * IntAbs(r.c * 10^(r.e - d.e) - d.c) <= 10^(r.e - d.e)

\* compare is a total order that puts null and the NaNs first and agrees with
\* operator==: two decimals compare as equal exactly when they are equal.
DecimalOrderTotal ==
    ask.op = "compare" =>
        /\ answer[1] = -CompareDec(ask.y, ask.x)
        /\ answer[1] = 0 <=> answer[2]
        /\ is_nan(ask.x) /\ ~is_nan(ask.y) => answer[1] = -1

\* The equality of the short format, which compares the fields without
\* converting them, is the equality of the decimals.
ShortEqualityAgrees == ask.op = "short" => (answer <=> EqualDec(ask.x, ask.y))

\* The text denotes the decimal it was made from, digit for digit.
TextDenotes == ask.op = "text" => Denoted(answer) = ask.x

\* Decimals are exact: a double becomes the nearest one through products and
\* estimates without a lost carry, and order, equality and text agree on it.
DecimalsExact ==
    /\ WideProductsExact
    /\ ExponentEstimated
    /\ NearestDecimal
    /\ RoundedNearest
    /\ DecimalOrderTotal
    /\ ShortEqualityAgrees
    /\ TextDenotes
=============================================================================

----------------------------- MODULE Intervals -----------------------------
(***************************************************************************)
(* Ranges of integer values and what each operator does to them            *)
(* (kir/src/range/interval.rs).  A type is a range too, with the number of *)
(* its bits: [lo, hi, bits].  The code computes in i128, where nothing of  *)
(* an operand's type overflows, so these are exact integers.               *)
(***************************************************************************)
EXTENDS Numbers

Interval(lo, hi) == [lo |-> lo, hi |-> hi]
Exact(v)         == Interval(v, v)
OfType(ty)       == Interval(ty.lo, ty.hi)
Signed(ty)       == ty.lo < 0
Values(a)        == a.lo .. a.hi

Has(a, v)     == a.lo <= v /\ v <= a.hi
FitsIn(a, outer)   == outer.lo <= a.lo /\ a.hi <= outer.hi
Meets(a, b)        == Greatest(a.lo, b.lo) <= Least(a.hi, b.hi)
Meet(a, b)         == Interval(Greatest(a.lo, b.lo), Least(a.hi, b.hi))
Join(a, b)         == Interval(Least(a.lo, b.lo), Greatest(a.hi, b.hi))
Clip(a, ty)        == IF Meets(a, ty) THEN Meet(a, ty) ELSE OfType(ty)

\* An end that still grows jumps to the type's.
Widen(a, new, ty) ==
    Interval(IF new.lo < a.lo THEN Least(ty.lo, new.lo) ELSE a.lo,
             IF new.hi > a.hi THEN Greatest(ty.hi, new.hi) ELSE a.hi)

\* The result of an operation whose exact result is known, after its check.
Settle(exact, ty, tested) ==
    IF FitsIn(exact, ty) THEN exact ELSE IF tested THEN Clip(exact, ty) ELSE OfType(ty)
-----------------------------------------------------------------------------
Add(a, b) == Interval(a.lo + b.lo, a.hi + b.hi)
Sub(a, b) == Interval(a.lo - b.hi, a.hi - b.lo)
Neg(a)    == Interval(-a.hi, -a.lo)

Ends(a) == {a.lo, a.hi}

LeastIn(S)    == CHOOSE x \in S : \A y \in S : x <= y
GreatestIn(S) == CHOOSE x \in S : \A y \in S : x >= y

\* The smallest range that holds some numbers.
Hull(S) == Interval(LeastIn(S), GreatestIn(S))

Mul(a, b) == Hull({x * y : x \in Ends(a), y \in Ends(b)})

\* The divisors other than 0: at most a range on each side of it.
NonzeroParts(b) ==
    {p \in {Interval(b.lo, Least(b.hi, -1)), Interval(Greatest(b.lo, 1), b.hi)} : p.lo <= p.hi}

DivAtEnds(a, b, ty) == \* seeded fault
    IF NonzeroParts(b) = {} THEN OfType(ty)
    ELSE Hull({Whole(x, y) : x \in Ends(a), y \in Ends(b) \ {0}})

Div(a, b, ty) ==
    IF NonzeroParts(b) = {} THEN OfType(ty)
    ELSE Hull({Whole(x, y) : x \in Ends(a), y \in UNION {Ends(p) : p \in NonzeroParts(b)}})

Rem(a, b, ty) ==
    LET sizes == {Abs(y) : y \in UNION {Ends(p) : p \in NonzeroParts(b)}}
        largest == GreatestIn(sizes)
    IN  IF NonzeroParts(b) = {} THEN OfType(ty)
        ELSE Interval(IF a.lo < 0 THEN -Least(-a.lo, largest - 1) ELSE 0,
                      IF a.hi > 0 THEN Least(a.hi, largest - 1) ELSE 0)
-----------------------------------------------------------------------------
Amounts(ty) == Interval(0, ty.bits - 1)

ShiftAmount(n, ty, tested) ==
    IF FitsIn(n, Amounts(ty)) THEN n
    ELSE IF tested /\ Meets(n, Amounts(ty)) THEN Meet(n, Amounts(ty)) ELSE Amounts(ty)

Shl(a, n, ty) ==
    LET r == Hull({x * 2 ^ k : x \in Ends(a), k \in Ends(n)})
    IN  IF FitsIn(r, ty) THEN r ELSE OfType(ty)

Shr(a, n) == Hull({x \div 2 ^ k : x \in Ends(a), k \in Ends(n)})

\* The bits that are 1 in a value, counted from the lowest, and back.
Bits(v, ty)      == {k \in 0..(ty.bits - 1) : (v \div 2 ^ k) % 2 = 1}
OfBits(bits, ty) == CHOOSE v \in Values(ty) : Bits(v, ty) = bits

And(x, y, ty) == OfBits(Bits(x, ty) \cap Bits(y, ty), ty)
Or(x, y, ty)  == OfBits(Bits(x, ty) \cup Bits(y, ty), ty)
Xor(x, y, ty) == OfBits((Bits(x, ty) \cup Bits(y, ty)) \ (Bits(x, ty) \cap Bits(y, ty)), ty)
Not(x, ty)    == OfBits((0..(ty.bits - 1)) \ Bits(x, ty), ty)

Single(a) == a.lo = a.hi

BitAnd(a, b, ty) ==
    LET tops == {s.hi : s \in {t \in {a, b} : t.lo >= 0}}
    IN  IF Single(a) /\ Single(b) THEN Exact(And(a.lo, b.lo, ty))
        ELSE IF tops = {} THEN OfType(ty) ELSE Interval(0, LeastIn(tops))

BitOrXor(a, b, ty, xor) ==
    LET high == Greatest(a.hi, b.hi)
        above == LeastIn({p \in {2 ^ k : k \in 0..ty.bits} : p >= high + 1})
    IN  IF Single(a) /\ Single(b) THEN Exact(IF xor THEN Xor(a.lo, b.lo, ty) ELSE Or(a.lo, b.lo, ty))
        ELSE IF a.lo < 0 \/ b.lo < 0 THEN OfType(ty) ELSE Interval(0, above - 1)

BitNot(a, ty) == LET top == IF Signed(ty) THEN -1 ELSE ty.hi IN Interval(top - a.hi, top - a.lo)

\* Between two bounds, in either order.
RandInt(a, b, ty) == IF FitsIn(Join(a, b), ty) THEN Join(a, b) ELSE OfType(ty)

\* Whether the checks of a division and of a shift cannot fail.
DivisionSafe(a, b, ty) ==
    ~Has(b, 0) /\ ~(Signed(ty) /\ Has(a, ty.lo) /\ Has(b, -1))
ShiftSafe(n, ty) == n.lo >= 0 /\ n.hi < ty.bits
-----------------------------------------------------------------------------
(* What a range is to hold.                                                 *)

\* What is left of a division.
Remainder(x, y) == x - y * Whole(x, y)

\* The value of a type that an exact result becomes when nothing checks it.
Wrapped(v, ty) == ty.lo + ((v - ty.lo) % (ty.hi - ty.lo + 1))

\* Whether a range holds every result of an operation: one that fits, and in a
\* build without the check what the others wrap to.
Holds(v, exact, ty) ==
    /\ Has(ty, v) => \A tested \in BOOLEAN : Has(Settle(exact, ty, tested), v)
    /\ ~Has(ty, v) => ~FitsIn(exact, ty) /\ Has(Settle(exact, ty, FALSE), Wrapped(v, ty))

\* Ranges a and b of a type hold x and y: then a range that is computed from
\* them holds what is computed from x and y, and a division whose checks are
\* left out cannot fail.
ArithmeticHolds(ty, a, b, x, y) ==
    /\ Holds(x + y, Add(a, b), ty)
    /\ Holds(x - y, Sub(a, b), ty)
    /\ Holds(x * y, Mul(a, b), ty)
    /\ Holds(-x, Neg(a), ty)
    /\ y # 0 => Holds(Whole(x, y), Div(a, b, ty), ty) /\ Holds(Remainder(x, y), Rem(a, b, ty), ty)
    /\ DivisionSafe(a, b, ty) => y # 0 /\ Has(ty, Whole(x, y))
    /\ Has(RandInt(a, b, ty), x) /\ Has(RandInt(a, b, ty), y)
    /\ Has(Join(a, b), x) /\ Has(Join(a, b), y) /\ Has(Widen(a, b, ty), x) /\ Has(Widen(a, b, ty), y)
    /\ Has(b, x) => Meets(a, b) /\ Has(Meet(a, b), x)
=============================================================================

------------------------------- MODULE ExactLimbs -------------------------------
(***************************************************************************)
(* Exact sums of floating-point numbers (math/exact_positive_sum.hpp,      *)
(* exact_signed_sum.hpp and exact_binary64_product_sum.hpp).  Every finite *)
(* number is a whole number of smallest subnormals, and an accumulator is  *)
(* such a number in words, the lowest first; it is rounded once, at the    *)
(* end.  Binary64 and words of 64 bits are here a format of Digits binary  *)
(* digits and words of Width bits.                                         *)
(*                                                                         *)
(* A definition marked "fault" is a plausible mistake in the definition    *)
(* that follows it; nothing uses it.                                       *)
(***************************************************************************)
EXTENDS Integers, SequencesExt

CONSTANTS Width,          \* bits of a word
          Digits,         \* of a significand
          ExponentBits,
          Subnormal,      \* the smallest positive number is 2 ^ -Subnormal
          LimbCount,      \* of a sum
          MaxFactors,     \* of a product
          ProductLimbs,   \* of a product
          ProductSumLimbs \* of a sum of products

LimbsAssumption == /\ Digits \in 2 .. Width /\ Width % 2 = 0
                   /\ {ExponentBits, Subnormal, LimbCount, MaxFactors, ProductLimbs,
                       ProductSumLimbs} \subseteq Nat \ {0}

Base == 2 ^ Width
Half == 2 ^ (Width \div 2)
MaxWord == Base - 1

-----------------------------------------------------------------------------
(* Numbers, as their fields.                                               *)

IsFinite(v) == v.exponent # 2 ^ ExponentBits - 1
IsZero(v) == v.exponent = 0 /\ v.fraction = 0

Decode(v) ==
    IF v.exponent = 0 THEN [mantissa |-> v.fraction, shift |-> 0]
    ELSE [mantissa |-> 2 ^ (Digits - 1) + v.fraction, shift |-> v.exponent - 1]

(* The largest finite number, in smallest subnormals.                      *)
MaxFinite == (2 ^ Digits - 1) * 2 ^ (2 ^ ExponentBits - 3)

-----------------------------------------------------------------------------
(* Words.                                                                  *)

Zeros(n) == [i \in 0 .. n - 1 |-> 0]
Count(limbs) == Cardinality(DOMAIN limbs)
Indices(n) == [k \in 1 .. n |-> k - 1]

(* A word is added and its carry runs upwards; what is left of it has run  *)
(* over the top.                                                           *)
AddWord(limbs, index, word) ==
    FoldLeft(LAMBDA s, i : [limbs |-> [s.limbs EXCEPT ![i] = (@ + s.word) % Base],
                            word |-> (s.limbs[i] + s.word) \div Base],
             [limbs |-> limbs, word |-> word],
             [k \in 1 .. Count(limbs) - index |-> index + k - 1])

(* A word shifted across two of the accumulator's.                         *)
AddShiftedWord(limbs, word, shift) ==
    LET index == shift \div Width
        offset == shift % Width
        low == AddWord(limbs, index, (word * 2 ^ offset) % Base)
        high == AddWord(low.limbs, index + 1, (word * 2 ^ offset) \div Base)
    IN  [limbs |-> high.limbs, word |-> low.word + high.word]

Bit(limbs, position) ==
    /\ position \div Width \in DOMAIN limbs
    /\ (limbs[position \div Width] \div 2 ^ (position % Width)) % 2 = 1

NoBit == -1
HighestSetBit(limbs) ==
    Max({NoBit} \union {p \in 0 .. Width * Count(limbs) - 1 : Bit(limbs, p)})

WordsBelow(limbs, end) ==                                        \* fault
    \E i \in 0 .. end \div Width - 1 : limbs[i] # 0

AnyBitsBelow(limbs, end) ==
    \/ \E i \in 0 .. end \div Width - 1 : limbs[i] # 0
    \/ limbs[end \div Width] % 2 ^ (end % Width) # 0

Extract(limbs, shift) ==
    LET index == shift \div Width
        offset == shift % Width
        above == IF index + 1 \in DOMAIN limbs THEN limbs[index + 1] ELSE 0
    IN  (limbs[index] \div 2 ^ offset) + ((above * 2 ^ (Width - offset)) % Base)

(* To nearest, ties to even: the bit below and all the bits below that.    *)
RoundsUp(limbs, shift, significand) ==
    /\ Bit(limbs, shift - 1)
    /\ AnyBitsBelow(limbs, shift - 1) \/ significand % 2 = 1

Rounded(limbs) ==
    LET highest == HighestSetBit(limbs)
        discarded == highest - (Digits - 1)
        significand == Extract(limbs, discarded) % 2 ^ Digits
        up == significand + 1
    IN  CASE highest < Digits -> [significand |-> limbs[0], exponent |-> 0]
          [] highest >= Digits /\ ~ RoundsUp(limbs, discarded, significand) ->
                 [significand |-> significand, exponent |-> discarded]
          [] highest >= Digits /\ RoundsUp(limbs, discarded, significand) ->
                 IF up = 2 ^ Digits
                   THEN [significand |-> up \div 2, exponent |-> discarded + 1]
                   ELSE [significand |-> up, exponent |-> discarded]

(* In smallest subnormals; one above MaxFinite is an overflow.             *)
Value(limbs) == Rounded(limbs).significand * 2 ^ Rounded(limbs).exponent

-----------------------------------------------------------------------------
(* ExactPositiveDoubleSum, with the exception that ended it.               *)

EmptySum == [limbs |-> Zeros(LimbCount), terms |-> 0, error |-> "none"]

With(sum, added, terms) ==
    [limbs |-> added.limbs, terms |-> sum.terms + terms,
     error |-> IF added.word = 0 THEN "none" ELSE "envelope"]

IsTerm(v) == IsFinite(v) /\ (~ v.negative \/ IsZero(v))

(* Once for a term, once for each bit of the number of its repetitions.    *)
AddRepeated(sum, v, n) ==
    IF sum.error # "none" THEN sum
    ELSE IF ~ IsTerm(v) THEN [sum EXCEPT !.error = "invalid"]
    ELSE IF n > MaxWord - sum.terms THEN [sum EXCEPT !.error = "count"]
    ELSE With(sum,
              FoldLeft(LAMBDA s, b :
                           IF (n \div 2 ^ b) % 2 = 0 THEN s
                           ELSE LET t == AddShiftedWord(s.limbs, Decode(v).mantissa,
                                                        Decode(v).shift + b)
                                IN  [t EXCEPT !.word = @ + s.word],
                       [limbs |-> sum.limbs, word |-> 0], Indices(Width)),
              n)

Add(sum, v) ==
    IF sum.error # "none" THEN sum
    ELSE IF ~ IsTerm(v) THEN [sum EXCEPT !.error = "invalid"]
    ELSE IF sum.terms = MaxWord THEN [sum EXCEPT !.error = "count"]
    ELSE With(sum, AddShiftedWord(sum.limbs, Decode(v).mantissa, Decode(v).shift), 1)

AddAll(sum, terms) == FoldLeft(Add, sum, terms)

Combine(sum, other) ==
    IF sum.error # "none" THEN sum
    ELSE IF other.terms > MaxWord - sum.terms THEN [sum EXCEPT !.error = "count"]
    ELSE With(sum,
              FoldLeft(LAMBDA s, i : LET t == AddWord(s.limbs, i, other.limbs[i])
                                     IN  [t EXCEPT !.word = @ + s.word],
                       [limbs |-> sum.limbs, word |-> 0], Indices(LimbCount)),
              other.terms)

-----------------------------------------------------------------------------
(* ExactSignedDoubleSum: two sums, and the smaller one is subtracted.      *)

Less(lhs, rhs) ==
    \E i \in DOMAIN lhs : lhs[i] < rhs[i] /\ \A j \in DOMAIN lhs : j > i => lhs[j] = rhs[j]

Subtract(lhs, rhs) ==
    FoldLeft(LAMBDA s, i :
                 LET first == (lhs[i] - rhs[i]) % Base
                 IN  [limbs |-> [s.limbs EXCEPT ![i] = (first - s.borrow) % Base],
                      borrow |-> IF lhs[i] < rhs[i] \/ first < s.borrow THEN 1 ELSE 0],
             [limbs |-> lhs, borrow |-> 0], Indices(Count(lhs))).limbs

Positive(terms) == AddAll(EmptySum, SelectSeq(terms, LAMBDA v : ~ v.negative))
Negative(terms) ==
    LET negated(v) == [v EXCEPT !.negative = FALSE]
        below == SelectSeq(terms, LAMBDA v : v.negative)
    IN  AddAll(EmptySum, [k \in DOMAIN below |-> negated(below[k])])

SignedSum(terms) ==
    LET plus == Positive(terms).limbs
        minus == Negative(terms).limbs
    IN  IF Less(plus, minus) THEN - Value(Subtract(minus, plus))
                             ELSE Value(Subtract(plus, minus))

-----------------------------------------------------------------------------
(* exact_binary64_product_sum, in units of the smallest product.           *)

(* A product of words, from the products of their halves.                  *)
MultiplyWords(lhs, rhs) ==
    LET low == (lhs % Half) * (rhs % Half)
        lowHigh == (lhs % Half) * (rhs \div Half)
        highLow == (lhs \div Half) * (rhs % Half)
        once == low + ((lowHigh * Half) % Base)
        twice == (once % Base) + ((highLow * Half) % Base)
    IN  [high |-> (lhs \div Half) * (rhs \div Half) + (lowHigh \div Half)
                  + (highLow \div Half) + (once \div Base) + (twice \div Base),
         low |-> twice % Base]

Multiply(product, factor) ==
    FoldLeft(LAMBDA s, i :
                 LET wide == MultiplyWords(s.limbs[i], factor)
                     low == wide.low + s.word
                 IN  [limbs |-> [s.limbs EXCEPT ![i] = low % Base],
                      word |-> wide.high + (low \div Base)],
             [limbs |-> product, word |-> 0], Indices(ProductLimbs)).limbs

Product(factors) ==
    FoldLeft(LAMBDA product, v : Multiply(product, Decode(v).mantissa),
             [Zeros(ProductLimbs) EXCEPT ![0] = 1], factors)

(* Products of fewer factors have a coarser unit.                          *)
ProductShift(factors) ==
    FoldLeft(LAMBDA n, v : n + Decode(v).shift, 0, factors)
    + (MaxFactors - Len(factors)) * Subnormal

AddProduct(limbs, factors) ==
    FoldLeft(LAMBDA sum, i : AddShiftedWord(sum, Product(factors)[i],
                                            ProductShift(factors) + i * Width).limbs,
             limbs, Indices(ProductLimbs))

IsNegative(factors) ==
    Cardinality({k \in DOMAIN factors : factors[k].negative}) % 2 = 1

ProductsOf(terms, negative) ==
    FoldLeft(AddProduct, Zeros(ProductSumLimbs),
             SelectSeq(terms, LAMBDA factors :
                           /\ \A k \in DOMAIN factors : ~ IsZero(factors[k])
                           /\ IsNegative(factors) = negative))

ShiftedRounded(limbs, shift) ==
    LET significand == Extract(limbs, shift)
    IN  IF shift > 0 /\ RoundsUp(limbs, shift, significand) THEN significand + 1
                                                            ELSE significand

(* rounded_binary64: the fields are put together, and below the smallest   *)
(* normal number a significand that rounds up to it becomes its exponent.  *)
Finest == (MaxFactors - 1) * Subnormal

Encoded(units) ==
    [status |-> "value", exponent |-> units \div 2 ^ (Digits - 1),
     fraction |-> units % 2 ^ (Digits - 1)]

Failure(why) == [status |-> why, exponent |-> 0, fraction |-> 0]

RoundedProducts(limbs) ==
    LET highest == HighestSetBit(limbs)
        shift == Max({highest - (Digits - 1), 0})
        units == ShiftedRounded(limbs, Finest)
        significand == ShiftedRounded(limbs, shift)
        carried == significand = 2 ^ Digits
        exponent == shift + (IF carried THEN 1 ELSE 0) - Finest + 1
    IN  IF highest = NoBit THEN Encoded(0)
        ELSE IF highest < Finest + Digits - 1
          THEN IF units = 0 THEN Failure("underflow") ELSE Encoded(units)
        ELSE IF exponent >= 2 ^ ExponentBits - 1 THEN Failure("overflow")
        ELSE [status |-> "value", exponent |-> exponent,
              fraction |-> IF carried THEN 0 ELSE significand % 2 ^ (Digits - 1)]

ProductSum(terms) ==
    LET plus == ProductsOf(terms, FALSE)
        minus == ProductsOf(terms, TRUE)
        negative == Less(plus, minus)
        magnitude == IF negative THEN Subtract(minus, plus) ELSE Subtract(plus, minus)
    IN  IF \E k \in DOMAIN terms : \E f \in DOMAIN terms[k] : ~ IsFinite(terms[k][f])
          THEN Failure("invalid") @@ [negative |-> FALSE]
          ELSE RoundedProducts(magnitude) @@ [negative |-> negative]
=============================================================================

---------------------------- MODULE Conversions ----------------------------
(***************************************************************************)
(* libc/src/conversions.c: numbers to text, as vga_printf uses it.         *)
(*                                                                         *)
(* A text is a sequence of characters.  Integers have IntBits bits.  A     *)
(* float is counted in the last of the Places that float_to_str prints;    *)
(* what is lost in rounding to these is left out.                          *)
(***************************************************************************)
EXTENDS Integers, SequencesExt

CONSTANTS IntBits,      \* 32
          Places        \* FLOAT_FRACTIONAL_SHIFT_FACTOR is 10^Places: 7

ASSUME ConversionsAssumption == IntBits \in Nat \ {0} /\ Places \in Nat \ {0}

MaxInt == 2 ^ (IntBits - 1) - 1
MinInt == -MaxInt - 1
Int_ct == MinInt .. MaxInt
Unsigned_ct == 0 .. 2 ^ IntBits - 1
Fraction == 10 ^ Places

Numerals == <<"0", "1", "2", "3", "4", "5", "6", "7", "8", "9", "A", "B", "C", "D", "E", "F">>

-----------------------------------------------------------------------------
(* Division and remainder of C, which round towards 0. *)
Quotient(a, b) == IF a >= 0 THEN a \div b ELSE -((-a) \div b)
Remainder(a, b) == a - b * Quotient(a, b)

(* src *= -1, in IntBits bits: the least integer stays as it is. *)
Magnitude(n) == IF n < 0 /\ n # MinInt THEN -n ELSE n

(* The digits from the last to the first: the loop ends when no positive   *)
(* number is left, and so after one digit of a negative one.               *)
Backwards(n, base) ==
  LET digits[m \in 0 .. 2 ^ IntBits] ==
        <<m % base>> \o (IF m \div base > 0 THEN digits[m \div base] ELSE <<>>)
  IN IF n >= 0 THEN digits[n] ELSE <<Remainder(n, base)>>

(* '0' minus something is none of the numerals. *)
Chars(digits) == [k \in DOMAIN digits |-> IF digits[k] < 0 THEN "(" ELSE Numerals[digits[k] + 1]]
Sign(n) == IF n < 0 THEN <<"-">> ELSE <<>>

UintToStr(n) == Reverse(Chars(Backwards(n, 10)))

(* Mutant of IntToStr: the sign is appended when the text is reversed. *)
IntToStrSignLast(n) == Reverse(Chars(Backwards(Magnitude(n), 10))) \o Sign(n)
IntToStr(n) == Reverse(Chars(Backwards(Magnitude(n), 10)) \o Sign(n))

UdecToHex(n) == Reverse(Chars(Backwards(n, 16)) \o <<"x", "0">>)

(* The least integer gives no digit, as the loop is left at once. *)
DecToHex(n) ==
  LET digits == IF n = MinInt THEN <<>> ELSE Chars(Backwards(Magnitude(n), 16))
  IN Reverse(digits \o <<"x", "0">> \o Sign(n))

(* int_to_str_truncate_0, of a number that is not negative: zeros are cut  *)
(* off its end, but never its first digit.                                 *)
TruncatedZeros(n) ==
  LET digits == Backwards(n, 10)
      zeros == SelectInSeq(digits, LAMBDA d : d # 0) - 1
      cut == IF zeros < 0 THEN Len(digits) - 1 ELSE zeros
  IN Reverse(Chars(SubSeq(digits, cut + 1, Len(digits))))

(* The zeros after the point: one for each further place that does not     *)
(* make a whole number of the fractional part.                             *)
LeadingZeros(part) ==
  LET zero(k) == Quotient(part * 10 ^ k, Fraction) = 0
  IN Cardinality({k \in 1 .. Places : \A j \in 1 .. k : zero(j)})

(* Of a number between -1 and 0 the sign is lost. *)
FloatToStr(x) ==
  LET part == Remainder(x, Fraction)
  IN IntToStr(Quotient(x, Fraction)) \o <<".">>
       \o [k \in 1 .. LeadingZeros(part) |-> "0"]
       \o TruncatedZeros(IF part < 0 THEN -part ELSE part)

-----------------------------------------------------------------------------
(* What a text says: the value of its digits, in the base. *)
Said(text, base) ==
  FoldLeft(LAMBDA value, c : value * base + SelectInSeq(Numerals, LAMBDA d : d = c) - 1, 0, text)
Unsigned(text) == IF Head(text) = "-" THEN Tail(text) ELSE text
Signed(text, value) == IF Head(text) = "-" THEN -value ELSE value

SaidInt(text) == Signed(text, Said(Unsigned(text), 10))
SaidHex(text) == Signed(text, Said(SubSeq(Unsigned(text), 3, Len(Unsigned(text))), 16))
(* In tenths of the last place; a fraction that is 0 has a digit more. *)
SaidFloat(text) ==
  LET dot == SelectInSeq(text, LAMBDA c : c = ".")
      places == SubSeq(text, dot + 1, Len(text))
      whole == Said(Unsigned(SubSeq(text, 1, dot - 1)), 10)
  IN Signed(text, 10 * Fraction * whole + Said(places, 10) * 10 ^ (Places + 1 - Len(places)))

(* No digit is one too many. *)
Shortest(text) == Len(Unsigned(text)) = 1 \/ Head(Unsigned(text)) # "0"

IntsReadBack ==
  \A n \in Int_ct \ {MinInt} :
    /\ SaidInt(IntToStr(n)) = n /\ Shortest(IntToStr(n))
    /\ SaidHex(DecToHex(n)) = n
UnsignedReadBack ==
  \A n \in Unsigned_ct :
    /\ SaidInt(UintToStr(n)) = n /\ Shortest(UintToStr(n))
    /\ SaidHex(UdecToHex(n)) = n
Floats == {x \in -12 * Fraction .. 12 * Fraction : Quotient(x, Fraction) \in Int_ct}
FloatsReadBack ==
  \A x \in Floats :
    SaidFloat(FloatToStr(x)) = 10 * (IF x \in 1 - Fraction .. -1 THEN -x ELSE x)

ReadBack == IntsReadBack /\ UnsignedReadBack /\ FloatsReadBack
=============================================================================

------------------------------- MODULE Numbers -------------------------------
(***************************************************************************)
(* Integral numbers of src/Utility and the texts that they are written     *)
(* as: ToString, ToStringBin .. ToStringHex, ZeroFill, the lengths they    *)
(* need, and the negation and comparison of values.  A type has a size in  *)
(* bytes of CHAR_BIT bits and is signed or not; a text is made of bytes.   *)
(***************************************************************************)
EXTENDS TextEdits, Configuration

CONSTANTS
  CHAR_BIT,
  WideSize,          \* the size of an unsigned long long, the widest type
  NumberTypes,       \* the types: [size, is_signed, min, max]
  NumberValues,      \* the values that are given to a number
  TableSizes,        \* the sizes whose lengths are looked at
  EpsilonInverse     \* one over the epsilon of comparisons

VARIABLE number      \* a value and its type

BitsOf(size) == size * CHAR_BIT
WideModulus  == 2 ^ BitsOf(WideSize)

-----------------------------------------------------------------------------
(* Lengths.                                                                *)

RoundUpDiv(bits, per) == (bits \div per) + (IF bits % per # 0 THEN 1 ELSE 0)

IntegralValueMaxLengthBin(size) == BitsOf(size)
IntegralValueMaxLengthOct(size) == RoundUpDiv(BitsOf(size), 3)
IntegralValueMaxLengthHex(size) == RoundUpDiv(BitsOf(size), 4)

LengthTable ==
  (1 :> 3) @@ (2 :> 5) @@ (4 :> 10) @@ (8 :> 20) @@ (16 :> 39) @@ (32 :> 78) @@ (64 :> 155)
  @@ (128 :> 309) @@ (256 :> 617) @@ (512 :> 1234) @@ (1024 :> 2467)

\* Sizes beyond the table are approximated.
IntegralValueMaxLengthDecUnsigned(size) ==
  IF size \in DOMAIN LengthTable THEN LengthTable[size]
  ELSE IF size % 2 = 1 THEN (((size - 1) \div 2) * 5) + 3
  ELSE (size \div 2) * 5

\* One more where a sign needs it, whether or not the type has one.
IntegralValueMaxLengthDec(size) ==
  LET signs == IF size \in DOMAIN LengthTable THEN {1, 2, 4, 16, 256} ELSE {n \in {size} : n % 2 = 0}
  IN IntegralValueMaxLengthDecUnsigned(size) + (IF size \in signs THEN 1 ELSE 0)

-----------------------------------------------------------------------------
(* Texts of numbers.                                                       *)

DigitByte(digit) == IF digit < 10 THEN 48 + digit ELSE 87 + digit

\* What a stream writes of a number that is not negative.
DigitsOf(n, base) ==
  LET digits[m \in 0 .. n] ==
        IF m < base THEN <<DigitByte(m)>> ELSE Append(digits[m \div base], DigitByte(m % base))
  IN digits[n]

\* setw() and setfill() of a stream: no text is cut.
SetWidth(text, width, pad) == IF Len(text) >= width THEN text ELSE PadLeft(text, width, pad)

\* A prefix or a pad character that is NUL is left out.
Radix(text, width, prefix, pad) ==
  (IF prefix = NUL THEN <<>> ELSE <<48, prefix>>)
  \o (IF pad = NUL THEN text ELSE SetWidth(text, width, pad))

\* The cast to unsigned long long.
Wide(value) == value % WideModulus

BitsText(n, bits) == [i \in 1 .. bits |-> 48 + ((n \div (2 ^ (bits - i))) % 2)]

ToStringBin(value, size, prefix, pad) ==
  Radix(BitsText(Wide(value), BitsOf(size)), IntegralValueMaxLengthBin(size), prefix, pad)

ToStringOct(value, size, prefix, pad) ==
  Radix(DigitsOf(Wide(value), 8), IntegralValueMaxLengthOct(size), prefix, pad)

ToStringDec(value, size, prefix, pad) ==
  Radix(DigitsOf(Wide(value), 10), IntegralValueMaxLengthDec(size), prefix, pad)

ToStringHex_Bug(value, size, prefix, pad) ==
  Radix(DigitsOf(Wide(value), 16), IntegralValueMaxLengthOct(size), prefix, pad)

ToStringHex(value, size, prefix, pad) ==
  Radix(DigitsOf(Wide(value), 16), IntegralValueMaxLengthHex(size), prefix, pad)

\* ValueToStringBin .. ValueToStringHex: the letter of the radix, if asked for.
ValueToStringRadix(value, size, with_prefix, pad) ==
  LET Letter(char) == IF with_prefix THEN char ELSE NUL
  IN [bin |-> ToStringBin(value, size, Letter(98), pad),
      oct |-> ToStringOct(value, size, Letter(111), pad),
      dec |-> ToStringDec(value, size, Letter(100), pad),
      hex |-> ToStringHex(value, size, Letter(120), pad)]

\* ToString and AnyToString of a number.
NumberToString(value) ==
  IF value < 0 THEN <<45>> \o DigitsOf(-value, 10) ELSE DigitsOf(value, 10)

\* A text that is too long keeps its left part; TRUE is 1.
ZeroFill(value, length) == PadLeft(NumberToString(value), length, 48)
ZeroFillBool(flag, length) == ZeroFill(IF flag THEN 1 ELSE 0, length)

-----------------------------------------------------------------------------
(* Reading a text as a number.                                             *)

\* strtoll() and strtoull() in base 10: an optional sign and the digits.
TextNumber(text) ==
  LET sign   == text # <<>> /\ text[1] = 45
      digits == IF sign THEN Tail(text) ELSE text
      value  == FoldLeft(LAMBDA n, byte : 10 * n + (byte - 48), 0, digits)
  IN Number(IF sign THEN -value ELSE value, TRUE)

IsNumericString(type, text) == ~ParseNumericString(type, TextNumber(text), 0).refused

\* An exception in place of a value.
CheckIsNumericString(type, text, low, high) ==
  ParseNumericString([type EXCEPT !.min = low, !.max = high], TextNumber(text), 0)

-----------------------------------------------------------------------------
(* Signs and comparison of values.                                         *)

IsValueNegative(type, value) == type.is_signed /\ value < 0

\* Minus the least value of a signed type is that value again.
GetValueNegated(type, value) ==
  IF ~type.is_signed THEN value ELSE IF value = type.min THEN value ELSE -value

GetValueAbsolute(type, value) ==
  IF IsValueNegative(type, value) THEN GetValueNegated(type, value) ELSE value

\* The exponent that frexp() gives, of a value that is not fractional.
Exponent(value) == Min({e \in 0 .. 31 : e < 31 => value < 2 ^ e})

\* Values are equal within epsilon times the power of two above the larger one.
FloatingPointCompare(lhs, rhs) ==
  LET larger     == Max({IF lhs < 0 THEN -lhs ELSE lhs, IF rhs < 0 THEN -rhs ELSE rhs})
      difference == (lhs - rhs) * EpsilonInverse
      delta      == 2 ^ Exponent(larger)
  IN IF difference > delta THEN 1 ELSE IF difference < -delta THEN -1 ELSE 0

\* The comparison's result, as a truth value.
FloatingPointCompareLess(lhs, rhs) == FloatingPointCompare(lhs, rhs) # 0

\* A product of unsigned long longs.
UIntegerPower(base, power) ==
  FoldLeft(LAMBDA product, i : Wide(product * base), 1, [i \in 1 .. power |-> i])

-----------------------------------------------------------------------------
(* The actions: a value is assigned, or changed through one of its texts.  *)

HasValue(type, value) == type.min <= value /\ value <= type.max

AssignNumber ==
  \E value \in NumberValues :
    HasValue(number.type, value) /\ number' = [number EXCEPT !.value = value]

NegateNumber == number' = [number EXCEPT !.value = GetValueNegated(number.type, @)]

AbsoluteNumber == number' = [number EXCEPT !.value = GetValueAbsolute(number.type, @)]

\* The number's text is read into a number of another type; a refusal leaves it alone.
ConvertNumber ==
  \E type \in NumberTypes :
    LET text == NumberToString(number.value)
    IN /\ IsNumericString(type, text)
       /\ number' = [type |-> type,
                     value |-> CheckIsNumericString(type, text, type.min, type.max).value]

NumberInit ==
  /\ number \in [type : NumberTypes, value : NumberValues]
  /\ HasValue(number.type, number.value)

NumberNext == AssignNumber \/ NegateNumber \/ AbsoluteNumber \/ ConvertNumber

-----------------------------------------------------------------------------
(* Properties.                                                             *)

\* The value of a text in a radix.
ReadDigits(text, base) ==
  FoldLeft(LAMBDA n, byte : base * n + (IF byte < 58 THEN byte - 48 ELSE byte - 87), 0, text)

RadixTextsFit ==
  LET size     == number.type.size
      value    == number.value
      texts    == ValueToStringRadix(value, size, FALSE, 48)
      prefixed == ValueToStringRadix(value, size, TRUE, NUL)
      modulus  == 2 ^ BitsOf(size)
  IN /\ ReadDigits(texts.bin, 2) = value % modulus
     /\ ReadDigits(texts.oct, 8) = Wide(value)
     /\ ReadDigits(texts.dec, 10) = Wide(value)
     /\ ReadDigits(texts.hex, 16) = Wide(value)
     /\ Len(texts.bin) = IntegralValueMaxLengthBin(size)
     /\ value >= 0 => /\ Len(texts.oct) = IntegralValueMaxLengthOct(size)
                      /\ Len(texts.dec) = IntegralValueMaxLengthDec(size)
                      /\ Len(texts.hex) = IntegralValueMaxLengthHex(size)
     /\ Tail(Tail(prefixed.dec)) = NumberToString(Wide(value))

\* The digits of 256 times a number, the last digit first.
TimesByte(digits) ==
  LET long == digits \o <<0, 0, 0>>
      carry[i \in 0 .. Len(long)] ==
        IF i = 0 THEN 0 ELSE (256 * long[i] + carry[i - 1]) \div 10
      next == [i \in DOMAIN long |-> (256 * long[i] + carry[i - 1]) % 10]
  IN SubSeq(next, 1, Max({i \in DOMAIN next : next[i] # 0}))

\* The number of digits of a power of two, from its value without size - 1 bytes.
PowerDigits(first, size) ==
  LET power[bytes \in 1 .. size] == IF bytes = 1 THEN first ELSE TimesByte(power[bytes - 1])
  IN Len(power[size])

\* A byte has eight bits.  No value is longer than the lengths say, with its sign:
\* a power of two has as many digits as one less.
LengthsEnough ==
  \A size \in TableSizes :
    /\ PowerDigits(<<6, 5, 2>>, size) <= IntegralValueMaxLengthDecUnsigned(size)
    /\ PowerDigits(<<8, 2, 1>>, size) + 1 <= IntegralValueMaxLengthDec(size)

ComparesFit ==
  \A other \in NumberValues :
    /\ FloatingPointCompare(number.value, other) = -FloatingPointCompare(other, number.value)
    /\ FloatingPointCompareLess(number.value, other) <=> FloatingPointCompareLess(other, number.value)
    /\ number.value = other => ~FloatingPointCompareLess(number.value, other)

\* The texts of a number give its value back, in every radix as an unsigned long
\* long, and with padding all values of a type have texts of one length but for
\* negative ones, which are as long as the widest type (ToStringRadix.hpp:119).
\* A number stays one of its type, negation included (ValueTraits.hpp:87), and
\* the lengths of IntegralValueMaxLength suffice for all values.  The comparison
\* behind FloatingPointCompareLess holds both ways (FloatingPointSupport.hpp:125).
NumbersShown ==
  /\ HasValue(number.type, number.value)
  /\ TextNumber(NumberToString(number.value)).value = number.value
  /\ RadixTextsFit
  /\ ComparesFit
  /\ LengthsEnough
  /\ LET absolute == GetValueAbsolute(number.type, number.value)
     IN absolute >= 0 \/ absolute = number.type.min
  /\ \A length \in 1 .. 6 :
       Len(ZeroFill(number.value, length)) = length
=============================================================================

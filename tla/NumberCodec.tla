---------------------------- MODULE NumberCodec ----------------------------
(***************************************************************************)
(* Numbers on their way through zuu_json: parse_int.hpp and               *)
(* parse_double.hpp turn the text of a number token into a machine number, *)
(* json_value.hpp keeps an integer in 48 bits.  A step is one block or one *)
(* character.  All widths are constants, so that the limits of the code    *)
(* (2^64, 19 digits, 2^53, 10^22, 2^31, 2^48) lie within reach.            *)
(*                                                                         *)
(* parse_int.hpp checks the text it is given; parse_double.hpp checks none *)
(* of it and relies on the lexer to deliver a number.                      *)
(***************************************************************************)
EXTENDS SwarLanes, Lexemes

CONSTANTS
  Texts,        \* bound: the texts that are converted
  BlockDigits,  \* sizeof(uint64_t): digits converted at once, a power of 2
  Word,         \* 2^64
  Payload,      \* 2^48
  IntRange,     \* 2^32: int32_t wraps modulo this
  MaxDigits,    \* 19: so many digits cannot wrap the mantissa
  Precision,    \* 53: bits of the significand of a double
  MaxPower      \* 22: the largest exact power of ten

Largest == 2^Precision - 1

ASSUME WidthsAssumption ==
  /\ \E k \in 0..BlockDigits : BlockDigits = 2^k
  /\ Payload \in Nat \ {0} /\ Word % Payload = 0
  /\ Payload % 2 = 0 /\ IntRange % 2 = 0 /\ Word % IntRange = 0
  /\ 10^MaxDigits <= Word
  /\ 5^MaxPower <= Largest

VARIABLES
  kind,        \* the converter that runs: "integer" or "double"
  text, ptr,
  value,       \* value, or mantissa
  digits,      \* how many digits were accumulated (has_digits is > 0)
  shift,       \* decimal_shift
  exponent,
  result,      \* the bits returned, or Error
  pc

vars == <<kind, text, ptr, value, digits, shift, exponent, result, pc>>

End == Len(text)
At(p) == text[p + 1]
Error == [path |-> "error"]

Signed(n, range) == ((n + range \div 2) % range) - range \div 2
Negative == text # <<>> /\ At(0) = 45
DigitAt(p) == At(p) - 48
IsPoint(b) == b = 46
IsE(b) == b \in {69, 101}
IsDouble(t) == IsNumber(t, 0, Len(t)) /\ \E i \in 1..Len(t) : IsPoint(t[i]) \/ IsE(t[i])

(* utils::parse<T>(first, last)                                            *)
Init ==
  /\ text \in Texts
  /\ kind = IF IsDouble(text) THEN "double" ELSE "integer"
  /\ ptr = IF Negative THEN 1 ELSE 0
  /\ value = 0 /\ digits = 0 /\ shift = 0 /\ exponent = 0
  /\ result = Error
  /\ pc = IF kind = "integer" THEN "block" ELSE "mantissa"

-----------------------------------------------------------------------------
(* ParserTrait<long long>                                                  *)

(* Fault: the first of two lanes as the less significant one.              *)
PairedBackwards(lanes, power) ==
  [i \in 1..(Len(lanes) \div 2) |-> lanes[2 * i - 1] + lanes[2 * i] * power]

(* Neighbouring lanes become one of twice the width: the first holds the   *)
(* more significant digits.  Doubling three times (d * 10, * 100, * 10000) *)
(* converts eight lanes.                                                   *)
Paired(lanes, power) ==
  [i \in 1..(Len(lanes) \div 2) |-> lanes[2 * i - 1] * power + lanes[2 * i]]

Combine(lanes) ==
  LET level[width \in 1..BlockDigits] ==
        IF width = 1 THEN lanes ELSE Paired(level[width \div 2], 10^(width \div 2))
  IN  level[BlockDigits][1]

Digits(block) == [i \in Lanes(block) |-> Minus(block, 48)[i] % 16]

(* `val <<= shift_bits`: the first n lanes move to the top, zeros below.   *)
Shifted(lanes, n) ==
  [i \in 1..BlockDigits |-> IF i <= BlockDigits - n THEN 0 ELSE lanes[i - (BlockDigits - n)]]

Accumulate(n, number) ==
  /\ value' = (value * 10^n + number) % Word
  /\ ptr' = ptr + n
  /\ digits' = digits + n

Unchanged == UNCHANGED <<kind, text, shift, exponent, result>>

(* A full block; a block with n leading digits; a block without.           *)
IntegerBlock ==
  /\ pc = "block" /\ ptr + BlockDigits <= End
  /\ LET block == Load(text, ptr, BlockDigits)
         non_digits == NonDigitMask(block)
     IN  \/ /\ non_digits = {}
            /\ Accumulate(BlockDigits, Combine(Digits(block)))
            /\ UNCHANGED pc
         \/ /\ non_digits # {} /\ FirstLane(non_digits) = 0
            /\ pc' = "tail"
            /\ UNCHANGED <<value, ptr, digits>>
         \/ /\ non_digits # {} /\ FirstLane(non_digits) > 0
            /\ LET n == FirstLane(non_digits)
               IN  Accumulate(n, Combine(Shifted(Digits(block), n)))
            /\ pc' = "tail"
  /\ Unchanged

InTail == pc = "tail" \/ (pc = "block" /\ ptr + BlockDigits > End)

IntegerDigit ==
  /\ InTail /\ ptr < End /\ At(ptr) \in 48..57
  /\ Accumulate(1, DigitAt(ptr))
  /\ pc' = "tail"
  /\ Unchanged

(* Fault: the word is not masked and spills into the type's bits.          *)
BoxUnmasked(n) == n

(* JsonValue::Integer keeps the low bits of the two's complement.          *)
Box(n) == n % Payload

(* as_integer: shifted to the top of the word, then back with its sign.    *)
Unbox(payload) ==
  LET gap == Word \div Payload IN Signed(payload * gap, Word) \div gap

EndInteger ==
  /\ InTail /\ ~(ptr < End /\ At(ptr) \in 48..57)
  /\ result' = IF digits = 0 \/ ptr # End THEN Error
               ELSE [path |-> "integer", payload |-> Box(IF Negative THEN (-value) % Word ELSE value)]
  /\ pc' = "done"
  /\ UNCHANGED <<kind, text, ptr, value, digits, shift, exponent>>

-----------------------------------------------------------------------------
(* ParserTrait<double>, on what the lexer delivers as a Double token.      *)

Mantissa ==
  /\ pc = "mantissa" /\ ptr < End /\ ~IsPoint(At(ptr)) /\ ~IsE(At(ptr))
  /\ Accumulate(1, DigitAt(ptr))
  /\ UNCHANGED pc /\ Unchanged

Point ==
  /\ pc = "mantissa" /\ (IsPoint(At(ptr)) \/ IsE(At(ptr)))
  /\ IF IsPoint(At(ptr)) THEN ptr' = ptr + 1 /\ pc' = "fraction"
                         ELSE UNCHANGED ptr /\ pc' = "exponent sign"
  /\ UNCHANGED <<value, digits>> /\ Unchanged

FractionDigit ==
  /\ pc = "fraction" /\ ptr < End /\ ~IsE(At(ptr))
  /\ Accumulate(1, DigitAt(ptr))
  /\ shift' = shift - 1
  /\ UNCHANGED <<kind, text, exponent, result, pc>>

EndFraction ==
  /\ pc = "fraction" /\ ~(ptr < End /\ ~IsE(At(ptr)))
  /\ pc' = "exponent sign"
  /\ UNCHANGED <<ptr, value, digits>> /\ Unchanged

ExponentSign ==
  /\ pc = "exponent sign" /\ ptr < End
  /\ ptr' = IF At(ptr + 1) \in {43, 45} THEN ptr + 2 ELSE ptr + 1
  /\ pc' = "exponent"
  /\ UNCHANGED <<value, digits>> /\ Unchanged

(* int32_t: an exponent too long wraps.                                    *)
ExponentDigit ==
  /\ pc = "exponent" /\ ptr < End
  /\ exponent' = Signed(exponent * 10 + DigitAt(ptr), IntRange)
  /\ ptr' = ptr + 1
  /\ UNCHANGED <<kind, text, value, digits, shift, result, pc>>

EndExponent ==
  /\ pc = "exponent" /\ ptr = End
  /\ LET negative == \E p \in 1..(End - 1) : At(p) = 45
     IN  shift' = Signed(shift + (IF negative THEN -exponent ELSE exponent), IntRange)
  /\ pc' = "choose"
  /\ UNCHANGED <<kind, text, ptr, value, digits, exponent, result>>

-----------------------------------------------------------------------------
(* A double as significand and power of two: the quotient n / d, rounded   *)
(* to the nearest, ties to even.  (The exponents -16..24 are enough for    *)
(* the powers of ten and the significands of a run: CHOOSE finds one.)     *)

Zero == [sig |-> 0, exp |-> 0]

Round(n, d) ==
  LET scaled(e) == IF e >= 0 THEN <<n, d * 2^e>> ELSE <<n * 2^(-e), d>>
      e == CHOOSE k \in -16..24 : /\ scaled(k)[1] >= 2^(Precision - 1) * scaled(k)[2]
                                  /\ scaled(k)[1] < 2^Precision * scaled(k)[2]
      q == scaled(e)[1] \div scaled(e)[2]
      r == 2 * (scaled(e)[1] % scaled(e)[2])
      s == IF r > scaled(e)[2] \/ (r = scaled(e)[2] /\ q % 2 = 1) THEN q + 1 ELSE q
  IN  IF n = 0 THEN Zero
      ELSE IF s > Largest THEN [sig |-> s \div 2, exp |-> e + 1]
      ELSE [sig |-> s, exp |-> e]

(* The rounded product of two doubles.                                     *)
Times(x, y) ==
  LET e == x.exp + y.exp
      p == x.sig * y.sig
  IN  IF p = 0 THEN Zero ELSE [Round(p, 1) EXCEPT !.exp = @ + e]

PowerOfTen(k) == IF k >= 0 THEN Round(10^k, 1) ELSE Round(1, 10^(-k))

(* Fault: no limit on the digits that were accumulated.                    *)
FastPathAnyDigits == value <= Largest /\ shift \in -MaxPower..MaxPower

FastPath ==
  /\ digits <= MaxDigits /\ value <= Largest
  /\ shift \in -MaxPower..MaxPower

(* Clinger's fast path multiplies by a power of ten of the table; anything *)
(* else is left to std::from_chars, which rounds correctly.                *)
ChoosePath ==
  /\ pc = "choose" \/ (pc = "exponent sign" /\ ptr = End)
  /\ result' = IF FastPath
               THEN [path |-> "fast", negative |-> Negative,
                     number |-> IF shift = 0 THEN Round(value, 1)
                                ELSE Times(Round(value, 1), PowerOfTen(shift))]
               ELSE [path |-> "from_chars"]
  /\ pc' = "done"
  /\ UNCHANGED <<kind, text, ptr, value, digits, shift, exponent>>

-----------------------------------------------------------------------------
Done == pc = "done" /\ UNCHANGED vars

Next ==
  \/ IntegerBlock \/ IntegerDigit \/ EndInteger
  \/ Mantissa \/ Point \/ FractionDigit \/ EndFraction
  \/ ExponentSign \/ ExponentDigit \/ EndExponent \/ ChoosePath
  \/ Done

Spec == Init /\ [][Next]_vars

-----------------------------------------------------------------------------
(* Correctness.                                                            *)

Doubles == {Zero} \cup [sig : 2^(Precision - 1)..Largest, exp : Int]

(* The types of the variables; an integer stays within the payload bits of *)
(* a JsonValue, whose upper bits hold its type.                            *)
TypeOK ==
  /\ kind \in {"integer", "double"} /\ text \in Seq(Byte)
  /\ ptr \in 0..End
  /\ value \in 0..(Word - 1) /\ digits \in 0..End
  /\ shift \in Signed(IntRange \div 2, IntRange)..(IntRange \div 2 - 1)
  /\ exponent \in Signed(IntRange \div 2, IntRange)..(IntRange \div 2 - 1)
  /\ pc \in {"block", "tail", "mantissa", "fraction", "exponent sign", "exponent",
             "choose", "done"}
  /\ \/ result \in {Error, [path |-> "from_chars"]}
     \/ result.path = "integer" /\ result.payload \in 0..(Payload - 1)
     \/ result.path = "fast" /\ result.number \in Doubles

(* What the characters of a text say, read one by one: the number that the *)
(* digits from offset from up to to spell, other characters left out.      *)
Spelt(from, to) ==
  LET n[p \in from..to] ==
        IF p = from THEN 0
        ELSE IF At(p - 1) \in 48..57 THEN n[p - 1] * 10 + DigitAt(p - 1) ELSE n[p - 1]
  IN  n[to]

FirstOf(P(_)) ==
  IF \E p \in 0..(End - 1) : P(At(p))
  THEN CHOOSE p \in 0..(End - 1) : P(At(p)) /\ \A q \in 0..(p - 1) : ~P(At(q))
  ELSE End

ExponentAt  == FirstOf(IsE)
Decimals    == IF FirstOf(IsPoint) < End THEN ExponentAt - FirstOf(IsPoint) - 1 ELSE 0
SpeltExponent ==
  Spelt(ExponentAt, End) * (IF \E p \in ExponentAt..(End - 1) : At(p) = 45 THEN -1 ELSE 1)
SpeltShift  == SpeltExponent - Decimals
SpeltNumber == Spelt(0, End) * (IF Negative THEN -1 ELSE 1)

(* An integer token is accepted exactly when it is digits after an         *)
(* optional minus, wherever the blocks of eight fall; and as_integer gives *)
(* back its value whenever 48 bits can hold it (parse_int.hpp,             *)
(* JsonValue::Integer).                                                    *)
IntegersReadBack ==
  pc = "done" /\ kind = "integer" =>
    /\ result = Error <=> ~AllDigits(text, IF Negative THEN 1 ELSE 0, End)
    /\ (result # Error /\ SpeltNumber \in -(Payload \div 2)..(Payload \div 2 - 1)) =>
         Unbox(result.payload) = SpeltNumber

Fast == pc = "done" /\ kind = "double" /\ result.path = "fast"
ExponentFits == SpeltExponent \in -(IntRange \div 2 - 1 - End)..(IntRange \div 2 - 1)

(* The fast path is taken only with the mantissa and the power of ten that *)
(* the text spells: nothing wrapped on the way, unless the exponent itself *)
(* is beyond an int32_t.  With a power of ten that is a double, the        *)
(* product is rounded once and so is the double nearest to the text.       *)
FastPathFaithful ==
  Fast =>
    /\ value = Spelt(0, ExponentAt)
    /\ result.negative <=> text[1] = 45
    /\ ExponentFits => shift = SpeltShift
    /\ ExponentFits /\ SpeltShift >= 0 => result.number = Round(value * 10^SpeltShift, 1)

(* parse_double.hpp: "100% Exact Two-Tier Float Parser (Clinger's Fast     *)
(* Path + Eisel-Lemire Fallback)": the fast path yields the double nearest *)
(* to the text.                                                            *)
DoublesExact ==
  Fast =>
    /\ SpeltShift \in -MaxPower..MaxPower
    /\ LET m == Spelt(0, ExponentAt)
       IN  result.number = IF SpeltShift >= 0 THEN Round(m * 10^SpeltShift, 1)
                                              ELSE Round(m, 10^(-SpeltShift))
=============================================================================

---------------------------- MODULE LexerProofs ----------------------------
(***************************************************************************)
(* Theorems about Lexer, for every text, both engines and blocks of any    *)
(* width.                                                                  *)
(***************************************************************************)
EXTENDS Lexer, SwarLanesProofs

-----------------------------------------------------------------------------
(* Numbers.  Of two numbers that start at the same byte, the shorter one   *)
(* is followed by what makes it longer.                                    *)

DigitBytes == 48..57
IsDigitAt(t, p) == p < Len(t) /\ Ch(t, p) \in DigitBytes

(* The part before the exponent.                                           *)
IsSignificand(t, from, to) ==
  \E i \in from..to : IsInteger(t, from, i) /\ (to = i \/ IsFraction(t, i, to))

(* Where the digits of an integer start.                                   *)
Lead(t, from) == IF Ch(t, from) = 45 THEN from + 1 ELSE from

(* The digits of an integer.                                               *)
LEMMA IntegerDigits ==
  ASSUME NEW t, NEW b \in Nat, NEW i \in Nat
  PROVE  IsInteger(t, b, i) <=> /\ AllDigits(t, Lead(t, b), i)
                                /\ Ch(t, Lead(t, b)) = 48 => i = Lead(t, b) + 1
<1> DEFINE s == Lead(t, b)
<1>1. ASSUME IsInteger(t, b, i)
      PROVE  AllDigits(t, s, i) /\ (Ch(t, s) = 48 => i = s + 1)
  <2>1. PICK r \in {b, b + 1} : /\ r = b + 1 => Ch(t, b) = 45
                                /\ AllDigits(t, r, i)
                                /\ Ch(t, r) = 48 => i = r + 1
    BY <1>1 DEF IsInteger
  <2>2. Ch(t, r) \in 48..57
    BY <2>1 DEF AllDigits
  <2>3. r = s
    BY <2>1, <2>2 DEF Lead
  <2> QED
    BY <2>1, <2>3
<1>2. ASSUME AllDigits(t, s, i), Ch(t, s) = 48 => i = s + 1
      PROVE  IsInteger(t, b, i)
  <2>1. s \in {b, b + 1} /\ (s = b + 1 => Ch(t, b) = 45)
    BY DEF Lead
  <2>2. b < i
    BY <1>2, <2>1 DEF AllDigits
  <2> HIDE DEF s
  <2> QED
    BY <1>2, <2>1, <2>2 DEF IsInteger
<1> QED
  BY <1>1, <1>2

(* The longer of two integers.                                             *)
LEMMA IntegersAgree ==
  ASSUME NEW t, NEW b \in Nat, NEW i \in Nat, NEW j \in Nat,
         IsInteger(t, b, i), IsInteger(t, b, j), i < j
  PROVE  Ch(t, i) \in DigitBytes /\ b < i
<1>1. Lead(t, b) \in {b, b + 1}
  BY DEF Lead
<1>2. AllDigits(t, Lead(t, b), i) /\ AllDigits(t, Lead(t, b), j)
  BY IntegerDigits
<1> QED
  BY <1>1, <1>2 DEF AllDigits, DigitBytes

(* An integer is not empty.                                                *)
LEMMA IntegerAfter ==
  ASSUME NEW t, NEW b \in Nat, NEW i \in Nat, IsInteger(t, b, i)
  PROVE  /\ b < i
         /\ Ch(t, b) \in DigitBytes \cup {45}
         /\ Ch(t, Lead(t, b)) \in DigitBytes
         /\ Lead(t, b) < i /\ Lead(t, b) \in {b, b + 1}
<1>1. Lead(t, b) \in {b, b + 1} /\ (Lead(t, b) = b \/ Ch(t, b) = 45)
  BY DEF Lead
<1>2. AllDigits(t, Lead(t, b), i)
  BY IntegerDigits
<1>3. Ch(t, Lead(t, b)) \in DigitBytes /\ Lead(t, b) < i
  BY <1>1, <1>2 DEF AllDigits, DigitBytes
<1> QED
  BY <1>1, <1>3

(* The longer of two significands: it has more digits, or a fraction.      *)
LEMMA SignificandsAgree ==
  ASSUME NEW t, NEW b \in Nat, NEW f \in Nat, NEW g \in Nat,
         IsSignificand(t, b, f), IsSignificand(t, b, g), f < g
  PROVE  \/ Ch(t, f) \in DigitBytes
         \/ Ch(t, f) = 46 /\ IsInteger(t, b, f) /\ Ch(t, f + 1) \in DigitBytes /\ f + 1 < g
<1>1. PICK i \in b..f : IsInteger(t, b, i) /\ (f = i \/ IsFraction(t, i, f))
  BY DEF IsSignificand
<1>2. PICK j \in b..g : IsInteger(t, b, j) /\ (g = j \/ IsFraction(t, j, g))
  BY DEF IsSignificand
<1>3. i \in Nat /\ j \in Nat /\ i <= f /\ j <= g
  OBVIOUS
<1>4. CASE i < j
  <2>1. Ch(t, i) \in DigitBytes
    BY <1>1, <1>2, <1>3, <1>4, IntegersAgree
  <2>2. ~IsFraction(t, i, f)
    BY <2>1 DEF IsFraction, DigitBytes
  <2> QED
    BY <1>1, <2>1, <2>2
<1>5. CASE j < i
  <2>1. Ch(t, j) \in DigitBytes
    BY <1>1, <1>2, <1>3, <1>5, IntegersAgree
  <2>2. ~IsFraction(t, j, g)
    BY <2>1 DEF IsFraction, DigitBytes
  <2>3. g = j
    BY <1>2, <2>2
  <2> QED
    BY <1>3, <1>5, <2>3
<1>6. CASE i = j
  <2>1. g # i /\ IsFraction(t, i, g)
    BY <1>2, <1>3, <1>6
  <2>2. Ch(t, i) = 46 /\ AllDigits(t, i + 1, g)
    BY <2>1 DEF IsFraction
  <2>3. CASE f = i
    BY <1>1, <1>3, <2>2, <2>3 DEF AllDigits, DigitBytes
  <2>4. CASE IsFraction(t, i, f)
    <3>1. i + 1 < f
      BY <2>4 DEF IsFraction, AllDigits
    <3>2. f \in (i + 1)..(g - 1)
      BY <1>3, <3>1
    <3> QED
      BY <2>2, <3>2 DEF AllDigits, DigitBytes
  <2> QED
    BY <1>1, <2>3, <2>4
<1> QED
  BY <1>3, <1>4, <1>5, <1>6

(* A number is a significand, or one and an exponent.                      *)
LEMMA NumberParts ==
  ASSUME NEW t, NEW b \in Nat, NEW x \in Nat
  PROVE  IsNumber(t, b, x) <=> \E f \in b..x : IsSignificand(t, b, f) /\ (x = f \/ IsExponent(t, f, x))
<1>1. ASSUME IsNumber(t, b, x)
      PROVE  \E f \in b..x : IsSignificand(t, b, f) /\ (x = f \/ IsExponent(t, f, x))
  <2>1. PICK i \in b..x, f \in b..x : /\ IsInteger(t, b, i)
                                      /\ f = i \/ IsFraction(t, i, f)
                                      /\ x = f \/ IsExponent(t, f, x)
    BY <1>1 DEF IsNumber
  <2>2. i <= f
    BY <2>1 DEF IsFraction
  <2>3. i \in b..f
    BY <2>2
  <2> QED
    BY <2>1, <2>3 DEF IsSignificand
<1>2. ASSUME NEW f \in b..x, IsSignificand(t, b, f), x = f \/ IsExponent(t, f, x)
      PROVE  IsNumber(t, b, x)
  <2>1. PICK i \in b..f : IsInteger(t, b, i) /\ (f = i \/ IsFraction(t, i, f))
    BY <1>2 DEF IsSignificand
  <2>2. i \in b..x
    OBVIOUS
  <2> QED
    BY <1>2, <2>1, <2>2 DEF IsNumber
<1> QED
  BY <1>1, <1>2

(* Where the digits of an exponent begin: behind its sign, if it has one.  *)
ExponentDigits(t, f) ==
  IF f + 1 < Len(t) /\ Ch(t, f + 1) \in {43, 45} THEN f + 2 ELSE f + 1

(* An exponent of a number has a digit where read_numeric looks for it.    *)
LEMMA ExponentStart ==
  ASSUME NEW t, NEW f \in Nat, NEW x \in Nat, Len(t) \in Nat, x <= Len(t), IsExponent(t, f, x)
  PROVE  /\ f + 1 < x /\ Ch(t, f) \in {69, 101}
         /\ AllDigits(t, ExponentDigits(t, f), x)
<1>1. PICK s \in {f + 1, f + 2} : /\ s = f + 2 => f + 1 < x /\ Ch(t, f + 1) \in {43, 45}
                                  /\ AllDigits(t, s, x)
  BY DEF IsExponent
<1>2. Ch(t, s) \in 48..57 /\ s < x
  BY <1>1 DEF AllDigits
<1>3. s = ExponentDigits(t, f)
  BY <1>1, <1>2 DEF ExponentDigits
<1>4. Ch(t, f) \in {69, 101}
  BY DEF IsExponent
<1> QED
  BY <1>1, <1>2, <1>3, <1>4

(* The longer of two numbers.                                              *)
LEMMA NumbersAgree ==
  ASSUME NEW t, NEW b \in Nat, NEW x \in Nat, NEW y \in Nat, Len(t) \in Nat, y <= Len(t),
         IsNumber(t, b, x), IsNumber(t, b, y), x < y
  PROVE  \/ Ch(t, x) \in DigitBytes
         \/ Ch(t, x) = 46 /\ IsInteger(t, b, x) /\ IsDigitAt(t, x + 1)
         \/ Ch(t, x) \in {69, 101} /\ IsSignificand(t, b, x) /\ IsDigitAt(t, ExponentDigits(t, x))
<1>1. PICK f \in b..x : IsSignificand(t, b, f) /\ (x = f \/ IsExponent(t, f, x))
  BY NumberParts
<1>2. PICK g \in b..y : IsSignificand(t, b, g) /\ (y = g \/ IsExponent(t, g, y))
  BY NumberParts
<1>3. f \in Nat /\ g \in Nat /\ f <= x /\ g <= y
  OBVIOUS
<1>4. CASE f < g
  <2>1. \/ Ch(t, f) \in DigitBytes
        \/ Ch(t, f) = 46 /\ IsInteger(t, b, f) /\ Ch(t, f + 1) \in DigitBytes /\ f + 1 < g
    BY <1>1, <1>2, <1>3, <1>4, SignificandsAgree
  <2>2. x = f
    BY <1>1, <2>1 DEF IsExponent, DigitBytes
  <2> QED
    BY <1>3, <2>1, <2>2 DEF IsDigitAt
<1>5. CASE g < f
  <2>1. \/ Ch(t, g) \in DigitBytes
        \/ Ch(t, g) = 46
    BY <1>1, <1>2, <1>3, <1>5, SignificandsAgree
  <2>2. y = g
    BY <1>2, <2>1 DEF IsExponent, DigitBytes
  <2> QED
    BY <1>3, <1>5, <2>2
<1>6. CASE f = g
  <2>1. y # f /\ IsExponent(t, f, y)
    BY <1>2, <1>3, <1>6
  <2> DEFINE s == ExponentDigits(t, f)
  <2>2. Ch(t, f) \in {69, 101} /\ AllDigits(t, s, y)
    BY <1>3, <2>1, ExponentStart
  <2>3. s \in {f + 1, f + 2}
    BY DEF ExponentDigits
  <2> HIDE DEF s
  <2>4. Ch(t, s) \in DigitBytes /\ s < Len(t)
    BY <1>3, <2>2, <2>3 DEF AllDigits, DigitBytes
  <2>5. CASE x = f
    BY <1>1, <2>2, <2>4, <2>5 DEF IsDigitAt, s
  <2>6. CASE IsExponent(t, f, x)
    <3>1. x <= Len(t)
      OBVIOUS
    <3>2. AllDigits(t, s, x)
      BY <1>3, <2>6, <3>1, ExponentStart DEF s
    <3>3. x \in s..(y - 1)
      BY <1>3, <2>3, <3>2 DEF AllDigits
    <3> QED
      BY <2>2, <3>3 DEF AllDigits, DigitBytes
  <2> QED
    BY <1>1, <2>5, <2>6
<1> QED
  BY <1>3, <1>4, <1>5, <1>6

-----------------------------------------------------------------------------
(* Bytes and blocks of the text.                                           *)

ProperText == text \in Seq(Byte) /\ engine \in Engines

(* What the classes of the dispatch table have to do with each other.      *)
LEMMA Classes ==
  /\ WhiteSpace = {9, 10, 12, 13, 32}
  /\ Digits = DigitBytes
  /\ DOMAIN Punctuation = {123, 125, 91, 93, 58, 44}
  /\ Quote = 34 /\ Backslash = 92 /\ Minus_ = 45
BY DEF WhiteSpace, Digits, DigitBytes, Punctuation, Quote, Backslash, Minus_

(* A byte of the text.                                                     *)
LEMMA AtByte ==
  ASSUME ProperText, NEW p \in Nat, p < End
  PROVE  At(p) \in Byte /\ At(p) = Ch(text, p) /\ p + 1 \in 1..Len(text)
<1>1. p + 1 \in 1..Len(text)
  BY DEF End, ProperText
<1>2. text[p + 1] \in Byte
  BY <1>1, ElementOf DEF ProperText
<1> QED
  BY <1>1, <1>2 DEF At, Ch

(* Widths and lengths.                                                     *)
LEMMA Widths ==
  ASSUME ProperText
  PROVE  /\ Width \in Nat /\ Width >= 1
         /\ BlockSize["Swar"] \in Nat /\ BlockSize["Swar"] >= 1
         /\ End \in Nat /\ End = Len(text)
<1>1. engine \in {"Swar", "Avx2"}
  BY EnginesAssumption DEF ProperText
<1>2. End \in Nat
  BY DEF ProperText, End
<1> QED
  BY <1>1, <1>2, EnginesAssumption DEF Width, End

(* A block loaded from inside the text, lane by lane.                      *)
LEMMA BlockOf ==
  ASSUME ProperText, NEW p \in Nat, NEW width \in Nat, HasBlock(p, width)
  PROVE  /\ Block(Load(text, p, width))
         /\ Lanes(Load(text, p, width)) = 1..width
         /\ \A i \in 1..width : Load(text, p, width)[i] = At(p + i - 1)
<1>1. p + width \in 0..Len(text) /\ p + 1 \in Nat
  BY Widths DEF HasBlock
<1>2. text \in Seq(Byte) /\ Len(text) \in Nat
  BY DEF ProperText
<1> DEFINE s == SubSeq(text, p + 1, p + width)
<1>3. s \in Seq(Byte) /\ Len(s) = width /\ \A i \in 1..width : s[i] = text[p + i]
  BY <1>1, <1>2
<1> HIDE DEF s
<1>4. \A i \in 1..width : s[i] = text[(p + i - 1) + 1]
  <2>1. \A i \in 1..width : (p + i - 1) + 1 = p + i
    OBVIOUS
  <2> QED
    BY <1>3, <2>1
<1> QED
  BY <1>3, <1>4 DEF Load, Block, Lanes, At, s

(* A scan by blocks: the lowest flag is at the first byte of those it      *)
(* looks for, and no flag means there is none in the block.                *)
LEMMA BlockScan ==
  ASSUME ProperText, NEW p \in Nat, NEW width \in Nat, HasBlock(p, width),
         NEW bytes, NEW mask \in SUBSET Lanes(Load(text, p, width)),
         FirstMatches(mask, Load(text, p, width), bytes)
  PROVE  /\ p + width \in Nat /\ p + width <= End
         /\ mask = {} => \A q \in p..(p + width - 1) : At(q) \notin bytes
         /\ mask # {} => /\ FirstLane(mask) \in 0..(width - 1)
                         /\ p + FirstLane(mask) \in Nat /\ p + FirstLane(mask) < End
                         /\ At(p + FirstLane(mask)) \in bytes
                         /\ \A q \in p..(p + FirstLane(mask) - 1) : At(q) \notin bytes
<1> DEFINE block == Load(text, p, width)
           n == FirstLane(mask)
<1>1. /\ Block(block) /\ Lanes(block) = 1..width
      /\ \A i \in 1..width : block[i] = At(p + i - 1)
  BY BlockOf
<1>2. p + width \in Nat /\ p + width <= End /\ End \in Nat
  BY Widths DEF HasBlock
<1>3. /\ mask = {} => \A i \in Lanes(block) : block[i] \notin bytes
      /\ mask # {} => /\ n + 1 \in Lanes(block)
                      /\ block[n + 1] \in bytes
                      /\ \A i \in 1..n : block[i] \notin bytes
  BY <1>1, ScanStopsAtFirst
<1>4. mask # {} => n \in Int
  <2>1. ASSUME mask # {} PROVE n \in Int
    <3>1. PICK i \in mask : n = i - 1
      BY <1>1, <2>1, LowestLane
    <3>2. i \in 1..width
      BY <1>1
    <3> QED
      BY <3>1, <3>2
  <2> QED
    BY <2>1
<1> HIDE DEF block, n
<1>5. mask # {} => n \in 0..(width - 1)
  BY <1>1, <1>3, <1>4
<1>6. ASSUME mask = {}, NEW q \in p..(p + width - 1) PROVE At(q) \notin bytes
  <2>1. q - p + 1 \in 1..width /\ p + (q - p + 1) - 1 = q
    OBVIOUS
  <2>2. block[q - p + 1] = At(q) /\ block[q - p + 1] \notin bytes
    BY <1>1, <1>3, <1>6, <2>1
  <2> QED
    BY <2>2
<1>7. ASSUME mask # {}, NEW q \in p..(p + n - 1) PROVE At(q) \notin bytes
  <2>1. q - p + 1 \in 1..n /\ q - p + 1 \in 1..width /\ p + (q - p + 1) - 1 = q
    BY <1>5, <1>7
  <2>2. block[q - p + 1] = At(q) /\ block[q - p + 1] \notin bytes
    BY <1>1, <1>3, <1>7, <2>1
  <2> QED
    BY <2>2
<1>8. mask # {} => At(p + n) \in bytes
  <2>1. ASSUME mask # {} PROVE At(p + n) \in bytes
    <3>1. n + 1 \in 1..width /\ p + (n + 1) - 1 = p + n
      BY <1>5, <2>1
    <3> QED
      BY <1>1, <1>3, <2>1, <3>1
  <2> QED
    BY <2>1
<1>9. mask # {} => p + n \in Nat /\ p + n < End
  BY <1>2, <1>5
<1> QED
  BY <1>2, <1>5, <1>6, <1>7, <1>8, <1>9 DEF n

-----------------------------------------------------------------------------
(* The inductive invariant.  Each of the four invariants of the run        *)
(* speaks of finished tokens or of the end; that they hold there needs to  *)
(* know what has been read of the token the lexer is in.                   *)

TokenTypes == {"String", "Integer", "Double", "Null", "Boolean"}
                \cup {Punctuation[b] : b \in DOMAIN Punctuation}
Tokens     == [type : TokenTypes, from : Nat, to : Nat, has_escape : BOOLEAN]
Errors     == {"Unknown", "SingleQuotedString", "LeadingZero", "InvalidValue", "UnescapedCharacter"}

(* Skippable and RejectsNoLexeme of a text.                                *)
Passed(t, e, from, to) ==
  \/ \A p \in from..(to - 1) : Ch(t, p) \in WhiteSpace
  \/ e = "Swar" /\ \A p \in from..(to - 1) : Ch(t, p) <= 32

NoToken(t, p) ==
  /\ Ch(t, p) \notin DOMAIN Punctuation
  /\ \A to \in (p + 1)..Len(t) :
       /\ Ch(t, p) = Quote => ~IsString(t, p + 1, to)
       /\ \A w \in {Null, True, False} : ~IsWord(t, p, to, w)
       /\ IsNumber(t, p, to) => to < Len(t) /\ Ch(t, to) \in Digits \cup {46, 69, 101}

NoTokenAfter(t, from) ==
  \A p \in from..(Len(t) - 1) :
    (\A q \in from..(p - 1) : Ch(t, q) \in WhiteSpace) /\ Ch(t, p) \notin WhiteSpace => NoToken(t, p)

(* Only what may be skipped lies between the last token and the byte where *)
(* the next one starts.                                                    *)
Gap(to) == Consumed <= to /\ Passed(text, engine, Consumed, to)

Placed ==
  /\ pc \in {"next", "space", "tail"} => Gap(pos)
  /\ pc = "string" => begin >= 1 /\ Ch(text, begin - 1) = Quote /\ Gap(begin - 1)
  /\ pc \in {"digits", "number"} =>
       begin < End /\ Ch(text, begin) \in DigitBytes \cup {Minus_} /\ Gap(begin)

(* No byte before the scan pointer ends the string, and the byte at it is  *)
(* not escaped.                                                            *)
Body(t, from, p, escape) ==
  /\ from <= p
  /\ \A q \in from..(p - 1) :
       q < Len(t) /\ (Ch(t, q) = Quote \/ Ch(t, q) < 32) => Escaped(t, from, q)
  /\ p <= Len(t) => ~Escaped(t, from, p)
  /\ escape <=> \E q \in from..(p - 1) : q < Len(t) /\ Ch(t, q) = Backslash

InString == pc = "string" => Body(text, begin, ptr, has_escape)

(* The digits from s on belong to this part of the number.                 *)
StartsPart(t, from, part, s) ==
  \/ part = "integer" /\ s = Lead(t, from) /\ Ch(t, s) # 48
  \/ part = "fraction" /\ \E i \in from..s : s = i + 1 /\ IsInteger(t, from, i) /\ Ch(t, i) = 46
  \/ part = "exponent" /\ \E f \in from..s : /\ IsSignificand(t, from, f)
                                            /\ Ch(t, f) \in {69, 101}
                                            /\ s = ExponentDigits(t, f)

(* This part of the number ends at x.                                      *)
EndsPart(t, from, part, x) ==
  \/ part = "integer" /\ IsInteger(t, from, x)
  \/ part = "fraction" /\ \E i \in from..x : IsInteger(t, from, i) /\ IsFraction(t, i, x)
  \/ part = "exponent" /\ \E f \in from..x : IsSignificand(t, from, f) /\ IsExponent(t, f, x)

InDigits ==
  pc = "digits" => \E s \in begin..pos : /\ StartsPart(text, begin, stage, s)
                                         /\ IsDigitAt(text, s)
                                         /\ \A q \in s..(pos - 1) : Ch(text, q) \in DigitBytes

InNumber == pc = "number" => EndsPart(text, begin, stage, pos) /\ ~IsDigitAt(text, pos)

Scanning == Placed /\ InString /\ InDigits /\ InNumber

IInv ==
  /\ TypeOK
  /\ tokens \in Seq(Tokens)
  /\ Scanning
  /\ status # "None" => pc = "done"
  /\ TokensAreLexemes /\ NothingSkipped /\ RejectsNoLexeme

(* The end of the last token is an offset.                                 *)
LEMMA ConsumedNat ==
  ASSUME IInv
  PROVE  Consumed \in Nat
<1>1. tokens \in Seq(Tokens)
  BY DEF IInv
<1>2. CASE tokens = <<>>
  BY <1>2 DEF Consumed
<1>3. CASE tokens # <<>>
  <2>1. Len(tokens) \in 1..Len(tokens)
    BY <1>1, <1>3
  <2>2. tokens[Len(tokens)] \in Tokens
    BY <1>1, <2>1, ElementOf
  <2>3. tokens[Len(tokens)].to \in Nat
    BY <2>2 DEF Tokens
  <2> QED
    BY <1>3, <2>3 DEF Consumed, After, Last
<1> QED
  BY <1>2, <1>3

(* A word starts with its first letter.                                    *)
LEMMA WordStart ==
  ASSUME ProperText, NEW p \in Nat, p < End, NEW to \in (p + 1)..End, NEW w \in {Null, True, False},
         IsWord(text, p, to, w)
  PROVE  Ch(text, p) \in Alphabet /\ to = p + Len(w)
<1>1. text \in Seq(Byte) /\ End = Len(text) /\ End \in Nat
  BY Widths DEF ProperText
<1>2. p + 1 \in 1..Len(text) /\ to \in Nat /\ to <= Len(text) /\ p + 1 <= to
  BY <1>1
<1> DEFINE s == SubSeq(text, p + 1, to)
<1>3. Len(s) = to - p /\ s[1] = text[p + 1]
  BY <1>1, <1>2
<1> HIDE DEF s
<1>4. s = w
  BY DEF IsWord, s
<1>5. w[1] \in {110, 116, 102} /\ Len(w) \in Nat
  BY DEF Null, True, False
<1> QED
  BY <1>3, <1>4, <1>5 DEF Ch, Alphabet

(* A number starts with a digit or a minus sign.                           *)
LEMMA NumberStart ==
  ASSUME ProperText, NEW p \in Nat, NEW to \in Nat, IsNumber(text, p, to)
  PROVE  Ch(text, p) \in DigitBytes \cup {45} /\ p < to
<1>1. PICK i \in p..to : IsInteger(text, p, i)
  BY DEF IsNumber
<1>2. i \in Nat
  OBVIOUS
<1> QED
  BY <1>1, <1>2, IntegerAfter

(* Bytes up to the space that next_token does not take for whitespace.     *)
LEMMA ControlByte ==
  ASSUME NEW b \in Byte, b <= 32, b \notin WhiteSpace
  PROVE  b \notin DOMAIN Punctuation \cup {Quote, Minus_} \cup Alphabet \cup Digits
BY Classes DEF Byte, Alphabet, DigitBytes

(* The error class.                                                        *)
LEMMA ErrorClass ==
  ASSUME NEW b \in ErrorBytes \cup {SingleQuote}
  PROVE  b \notin WhiteSpace \cup DOMAIN Punctuation \cup {Quote, Minus_} \cup Alphabet \cup Digits
<1>1. CASE b \in ErrorBytes
  BY <1>1 DEF ErrorBytes
<1>2. CASE b = 39
  BY <1>2, Classes DEF Alphabet, DigitBytes
<1> QED
  BY <1>1, <1>2 DEF SingleQuote

(* The types of one-byte tokens are their own.                             *)
LEMMA PunctuationNames ==
  ASSUME NEW b \in DOMAIN Punctuation
  PROVE  Punctuation[b] \notin {"String", "Integer", "Double", "Null", "Boolean"}
<1>1. b \in {123, 125, 91, 93, 58, 44}
  BY Classes
<1>2. Punctuation[b] = CASE b = 123 -> "LeftCurlyBracket"  [] b = 125 -> "RightCurlyBracket"
                         [] b = 91  -> "LeftSquareBracket" [] b = 93  -> "RightSquareBracket"
                         [] b = 58  -> "Colon"             [] b = 44  -> "Comma"
  BY <1>1 DEF Punctuation
<1> QED
  BY <1>1, <1>2

(* Bytes at which no token starts.                                         *)
LEMMA NoTokenClass ==
  ASSUME ProperText, NEW p \in Nat, p < End,
         Ch(text, p) \notin DOMAIN Punctuation \cup {Quote, Minus_} \cup Alphabet \cup Digits
  PROVE  NoToken(text, p)
<1>1. End = Len(text) /\ End \in Nat
  BY Widths
<1>2. ASSUME NEW to \in (p + 1)..Len(text)
      PROVE  ~IsNumber(text, p, to) /\ \A w \in {Null, True, False} : ~IsWord(text, p, to, w)
  <2>1. to \in Nat /\ to \in (p + 1)..End
    BY <1>1
  <2> QED
    BY <2>1, NumberStart, WordStart, Classes
<1> QED
  BY <1>2 DEF NoToken

(* The invariants of the run, in these terms.                              *)
LEMMA Terms ==
  ASSUME ProperText
  PROVE  /\ \A a, b : Skippable(a, b) <=> Passed(text, engine, a, b)
         /\ RejectsNoLexeme <=> (status # "None" => NoTokenAfter(text, Consumed))
<1>1. \A a, b : Skippable(a, b) <=> Passed(text, engine, a, b)
  BY DEF Skippable, Blank, At, Passed, Ch
<1>2. RejectsNoLexeme <=> (status # "None" => NoTokenAfter(text, Consumed))
  BY DEF RejectsNoLexeme, NoTokenAfter, NoToken, Blank, At, Ch, End
<1> QED
  BY <1>1, <1>2

(* The position, the scan pointer and the flags.                           *)
Positioned ==
  /\ pos \in 0..End /\ begin \in 0..End /\ ptr \in 0..(End + 1)
  /\ has_escape \in BOOLEAN
  /\ stage \in {"integer", "fraction", "exponent"}

Labels == {"next", "space", "tail", "string", "digits", "number"}

(* A step to another part of next_token.                                   *)
LEMMA MoveKeeps ==
  ASSUME IInv, pc # "done", NEW label \in Labels, Move(label), Positioned', Scanning'
  PROVE  IInv'
<1>1. /\ pc' = label /\ pc' # "done"
      /\ engine' = engine /\ text' = text /\ tokens' = tokens /\ status' = status
  BY DEF Move, Labels
<1>2. status = "None" /\ End' = End
  BY <1>1 DEF IInv, End
<1>3. TypeOK'
  BY <1>1, <1>2 DEF IInv, TypeOK, Positioned, Labels
<1>4. TokensAreLexemes'
  BY <1>1, <1>2 DEF IInv, TokensAreLexemes, IsLexeme, At
<1>5. NothingSkipped'
  BY <1>1, <1>2 DEF IInv, NothingSkipped, Skippable, Blank, At
<1>6. RejectsNoLexeme'
  BY <1>1, <1>2 DEF RejectsNoLexeme
<1> QED
  BY <1>1, <1>2, <1>3, <1>4, <1>5, <1>6 DEF IInv

(* No token starts where the next one is looked for in vain, nor at a byte *)
(* that is only passed over.                                               *)
LEMMA NothingStarts ==
  ASSUME ProperText, NEW a \in Nat, a < End, NEW c \in Nat, c <= a,
         Passed(text, engine, c, a), Ch(text, a) \notin WhiteSpace, NoToken(text, a)
  PROVE  NoTokenAfter(text, c)
<1>0. End = Len(text) /\ End \in Nat
  BY Widths
<1> SUFFICES ASSUME NEW p \in c..(Len(text) - 1),
                    \A q \in c..(p - 1) : Ch(text, q) \in WhiteSpace,
                    Ch(text, p) \notin WhiteSpace
             PROVE  NoToken(text, p)
  BY DEF NoTokenAfter
<1>1. ~(a < p)
  <2>1. ASSUME a < p PROVE FALSE
    <3>1. a \in c..(p - 1)
      BY <2>1
    <3> QED
      BY <3>1
  <2> QED
    BY <2>1
<1>2. CASE p = a
  BY <1>2
<1>3. CASE p < a
  <2>1. p \in c..(a - 1) /\ p \in Nat /\ p < End
    BY <1>0, <1>3
  <2>2. Ch(text, p) <= 32
    BY <2>1 DEF Passed
  <2>3. Ch(text, p) \in Byte
    BY <2>1, AtByte
  <2>4. Ch(text, p) \notin DOMAIN Punctuation \cup {Quote, Minus_} \cup Alphabet \cup Digits
    BY <2>2, <2>3, ControlByte
  <2> QED
    BY <2>1, <2>4, NoTokenClass
<1>4. p \in Nat /\ (p < a \/ p = a \/ a < p)
  OBVIOUS
<1> QED
  BY <1>1, <1>2, <1>3, <1>4

(* An error.                                                               *)
LEMMA FailKeeps ==
  ASSUME IInv, pc # "done", NEW error \in Errors, Fail(error), Positioned',
         NEW a \in Nat, a < End, Gap(a), Ch(text, a) \notin WhiteSpace, NoToken(text, a)
  PROVE  IInv'
<1>0. ProperText
  BY DEF IInv, TypeOK, ProperText
<1>1. /\ pc' = "done" /\ status' = error
      /\ engine' = engine /\ text' = text /\ tokens' = tokens
  BY DEF Fail
<1>2. status' # "None" /\ End' = End /\ Consumed' = Consumed /\ ProperText'
  BY <1>0, <1>1 DEF Errors, End, Consumed, ProperText
<1>3. TypeOK'
  BY <1>1, <1>2 DEF IInv, TypeOK, Positioned, Errors
<1>4. TokensAreLexemes'
  BY <1>1, <1>2 DEF IInv, TokensAreLexemes, IsLexeme, At
<1>5. NothingSkipped'
  BY <1>1, <1>2 DEF IInv, NothingSkipped, Skippable, Blank, At
<1>6. NoTokenAfter(text, Consumed)
  <2>1. Consumed \in Nat
    BY ConsumedNat
  <2> QED
    BY <1>0, <2>1, NothingStarts DEF Gap
<1>7. RejectsNoLexeme' <=> (status' # "None" => NoTokenAfter(text', Consumed'))
  BY DEF RejectsNoLexeme, NoTokenAfter, NoToken, Blank, At, Ch, End
<1>8. Scanning'
  BY <1>1 DEF Scanning, Placed, InString, InDigits, InNumber
<1> QED
  BY <1>1, <1>2, <1>3, <1>4, <1>5, <1>6, <1>7, <1>8 DEF IInv

(* A token: it comes after the last one and nothing but what may be        *)
(* skipped lies between.                                                   *)
LEMMA EmitKeeps ==
  ASSUME IInv, pc # "done", NEW tk \in Tokens, NEW to \in 0..End, Emit(tk, to), UNCHANGED scan,
         tk.to \in tk.from..End, After(tk) = to, Passed(text, engine, Consumed, First(tk)),
         IsLexeme(tk)
  PROVE  IInv'
<1>0. ProperText
  BY DEF IInv, TypeOK, ProperText
<1>1. /\ pc' = "next" /\ pos' = to /\ tokens' = Append(tokens, tk)
      /\ engine' = engine /\ text' = text /\ status' = status
      /\ ptr' = ptr /\ begin' = begin /\ has_escape' = has_escape /\ stage' = stage
  BY DEF Emit, scan
<1>2. tokens \in Seq(Tokens) /\ Len(tokens) \in Nat
  BY DEF IInv
<1>3. /\ tokens' \in Seq(Tokens) /\ Len(tokens') = Len(tokens) + 1 /\ tokens' # <<>>
      /\ tokens'[Len(tokens')] = tk
      /\ \A i \in 1..Len(tokens) : tokens'[i] = tokens[i]
      /\ DOMAIN tokens' = 1..(Len(tokens) + 1) /\ DOMAIN tokens = 1..Len(tokens)
  BY <1>1, <1>2
<1>4. End' = End /\ Last(tokens') = tk /\ Consumed' = to /\ status = "None"
  BY <1>1, <1>3 DEF End, Last, Consumed, IInv
<1>5. TypeOK'
  <2>1. \A i \in DOMAIN tokens' : tokens'[i].from \in 0..End /\ tokens'[i].to \in tokens'[i].from..End
    <3>1. tk.from \in Nat /\ tk.to \in Nat /\ End \in Nat
      BY <1>0, Widths DEF Tokens
    <3>2. tk.from \in 0..End /\ tk.to \in tk.from..End
      BY <3>1
    <3>3. \A i \in 1..Len(tokens) : tokens[i].from \in 0..End /\ tokens[i].to \in tokens[i].from..End
      BY <1>3 DEF IInv, TypeOK
    <3>4. \A i \in DOMAIN tokens' : i \in 1..Len(tokens) \/ i = Len(tokens')
      BY <1>2, <1>3
    <3> QED
      BY <1>3, <3>2, <3>3, <3>4
  <2> QED
    BY <1>1, <1>4, <2>1 DEF IInv, TypeOK
<1>6. TokensAreLexemes'
  BY <1>1, <1>4 DEF TokensAreLexemes, IsLexeme, At, End
<1>7. NothingSkipped'
  <2>1. (IF Len(tokens') = 1 THEN 0 ELSE After(tokens'[Len(tokens') - 1])) = Consumed
    <3>1. CASE tokens = <<>>
      <4>1. Len(tokens) = 0
        BY <3>1
      <4> QED
        BY <1>3, <3>1, <4>1 DEF Consumed
    <3>2. CASE tokens # <<>>
      <4>1. Len(tokens) # 0
        BY <1>2, <3>2
      <4>2. Len(tokens') - 1 = Len(tokens) /\ Len(tokens) \in 1..Len(tokens) /\ Len(tokens') # 1
        BY <1>2, <1>3, <4>1
      <4> QED
        BY <1>3, <3>2, <4>2 DEF Consumed, Last
    <3> QED
      BY <3>1, <3>2
  <2>2. Passed(text', engine', Consumed, First(tk))
    BY <1>1
  <2>3. First(tk) = First(Last(tokens'))
    BY <1>4
  <2>4. Passed(text', engine', IF Len(tokens') = 1 THEN 0 ELSE After(tokens'[Len(tokens') - 1]),
               First(Last(tokens')))
    BY <2>1, <2>2, <2>3
  <2> QED
    BY <1>1, <2>4 DEF NothingSkipped, Passed, Skippable, Blank, At, Ch
<1>8. RejectsNoLexeme'
  BY <1>1, <1>4 DEF RejectsNoLexeme
<1>9. Gap(pos)'
  <2>1. to \in Nat /\ \A q \in to..(to - 1) : FALSE
    BY <1>0, Widths
  <2> QED
    BY <1>1, <1>4, <2>1 DEF Gap, Passed
<1>10. Scanning'
  BY <1>1, <1>9 DEF Scanning, Placed, InString, InDigits, InNumber
<1> QED
  BY <1>1, <1>3, <1>4, <1>5, <1>6, <1>7, <1>8, <1>10 DEF IInv

-----------------------------------------------------------------------------
(* next_token and skip_whitespace.                                         *)

(* What the invariant says of the text and the offsets.                    *)
LEMMA Offsets ==
  ASSUME IInv
  PROVE  /\ ProperText /\ End \in Nat /\ Consumed \in Nat
         /\ pos \in Nat /\ pos <= End /\ begin \in Nat /\ begin <= End
         /\ ptr \in Nat /\ ptr <= End + 1
         /\ Width \in Nat /\ Width >= 1 /\ BlockSize["Swar"] \in Nat /\ BlockSize["Swar"] >= 1
         /\ Positioned
<1>1. ProperText
  BY DEF IInv, TypeOK, ProperText
<1>2. End \in Nat /\ Width \in Nat /\ Width >= 1 /\ BlockSize["Swar"] \in Nat /\ BlockSize["Swar"] >= 1
  BY <1>1, Widths
<1>3. Positioned
  BY DEF IInv, TypeOK, Positioned
<1> QED
  BY <1>1, <1>2, <1>3, ConsumedNat DEF Positioned

(* Before the first token.                                                 *)
LEMMA InitHolds == Init => IInv
<1> SUFFICES ASSUME Init PROVE IInv
  OBVIOUS
<1>1. ProperText
  BY TextsAssumption DEF Init, ProperText
<1>2. End \in Nat
  BY <1>1, Widths
<1>3. tokens = <<>> /\ tokens \in Seq(Tokens) /\ DOMAIN tokens = {}
  BY DEF Init
<1>4. TypeOK
  <2>1. 0 \in 0..End /\ 0 \in 0..(End + 1)
    BY <1>2
  <2>2. \A i \in DOMAIN tokens : FALSE
    BY <1>3
  <2> HIDE DEF End
  <2> QED
    BY <1>1, <2>1, <2>2 DEF Init, TypeOK, ProperText
<1>5. Gap(0)
  BY <1>3 DEF Gap, Consumed, Passed
<1>6. Scanning
  BY <1>5 DEF Init, Scanning, Placed, InString, InDigits, InNumber
<1>7. TokensAreLexemes /\ NothingSkipped /\ RejectsNoLexeme
  BY <1>3 DEF Init, TokensAreLexemes, NothingSkipped, RejectsNoLexeme
<1> QED
  BY <1>3, <1>4, <1>6, <1>7 DEF Init, IInv

(* More of what may be skipped.                                            *)
LEMMA GapGrows ==
  ASSUME IInv, NEW a \in Nat, NEW b \in Nat, a <= b, Gap(a),
         \/ \A q \in a..(b - 1) : Ch(text, q) \in WhiteSpace
         \/ engine = "Swar" /\ \A q \in a..(b - 1) : Ch(text, q) <= 32
  PROVE  Gap(b)
<1>1. Consumed \in Nat /\ Consumed <= a /\ Passed(text, engine, Consumed, a)
  BY Offsets DEF Gap
<1>2. \A q \in Consumed..(b - 1) : q \in Consumed..(a - 1) \/ q \in a..(b - 1)
  BY <1>1
<1>3. \A c \in WhiteSpace : c <= 32
  BY DEF WhiteSpace
<1>4. CASE engine = "Swar"
  <2>1. \A q \in Consumed..(a - 1) : Ch(text, q) <= 32
    BY <1>1, <1>3 DEF Passed
  <2>2. \A q \in a..(b - 1) : Ch(text, q) <= 32
    BY <1>3
  <2> QED
    BY <1>1, <1>2, <1>4, <2>1, <2>2 DEF Gap, Passed
<1>5. CASE engine # "Swar"
  <2>1. \A q \in Consumed..(a - 1) : Ch(text, q) \in WhiteSpace
    BY <1>1, <1>5 DEF Passed
  <2> QED
    BY <1>1, <1>2, <1>5, <2>1 DEF Gap, Passed
<1> QED
  BY <1>4, <1>5

(* A step over whitespace.                                                 *)
LEMMA SpaceKeeps ==
  ASSUME IInv, pc # "done", NEW label \in {"next", "space", "tail"}, Move(label), UNCHANGED scan,
         NEW p \in 0..End, pos' = p, Gap(p)
  PROVE  IInv'
<1>1. /\ pc' = label /\ label \in Labels
      /\ engine' = engine /\ text' = text /\ tokens' = tokens /\ End' = End
      /\ ptr' = ptr /\ begin' = begin /\ has_escape' = has_escape /\ stage' = stage
  BY DEF Move, scan, End, Labels
<1>2. Positioned'
  BY <1>1, Offsets DEF Positioned
<1>3. Gap(pos)'
  BY <1>1 DEF Gap, Consumed
<1>4. Scanning'
  BY <1>1, <1>3 DEF Scanning, Placed, InString, InDigits, InNumber
<1> QED
  BY <1>1, <1>2, <1>4, MoveKeeps

(* The end of the text.                                                    *)
LEMMA EndOfFileKeeps == IInv /\ EndOfFile => IInv'
<1> SUFFICES ASSUME IInv, EndOfFile PROVE IInv'
  OBVIOUS
<1>1. /\ pc = "next" /\ pos >= End /\ pc' = "done"
      /\ engine' = engine /\ text' = text /\ tokens' = tokens /\ status' = status
      /\ pos' = pos /\ ptr' = ptr /\ begin' = begin /\ has_escape' = has_escape /\ stage' = stage
  BY DEF EndOfFile, Move, scan
<1>2. pos = End /\ status = "None" /\ Gap(pos)
  BY <1>1, Offsets DEF IInv, Scanning, Placed
<1>3. TypeOK'
  BY <1>1 DEF IInv, TypeOK, End
<1>4. TokensAreLexemes'
  BY <1>1 DEF IInv, TokensAreLexemes, IsLexeme, At, End
<1>5. NothingSkipped'
  <2>1. Passed(text', engine', Consumed', End')
    BY <1>1, <1>2 DEF Gap, Consumed, End
  <2>2. tokens' # <<>> =>
          Skippable(IF Len(tokens) = 1 THEN 0 ELSE After(tokens[Len(tokens) - 1]), First(Last(tokens)))'
    BY <1>1 DEF IInv, NothingSkipped, Skippable, Blank, At
  <2>3. Skippable(Consumed, End)'
    BY <2>1 DEF Passed, Skippable, Blank, At, Ch
  <2> QED
    BY <2>2, <2>3 DEF NothingSkipped
<1>6. RejectsNoLexeme'
  BY <1>1, <1>2 DEF RejectsNoLexeme
<1>7. Scanning'
  BY <1>1 DEF Scanning, Placed, InString, InDigits, InNumber
<1> QED
  BY <1>1, <1>2, <1>3, <1>4, <1>5, <1>6, <1>7 DEF IInv

(* A bracket, a comma or a colon.                                          *)
LEMMA ReadPunctuationKeeps == IInv /\ ReadPunctuation => IInv'
<1> SUFFICES ASSUME IInv, ReadPunctuation PROVE IInv'
  OBVIOUS
<1> DEFINE tk == Token(Punctuation[At(pos)], pos, pos + 1, FALSE)
<1>1. /\ pc = "next" /\ pos < End /\ At(pos) \in DOMAIN Punctuation
      /\ Emit(tk, pos + 1) /\ UNCHANGED scan
  BY DEF ReadPunctuation
<1>2. tk \in Tokens /\ pos + 1 \in 0..End /\ tk.to \in tk.from..End
  BY <1>1, Offsets DEF Token, Tokens, TokenTypes
<1>3. tk.type = Punctuation[At(pos)] /\ tk.from = pos /\ tk.to = pos + 1
  BY DEF Token
<1>4. tk.type \notin {"String", "Integer", "Double", "Null", "Boolean"}
  BY <1>1, <1>3, PunctuationNames
<1> HIDE DEF tk
<1>5. After(tk) = pos + 1 /\ First(tk) = pos
  BY <1>3, <1>4 DEF After, First
<1>6. IsLexeme(tk)
  BY <1>3, <1>4 DEF IsLexeme
<1>7. Passed(text, engine, Consumed, First(tk))
  BY <1>1, <1>5 DEF IInv, Scanning, Placed, Gap
<1> QED
  BY <1>1, <1>2, <1>5, <1>6, <1>7, EmitKeeps

(* The first byte of a run of whitespace.                                  *)
LEMMA SkipWhitespaceKeeps == IInv /\ SkipWhitespace => IInv'
<1> SUFFICES ASSUME IInv, SkipWhitespace PROVE IInv'
  OBVIOUS
<1>1. pc = "next" /\ Move("space") /\ pos' = pos /\ UNCHANGED scan
  BY DEF SkipWhitespace, scan
<1>2. pos \in 0..End /\ Gap(pos)
  BY <1>1, Offsets DEF IInv, Scanning, Placed
<1> QED
  BY <1>1, <1>2, SpaceKeeps

(* An error byte.                                                          *)
LEMMA RejectByteKeeps == IInv /\ RejectByte => IInv'
<1> SUFFICES ASSUME IInv, RejectByte PROVE IInv'
  OBVIOUS
<1> DEFINE error == IF At(pos) = SingleQuote THEN "SingleQuotedString" ELSE "Unknown"
<1>1. /\ pc = "next" /\ pos < End /\ At(pos) \in ErrorBytes \cup {SingleQuote} /\ Fail(error)
      /\ pos' = pos /\ ptr' = ptr /\ begin' = begin /\ has_escape' = has_escape /\ stage' = stage
  BY DEF RejectByte, scan
<1>2. error \in Errors
  BY DEF Errors
<1> HIDE DEF error
<1>3. Positioned'
  BY <1>1, Offsets DEF Positioned, Fail, End
<1>4. Ch(text, pos) \notin WhiteSpace \cup DOMAIN Punctuation \cup {Quote, Minus_} \cup Alphabet \cup Digits
  BY <1>1, ErrorClass DEF At, Ch
<1>5. NoToken(text, pos)
  BY <1>1, <1>4, Offsets, NoTokenClass
<1>6. Gap(pos)
  BY <1>1 DEF IInv, Scanning, Placed
<1> QED
  BY <1>1, <1>2, <1>3, <1>4, <1>5, <1>6, Offsets, FailKeeps

(* null, true or false.                                                    *)
LEMMA ReadAlphabetKeeps == IInv /\ ReadAlphabet => IInv'
<1> SUFFICES ASSUME IInv, ReadAlphabet PROVE IInv'
  OBVIOUS
<1> DEFINE words == {w \in {Null, True, False} : IsWord(text, pos, pos + Len(w), w)}
<1>1. /\ pc = "next" /\ pos < End /\ At(pos) \in Alphabet /\ UNCHANGED scan
      /\ \/ \E w \in words :
              Emit(Token(IF w = Null THEN "Null" ELSE "Boolean", pos, pos + Len(w), FALSE), pos + Len(w))
         \/ words = {} /\ Fail("InvalidValue") /\ UNCHANGED pos
  BY DEF ReadAlphabet
<1>2. Gap(pos)
  BY <1>1 DEF IInv, Scanning, Placed
<1>3. ASSUME NEW w \in words,
             Emit(Token(IF w = Null THEN "Null" ELSE "Boolean", pos, pos + Len(w), FALSE), pos + Len(w))
      PROVE  IInv'
  <2> DEFINE type == IF w = Null THEN "Null" ELSE "Boolean"
             to == pos + Len(w)
             tk == Token(type, pos, to, FALSE)
  <2>1. w \in {Null, True, False} /\ IsWord(text, pos, to, w)
    OBVIOUS
  <2>2. Len(w) \in Nat
    BY <2>1 DEF Null, True, False
  <2>3. to \in 0..End /\ pos <= to
    BY <2>1, <2>2, Offsets DEF IsWord, End
  <2>4. type \in {"Null", "Boolean"} /\ type \in TokenTypes /\ (type = "Null" <=> w = Null)
    BY DEF TokenTypes
  <2>5. tk.type = type /\ tk.from = pos /\ tk.to = to
    BY DEF Token
  <2> HIDE DEF type, to
  <2>6. tk \in Tokens /\ tk.to \in tk.from..End
    BY <2>3, <2>4, Offsets DEF Token, Tokens
  <2>7. Emit(tk, to)
    BY <1>3 DEF tk, type, to
  <2> HIDE DEF tk
  <2>8. After(tk) = to /\ First(tk) = pos
    BY <2>4, <2>5 DEF After, First
  <2>9. IsLexeme(tk)
    BY <2>1, <2>4, <2>5 DEF IsLexeme
  <2> QED
    BY <1>1, <1>2, <2>3, <2>6, <2>7, <2>8, <2>9, EmitKeeps DEF Gap
<1>4. ASSUME words = {}, Fail("InvalidValue"), pos' = pos
      PROVE  IInv'
  <2>1. Ch(text, pos) \in Alphabet
    BY <1>1 DEF At, Ch
  <2>2. Ch(text, pos) \notin WhiteSpace \cup DOMAIN Punctuation \cup {Quote} \cup DigitBytes \cup {45}
    BY <2>1, Classes DEF Alphabet, DigitBytes
  <2>3. NoToken(text, pos)
    <3>1. ASSUME NEW to \in (pos + 1)..Len(text)
          PROVE  ~IsNumber(text, pos, to) /\ \A w \in {Null, True, False} : ~IsWord(text, pos, to, w)
      <4>1. to \in Nat /\ to \in (pos + 1)..End
        BY Offsets DEF End
      <4>2. ~IsNumber(text, pos, to)
        BY <2>2, <4>1, Offsets, NumberStart
      <4>3. ASSUME NEW w \in {Null, True, False}, IsWord(text, pos, to, w) PROVE FALSE
        <5>1. to = pos + Len(w)
          BY <1>1, <4>1, <4>3, Offsets, WordStart
        <5> QED
          BY <1>4, <4>3, <5>1
      <4> QED
        BY <4>2, <4>3
    <3> QED
      BY <2>2, <3>1 DEF NoToken
  <2>4. Positioned'
    BY <1>1, <1>4, Offsets DEF Positioned, Fail, End, scan
  <2> QED
    BY <1>1, <1>2, <1>4, <2>2, <2>3, <2>4, Offsets, FailKeeps DEF Errors
<1> QED
  BY <1>1, <1>3, <1>4

(* What the lookup by PSHUFB leaves as it is.                              *)
LEMMA ShuffleKeeps ==
  ASSUME NEW b \in Byte
  PROVE  Shuffle(b) = b <=> b \in {9, 10, 13, 32}
BY DEF Shuffle, Byte

(* A block of the SWAR engine.                                             *)
LEMMA SwarSpaceBlockKeeps == IInv /\ SwarSpaceBlock => IInv'
<1> SUFFICES ASSUME IInv, SwarSpaceBlock PROVE IInv'
  OBVIOUS
<1> DEFINE block == Load(text, pos, Width)
           mask == NonSpaceMask(block)
           others == 33..255
<1>1. /\ pc = "space" /\ engine = "Swar" /\ HasBlock(pos, Width) /\ UNCHANGED scan
      /\ IF mask = {} THEN pos' = pos + Width /\ Move("space")
                      ELSE pos' = pos + FirstLane(mask) /\ Move("tail")
  BY DEF SwarSpaceBlock
<1>2. Block(block)
  BY <1>1, Offsets, BlockOf
<1>3. mask \in SUBSET Lanes(block) /\ FirstMatches(mask, block, others)
  BY <1>2, MasksWithin, FindsNonSpace
<1> HIDE DEF mask, others
<1>4. /\ pos + Width \in Nat /\ pos + Width <= End
      /\ mask = {} => \A q \in pos..(pos + Width - 1) : At(q) \notin others
      /\ mask # {} => /\ pos + FirstLane(mask) \in Nat /\ pos + FirstLane(mask) < End
                      /\ FirstLane(mask) \in 0..(Width - 1)
                      /\ \A q \in pos..(pos + FirstLane(mask) - 1) : At(q) \notin others
  BY <1>1, <1>3, Offsets, BlockScan
<1> HIDE DEF block
<1>5. Gap(pos)
  BY <1>1 DEF IInv, Scanning, Placed
<1>6. ASSUME NEW p \in Nat, pos <= p, p <= End, \A q \in pos..(p - 1) : At(q) \notin others
      PROVE  Gap(p)
  <2>1. ASSUME NEW q \in pos..(p - 1) PROVE Ch(text, q) <= 32
    <3>1. q \in Nat /\ q < End
      BY <1>6, Offsets
    <3>2. Ch(text, q) \in Byte /\ Ch(text, q) \notin others
      BY <1>6, <3>1, Offsets, AtByte
    <3> QED
      BY <3>2 DEF Byte, others
  <2> QED
    BY <1>1, <1>5, <1>6, <2>1, Offsets, GapGrows
<1>7. CASE mask = {}
  <2>1. Gap(pos + Width) /\ pos + Width \in 0..End
    BY <1>4, <1>6, <1>7, Offsets
  <2> QED
    BY <1>1, <1>7, <2>1, SpaceKeeps
<1>8. CASE mask # {}
  <2>1. Gap(pos + FirstLane(mask)) /\ pos + FirstLane(mask) \in 0..End
    BY <1>4, <1>6, <1>8, Offsets
  <2> QED
    BY <1>1, <1>8, <2>1, SpaceKeeps
<1> QED
  BY <1>7, <1>8

(* A block of the AVX2 engine.                                             *)
LEMMA Avx2SpaceBlockKeeps == IInv /\ Avx2SpaceBlock => IInv'
<1> SUFFICES ASSUME IInv, Avx2SpaceBlock PROVE IInv'
  OBVIOUS
<1> DEFINE block == Load(text, pos, Width)
           mask == {i \in Lanes(block) : Shuffle(block[i]) # block[i]}
           others == Byte \ {9, 10, 13, 32}
<1>1. /\ pc = "space" /\ HasBlock(pos, Width) /\ UNCHANGED scan
      /\ IF mask = {} THEN pos' = pos + Width /\ Move("space")
                      ELSE pos' = pos + FirstLane(mask) /\ Move("next")
  BY DEF Avx2SpaceBlock
<1>2. Block(block)
  BY <1>1, Offsets, BlockOf
<1>3. mask \in SUBSET Lanes(block) /\ FirstMatches(mask, block, others)
  <2>1. ASSUME NEW i \in Lanes(block) PROVE i \in mask <=> block[i] \in others
    BY <1>2, LanesOf, ShuffleKeeps
  <2> QED
    BY <2>1 DEF FirstMatches
<1> HIDE DEF mask
<1>4. /\ pos + Width \in Nat /\ pos + Width <= End
      /\ mask = {} => \A q \in pos..(pos + Width - 1) : At(q) \notin others
      /\ mask # {} => /\ pos + FirstLane(mask) \in Nat /\ pos + FirstLane(mask) < End
                      /\ FirstLane(mask) \in 0..(Width - 1)
                      /\ \A q \in pos..(pos + FirstLane(mask) - 1) : At(q) \notin others
  BY <1>1, <1>3, Offsets, BlockScan
<1> HIDE DEF block
<1>5. Gap(pos)
  BY <1>1 DEF IInv, Scanning, Placed
<1>6. ASSUME NEW p \in Nat, pos <= p, p <= End, \A q \in pos..(p - 1) : At(q) \notin others
      PROVE  Gap(p)
  <2>1. ASSUME NEW q \in pos..(p - 1) PROVE Ch(text, q) \in WhiteSpace
    <3>1. q \in Nat /\ q < End
      BY <1>6, Offsets
    <3>2. Ch(text, q) \in Byte /\ Ch(text, q) \notin others
      BY <1>6, <3>1, Offsets, AtByte
    <3> QED
      BY <3>2 DEF WhiteSpace
  <2> QED
    BY <1>5, <1>6, <2>1, Offsets, GapGrows
<1>7. CASE mask = {}
  <2>1. Gap(pos + Width) /\ pos + Width \in 0..End
    BY <1>4, <1>6, <1>7, Offsets
  <2> QED
    BY <1>1, <1>7, <2>1, SpaceKeeps
<1>8. CASE mask # {}
  <2>1. Gap(pos + FirstLane(mask)) /\ pos + FirstLane(mask) \in 0..End
    BY <1>4, <1>6, <1>8, Offsets
  <2> QED
    BY <1>1, <1>8, <2>1, SpaceKeeps
<1> QED
  BY <1>7, <1>8

(* The bytes after the last block.                                         *)
LEMMA SpaceTailKeeps == IInv /\ SpaceTail => IInv'
<1> SUFFICES ASSUME IInv, SpaceTail PROVE IInv'
  OBVIOUS
<1>1. pc \in {"space", "tail"} /\ UNCHANGED scan
  BY DEF SpaceTail
<1>2. Gap(pos)
  BY <1>1 DEF IInv, Scanning, Placed
<1>3. CASE pos < End /\ At(pos) \in WhiteSpace /\ pos' = pos + 1 /\ Move("tail")
  <2>1. pos + 1 \in 0..End /\ pos + 1 \in Nat /\ pos <= pos + 1
    BY <1>3, Offsets
  <2>2. \A q \in pos..((pos + 1) - 1) : q = pos
    BY Offsets
  <2>3. Gap(pos + 1)
    BY <1>2, <1>3, <2>1, <2>2, Offsets, GapGrows DEF At, Ch
  <2> QED
    BY <1>1, <1>3, <2>1, <2>3, SpaceKeeps
<1>4. CASE pos' = pos /\ Move("next")
  BY <1>1, <1>2, <1>4, Offsets, SpaceKeeps
<1> QED
  BY <1>3, <1>4 DEF SpaceTail

-----------------------------------------------------------------------------
(* read_string.                                                            *)

Stops == {Quote, Backslash} \cup 0..31

(* Bytes that stop no scan leave the body as it was.                       *)
LEMMA BodyGrows ==
  ASSUME NEW t, NEW from \in Nat, NEW p \in Nat, NEW r \in Nat, NEW escape, Len(t) \in Nat,
         p <= r, r <= Len(t), Body(t, from, p, escape),
         \A q \in p..(r - 1) : Ch(t, q) \in Byte \ Stops
  PROVE  Body(t, from, r, escape)
<1>1. \A q \in from..(r - 1) : q \in from..(p - 1) \/ q \in p..(r - 1)
  OBVIOUS
<1>2. \A b \in Byte \ Stops : b # Quote /\ ~(b < 32) /\ b # Backslash /\ b # 92
  BY DEF Byte, Stops, Quote, Backslash
<1>3. from <= r /\ from <= p
  BY DEF Body
<1>4. ~Escaped(t, from, r)
  <2>1. CASE r = p
    BY <2>1 DEF Body
  <2>2. CASE p < r
    <3>1. r - 1 \in p..(r - 1)
      BY <2>2
    <3>2. Ch(t, r - 1) # 92
      BY <1>2, <3>1
    <3> QED
      BY <1>3, <3>2, NoRun
  <2> QED
    BY <2>1, <2>2
<1>5. \A q \in from..(r - 1) : q < Len(t) /\ (Ch(t, q) = Quote \/ Ch(t, q) < 32) => Escaped(t, from, q)
  BY <1>1, <1>2 DEF Body
<1>6. escape <=> \E q \in from..(r - 1) : q < Len(t) /\ Ch(t, q) = Backslash
  <2>1. \A q \in from..(p - 1) : q \in from..(r - 1)
    BY <1>3
  <2> QED
    BY <1>1, <1>2, <2>1 DEF Body
<1> QED
  BY <1>3, <1>4, <1>5, <1>6 DEF Body

(* An escape: the byte after the backslash is escaped, the next one is not.*)
LEMMA BodyEscapes ==
  ASSUME NEW t, NEW from \in Nat, NEW p \in Nat, NEW escape, Len(t) \in Nat,
         p < Len(t), Body(t, from, p, escape), Ch(t, p) = Backslash
  PROVE  Body(t, from, p + 2, TRUE)
<1>1. from <= p /\ ~Escaped(t, from, p) /\ Ch(t, p) = 92
  BY DEF Body, Backslash
<1>2. Escaped(t, from, p + 1)
  BY <1>1, EscapeAlternates
<1>3. ~Escaped(t, from, p + 2)
  <2>1. CASE Ch(t, p + 1) = 92
    <3>1. Escaped(t, from, (p + 1) + 1) <=> ~Escaped(t, from, p + 1)
      <4>1. p + 1 \in Nat /\ from <= p + 1
        BY <1>1
      <4> QED
        BY <2>1, <4>1, EscapeAlternates
    <3>2. (p + 1) + 1 = p + 2
      OBVIOUS
    <3> QED
      BY <1>2, <3>1, <3>2
  <2>2. CASE Ch(t, p + 1) # 92
    <3>1. (p + 2) - 1 = p + 1 /\ p + 2 \in Nat /\ from <= p + 2
      BY <1>1
    <3> QED
      BY <2>2, <3>1, NoRun
  <2> QED
    BY <2>1, <2>2
<1>4. \A q \in from..(p + 2 - 1) : q \in from..(p - 1) \/ q = p \/ q = p + 1
  OBVIOUS
<1>5. ~(Ch(t, p) = Quote \/ Ch(t, p) < 32)
  BY <1>1 DEF Quote
<1>6. p \in from..(p + 2 - 1)
  BY <1>1
<1> QED
  BY <1>1, <1>2, <1>3, <1>4, <1>5, <1>6 DEF Body

(* The string that the body makes with a quote at its end.                 *)
LEMMA BodyCloses ==
  ASSUME NEW t, NEW from \in Nat, NEW p \in Nat, NEW escape, Len(t) \in Nat,
         p < Len(t), Body(t, from, p, escape), Ch(t, p) = Quote
  PROVE  /\ IsString(t, from, p)
         /\ escape <=> \E q \in from..(p - 1) : Ch(t, q) = Backslash
<1>1. \A q \in from..(p - 1) : q < Len(t)
  OBVIOUS
<1> QED
  BY <1>1 DEF Body, IsString, Quote

(* No string can be closed after an unescaped control character, nor one   *)
(* whose body reaches the end of the text.                                 *)
LEMMA BodyBreaks ==
  ASSUME NEW t, NEW from \in Nat, NEW p \in Nat, NEW escape, Len(t) \in Nat,
         Body(t, from, p, escape), p >= Len(t) \/ Ch(t, p) < 32,
         NEW to \in Nat, from <= to
  PROVE  ~IsString(t, from, to)
<1> SUFFICES ASSUME IsString(t, from, to) PROVE FALSE
  OBVIOUS
<1>1. to < Len(t) /\ Ch(t, to) = 34 /\ ~Escaped(t, from, to) /\ from <= p
  BY DEF IsString, Body
<1>2. ~(to < p)
  <2>1. ASSUME to < p PROVE FALSE
    <3>1. to \in from..(p - 1)
      BY <2>1
    <3> QED
      BY <1>1, <3>1 DEF Body, Quote
  <2> QED
    BY <2>1
<1>3. p < Len(t) /\ Ch(t, p) < 32
  BY <1>1, <1>2
<1>4. to # p
  BY <1>1, <1>3
<1>5. p \in from..(to - 1)
  BY <1>1, <1>2, <1>4
<1>6. Escaped(t, from, p)
  BY <1>3, <1>5 DEF IsString
<1> QED
  BY <1>3, <1>6 DEF Body

(* What a string that is being read stands for.                            *)
LEMMA StringHere ==
  ASSUME IInv, pc = "string"
  PROVE  /\ Body(text, begin, ptr, has_escape)
         /\ begin >= 1 /\ begin - 1 \in Nat /\ begin - 1 < End
         /\ Ch(text, begin - 1) = Quote /\ Gap(begin - 1)
         /\ End = Len(text) /\ Len(text) \in Nat
<1>1. Body(text, begin, ptr, has_escape)
  BY DEF IInv, Scanning, InString
<1>2. begin >= 1 /\ Ch(text, begin - 1) = Quote /\ Gap(begin - 1)
  BY DEF IInv, Scanning, Placed
<1>3. End = Len(text) /\ End \in Nat /\ begin \in Nat /\ begin <= End
  BY Offsets, Widths
<1> QED
  BY <1>1, <1>2, <1>3

(* The scan goes on at r.                                                  *)
LEMMA StringMoves ==
  ASSUME IInv, pc = "string", Move("string"), NEW r \in 0..(End + 1), NEW escape \in BOOLEAN,
         Body(text, begin, r, escape),
         ptr' = r, has_escape' = escape, UNCHANGED <<pos, begin, stage>>
  PROVE  IInv'
<1>1. /\ pc' = "string" /\ "string" \in Labels
      /\ engine' = engine /\ text' = text /\ tokens' = tokens /\ End' = End
      /\ pos' = pos /\ begin' = begin /\ stage' = stage
  BY DEF Move, End, Labels
<1>2. Positioned'
  BY <1>1, Offsets DEF Positioned
<1>3. begin' >= 1 /\ Ch(text', begin' - 1) = Quote /\ Gap(begin - 1)'
  BY <1>1, StringHere DEF Gap, Consumed
<1>4. Body(text', begin', ptr', has_escape')
  BY <1>1
<1>5. Scanning'
  BY <1>1, <1>3, <1>4 DEF Scanning, Placed, InString, InDigits, InNumber
<1> QED
  BY <1>1, <1>2, <1>5, MoveKeeps

(* The string is closed at p.                                              *)
LEMMA StringCloses ==
  ASSUME IInv, pc = "string", NEW p \in Nat, p < End, Body(text, begin, p, has_escape),
         Ch(text, p) = Quote, CloseString(p)
  PROVE  IInv'
<1> DEFINE tk == Token("String", begin, p, has_escape)
<1>1. Emit(tk, p + 1) /\ UNCHANGED scan
  BY DEF CloseString
<1>2. begin <= p /\ p + 1 \in 0..End /\ p \in begin..End
  BY Offsets DEF Body
<1>3. tk \in Tokens
  BY Offsets DEF Token, Tokens, TokenTypes, Positioned
<1>4. tk.type = "String" /\ tk.from = begin /\ tk.to = p /\ tk.has_escape = has_escape
  BY DEF Token
<1> HIDE DEF tk
<1>5. After(tk) = p + 1 /\ First(tk) = begin - 1
  BY <1>4 DEF After, First
<1>6. IsLexeme(tk)
  <2>1. IsString(text, begin, p) /\ (has_escape <=> \E q \in begin..(p - 1) : Ch(text, q) = Backslash)
    BY Offsets, StringHere, BodyCloses
  <2>2. At(begin - 1) = Quote
    BY StringHere DEF At, Ch
  <2> QED
    BY <1>4, <2>1, <2>2 DEF IsLexeme, At, Ch
<1>7. Passed(text, engine, Consumed, First(tk))
  BY <1>5, StringHere DEF Gap
<1> QED
  BY <1>1, <1>2, <1>3, <1>4, <1>5, <1>6, <1>7, EmitKeeps

(* The string cannot be closed.                                            *)
LEMMA StringBreaks ==
  ASSUME IInv, pc = "string", NEW p \in Nat, NEW escape, Body(text, begin, p, escape),
         p >= End \/ Ch(text, p) < 32,
         NEW error \in Errors, Fail(error), Positioned'
  PROVE  IInv'
<1> DEFINE a == begin - 1
<1>1. a \in Nat /\ a < End /\ Ch(text, a) = Quote /\ Gap(a) /\ a + 1 = begin
  BY StringHere, Offsets
<1> HIDE DEF a
<1>2. NoToken(text, a)
  <2>1. ASSUME NEW to \in (a + 1)..Len(text)
        PROVE  /\ ~IsString(text, a + 1, to) /\ ~IsNumber(text, a, to)
               /\ \A w \in {Null, True, False} : ~IsWord(text, a, to, w)
    <3>1. to \in Nat /\ begin <= to /\ to \in (a + 1)..End
      BY <1>1, StringHere, Offsets
    <3>2. ~IsString(text, begin, to)
      BY <3>1, StringHere, Offsets, BodyBreaks
    <3>3. Ch(text, a) \notin Alphabet \cup DigitBytes \cup {45}
      BY <1>1 DEF Alphabet, DigitBytes, Quote
    <3> QED
      BY <1>1, <3>1, <3>2, <3>3, Offsets, NumberStart, WordStart
  <2>2. Ch(text, a) \notin DOMAIN Punctuation
    BY <1>1, Classes
  <2> QED
    BY <2>1, <2>2 DEF NoToken
<1>3. Ch(text, a) \notin WhiteSpace
  BY <1>1, Classes
<1> QED
  BY <1>1, <1>2, <1>3, FailKeeps

(* An opening quote.                                                       *)
LEMMA ReadStringKeeps == IInv /\ ReadString => IInv'
<1> SUFFICES ASSUME IInv, ReadString PROVE IInv'
  OBVIOUS
<1>1. /\ pc = "next" /\ pos < End /\ Ch(text, pos) = Quote /\ Move("string")
      /\ pos' = pos + 1 /\ begin' = pos + 1 /\ ptr' = pos + 1
      /\ has_escape' = FALSE /\ stage' = stage
  BY DEF ReadString, At, Ch
<1>2. /\ pc' = "string" /\ "string" \in Labels
      /\ engine' = engine /\ text' = text /\ tokens' = tokens /\ End' = End
  BY <1>1 DEF Move, End, Labels
<1>3. Positioned'
  <2>1. pos + 1 \in 0..End /\ pos + 1 \in 0..(End + 1)
    BY <1>1, Offsets
  <2> QED
    BY <1>1, <1>2, <2>1, Offsets DEF Positioned
<1>4. begin' - 1 = pos /\ begin' >= 1
  BY <1>1, Offsets
<1>5. Gap(pos)
  BY <1>1 DEF IInv, Scanning, Placed
<1>6. Gap(begin - 1)'
  BY <1>2, <1>4, <1>5 DEF Gap, Consumed
<1>7. Body(text, pos + 1, pos + 1, FALSE)
  <2>1. pos + 1 \in Nat /\ \A q \in (pos + 1)..(pos + 1 - 1) : FALSE
    BY Offsets
  <2>2. ~Escaped(text, pos + 1, pos + 1)
    BY <2>1, NoRun
  <2> QED
    BY <2>1, <2>2 DEF Body
<1>8. Body(text', begin', ptr', has_escape')
  BY <1>1, <1>2, <1>7
<1>9. Scanning'
  BY <1>1, <1>2, <1>4, <1>6, <1>8 DEF Scanning, Placed, InString, InDigits, InNumber
<1> QED
  BY <1>1, <1>2, <1>3, <1>9, MoveKeeps

(* A block of either engine.                                               *)
LEMMA StringBlockKeeps ==
  ASSUME IInv, pc = "string", HasBlock(ptr, Width),
         NEW mask \in SUBSET Lanes(Load(text, ptr, Width)),
         FirstMatches(mask, Load(text, ptr, Width), Stops), StringBlock(mask)
  PROVE  IInv'
<1> DEFINE n == FirstLane(mask)
           p == ptr + n
<1>1. /\ ptr + Width \in Nat /\ ptr + Width <= End
      /\ mask = {} => \A q \in ptr..(ptr + Width - 1) : At(q) \notin Stops
      /\ mask # {} => /\ p \in Nat /\ p < End /\ n \in 0..(Width - 1)
                      /\ At(p) \in Stops
                      /\ \A q \in ptr..(p - 1) : At(q) \notin Stops
  BY Offsets, BlockScan
<1>2. \/ mask = {} /\ ptr' = ptr + Width /\ Move("string") /\ UNCHANGED <<pos, begin, has_escape, stage>>
      \/ mask # {} /\ At(p) = Quote /\ CloseString(p)
      \/ mask # {} /\ At(p) < 32 /\ Fail("UnescapedCharacter") /\ UNCHANGED <<pos, scan>>
      \/ /\ mask # {} /\ At(p) # Quote /\ At(p) >= 32
         /\ has_escape' = TRUE /\ ptr' = p + 2 /\ Move("string") /\ UNCHANGED <<pos, begin, stage>>
  BY DEF StringBlock
<1> HIDE DEF n
<1>3. ASSUME NEW r \in Nat, ptr <= r, r <= End, \A q \in ptr..(r - 1) : At(q) \notin Stops
      PROVE  Body(text, begin, r, has_escape)
  <2>1. ASSUME NEW q \in ptr..(r - 1) PROVE Ch(text, q) \in Byte \ Stops
    <3>1. q \in Nat /\ q < End
      BY <1>3, Offsets
    <3> QED
      BY <1>3, <3>1, Offsets, AtByte
  <2> QED
    BY <1>3, <2>1, Offsets, StringHere, BodyGrows
<1>4. CASE mask = {} /\ ptr' = ptr + Width /\ Move("string") /\ UNCHANGED <<pos, begin, has_escape, stage>>
  <2>1. Body(text, begin, ptr + Width, has_escape) /\ ptr + Width \in 0..(End + 1)
    BY <1>1, <1>3, <1>4, Offsets
  <2> QED
    BY <1>4, <2>1, Offsets, StringMoves DEF Positioned
<1>5. ASSUME mask # {} PROVE Body(text, begin, p, has_escape) /\ p \in Nat /\ p < End
  <2>1. p \in Nat /\ ptr <= p /\ p <= End /\ p < End
    BY <1>1, <1>5, Offsets
  <2> QED
    BY <1>1, <1>3, <1>5, <2>1
<1> HIDE DEF p
<1>6. CASE mask # {} /\ At(p) = Quote /\ CloseString(p)
  BY <1>5, <1>6, StringCloses DEF At, Ch
<1>7. CASE mask # {} /\ At(p) < 32 /\ Fail("UnescapedCharacter") /\ UNCHANGED <<pos, scan>>
  <2>1. Positioned'
    BY <1>7, Offsets DEF Positioned, Fail, End, scan
  <2> QED
    BY <1>5, <1>7, <2>1, StringBreaks DEF At, Ch, Errors
<1>8. CASE /\ mask # {} /\ At(p) # Quote /\ At(p) >= 32
           /\ has_escape' = TRUE /\ ptr' = p + 2 /\ Move("string") /\ UNCHANGED <<pos, begin, stage>>
  <2>1. Ch(text, p) = Backslash
    <3>1. At(p) \in Stops /\ At(p) = Ch(text, p)
      BY <1>1, <1>8 DEF At, Ch, p
    <3> QED
      BY <1>8, <3>1 DEF Stops
  <2>2. Body(text, begin, p + 2, TRUE)
    BY <1>5, <1>8, <2>1, Offsets, StringHere, BodyEscapes
  <2>3. p + 2 \in 0..(End + 1)
    BY <1>5, <1>8, Offsets
  <2> QED
    BY <1>8, <2>2, <2>3, StringMoves
<1> QED
  BY <1>2, <1>4, <1>6, <1>7, <1>8 DEF p

(* A block of the SWAR engine.                                             *)
LEMMA SwarStringBlockKeeps == IInv /\ SwarStringBlock => IInv'
<1> SUFFICES ASSUME IInv, SwarStringBlock PROVE IInv'
  OBVIOUS
<1> DEFINE block == Load(text, ptr, Width)
           mask == StringMask(block)
<1>1. pc = "string" /\ HasBlock(ptr, Width) /\ StringBlock(mask)
  BY DEF SwarStringBlock
<1>2. Block(block)
  BY <1>1, Offsets, BlockOf
<1>3. mask \in SUBSET Lanes(block) /\ FirstMatches(mask, block, Stops)
  BY <1>2, MasksWithin, FindsStringEnd DEF Stops
<1> HIDE DEF mask
<1> QED
  BY <1>1, <1>3, StringBlockKeeps

(* A block of the AVX2 engine.                                             *)
LEMMA Avx2StringBlockKeeps == IInv /\ Avx2StringBlock => IInv'
<1> SUFFICES ASSUME IInv, Avx2StringBlock PROVE IInv'
  OBVIOUS
<1> DEFINE block == Load(text, ptr, Width)
           mask == {i \in Lanes(block) : block[i] \in Stops}
<1>1. pc = "string" /\ HasBlock(ptr, Width) /\ StringBlock(mask)
  BY DEF Avx2StringBlock, Stops
<1>2. mask \in SUBSET Lanes(block) /\ FirstMatches(mask, block, Stops)
  BY DEF FirstMatches
<1> HIDE DEF mask
<1> QED
  BY <1>1, <1>2, StringBlockKeeps

(* finish_string_scalar.                                                   *)
LEMMA StringTailKeeps == IInv /\ StringTail => IInv'
<1> SUFFICES ASSUME IInv, StringTail PROVE IInv'
  OBVIOUS
<1>1. pc = "string"
  BY DEF StringTail
<1>2. Body(text, begin, ptr, has_escape) /\ End = Len(text) /\ Len(text) \in Nat
  BY <1>1, StringHere
<1>3. At(ptr) = Ch(text, ptr)
  BY DEF At, Ch
<1>4. CASE ptr >= End /\ Fail("InvalidValue") /\ UNCHANGED <<pos, scan>>
  <2>1. Positioned'
    BY <1>4, Offsets DEF Positioned, Fail, End, scan
  <2> QED
    BY <1>1, <1>2, <1>4, <2>1, Offsets, StringBreaks DEF Errors
<1>5. CASE ptr < End /\ At(ptr) < 32 /\ Fail("UnescapedCharacter") /\ UNCHANGED <<pos, scan>>
  <2>1. Positioned'
    BY <1>5, Offsets DEF Positioned, Fail, End, scan
  <2> QED
    BY <1>1, <1>2, <1>3, <1>5, <2>1, Offsets, StringBreaks DEF Errors
<1>6. CASE ptr < End /\ At(ptr) = Quote /\ CloseString(ptr)
  BY <1>1, <1>2, <1>3, <1>6, Offsets, StringCloses
<1>7. CASE /\ ptr < End /\ At(ptr) = Backslash /\ has_escape' = TRUE /\ ptr' = ptr + 2
           /\ IF ptr + 2 > End THEN Fail("InvalidValue") ELSE Move("string")
           /\ UNCHANGED <<pos, begin, stage>>
  <2>0. ptr \in Nat /\ begin \in Nat /\ ptr + 2 \in Nat /\ ptr < Len(text) /\ Ch(text, ptr) = Backslash
    BY <1>2, <1>3, <1>7, Offsets
  <2>1. Body(text, begin, ptr + 2, TRUE) /\ ptr + 2 \in Nat
    BY <1>2, <2>0, BodyEscapes
  <2>2. ptr + 2 \in 0..(End + 1)
    BY <1>7, Offsets
  <2>3. CASE ptr + 2 > End /\ Fail("InvalidValue")
    <3>1. Positioned'
      BY <1>7, <2>2, <2>3, Offsets DEF Positioned, Fail, End
    <3>2. ptr + 2 >= End
      BY <2>3, <2>1, Offsets
    <3> QED
      BY <1>1, <2>1, <2>3, <3>1, <3>2, StringBreaks DEF Errors
  <2>4. CASE Move("string")
    BY <1>1, <1>7, <2>1, <2>2, <2>4, StringMoves
  <2> QED
    BY <1>7, <2>3, <2>4
<1>8. CASE /\ ptr < End /\ At(ptr) >= 32 /\ At(ptr) \notin {Quote, Backslash}
           /\ ptr' = ptr + 1 /\ Move("string") /\ UNCHANGED <<pos, begin, has_escape, stage>>
  <2>1. ptr + 1 \in 0..(End + 1) /\ ptr + 1 \in Nat /\ ptr + 1 <= Len(text) /\ ptr <= ptr + 1
    BY <1>2, <1>8, Offsets
  <2>2. \A q \in ptr..(ptr + 1 - 1) : q = ptr
    BY Offsets
  <2>3. Ch(text, ptr) \in Byte \ Stops
    <3>1. At(ptr) \in Byte
      BY <1>8, Offsets, AtByte
    <3>2. \A b \in Byte : b >= 32 /\ b \notin {Quote, Backslash} => b \notin Stops
      BY DEF Stops, Byte
    <3> QED
      BY <1>3, <1>8, <3>1, <3>2
  <2>4. Body(text, begin, ptr + 1, has_escape)
    BY <1>2, <2>1, <2>2, <2>3, Offsets, BodyGrows
  <2> QED
    BY <1>1, <1>8, <2>1, <2>4, Offsets, StringMoves DEF Positioned
<1> QED
  BY <1>4, <1>5, <1>6, <1>7, <1>8 DEF StringTail

-----------------------------------------------------------------------------
(* read_numeric.                                                           *)

(* The digits of a part make the part.                                     *)
LEMMA PartEnds ==
  ASSUME NEW t, NEW b \in Nat, NEW part, NEW s \in Nat, NEW x \in Nat, Len(t) \in Nat, x <= Len(t),
         StartsPart(t, b, part, s), s < x, \A q \in s..(x - 1) : Ch(t, q) \in DigitBytes
  PROVE  EndsPart(t, b, part, x)
<1>1. AllDigits(t, s, x)
  BY DEF AllDigits, DigitBytes
<1>2. CASE part = "integer" /\ s = Lead(t, b) /\ Ch(t, s) # 48
  BY <1>1, <1>2, IntegerDigits DEF EndsPart
<1>3. CASE part = "fraction"
  <2>1. PICK i \in b..s : s = i + 1 /\ IsInteger(t, b, i) /\ Ch(t, i) = 46
    BY <1>3 DEF StartsPart
  <2>2. i < x /\ i \in b..x /\ i \in Nat
    BY <2>1
  <2>3. IsFraction(t, i, x)
    BY <1>1, <2>1, <2>2 DEF IsFraction
  <2> QED
    BY <1>3, <2>1, <2>2, <2>3 DEF EndsPart
<1>4. CASE part = "exponent"
  <2>1. PICK f \in b..s : /\ IsSignificand(t, b, f)
                          /\ Ch(t, f) \in {69, 101}
                          /\ s = ExponentDigits(t, f)
    BY <1>4 DEF StartsPart
  <2>2. f \in Nat /\ s \in {f + 1, f + 2} /\ (s = f + 2 => Ch(t, f + 1) \in {43, 45})
    BY <2>1 DEF ExponentDigits
  <2>3. f < x /\ f \in b..x /\ (s = f + 2 => f + 1 < x)
    BY <2>1, <2>2
  <2>4. IsExponent(t, f, x)
    BY <1>1, <2>1, <2>2, <2>3 DEF IsExponent
  <2> QED
    BY <1>4, <2>1, <2>3, <2>4 DEF EndsPart
<1> QED
  BY <1>2, <1>3, <1>4 DEF StartsPart

(* What a number is that ends with this part.                              *)
LEMMA PartFacts ==
  ASSUME NEW t, NEW b \in Nat, NEW part, NEW x \in Nat, Len(t) \in Nat, x <= Len(t),
         EndsPart(t, b, part, x)
  PROVE  /\ IsNumber(t, b, x) /\ b < x
         /\ part # "exponent" <=> IsSignificand(t, b, x)
         /\ part = "integer" <=> IsInteger(t, b, x)
<1>1. ASSUME IsInteger(t, b, x)
      PROVE  IsSignificand(t, b, x) /\ b < x
  <2>1. b < x
    BY <1>1, IntegerAfter
  <2>2. x \in b..x
    BY <2>1
  <2> QED
    BY <1>1, <2>1, <2>2 DEF IsSignificand
<1>2. ASSUME IsSignificand(t, b, x), b < x
      PROVE  IsNumber(t, b, x)
  <2>1. x \in b..x
    BY <1>2
  <2> QED
    BY <1>2, <2>1, NumberParts
<1>3. CASE part = "integer" /\ IsInteger(t, b, x)
  BY <1>1, <1>2, <1>3
<1>4. CASE part = "fraction"
  <2>1. PICK i \in b..x : IsInteger(t, b, i) /\ IsFraction(t, i, x)
    BY <1>4 DEF EndsPart
  <2>2. i \in Nat /\ i < x /\ Ch(t, i) = 46 /\ b < i
    BY <2>1, IntegerAfter DEF IsFraction
  <2>3. IsSignificand(t, b, x)
    BY <2>1 DEF IsSignificand
  <2>4. ~IsInteger(t, b, x)
    BY <2>1, <2>2, IntegersAgree DEF DigitBytes
  <2> QED
    BY <1>2, <1>4, <2>2, <2>3, <2>4
<1>5. CASE part = "exponent"
  <2>1. PICK f \in b..x : IsSignificand(t, b, f) /\ IsExponent(t, f, x)
    BY <1>5 DEF EndsPart
  <2>2. f \in Nat /\ f < x /\ Ch(t, f) \in {69, 101}
    BY <2>1, ExponentStart
  <2>3. IsNumber(t, b, x) /\ b < x
    BY <2>1, <2>2, NumberParts
  <2>4. ~IsSignificand(t, b, x)
    BY <2>1, <2>2, SignificandsAgree DEF DigitBytes
  <2> QED
    BY <1>1, <1>5, <2>3, <2>4
<1> QED
  BY <1>3, <1>4, <1>5 DEF EndsPart

(* A number that is being read.                                            *)
LEMMA NumberHere ==
  ASSUME IInv, pc \in {"digits", "number"}
  PROVE  /\ begin \in Nat /\ begin < End /\ Ch(text, begin) \in DigitBytes \cup {Minus_} /\ Gap(begin)
         /\ pos \in Nat /\ pos <= End
         /\ End = Len(text) /\ Len(text) \in Nat
<1>1. begin < End /\ Ch(text, begin) \in DigitBytes \cup {Minus_} /\ Gap(begin)
  BY DEF IInv, Scanning, Placed
<1> QED
  BY <1>1, Offsets, Widths

(* Bytes that start a number start nothing else.                           *)
LEMMA NumericClass ==
  ASSUME NEW b \in DigitBytes \cup {Minus_}
  PROVE  b \notin WhiteSpace \cup DOMAIN Punctuation \cup {Quote} \cup Alphabet
<1>1. CASE b \in 48..57
  BY <1>1, Classes DEF Alphabet
<1>2. CASE b = 45
  BY <1>2, Classes DEF Alphabet
<1> QED
  BY <1>1, <1>2 DEF DigitBytes, Minus_

(* A number that next_token gives up: whatever number starts there could   *)
(* go on.                                                                  *)
LEMMA NumberBreaks ==
  ASSUME IInv, pc # "done", NEW a \in Nat, a < End, Ch(text, a) \in DigitBytes \cup {Minus_}, Gap(a),
         \A to \in (a + 1)..Len(text) :
           IsNumber(text, a, to) => to < Len(text) /\ Ch(text, to) \in DigitBytes \cup {46, 69, 101},
         NEW error \in Errors, Fail(error), Positioned'
  PROVE  IInv'
<1>1. Ch(text, a) \notin WhiteSpace \cup DOMAIN Punctuation \cup {Quote} \cup Alphabet
  BY NumericClass
<1>2. ASSUME NEW to \in (a + 1)..Len(text), NEW w \in {Null, True, False}
      PROVE  ~IsWord(text, a, to, w)
  <2>1. to \in (a + 1)..End
    BY DEF End
  <2> QED
    BY <1>1, <2>1, Offsets, WordStart
<1>3. NoToken(text, a)
  BY <1>1, <1>2, Classes DEF NoToken
<1> QED
  BY <1>1, <1>3, FailKeeps

(* The scan of the digits goes on at p, or has come to their end.          *)
LEMMA DigitsMove ==
  ASSUME IInv, pc = "digits", UNCHANGED scan, NEW p \in Nat, pos <= p, p <= End,
         \A q \in pos..(p - 1) : Ch(text, q) \in DigitBytes, pos' = p,
         Move("digits") \/ (Move("number") /\ ~IsDigitAt(text, p))
  PROVE  IInv'
<1>1. /\ begin \in Nat /\ begin < End /\ Ch(text, begin) \in DigitBytes \cup {Minus_} /\ Gap(begin)
      /\ pos \in Nat /\ End = Len(text) /\ Len(text) \in Nat
  BY NumberHere
<1>2. PICK s \in begin..pos : /\ StartsPart(text, begin, stage, s)
                              /\ IsDigitAt(text, s)
                              /\ \A q \in s..(pos - 1) : Ch(text, q) \in DigitBytes
  BY DEF IInv, Scanning, InDigits
<1>3. s \in Nat /\ s \in begin..p /\ s <= p
  BY <1>1
<1>4. \A q \in s..(p - 1) : Ch(text, q) \in DigitBytes
  <2>1. \A q \in s..(p - 1) : q \in s..(pos - 1) \/ q \in pos..(p - 1)
    BY <1>1
  <2> QED
    BY <1>2, <2>1
<1>5. /\ engine' = engine /\ text' = text /\ tokens' = tokens /\ End' = End
      /\ ptr' = ptr /\ begin' = begin /\ has_escape' = has_escape /\ stage' = stage
  BY DEF Move, scan, End
<1>6. Positioned'
  BY <1>5, Offsets DEF Positioned
<1>7. begin' < End' /\ Ch(text', begin') \in DigitBytes \cup {Minus_} /\ Gap(begin)'
  BY <1>1, <1>5 DEF Gap, Consumed
<1>8. CASE Move("digits")
  <2>1. pc' = "digits" /\ "digits" \in Labels
    BY <1>8 DEF Move, Labels
  <2>2. InDigits'
    BY <1>2, <1>3, <1>4, <1>5 DEF InDigits
  <2>3. Scanning'
    BY <1>7, <2>1, <2>2 DEF Scanning, Placed, InString, InNumber
  <2> QED
    BY <1>6, <1>8, <2>1, <2>3, MoveKeeps
<1>9. CASE Move("number") /\ ~IsDigitAt(text, p)
  <2>1. pc' = "number" /\ "number" \in Labels
    BY <1>9 DEF Move, Labels
  <2>2. s # p
    BY <1>2, <1>9
  <2>3. s < p
    BY <1>3, <2>2
  <2>4. EndsPart(text, begin, stage, p)
    BY <1>1, <1>2, <1>3, <1>4, <2>3, PartEnds
  <2>5. InNumber'
    BY <1>5, <1>9, <2>4 DEF InNumber
  <2>6. Scanning'
    BY <1>7, <2>1, <2>5 DEF Scanning, Placed, InString, InDigits
  <2> QED
    BY <1>6, <1>9, <2>1, <2>6, MoveKeeps
<1> QED
  BY <1>8, <1>9

(* A block of skip_digits.                                                 *)
LEMMA DigitBlockKeeps == IInv /\ DigitBlock => IInv'
<1> SUFFICES ASSUME IInv, DigitBlock PROVE IInv'
  OBVIOUS
<1> DEFINE width == BlockSize["Swar"]
           block == Load(text, pos, width)
           mask == NonDigitMask(block)
           others == Byte \ DigitBytes
<1>1. /\ pc = "digits" /\ HasBlock(pos, width) /\ UNCHANGED scan
      /\ IF mask = {} THEN pos' = pos + width /\ Move("digits")
                      ELSE pos' = pos + FirstLane(mask) /\ Move("number")
  BY DEF DigitBlock
<1>0. width \in Nat /\ width >= 1
  BY Offsets
<1> HIDE DEF width
<1>2. Block(block)
  BY <1>0, <1>1, Offsets, BlockOf
<1>3. mask \in SUBSET Lanes(block) /\ FirstMatches(mask, block, others)
  BY <1>2, MasksWithin, FindsNonDigit DEF DigitBytes
<1> HIDE DEF mask, others
<1>4. /\ pos + width \in Nat /\ pos + width <= End
      /\ mask = {} => \A q \in pos..(pos + width - 1) : At(q) \notin others
      /\ mask # {} => /\ pos + FirstLane(mask) \in Nat /\ pos + FirstLane(mask) < End
                      /\ FirstLane(mask) \in 0..(width - 1)
                      /\ At(pos + FirstLane(mask)) \in others
                      /\ \A q \in pos..(pos + FirstLane(mask) - 1) : At(q) \notin others
  BY <1>0, <1>1, <1>3, Offsets, BlockScan
<1> HIDE DEF block
<1>5. ASSUME NEW p \in Nat, pos <= p, p <= End, \A q \in pos..(p - 1) : At(q) \notin others
      PROVE  \A q \in pos..(p - 1) : Ch(text, q) \in DigitBytes
  <2>1. ASSUME NEW q \in pos..(p - 1) PROVE Ch(text, q) \in DigitBytes
    <3>1. q \in Nat /\ q < End
      BY <1>5, Offsets
    <3>2. Ch(text, q) \in Byte /\ Ch(text, q) \notin others
      BY <1>5, <3>1, Offsets, AtByte
    <3> QED
      BY <3>2 DEF others
  <2> QED
    BY <2>1
<1>6. CASE mask = {}
  <2> DEFINE p == pos + width
  <2>1. /\ p \in Nat /\ pos <= p /\ p <= End /\ pos' = p /\ Move("digits")
        /\ \A q \in pos..(p - 1) : At(q) \notin others
    BY <1>0, <1>1, <1>4, <1>6, Offsets
  <2> HIDE DEF p
  <2>2. \A q \in pos..(p - 1) : Ch(text, q) \in DigitBytes
    BY <1>5, <2>1
  <2> QED
    BY <1>1, <2>1, <2>2, DigitsMove
<1>7. CASE mask # {}
  <2> DEFINE p == pos + FirstLane(mask)
  <2>1. /\ p \in Nat /\ pos <= p /\ p <= End /\ At(p) \in others /\ pos' = p /\ Move("number")
        /\ \A q \in pos..(p - 1) : At(q) \notin others
    BY <1>0, <1>1, <1>4, <1>7, Offsets
  <2> HIDE DEF p
  <2>2. \A q \in pos..(p - 1) : Ch(text, q) \in DigitBytes
    BY <1>5, <2>1
  <2>3. ~IsDigitAt(text, p)
    BY <2>1 DEF IsDigitAt, At, Ch, others
  <2> QED
    BY <1>1, <2>1, <2>2, <2>3, DigitsMove
<1> QED
  BY <1>6, <1>7

(* The bytes after the last block.                                         *)
LEMMA DigitTailKeeps == IInv /\ DigitTail => IInv'
<1> SUFFICES ASSUME IInv, DigitTail PROVE IInv'
  OBVIOUS
<1>1. /\ pc = "digits" /\ UNCHANGED scan
      /\ \/ IsDigit(pos) /\ pos' = pos + 1 /\ Move("digits")
         \/ ~IsDigit(pos) /\ pos' = pos /\ Move("number")
  BY DEF DigitTail
<1>2. IsDigit(pos) <=> IsDigitAt(text, pos)
  BY DEF IsDigit, IsDigitAt, At, Ch, Digits, DigitBytes, End
<1>3. CASE IsDigit(pos) /\ pos' = pos + 1 /\ Move("digits")
  <2> DEFINE p == pos + 1
  <2>1. p \in Nat /\ pos <= p /\ \A q \in pos..(p - 1) : q = pos
    BY Offsets
  <2>2. p <= End /\ Ch(text, pos) \in DigitBytes
    BY <1>2, <1>3, Offsets DEF IsDigitAt, End
  <2>3. pos' = p
    BY <1>3
  <2> HIDE DEF p
  <2> QED
    BY <1>1, <1>3, <2>1, <2>2, <2>3, DigitsMove
<1>4. CASE ~IsDigit(pos) /\ pos' = pos /\ Move("number")
  <2>1. pos \in Nat /\ pos <= pos /\ pos <= End /\ \A q \in pos..(pos - 1) : FALSE
    BY Offsets
  <2> QED
    BY <1>1, <1>2, <1>4, <2>1, DigitsMove
<1> QED
  BY <1>1, <1>3, <1>4

(* A fraction or an exponent that starts at pos, its digits at p.          *)
LEMMA NumberPartKeeps ==
  ASSUME IInv, pc = "number", NEW part \in {"fraction", "exponent"}, NEW p \in 0..End,
         p > begin, NumberPart(p, part), pos < End, IsNumber(text, begin, pos),
         Ch(text, pos) \in {46, 69, 101}, StartsPart(text, begin, part, p),
         \A to \in (pos + 1)..Len(text) : IsNumber(text, begin, to) => IsDigitAt(text, p)
  PROVE  IInv'
<1>1. /\ begin \in Nat /\ begin < End /\ Ch(text, begin) \in DigitBytes \cup {Minus_} /\ Gap(begin)
      /\ pos \in Nat /\ End = Len(text) /\ Len(text) \in Nat
  BY NumberHere
<1>2. /\ pos' = p /\ stage' = part /\ ptr' = ptr /\ begin' = begin /\ has_escape' = has_escape
      /\ \/ IsDigit(p) /\ Move("digits")
         \/ ~IsDigit(p) /\ Fail("InvalidValue")
  BY DEF NumberPart
<1>3. engine' = engine /\ text' = text /\ tokens' = tokens /\ End' = End
  BY <1>2 DEF Move, Fail, End
<1>4. IsDigit(p) <=> IsDigitAt(text, p)
  BY DEF IsDigit, IsDigitAt, At, Ch, Digits, DigitBytes, End
<1>5. Positioned'
  BY <1>2, <1>3, Offsets DEF Positioned
<1>6. CASE IsDigit(p) /\ Move("digits")
  <2>1. pc' = "digits" /\ "digits" \in Labels
    BY <1>6 DEF Move, Labels
  <2>2. begin' < End' /\ Ch(text', begin') \in DigitBytes \cup {Minus_} /\ Gap(begin)'
    BY <1>1, <1>2, <1>3 DEF Gap, Consumed
  <2>3. InDigits'
    <3>1. p \in begin..p /\ \A q \in p..(p - 1) : FALSE
      BY <1>1
    <3> QED
      BY <1>2, <1>3, <1>4, <1>6, <3>1 DEF InDigits
  <2>4. Scanning'
    BY <2>1, <2>2, <2>3 DEF Scanning, Placed, InString, InNumber
  <2> QED
    BY <1>5, <1>6, <2>1, <2>4, MoveKeeps
<1>7. CASE ~IsDigit(p) /\ Fail("InvalidValue")
  <2>1. ASSUME NEW to \in (begin + 1)..Len(text), IsNumber(text, begin, to)
        PROVE  to < Len(text) /\ Ch(text, to) \in DigitBytes \cup {46, 69, 101}
    <3>1. to \in Nat
      BY <1>1
    <3>2. CASE to < pos
      <4>1. pos <= Len(text)
        BY <1>1
      <4> QED
        BY <1>1, <2>1, <3>1, <3>2, <4>1, NumbersAgree
    <3>3. CASE to = pos
      BY <1>1, <3>3
    <3>4. CASE to > pos
      <4>1. to \in (pos + 1)..Len(text)
        BY <1>1, <3>1, <3>4
      <4> QED
        BY <1>4, <1>7, <2>1, <4>1
    <3> QED
      BY <1>1, <3>1, <3>2, <3>3, <3>4
  <2> QED
    BY <1>1, <1>5, <1>7, <2>1, NumberBreaks DEF Errors
<1> QED
  BY <1>2, <1>6, <1>7

(* What the invariant says where digits have ended.                        *)
LEMMA NumberEnds ==
  ASSUME IInv, pc = "number"
  PROVE  /\ IsNumber(text, begin, pos) /\ begin < pos
         /\ stage # "exponent" <=> IsSignificand(text, begin, pos)
         /\ stage = "integer" <=> IsInteger(text, begin, pos)
         /\ ~IsDigitAt(text, pos)
<1>1. EndsPart(text, begin, stage, pos) /\ ~IsDigitAt(text, pos)
  BY DEF IInv, Scanning, InNumber
<1> QED
  BY <1>1, NumberHere, PartFacts

(* A longer number starts with a fraction or an exponent here.             *)
LEMMA LongerNumber ==
  ASSUME IInv, pc = "number", NEW to \in (pos + 1)..Len(text), IsNumber(text, begin, to)
  PROVE  /\ pos < End
         /\ \/ Ch(text, pos) = 46 /\ stage = "integer" /\ IsDigitAt(text, pos + 1)
            \/ /\ Ch(text, pos) \in {69, 101} /\ stage # "exponent"
               /\ IsDigitAt(text, ExponentDigits(text, pos))
<1>1. begin \in Nat /\ pos \in Nat /\ End = Len(text) /\ Len(text) \in Nat
  BY NumberHere
<1>2. to \in Nat /\ to <= Len(text) /\ pos < to /\ pos < End
  BY <1>1
<1>3. /\ IsNumber(text, begin, pos) /\ ~IsDigitAt(text, pos)
      /\ stage # "exponent" <=> IsSignificand(text, begin, pos)
      /\ stage = "integer" <=> IsInteger(text, begin, pos)
  BY NumberEnds
<1>4. \/ Ch(text, pos) \in DigitBytes
      \/ Ch(text, pos) = 46 /\ IsInteger(text, begin, pos) /\ IsDigitAt(text, pos + 1)
      \/ /\ Ch(text, pos) \in {69, 101} /\ IsSignificand(text, begin, pos)
         /\ IsDigitAt(text, ExponentDigits(text, pos))
  BY <1>1, <1>2, <1>3, NumbersAgree
<1>5. Ch(text, pos) \notin DigitBytes
  BY <1>1, <1>2, <1>3 DEF IsDigitAt
<1> QED
  BY <1>2, <1>3, <1>4, <1>5

(* A dot.                                                                  *)
LEMMA FractionKeeps == IInv /\ Fraction => IInv'
<1> SUFFICES ASSUME IInv, Fraction PROVE IInv'
  OBVIOUS
<1>1. /\ pc = "number" /\ stage = "integer" /\ pos < End /\ Ch(text, pos) = 46
      /\ NumberPart(pos + 1, "fraction")
  BY DEF Fraction, StartsFraction, At, Ch
<1>2. begin \in Nat /\ pos \in Nat /\ End = Len(text) /\ Len(text) \in Nat
  BY <1>1, NumberHere
<1>3. IsNumber(text, begin, pos) /\ begin < pos /\ IsInteger(text, begin, pos)
  BY <1>1, NumberEnds
<1>4. pos + 1 \in 0..End /\ pos + 1 > begin /\ pos \in begin..(pos + 1)
  BY <1>1, <1>2, <1>3
<1>5. StartsPart(text, begin, "fraction", pos + 1)
  BY <1>1, <1>3, <1>4 DEF StartsPart
<1>6. \A to \in (pos + 1)..Len(text) : IsNumber(text, begin, to) => IsDigitAt(text, pos + 1)
  BY <1>1, LongerNumber
<1> QED
  BY <1>1, <1>3, <1>4, <1>5, <1>6, NumberPartKeeps

(* The letter of an exponent.                                              *)
LEMMA ExponentKeeps == IInv /\ Exponent => IInv'
<1> SUFFICES ASSUME IInv, Exponent PROVE IInv'
  OBVIOUS
<1> DEFINE p == ExponentDigits(text, pos)
<1>1. /\ pc = "number" /\ stage # "exponent" /\ pos < End /\ Ch(text, pos) \in {69, 101}
      /\ NumberPart(IF pos + 1 < End /\ At(pos + 1) \in {43, Minus_} THEN pos + 2 ELSE pos + 1, "exponent")
  BY DEF Exponent, StartsExponent, At, Ch
<1>2. begin \in Nat /\ pos \in Nat /\ End = Len(text) /\ Len(text) \in Nat
  BY <1>1, NumberHere
<1>3. IsNumber(text, begin, pos) /\ begin < pos /\ IsSignificand(text, begin, pos)
  BY <1>1, NumberEnds
<1>4. p = IF pos + 1 < End /\ At(pos + 1) \in {43, Minus_} THEN pos + 2 ELSE pos + 1
  BY <1>2 DEF ExponentDigits, At, Ch, Minus_
<1>5. p \in 0..End /\ p > begin /\ pos \in begin..p
  BY <1>1, <1>2, <1>3, <1>4
<1>6. NumberPart(p, "exponent")
  BY <1>1, <1>4
<1>7. StartsPart(text, begin, "exponent", p)
  BY <1>1, <1>3, <1>5 DEF StartsPart
<1>8. \A to \in (pos + 1)..Len(text) : IsNumber(text, begin, to) => IsDigitAt(text, p)
  BY <1>1, LongerNumber
<1> HIDE DEF p
<1> QED
  BY <1>1, <1>3, <1>5, <1>6, <1>7, <1>8, NumberPartKeeps

(* A number that is over.                                                  *)
LEMMA EndNumberKeeps == IInv /\ EndNumber => IInv'
<1> SUFFICES ASSUME IInv, EndNumber PROVE IInv'
  OBVIOUS
<1> DEFINE type == IF stage = "integer" THEN "Integer" ELSE "Double"
           tk == Token(type, begin, pos, FALSE)
<1>1. pc = "number" /\ ~StartsFraction /\ ~StartsExponent /\ Emit(tk, pos) /\ UNCHANGED scan
  BY DEF EndNumber
<1>2. /\ begin \in Nat /\ pos \in Nat /\ pos <= End /\ End = Len(text) /\ Len(text) \in Nat
      /\ Gap(begin)
  BY <1>1, NumberHere
<1>3. /\ IsNumber(text, begin, pos) /\ begin < pos
      /\ stage = "integer" <=> IsInteger(text, begin, pos)
  BY <1>1, NumberEnds
<1>4. type \in {"Integer", "Double"} /\ (type = "Integer" <=> stage = "integer")
  OBVIOUS
<1>5. tk.type = type /\ tk.from = begin /\ tk.to = pos
  BY DEF Token
<1> HIDE DEF type
<1>6. tk \in Tokens /\ tk.to \in tk.from..End
  BY <1>2, <1>3, <1>4 DEF Token, Tokens, TokenTypes
<1> HIDE DEF tk
<1>7. After(tk) = pos /\ First(tk) = begin /\ pos \in 0..End
  BY <1>2, <1>4, <1>5 DEF After, First
<1>8. \A to \in (pos + 1)..End : ~IsNumber(text, begin, to)
  <2>1. ASSUME NEW to \in (pos + 1)..End, IsNumber(text, begin, to) PROVE FALSE
    BY <1>1, <1>2, <2>1, LongerNumber DEF StartsFraction, StartsExponent, At, Ch
  <2> QED
    BY <2>1
<1>9. IsLexeme(tk)
  BY <1>3, <1>4, <1>5, <1>8 DEF IsLexeme
<1>10. Passed(text, engine, Consumed, First(tk))
  BY <1>2, <1>7 DEF Gap
<1> QED
  BY <1>1, <1>6, <1>7, <1>9, <1>10, EmitKeeps

(* A single digit.                                                         *)
LEMMA OneDigit ==
  ASSUME NEW t, NEW p \in Nat, Ch(t, p) \in DigitBytes
  PROVE  AllDigits(t, p, p + 1)
<1>1. p < p + 1 /\ \A q \in p..((p + 1) - 1) : q = p
  OBVIOUS
<1> QED
  BY <1>1 DEF AllDigits, DigitBytes

(* A digit or a minus sign.                                                *)
LEMMA ReadNumericKeeps == IInv /\ ReadNumeric => IInv'
<1> SUFFICES ASSUME IInv, ReadNumeric PROVE IInv'
  OBVIOUS
<1> DEFINE p == Lead(text, pos)
<1>1. /\ pc = "next" /\ pos < End /\ At(pos) \in Digits \cup {Minus_}
      /\ begin' = pos /\ stage' = "integer" /\ ptr' = ptr /\ has_escape' = has_escape
  BY DEF ReadNumeric
<1>2. \/ ~IsDigit(p) /\ pos' = p /\ Fail("InvalidValue")
      \/ /\ IsDigit(p) /\ At(p) = 48 /\ pos' = p + 1
         /\ IF IsDigit(p + 1) THEN Fail("LeadingZero") ELSE Move("number")
      \/ IsDigit(p) /\ At(p) # 48 /\ pos' = p /\ Move("digits")
  <2>1. p = IF At(pos) = Minus_ THEN pos + 1 ELSE pos
    BY DEF Lead, At, Ch, Minus_
  <2> HIDE DEF p
  <2> QED
    BY <2>1 DEF ReadNumeric
<1>3. End = Len(text) /\ Len(text) \in Nat /\ pos \in Nat /\ ProperText
  BY Offsets, Widths
<1>4. p \in {pos, pos + 1} /\ p \in Nat /\ p <= End
  BY <1>1, <1>3 DEF Lead
<1> HIDE DEF p
<1>5. \A q : IsDigit(q) <=> IsDigitAt(text, q)
  BY DEF IsDigit, IsDigitAt, At, Ch, Digits, DigitBytes, End
<1>6. Ch(text, pos) \in DigitBytes \cup {Minus_} /\ Gap(pos)
  BY <1>1 DEF IInv, Scanning, Placed, At, Ch, Digits, DigitBytes
<1>7. /\ engine' = engine /\ text' = text /\ tokens' = tokens /\ End' = End
  BY <1>2 DEF Move, Fail, End
<1>8. ASSUME NEW r \in 0..End, pos' = r PROVE Positioned'
  BY <1>1, <1>3, <1>7, <1>8, Offsets DEF Positioned
<1>9. ASSUME NEW to \in (pos + 1)..Len(text), IsNumber(text, pos, to)
      PROVE  /\ IsDigit(p)
             /\ Ch(text, p) = 48 => to = p + 1 \/ ~IsDigit(p + 1)
  <2>1. to \in Nat /\ to <= Len(text)
    BY <1>3
  <2>2. PICK f \in pos..to : IsSignificand(text, pos, f) /\ (to = f \/ IsExponent(text, f, to))
    BY <1>3, <1>9, <2>1, NumberParts
  <2>3. PICK i \in pos..f : IsInteger(text, pos, i) /\ (f = i \/ IsFraction(text, i, f))
    BY <2>2 DEF IsSignificand
  <2>4. i \in Nat /\ f \in Nat /\ i <= f /\ f <= to
    BY <1>3, <2>1
  <2>5. Ch(text, p) \in DigitBytes /\ p < i
    BY <1>3, <2>3, <2>4, IntegerAfter DEF p
  <2>6. IsDigit(p)
    BY <1>4, <1>5, <2>1, <2>4, <2>5 DEF IsDigitAt
  <2>7. ASSUME Ch(text, p) = 48, IsDigit(p + 1) PROVE to = p + 1
    <3>1. i = p + 1
      BY <1>3, <2>3, <2>4, <2>7, IntegerDigits DEF p
    <3>2. Ch(text, i) \in DigitBytes
      BY <1>5, <2>7, <3>1 DEF IsDigitAt
    <3>3. f = i
      BY <2>3, <3>2 DEF IsFraction, DigitBytes
    <3>4. to = f
      BY <2>2, <3>2, <3>3 DEF IsExponent, DigitBytes
    <3> QED
      BY <3>1, <3>3, <3>4
  <2> QED
    BY <2>6, <2>7
<1>10. CASE ~IsDigit(p) /\ pos' = p /\ Fail("InvalidValue")
  <2>1. Positioned'
    BY <1>4, <1>8, <1>10, <1>3
  <2> QED
    BY <1>1, <1>3, <1>6, <1>9, <1>10, <2>1, NumberBreaks DEF Errors
<1>11. ASSUME IsDigit(p)
       PROVE  p < End /\ p + 1 \in Nat /\ p + 1 <= Len(text) /\ p + 1 \in 0..End /\ p \in 0..End
  BY <1>3, <1>4, <1>5, <1>11 DEF IsDigitAt
<1>12. CASE IsDigit(p) /\ At(p) = 48 /\ pos' = p + 1 /\ IsDigit(p + 1) /\ Fail("LeadingZero")
  <2>1. ASSUME NEW to \in (pos + 1)..Len(text), IsNumber(text, pos, to)
        PROVE  to < Len(text) /\ Ch(text, to) \in DigitBytes \cup {46, 69, 101}
    <3>1. to = p + 1
      BY <1>9, <1>12, <2>1 DEF At, Ch
    <3> QED
      BY <1>5, <1>12, <3>1 DEF IsDigitAt
  <2>2. Positioned'
    BY <1>8, <1>11, <1>12
  <2> QED
    BY <1>1, <1>3, <1>6, <1>12, <2>1, <2>2, NumberBreaks DEF Errors
<1>13. begin' < End' /\ Ch(text', begin') \in DigitBytes \cup {Minus_} /\ Gap(begin)'
  BY <1>1, <1>6, <1>7 DEF Gap, Consumed
<1>14. CASE IsDigit(p) /\ At(p) = 48 /\ pos' = p + 1 /\ ~IsDigit(p + 1) /\ Move("number")
  <2>1. pc' = "number" /\ "number" \in Labels
    BY <1>14 DEF Move, Labels
  <2>2. AllDigits(text, p, p + 1)
    <3>1. Ch(text, p) \in DigitBytes
      BY <1>5, <1>14 DEF IsDigitAt
    <3> QED
      BY <1>4, <3>1, OneDigit
  <2>3. IsInteger(text, pos, p + 1)
    BY <1>3, <1>11, <1>14, <2>2, IntegerDigits DEF p
  <2>4. InNumber'
    BY <1>1, <1>5, <1>7, <1>14, <2>3 DEF InNumber, EndsPart
  <2>5. Positioned'
    BY <1>8, <1>11, <1>14
  <2>6. Scanning'
    BY <1>13, <2>1, <2>4 DEF Scanning, Placed, InString, InDigits
  <2> QED
    BY <1>1, <1>14, <2>1, <2>5, <2>6, MoveKeeps
<1>15. CASE IsDigit(p) /\ At(p) # 48 /\ pos' = p /\ Move("digits")
  <2>1. pc' = "digits" /\ "digits" \in Labels
    BY <1>15 DEF Move, Labels
  <2>2. StartsPart(text, pos, "integer", p)
    BY <1>15 DEF StartsPart, At, Ch, p
  <2>3. p \in pos..p /\ \A q \in p..(p - 1) : FALSE
    BY <1>3, <1>4
  <2>4. InDigits'
    BY <1>1, <1>5, <1>7, <1>15, <2>2, <2>3 DEF InDigits
  <2>5. Positioned'
    BY <1>8, <1>11, <1>15
  <2>6. Scanning'
    BY <1>13, <2>1, <2>4 DEF Scanning, Placed, InString, InNumber
  <2> QED
    BY <1>1, <1>15, <2>1, <2>5, <2>6, MoveKeeps
<1> QED
  BY <1>2, <1>10, <1>12, <1>14, <1>15

-----------------------------------------------------------------------------
(* The theorems.                                                           *)

(* No step disturbs the invariant.                                         *)
LEMMA NextKeeps == IInv /\ [Next]_vars => IInv'
<1> SUFFICES ASSUME IInv, [Next]_vars PROVE IInv'
  OBVIOUS
<1>1. CASE NextToken
  BY <1>1, EndOfFileKeeps, ReadPunctuationKeeps, SkipWhitespaceKeeps, ReadStringKeeps,
     RejectByteKeeps, ReadAlphabetKeeps, ReadNumericKeeps DEF NextToken
<1>2. CASE Scan
  BY <1>2, SwarSpaceBlockKeeps, Avx2SpaceBlockKeeps, SpaceTailKeeps, SwarStringBlockKeeps,
     Avx2StringBlockKeeps, StringTailKeeps, DigitBlockKeeps, DigitTailKeeps, FractionKeeps,
     ExponentKeeps, EndNumberKeeps DEF Scan
<1>3. CASE UNCHANGED vars
  <2>1. /\ engine' = engine /\ text' = text /\ pos' = pos /\ ptr' = ptr /\ begin' = begin
        /\ has_escape' = has_escape /\ stage' = stage /\ tokens' = tokens /\ status' = status
        /\ pc' = pc
    BY <1>3 DEF vars
  <2>2. TypeOK'
    BY <2>1 DEF IInv, TypeOK, End
  <2>3. Scanning'
    BY <2>1 DEF IInv, Scanning, Placed, InString, InDigits, InNumber, Gap, Consumed, End
  <2>4. TokensAreLexemes'
    BY <2>1 DEF IInv, TokensAreLexemes, IsLexeme, At, End
  <2>5. NothingSkipped'
    BY <2>1 DEF IInv, NothingSkipped, Skippable, Blank, At, Consumed, End
  <2>6. RejectsNoLexeme'
    BY <2>1 DEF IInv, RejectsNoLexeme, Blank, At, Consumed, End
  <2> QED
    BY <2>1, <2>2, <2>3, <2>4, <2>5, <2>6 DEF IInv
<1> QED
  BY <1>1, <1>2, <1>3 DEF Next, Done

(* The inductive invariant holds in every behaviour.                       *)
LEMMA Invariance == Spec => []IInv
BY InitHolds, NextKeeps, PTL DEF Spec

(* Offsets stay inside the text, the scan pointer of read_string at most   *)
(* one past its end, for every text, engine and block width.               *)
THEOREM OffsetsSafe == Spec => []TypeOK
<1>1. IInv => TypeOK
  BY DEF IInv
<1> QED
  BY <1>1, Invariance, PTL

(* Every token either engine returns is what the byte-wise definition      *)
(* makes of its span: strings end at their first unescaped quote with      *)
(* has_escape_ true to them, numbers are the longest that start there.     *)
THEOREM LexemesTrue == Spec => []TokensAreLexemes
<1>1. IInv => TokensAreLexemes
  BY DEF IInv
<1> QED
  BY <1>1, Invariance, PTL

(* Nothing but whitespace is passed over between tokens, the SWAR engine's *)
(* bytes below the space included.                                         *)
THEOREM OnlySpaceSkipped == Spec => []NothingSkipped
<1>1. IInv => NothingSkipped
  BY DEF IInv
<1> QED
  BY <1>1, Invariance, PTL

(* The lexer reports an error only where no token starts.                  *)
THEOREM ErrorsJustified == Spec => []RejectsNoLexeme
<1>1. IInv => RejectsNoLexeme
  BY DEF IInv
<1> QED
  BY <1>1, Invariance, PTL
=============================================================================

-------------------------- MODULE StringCodecProofs ---------------------------
(***************************************************************************)
(* Theorems about StringCodec, for every body the lexer may deliver, both  *)
(* engines and blocks of any width.                                        *)
(***************************************************************************)
EXTENDS StringCodec, SwarLanesProofs, SequenceTheorems

-----------------------------------------------------------------------------
(* Texts and their parts.                                                  *)

(* Appending bytes to bytes.                                               *)
LEMMA Joined ==
  ASSUME NEW s, NEW t, Block(s), Block(t)
  PROVE  Block(s \o t) /\ Len(s \o t) = Len(s) + Len(t)
BY DEF Block

(* A part of a text.                                                       *)
LEMMA Cut ==
  ASSUME NEW s, Block(s), NEW m \in Nat, NEW n \in Nat, m <= n, n <= Len(s)
  PROVE  Block(SubSeq(s, m + 1, n)) /\ Len(SubSeq(s, m + 1, n)) = n - m
<1>1. m + 1 \in 1..(Len(s) + 1) /\ n \in m..Len(s)
  BY DEF Block
<1> QED BY <1>1 DEF Block

(* The empty text.                                                         *)
LEMMA Empty == Block(<<>>) /\ Len(<<>>) = 0
BY DEF Block

(* What memcpy loads from inside the text.                                 *)
LEMMA Loaded ==
  ASSUME NEW s, Block(s), NEW at \in Nat, NEW width \in Nat, at + width <= Len(s)
  PROVE  Block(Load(s, at, width)) /\ Len(Load(s, at, width)) = width
<1>1. at + width \in Nat /\ at <= at + width /\ (at + width) - at = width
  OBVIOUS
<1>2. /\ Block(SubSeq(s, at + 1, at + width))
      /\ Len(SubSeq(s, at + 1, at + width)) = (at + width) - at
  BY <1>1, Cut
<1> QED BY <1>1, <1>2 DEF Load

(* The lowest flag is a lane of the block.                                 *)
LEMMA FirstLaneWithin ==
  ASSUME NEW block, Block(block), NEW mask \in SUBSET Lanes(block), mask # {}
  PROVE  FirstLane(mask) \in Nat /\ FirstLane(mask) < Len(block)
<1>1. PICK i \in mask : FirstLane(mask) = i - 1
  BY LowestLane
<1>2. i \in 1..Len(block) /\ Len(block) \in Nat
  BY DEF Lanes, Block
<1> QED BY <1>1, <1>2

(* Past its end a string is followed by its closing quote.                 *)
LEMMA AtByte ==
  ASSUME Block(src), NEW p \in Nat
  PROVE  At(p) \in Byte /\ (p >= End => At(p) = Quote)
<1>1. End \in Nat
  BY DEF Block, End
<1>2. CASE p < End
  <2>1. p + 1 \in 1..Len(src)
    BY <1>1, <1>2 DEF End
  <2>2. src[p + 1] \in Byte
    BY <2>1, ElementOf DEF Block
  <2>3. At(p) = src[p + 1]
    BY <1>2 DEF At
  <2>4. ~(p >= End)
    BY <1>1, <1>2
  <2> QED BY <2>2, <2>3, <2>4
<1>3. CASE ~(p < End)
  <2>1. Quote \in Byte
    BY DEF Quote, Byte
  <2> QED BY <1>3, <2>1 DEF At
<1> QED BY <1>1, <1>2, <1>3

-----------------------------------------------------------------------------
(* Decoding and encoding one character.                                    *)

(* The hex table yields a digit or 255.                                    *)
LEMMA HexDigitRange ==
  ASSUME NEW b \in Byte
  PROVE  HexDigit(b) \in 0..255
BY DEF HexDigit, Byte

(* Four digits make a natural number.                                      *)
LEMMA FourDigits ==
  ASSUME NEW a \in Nat, NEW b \in Nat, NEW c \in Nat, NEW e \in Nat
  PROVE  a * 4096 + b * 256 + c * 16 + e \in Nat
OBVIOUS

(* The test that rejects a byte which is no digit.                         *)
LEMMA NoDigit ==
  ASSUME NEW n \in 0..255
  PROVE  n \in Nat /\ (~(n > 15) => n # 255)
OBVIOUS

(* DecodeUnicodeHex near the end of the text yields no code point.         *)
LEMMA UnicodeRange ==
  ASSUME Block(src), NEW p \in Nat
  PROVE  /\ DecodeUnicodeHex(p) \in Nat
         /\ p + 3 >= End => DecodeUnicodeHex(p) = TooLarge
<1> DEFINE d == [i \in 0..3 |-> HexDigit(At(p + i))]
<1>1. ASSUME NEW i \in 0..3 PROVE d[i] \in 0..255
  <2>1. p + i \in Nat
    OBVIOUS
  <2> QED BY <2>1, AtByte, HexDigitRange
<1>2. p + 3 >= End => d[3] = 255
  <2>1. p + 3 >= End => At(p + 3) = Quote
    BY AtByte
  <2>2. HexDigit(Quote) = 255
    BY DEF HexDigit, Quote
  <2> QED BY <2>1, <2>2
<1>3. DecodeUnicodeHex(p) = IF \E i \in 0..3 : d[i] > 15 THEN TooLarge
                            ELSE d[0] * 4096 + d[1] * 256 + d[2] * 16 + d[3]
  BY DEF DecodeUnicodeHex
<1> HIDE DEF d
<1>4. CASE \E i \in 0..3 : d[i] > 15
  <2>1. DecodeUnicodeHex(p) = TooLarge
    BY <1>3, <1>4
  <2>2. TooLarge \in Nat
    BY DEF TooLarge
  <2> QED BY <2>1, <2>2
<1>5. CASE ~\E i \in 0..3 : d[i] > 15
  <2>1. \A i \in 0..3 : d[i] \in Nat /\ d[i] # 255
    BY <1>1, <1>5, NoDigit
  <2>2. d[0] \in Nat /\ d[1] \in Nat /\ d[2] \in Nat /\ d[3] \in Nat /\ d[3] # 255
    BY <2>1
  <2>3. d[0] * 4096 + d[1] * 256 + d[2] * 16 + d[3] \in Nat
    BY <2>2, FourDigits
  <2>4. DecodeUnicodeHex(p) \in Nat
    BY <1>3, <1>5, <2>3
  <2>5. ~(p + 3 >= End)
    BY <1>2, <2>2
  <2> QED BY <2>4, <2>5
<1> QED BY <1>4, <1>5

(* encodeUtf8 writes one to four bytes.                                    *)
LEMMA Utf8Short ==
  ASSUME NEW cp \in Nat
  PROVE  Block(Utf8(cp)) /\ Len(Utf8(cp)) \in 1..4
<1>1. CASE cp <= 127
  <2>1. Utf8(cp) = <<cp>> /\ cp \in Byte
    BY <1>1 DEF Utf8, Byte
  <2> QED BY <2>1 DEF Block
<1>2. CASE ~(cp <= 127) /\ cp <= 2047
  <2> DEFINE a == 192 + ((cp \div 64) % 32)
             b == 128 + (cp % 64)
  <2>1. Utf8(cp) = <<a, b>>
    BY <1>2 DEF Utf8
  <2>2. a \in Byte /\ b \in Byte
    BY DEF Byte
  <2> HIDE DEF a, b
  <2> QED BY <2>1, <2>2 DEF Block
<1>3. CASE ~(cp <= 127) /\ ~(cp <= 2047) /\ cp <= 65535
  <2> DEFINE a == 224 + ((cp \div 4096) % 16)
             b == 128 + ((cp \div 64) % 64)
             c == 128 + (cp % 64)
  <2>1. Utf8(cp) = <<a, b, c>>
    BY <1>3 DEF Utf8
  <2>2. a \in Byte /\ b \in Byte /\ c \in Byte
    BY DEF Byte
  <2> HIDE DEF a, b, c
  <2> QED BY <2>1, <2>2 DEF Block
<1>4. CASE ~(cp <= 127) /\ ~(cp <= 2047) /\ ~(cp <= 65535)
  <2> DEFINE a == 240 + ((cp \div 262144) % 8)
             b == 128 + ((cp \div 4096) % 64)
             c == 128 + ((cp \div 64) % 64)
             d == 128 + (cp % 64)
  <2>1. Utf8(cp) = <<a, b, c, d>>
    BY <1>4 DEF Utf8
  <2>2. a \in Byte /\ b \in Byte /\ c \in Byte /\ d \in Byte
    BY DEF Byte
  <2> HIDE DEF a, b, c, d
  <2> QED BY <2>1, <2>2 DEF Block
<1> QED BY <1>1, <1>2, <1>3, <1>4

(* A surrogate pair makes a code point.                                    *)
LEMMA PairValue ==
  ASSUME NEW cp \in High, NEW cp2 \in Low
  PROVE  65536 + (cp - 55296) * 1024 + (cp2 - 56320) \in Nat
<1>1. cp - 55296 \in Nat
  BY SMT DEF High
<1>2. cp2 - 56320 \in Nat
  BY SMT DEF Low
<1> DEFINE m == cp - 55296
           n == cp2 - 56320
<1>3. m \in Nat /\ n \in Nat
  BY <1>1, <1>2
<1> HIDE DEF m, n
<1>4. 65536 + m * 1024 + n \in Nat
  BY <1>3
<1> QED BY <1>4 DEF m, n

(* A failed second half is no low surrogate.                               *)
LEMMA TooLargeIsNoLow == TooLarge \notin Low
BY SMT DEF TooLarge, Low

(* A simple escape stands for one byte.                                    *)
LEMMA SimpleByte ==
  ASSUME NEW b \in DOMAIN Simple
  PROVE  Block(<<Simple[b]>>) /\ Len(<<Simple[b]>>) = 1
<1>1. Simple[b] \in Byte
  BY DEF Simple, Byte
<1> QED BY <1>1 DEF Block

(* What serializeString writes for a byte are bytes.                       *)
LEMMA EscapeBytes ==
  ASSUME NEW b \in Byte
  PROVE  Block(EscapeOf(b))
<1>1. Backslash \in Byte /\ Quote \in Byte /\ 117 \in Byte /\ 48 \in Byte
  BY DEF Backslash, Quote, Byte
<1>2. CASE b \in {Quote, Backslash}
  <2>1. b \notin {8, 9, 10, 12, 13}
    BY <1>2 DEF Quote, Backslash
  <2>2. EscapeOf(b) = <<Backslash, b>>
    BY <1>2, <2>1 DEF EscapeOf
  <2> QED BY <1>1, <2>2 DEF Block
<1>3. CASE b \notin {Quote, Backslash} /\ b \in {8, 9, 10, 12, 13}
  <2>1. \E e \in DOMAIN Simple : Simple[e] = b
    <3>1. /\ {34, 92, 47, 98, 102, 110, 114, 116} = DOMAIN Simple
          /\ Simple[98] = 8 /\ Simple[102] = 12 /\ Simple[110] = 10
          /\ Simple[114] = 13 /\ Simple[116] = 9
      BY DEF Simple
    <3> QED BY <1>3, <3>1
  <2>2. ShortFor(b) \in DOMAIN Simple
    BY <2>1 DEF ShortFor
  <2>3. ShortFor(b) \in Byte
    BY <2>2 DEF Simple, Byte
  <2>4. EscapeOf(b) = <<Backslash, ShortFor(b)>>
    BY <1>3 DEF EscapeOf
  <2> QED BY <1>1, <2>3, <2>4 DEF Block
<1>4. CASE b \notin {Quote, Backslash} /\ b \notin {8, 9, 10, 12, 13}
  <2> DEFINE x == HexByte(b \div 16)
             y == HexByte(b % 16)
  <2>1. EscapeOf(b) = <<Backslash, 117, 48, 48, x, y>>
    BY <1>4 DEF EscapeOf
  <2>2. x \in Byte /\ y \in Byte
    BY DEF HexByte, Byte
  <2> HIDE DEF x, y
  <2> QED BY <1>1, <2>1, <2>2 DEF Block
<1> QED BY <1>2, <1>3, <1>4

-----------------------------------------------------------------------------
(* The inductive invariant.  InBounds is not inductive: that a write keeps *)
(* to the buffer needs to know that a character or an escape about to be   *)
(* handled lies before the end.                                            *)

Room == /\ Decoding => Len(out) <= ptr
        /\ seen <= IF Decoding \/ End = 0 THEN End ELSE End - 1

Waiting == /\ pc = "character" => Decoding /\ ptr < End
           /\ pc = "escape" => Escaping /\ ptr < End

Typed ==
  /\ engine \in Engines
  /\ round \in {"decode", "escape", "read back"}
  /\ status \in {"None", "InvalidValue"}
  /\ pc \in {"scan", "character", "escape", "done"}
  /\ Block(src) /\ Block(stored) /\ Block(out)
  /\ ptr \in Nat /\ ptr <= End
  /\ start \in Nat /\ start <= ptr
  /\ seen \in Nat

IInv == Typed /\ Room /\ Waiting

(* Lengths are natural numbers.                                            *)
LEMMA Lengths ==
  ASSUME NEW s, Block(s)
  PROVE  Len(s) \in Nat
BY DEF Block

(* Block widths are at least one.                                          *)
LEMMA Widths ==
  ASSUME IInv
  PROVE  /\ Width \in Nat /\ Width >= 1
         /\ BlockSize["Swar"] \in Nat /\ BlockSize["Swar"] >= 1
         /\ End \in Nat
<1>1. engine \in {"Swar", "Avx2"}
  BY EnginesAssumption DEF IInv, Typed
<1>2. End \in Nat
  BY Lengths DEF IInv, Typed, End
<1> QED BY <1>1, <1>2, EnginesAssumption DEF Width

(* Before the first step.                                                  *)
LEMMA InitHolds == Init => IInv
<1> SUFFICES ASSUME Init PROVE IInv
  OBVIOUS
<1>1. Block(src)
  BY SourcesAssumption DEF Init, Body, Block
<1>2. End \in Nat
  BY <1>1, Lengths DEF End
<1> HIDE DEF End
<1> QED BY <1>1, <1>2, Empty DEF Init, IInv, Typed, Room, Waiting, Decoding, Escaping

(* A shorter write fits as well.                                           *)
LEMMA Within ==
  ASSUME NEW a \in Nat, NEW b \in Nat, NEW c \in Nat, NEW n \in Nat, a <= b, b + c <= n
  PROVE  a + c <= n /\ a <= n
OBVIOUS

(* A character fits where its longest form does.                           *)
LEMMA WithinFour ==
  ASSUME NEW a \in Nat, NEW n \in Nat, NEW k \in 1..4, a + 4 <= n
  PROVE  a + k <= n
OBVIOUS

(* A pass that writes and moves on.                                        *)
LEMMA WriteKeeps ==
  ASSUME IInv, Decoding, Same,
         NEW bytes, Block(bytes), out' = out \o bytes,
         NEW next \in Nat, ptr' = next, next <= End, ptr + Len(bytes) <= next,
         NEW p \in Nat, p <= End, Read(p),
         pc' = "scan" \/ (pc' = "character" /\ next < End),
         UNCHANGED status
  PROVE  IInv'
<1>1. End' = End /\ Decoding' = Decoding /\ End \in Nat
  BY Widths DEF Same, End, Decoding
<1>2. Block(out') /\ Len(out') = Len(out) + Len(bytes) /\ Len(out) \in Nat
        /\ Len(bytes) \in Nat
  BY Joined, Lengths DEF IInv, Typed
<1>3. Block(src') /\ Block(stored')
  BY DEF Same, IInv, Typed
<1>4. /\ engine' \in Engines /\ round' \in {"decode", "escape", "read back"}
      /\ status' \in {"None", "InvalidValue"}
  BY DEF Same, IInv, Typed
<1>5. ptr' \in Nat /\ ptr' <= End' /\ start' \in Nat /\ start' <= ptr'
  <2>1. start \in Nat /\ ptr \in Nat /\ start <= ptr /\ start' = start
    BY DEF Same, IInv, Typed
  <2>2. start <= next
    BY <1>2, <2>1, Within
  <2> QED BY <1>1, <2>1, <2>2
<1>6. seen' \in Nat /\ seen' <= End'
  BY <1>1 DEF Read, IInv, Typed, Room
<1>7. Len(out') <= ptr'
  <2>1. ptr \in Nat /\ Len(out) <= ptr
    BY DEF IInv, Typed, Room
  <2>2. Len(out) + Len(bytes) <= next
    BY <1>2, <2>1, Within
  <2> QED BY <1>2, <2>2
<1>8. pc' \in {"scan", "character"} /\ (pc' = "character" => ptr' < End')
  BY <1>1
<1>9. Typed'
  BY <1>2, <1>3, <1>4, <1>5, <1>6, <1>8 DEF Typed
<1>10. Room' /\ Waiting'
  BY <1>1, <1>6, <1>7, <1>8 DEF Room, Waiting
<1> QED BY <1>9, <1>10 DEF IInv

(* A pass that gives up.                                                   *)
LEMMA FailKeeps ==
  ASSUME IInv, Decoding, Same, Fail, NEW p \in Nat, p <= End, Read(p)
  PROVE  IInv'
<1>1. End' = End /\ Decoding' = Decoding /\ End \in Nat
  BY Widths DEF Same, End, Decoding
<1>2. Typed' /\ Room' /\ Waiting'
  BY <1>1 DEF IInv, Typed, Room, Waiting, Same, Read, Fail
<1> QED BY <1>2 DEF IInv

(* The serializer looks at its string without writing.                     *)
LEMMA EscapingKeeps ==
  ASSUME Typed, Escaping, Same, UNCHANGED <<out, status>>, End \in Nat,
         ptr' \in Nat, ptr <= ptr', ptr' <= End,
         pc' \in {"scan", "escape"}, pc' = "escape" => ptr' < End,
         seen' \in Nat, seen' <= End - 1
  PROVE  IInv'
<1>1. End' = End /\ Escaping' /\ ~Decoding'
  BY DEF Same, End, Decoding, Escaping
<1>2. Block(src') /\ Block(stored') /\ Block(out')
  BY DEF Same, Typed
<1>3. /\ engine' \in Engines /\ round' \in {"decode", "escape", "read back"}
      /\ status' \in {"None", "InvalidValue"}
      /\ pc' \in {"scan", "character", "escape", "done"}
  BY DEF Same, Typed
<1>4. start' \in Nat /\ start' <= ptr' /\ ptr' <= End'
  <2>1. start \in Nat /\ ptr \in Nat /\ start <= ptr /\ start' = start
    BY DEF Same, Typed
  <2>2. start <= ptr'
    BY <2>1
  <2> QED BY <1>1, <2>1, <2>2
<1>5. Typed'
  BY <1>2, <1>3, <1>4 DEF Typed
<1>6. Room' /\ Waiting'
  BY <1>1 DEF Room, Waiting
<1> QED BY <1>5, <1>6 DEF IInv

(* A block of the decoder, whichever engine loads it.                      *)
LEMMA CopyBlockKeeps ==
  ASSUME IInv, Decoding, HasBlock(Width),
         NEW mask \in SUBSET Lanes(Load(src, ptr, Width)), CopyBlock(mask)
  PROVE  IInv'
<1> DEFINE chunk == Load(src, ptr, Width)
           p == ptr + Width - 1
<1>1. /\ Width \in Nat /\ Width >= 1 /\ End \in Nat
      /\ ptr \in Nat /\ ptr <= End /\ Block(src) /\ ptr + Width <= End
  BY Widths DEF IInv, Typed, HasBlock
<1>2. Block(chunk) /\ Len(chunk) = Width
  BY <1>1, Loaded DEF End
<1>3. p \in Nat /\ p <= End
  BY <1>1
<1>4. Read(p) /\ Same
  BY DEF CopyBlock
<1>5. CASE mask = {}
  <2>1. out' = out \o chunk /\ ptr' = ptr + Width /\ pc' = "scan" /\ UNCHANGED status
    BY <1>5 DEF CopyBlock, Write
  <2>2. ptr + Width \in Nat /\ ptr + Len(chunk) <= ptr + Width
    BY <1>1, <1>2
  <2> HIDE DEF chunk, p
  <2> QED BY <1>1, <1>2, <1>3, <1>4, <2>1, <2>2, WriteKeeps
<1>6. CASE mask # {}
  <2> DEFINE n == FirstLane(mask)
             some == Load(src, ptr, n)
  <2>1. n \in Nat /\ n < Width
    BY <1>2, <1>6, FirstLaneWithin
  <2>2. ptr + n \in Nat /\ ptr + n < End
    BY <1>1, <2>1
  <2>3. Block(some) /\ Len(some) = n
    BY <1>1, <2>1, <2>2, Loaded DEF End
  <2>4. /\ out' = out \o some /\ ptr' = ptr + n /\ pc' = "character"
        /\ UNCHANGED status
    BY <1>6 DEF CopyBlock
  <2>5. ptr + n <= End /\ ptr + Len(some) <= ptr + n
    BY <1>1, <2>1, <2>2, <2>3
  <2> HIDE DEF n, some, p
  <2> QED BY <1>3, <1>4, <2>2, <2>3, <2>4, <2>5, WriteKeeps
<1> QED BY <1>5, <1>6

(* The byte loop stands on a byte of the text.                             *)
LEMMA CharacterBeforeEnd ==
  ASSUME IInv, AtCharacter
  PROVE  Decoding /\ Block(src) /\ ptr \in Nat /\ ptr < End /\ End \in Nat
BY Widths DEF IInv, Typed, Waiting, AtCharacter

(* One byte of the decoder's tail.                                         *)
LEMMA CopyByteKeeps == IInv /\ CopyByte => IInv'
<1> SUFFICES ASSUME IInv, CopyByte PROVE IInv'
  OBVIOUS
<1>1. Decoding /\ Block(src) /\ ptr \in Nat /\ ptr < End /\ End \in Nat
  BY CharacterBeforeEnd DEF CopyByte
<1>2. At(ptr) \in Byte
  BY <1>1, AtByte
<1> DEFINE bytes == <<At(ptr)>>
<1>3. Block(bytes) /\ Len(bytes) = 1
  BY <1>2 DEF Block
<1>4. /\ out' = out \o bytes /\ ptr' = ptr + 1 /\ pc' = "scan" /\ UNCHANGED status
      /\ Read(ptr) /\ Same
  BY DEF CopyByte, Write
<1>5. ptr + 1 \in Nat /\ ptr + 1 <= End /\ ptr + Len(bytes) <= ptr + 1 /\ ptr <= End
  BY <1>1, <1>3
<1> HIDE DEF bytes
<1> QED BY <1>1, <1>3, <1>4, <1>5, WriteKeeps

(* The case 'u': a first half of a pair is looked up to one byte too far,  *)
(* where the second half then lacks a digit, and the pass gives up.        *)
LEMMA WriteUnicodeKeeps ==
  ASSUME IInv, Decoding, Same, ptr + 1 < End, WriteUnicode(ptr + 1)
  PROVE  IInv'
<1> DEFINE p   == ptr + 1
           q   == p + 4
           cp  == DecodeUnicodeHex(p + 1)
           cp2 == DecodeUnicodeHex(q + 3)
<1>1. ptr \in Nat /\ End \in Nat /\ p \in Nat /\ p < End /\ p = ptr + 1 /\ Block(src)
  <2>1. End \in Nat
    BY Widths
  <2>2. ptr \in Nat /\ Block(src)
    BY DEF IInv, Typed
  <2> QED BY <2>1, <2>2
<1>2. q \in Nat /\ q = p + 4 /\ p + 1 \in Nat /\ q + 3 \in Nat
  BY <1>1
<1>3. cp \in Nat /\ cp2 \in Nat
  BY <1>1, <1>2, UnicodeRange
<1>4. q + 6 >= End => cp2 = TooLarge
  <2>1. (q + 3) + 3 >= End => cp2 = TooLarge
    BY <1>1, <1>2, UnicodeRange
  <2> QED BY <1>1, <1>2, <2>1
<1>5. IF p + 5 > End THEN Fail /\ Read(p)
      ELSE IF cp \notin High
      THEN /\ IF cp < TooLarge THEN Write(Utf8(cp), q + 1) ELSE Fail
           /\ Read(q)
      ELSE IF PairFits(q) /\ At(q + 1) = Backslash /\ At(q + 2) = 117
      THEN /\ IF cp2 \in Low
              THEN Write(Utf8(65536 + (cp - 55296) * 1024 + (cp2 - 56320)), q + 7)
              ELSE Fail
           /\ Read(q + 6)
      ELSE Fail /\ Read(q)
  BY DEF WriteUnicode
<1> HIDE DEF p, q, cp, cp2
<1>6. ASSUME NEW r \in Nat, r <= End, Fail, Read(r)
      PROVE  IInv'
  BY <1>6, FailKeeps
<1>7. ASSUME NEW c \in Nat, NEW next \in Nat, NEW r \in Nat,
             Write(Utf8(c), next), Read(r), next <= End, ptr + 4 <= next, r <= End
      PROVE  IInv'
  <2> DEFINE bytes == Utf8(c)
  <2>1. Block(bytes) /\ Len(bytes) \in 1..4
    BY Utf8Short
  <2>2. /\ out' = out \o bytes /\ ptr' = next /\ pc' = "scan" /\ UNCHANGED status
    BY <1>7 DEF Write
  <2> HIDE DEF bytes
  <2>3. ptr + Len(bytes) <= next
    BY <1>1, <1>7, <2>1, WithinFour
  <2> QED BY <1>7, <2>1, <2>2, <2>3, WriteKeeps
<1>8. CASE p + 5 > End
  BY <1>1, <1>5, <1>6, <1>8
<1>9. CASE ~(p + 5 > End)
  <2>1. q <= End /\ q + 1 \in Nat /\ q + 1 <= End /\ ptr + 4 <= q + 1
    BY <1>1, <1>2, <1>9
  <2>2. CASE cp \notin High
    <3>1. Read(q) /\ (Write(Utf8(cp), q + 1) \/ Fail)
      BY <1>5, <1>9, <2>2
    <3> QED BY <1>2, <1>3, <1>6, <1>7, <2>1, <3>1
  <2>3. CASE cp \in High /\ PairFits(q) /\ At(q + 1) = Backslash /\ At(q + 2) = 117
    <3>1. q + 6 \in Nat /\ q + 6 <= End
      BY <1>2, <2>3 DEF PairFits
    <3>2. CASE cp2 \in Low
      <4> DEFINE c == 65536 + (cp - 55296) * 1024 + (cp2 - 56320)
      <4>1. c \in Nat
        BY <2>3, <3>2, PairValue
      <4>2. Write(Utf8(c), q + 7) /\ Read(q + 6)
        BY <1>5, <1>9, <2>3, <3>2
      <4>3. ~(q + 6 >= End)
        BY <1>4, <3>2, TooLargeIsNoLow
      <4>4. q + 7 \in Nat /\ q + 7 <= End /\ ptr + 4 <= q + 7
        BY <1>1, <1>2, <4>3
      <4> HIDE DEF c
      <4> QED BY <1>7, <3>1, <4>1, <4>2, <4>4
    <3>3. CASE cp2 \notin Low
      <4>1. Fail /\ Read(q + 6)
        BY <1>5, <1>9, <2>3, <3>3
      <4> QED BY <1>6, <3>1, <4>1
    <3> QED BY <3>2, <3>3
  <2>4. CASE cp \in High /\ ~(PairFits(q) /\ At(q + 1) = Backslash /\ At(q + 2) = 117)
    <3>1. Fail /\ Read(q)
      BY <1>5, <1>9, <2>4
    <3> QED BY <1>2, <1>6, <2>1, <3>1
  <2> QED BY <2>2, <2>3, <2>4
<1> QED BY <1>8, <1>9

(* One escape of the decoder.                                              *)
LEMMA DecodeEscapeKeeps == IInv /\ DecodeEscape => IInv'
<1> SUFFICES ASSUME IInv, DecodeEscape PROVE IInv'
  OBVIOUS
<1> DEFINE p == ptr + 1
<1>1. Decoding /\ Block(src) /\ ptr \in Nat /\ ptr < End /\ End \in Nat
  BY CharacterBeforeEnd DEF DecodeEscape
<1>2. Same
  BY DEF DecodeEscape
<1>3. CASE p < End /\ At(p) \in DOMAIN Simple /\ Write(<<Simple[At(p)]>>, p + 1) /\ Read(p)
  <2> DEFINE bytes == <<Simple[At(p)]>>
  <2>1. Block(bytes) /\ Len(bytes) = 1
    BY <1>3, SimpleByte
  <2>2. out' = out \o bytes /\ ptr' = p + 1 /\ pc' = "scan" /\ UNCHANGED status
    BY <1>3 DEF Write
  <2>3. /\ p \in Nat /\ p <= End /\ p + 1 \in Nat /\ p + 1 <= End
        /\ ptr + Len(bytes) <= p + 1
    BY <1>1, <1>3, <2>1
  <2>4. Read(p)
    BY <1>3
  <2> HIDE DEF bytes, p
  <2> QED BY <1>1, <1>2, <2>1, <2>2, <2>3, <2>4, WriteKeeps
<1>4. CASE p < End /\ WriteUnicode(p)
  BY <1>1, <1>2, <1>4, WriteUnicodeKeeps
<1>5. CASE p < End /\ Fail /\ Read(p)
  <2>1. p \in Nat /\ p <= End /\ Fail /\ Read(p)
    BY <1>1, <1>5
  <2> HIDE DEF p
  <2> QED BY <1>1, <1>2, <2>1, FailKeeps
<1> QED BY <1>3, <1>4, <1>5 DEF DecodeEscape

(* The decoder stops.                                                      *)
LEMMA EndDecodeKeeps == IInv /\ EndDecode => IInv'
<1> SUFFICES ASSUME IInv, EndDecode PROVE IInv'
  OBVIOUS
<1>1. /\ Typed /\ Room /\ Waiting /\ Decoding /\ pc = "scan"
      /\ UNCHANGED <<engine, status>>
  BY DEF IInv, EndDecode
<1>2. End \in Nat
  BY Widths
<1>3. CASE round = "decode"
  <2>1. /\ round' = "escape" /\ pc' = "scan" /\ stored' = out /\ src' = out
        /\ out' = <<>> /\ ptr' = 0 /\ start' = 0 /\ seen' = 0
    BY <1>3 DEF EndDecode
  <2>2. Block(src') /\ Block(stored') /\ Block(out')
    BY <1>1, <2>1, Empty DEF Typed
  <2>3. End' \in Nat
    BY <2>2, Lengths DEF End
  <2>4. /\ engine' \in Engines /\ round' \in {"decode", "escape", "read back"}
        /\ status' \in {"None", "InvalidValue"}
        /\ pc' \in {"scan", "character", "escape", "done"}
    BY <1>1, <2>1 DEF Typed
  <2>5. /\ ptr' \in Nat /\ ptr' <= End' /\ start' \in Nat /\ start' <= ptr'
        /\ seen' \in Nat /\ seen' <= End' /\ (End' # 0 => seen' <= End' - 1)
    <3>1. \A n \in Nat : 0 <= n /\ (n # 0 => 0 <= n - 1)
      OBVIOUS
    <3> QED BY <2>1, <2>3, <3>1
  <2>6. ~Decoding'
    BY <2>1 DEF Decoding
  <2>7. Typed'
    BY <2>2, <2>4, <2>5 DEF Typed
  <2>8. Room' /\ Waiting'
    BY <2>1, <2>5, <2>6 DEF Room, Waiting
  <2> QED BY <2>7, <2>8 DEF IInv
<1>4. CASE round # "decode"
  <2>1. /\ pc' = "done"
        /\ UNCHANGED <<round, stored, src, out, ptr, start, seen>>
    BY <1>4 DEF EndDecode
  <2>2. End' = End /\ Decoding' = Decoding
    BY <2>1 DEF End, Decoding
  <2>3. Typed' /\ Room' /\ Waiting'
    BY <1>1, <1>2, <2>1, <2>2 DEF Typed, Room, Waiting
  <2> QED BY <2>3 DEF IInv
<1> QED BY <1>3, <1>4

-----------------------------------------------------------------------------
(* serializeString and the whole of Next.                                  *)

(* A block of serializeString.                                             *)
LEMMA EscapeBlockKeeps == IInv /\ EscapeBlock => IInv'
<1> SUFFICES ASSUME IInv, EscapeBlock PROVE IInv'
  OBVIOUS
<1> DEFINE w     == BlockSize["Swar"]
           chunk == Load(src, ptr, w)
           mask  == StringMask(chunk)
<1>1. /\ Typed /\ Room /\ Escaping /\ ptr \in Nat /\ Block(src) /\ Same
      /\ UNCHANGED <<out, status>> /\ Read(ptr + w - 1)
  BY DEF IInv, Typed, EscapeBlock
<1>2. w \in Nat /\ w >= 1 /\ End \in Nat /\ ptr + w <= End
  BY Widths DEF EscapeBlock, HasBlock
<1>3. IF mask = {} THEN ptr' = ptr + w /\ pc' = "scan"
                   ELSE ptr' = ptr + FirstLane(mask) /\ pc' = "escape"
  BY DEF EscapeBlock
<1>4. mask # {} => FirstLane(mask) \in Nat /\ FirstLane(mask) < w
  <2>1. Block(chunk) /\ Len(chunk) = w
    BY <1>1, <1>2, Loaded DEF End
  <2>2. mask \in SUBSET Lanes(chunk)
    BY <2>1, MasksWithin
  <2> HIDE DEF chunk, mask
  <2> QED BY <2>1, <2>2, FirstLaneWithin
<1> HIDE DEF w, chunk, mask
<1>5. /\ ptr' \in Nat /\ ptr <= ptr' /\ ptr' <= End
      /\ pc' \in {"scan", "escape"} /\ (pc' = "escape" => ptr' < End)
  BY <1>1, <1>2, <1>3, <1>4
<1>6. seen' \in Nat /\ seen' <= End - 1 /\ End # 0
  <2>1. ptr + w - 1 \in Nat /\ ptr + w - 1 <= End - 1 /\ End # 0
    BY <1>1, <1>2
  <2>2. seen \in Nat /\ seen <= End - 1
    BY <1>1, <2>1 DEF Typed, Room, Decoding, Escaping
  <2> QED BY <1>1, <2>1, <2>2 DEF Read
<1> QED BY <1>1, <1>2, <1>5, <1>6, EscapingKeeps

(* A byte of its tail.                                                     *)
LEMMA EscapeTailKeeps == IInv /\ EscapeTail => IInv'
<1> SUFFICES ASSUME IInv, EscapeTail PROVE IInv'
  OBVIOUS
<1>1. /\ Typed /\ Room /\ Escaping /\ ptr \in Nat /\ Same
      /\ UNCHANGED <<out, status>> /\ Read(ptr) /\ ptr < End
  BY DEF IInv, Typed, EscapeTail
<1>2. End \in Nat
  BY Widths
<1>3. /\ ptr' \in Nat /\ ptr <= ptr' /\ ptr' <= End
      /\ pc' \in {"scan", "escape"} /\ (pc' = "escape" => ptr' < End)
  BY <1>1, <1>2 DEF EscapeTail
<1>4. seen' \in Nat /\ seen' <= End - 1 /\ End # 0
  <2>1. ptr <= End - 1 /\ End # 0
    BY <1>1, <1>2
  <2>2. seen \in Nat /\ seen <= End - 1
    BY <1>1, <2>1 DEF Typed, Room, Decoding, Escaping
  <2> QED BY <1>1, <2>1, <2>2 DEF Read
<1> QED BY <1>1, <1>2, <1>3, <1>4, EscapingKeeps

(* An escape it writes.                                                    *)
LEMMA WriteEscapeKeeps == IInv /\ WriteEscape => IInv'
<1> SUFFICES ASSUME IInv, WriteEscape PROVE IInv'
  OBVIOUS
<1>1. /\ Typed /\ Room /\ Escaping /\ ptr \in Nat /\ Block(src) /\ ptr < End
      /\ start \in Nat /\ start <= ptr /\ Block(out)
      /\ ptr' = ptr + 1 /\ start' = ptr + 1 /\ pc' = "scan"
      /\ UNCHANGED <<engine, round, src, stored, seen, status>>
  BY DEF IInv, Typed, Waiting, WriteEscape
<1>2. End \in Nat
  BY Widths
<1> DEFINE run == Run(start, ptr)
           esc == EscapeOf(At(ptr))
<1>3. Block(run)
  BY <1>1, <1>2, Cut DEF Run, End
<1>4. Block(esc)
  BY <1>1, AtByte, EscapeBytes
<1>5. out' = out \o run \o esc
  BY DEF WriteEscape
<1> HIDE DEF run, esc
<1>6. Block(out')
  BY <1>1, <1>3, <1>4, <1>5, Joined
<1>7. End' = End /\ Decoding' = Decoding /\ ~Decoding
  BY <1>1 DEF End, Decoding, Escaping
<1>8. /\ ptr' \in Nat /\ ptr' <= End' /\ start' \in Nat /\ start' <= ptr'
  BY <1>1, <1>2, <1>7
<1>9. Block(src') /\ Block(stored') /\ seen' \in Nat
  BY <1>1 DEF Typed
<1>10. Typed'
  BY <1>1, <1>6, <1>8, <1>9 DEF Typed
<1>11. Room' /\ Waiting'
  BY <1>1, <1>7 DEF Room, Waiting
<1> QED BY <1>10, <1>11 DEF IInv

(* It stops.                                                               *)
LEMMA EndEscapeKeeps == IInv /\ EndEscape => IInv'
<1> SUFFICES ASSUME IInv, EndEscape PROVE IInv'
  OBVIOUS
<1>1. /\ Typed /\ Block(src) /\ Block(out) /\ start \in Nat /\ start <= ptr
      /\ ptr \in Nat /\ ptr <= End /\ pc = "scan"
      /\ src' = out \o Run(start, ptr) /\ round' = "read back"
      /\ ptr' = 0 /\ start' = 0 /\ seen' = 0 /\ out' = <<>>
      /\ UNCHANGED <<engine, stored, status, pc>>
  BY DEF IInv, Typed, EndEscape
<1> DEFINE run == Run(start, ptr)
<1>2. Block(run)
  BY <1>1, Cut DEF Run, End
<1>3. Block(src')
  <2>1. src' = out \o run
    BY <1>1
  <2> HIDE DEF run
  <2> QED BY <1>1, <1>2, <2>1, Joined
<1>4. End' \in Nat
  BY <1>3, Lengths DEF End
<1>5. Block(out') /\ Block(stored') /\ Len(out') = 0
  BY <1>1, Empty DEF Typed
<1>6. /\ ptr' \in Nat /\ ptr' <= End' /\ start' \in Nat /\ start' <= ptr'
      /\ seen' \in Nat /\ seen' <= End'
  <2>1. ptr' = 0 /\ start' = 0 /\ seen' = 0
    BY <1>1
  <2>2. \A n \in Nat : 0 <= n
    OBVIOUS
  <2> QED BY <1>4, <2>1, <2>2
<1>7. /\ engine' \in Engines /\ round' \in {"decode", "escape", "read back"}
      /\ status' \in {"None", "InvalidValue"}
      /\ pc' \in {"scan", "character", "escape", "done"}
  BY <1>1 DEF Typed
<1>8. Decoding'
  BY <1>1 DEF Decoding
<1>9. Typed'
  BY <1>3, <1>5, <1>6, <1>7 DEF Typed
<1>10. Room' /\ Waiting'
  BY <1>1, <1>5, <1>6, <1>8 DEF Room, Waiting
<1> QED BY <1>9, <1>10 DEF IInv

(* The SWAR engine's blocks.                                               *)
LEMMA SwarCopyBlockKeeps == IInv /\ SwarCopyBlock => IInv'
<1> SUFFICES ASSUME IInv, SwarCopyBlock PROVE IInv'
  OBVIOUS
<1> DEFINE chunk == Load(src, ptr, Width)
           mask  == FindZeroByteMask(Xor(chunk, Backslash))
<1>1. Decoding /\ HasBlock(Width) /\ CopyBlock(mask)
  BY DEF SwarCopyBlock
<1>2. Block(src) /\ ptr \in Nat /\ Width \in Nat /\ ptr + Width <= Len(src)
  BY <1>1, Widths DEF IInv, Typed, HasBlock, End
<1>3. Block(chunk)
  BY <1>2, Loaded
<1>4. mask \in SUBSET Lanes(chunk)
  BY DEF FindZeroByteMask, Xor, Lanes
<1> QED BY <1>1, <1>4, CopyBlockKeeps

(* The AVX2 engine's blocks.                                               *)
LEMMA Avx2CopyBlockKeeps == IInv /\ Avx2CopyBlock => IInv'
<1> SUFFICES ASSUME IInv, Avx2CopyBlock PROVE IInv'
  OBVIOUS
<1> DEFINE chunk == Load(src, ptr, Width)
           mask  == {i \in Lanes(chunk) : chunk[i] = Backslash}
<1>1. Decoding /\ HasBlock(Width) /\ CopyBlock(mask)
  BY DEF Avx2CopyBlock
<1>2. mask \in SUBSET Lanes(chunk)
  OBVIOUS
<1> QED BY <1>1, <1>2, CopyBlockKeeps

(* No step disturbs the invariant.                                         *)
LEMMA NextKeeps == IInv /\ [Next]_vars => IInv'
<1> SUFFICES ASSUME IInv, [Next]_vars PROVE IInv'
  OBVIOUS
<1>1. CASE Decode
  BY <1>1, SwarCopyBlockKeeps, Avx2CopyBlockKeeps, CopyByteKeeps, DecodeEscapeKeeps,
     EndDecodeKeeps DEF Decode
<1>2. CASE Escape
  BY <1>2, EscapeBlockKeeps, EscapeTailKeeps, WriteEscapeKeeps, EndEscapeKeeps DEF Escape
<1>3. CASE UNCHANGED vars
  BY <1>3 DEF vars, IInv, Typed, Room, Waiting, End, Decoding, Escaping
<1> QED BY <1>1, <1>2, <1>3 DEF Next, Done

-----------------------------------------------------------------------------
(* The inductive invariant holds in every behaviour.                       *)
LEMMA Invariance == Spec => []IInv
BY InitHolds, NextKeeps, PTL DEF Spec

(* Whatever the body, the engine and the width of its blocks: the three    *)
(* passes of a string write no further into their buffer than they have    *)
(* read of a body of that length, and read no further than its closing     *)
(* quote (unescapeString, serializeString).                                *)
THEOREM BoundsSafe == Spec => []InBounds
<1>1. IInv => InBounds
  BY DEF IInv, Room, InBounds, FitsBuffer, ReadsInText
<1> QED BY <1>1, Invariance, PTL

(* The texts stay sequences of bytes and the offsets within them.          *)
THEOREM TypesSafe == Spec => []TypeOK
<1>1. IInv => TypeOK
  <2> SUFFICES ASSUME IInv PROVE TypeOK
    OBVIOUS
  <2>1. End \in Nat
    BY Widths
  <2>2. ptr \in Nat /\ ptr <= End /\ start \in Nat /\ start <= ptr
    BY DEF IInv, Typed
  <2>4. ptr \in 0..End /\ start \in 0..ptr
    BY <2>1, <2>2
  <2>3. {src, stored, out} \subseteq Seq(Byte)
    BY DEF IInv, Typed, Block
  <2> QED BY <2>3, <2>4 DEF IInv, Typed, TypeOK
<1> QED BY <1>1, Invariance, PTL

-----------------------------------------------------------------------------
(***************************************************************************)
(* Induction over the natural numbers, from their well-foundedness: a set  *)
(* that has 0 and the successors of its members has them all.              *)
(***************************************************************************)
LEMMA Induct ==
  ASSUME NEW S \in SUBSET Nat, 0 \in S, \A n \in S : n + 1 \in S
  PROVE  S = Nat
<1> SUFFICES ASSUME Nat \ S # {} PROVE FALSE
  OBVIOUS
<1> DEFINE Less == OpToRel(<, Nat)
<1>1. IsWellFoundedOn(Less, Nat)
  BY NatLessThanWellFounded
<1>2. \A x \in Nat : \A y \in Nat : y < x => <<y, x>> \in Less
  BY DEF OpToRel
<1> HIDE DEF Less
<1>3. Nat \ S \subseteq Nat
  OBVIOUS
<1>4. PICK x \in Nat \ S : \A y \in Nat \ S : <<y, x>> \notin Less
  BY <1>1, <1>3, WFMin
<1>5. x # 0 /\ x - 1 \in Nat /\ x - 1 < x /\ (x - 1) + 1 = x
  OBVIOUS
<1>6. x - 1 \in S
  BY <1>2, <1>4, <1>5
<1> QED BY <1>4, <1>5, <1>6

(* The width of a piece keeps to the text.                                 *)
LEMMA PieceWidth ==
  ASSUME NEW s, Block(s), NEW p \in Nat, p < Len(s)
  PROVE  Piece(s, p).width \in Nat /\ p + Piece(s, p).width <= Len(s)
<1>1. Len(s) \in Nat
  BY DEF Block
<1>2. \A b, w : Means(b, w).width = w /\ Means(b, w).bytes = b
  BY DEF Means
<1>3. /\ IsUnit(s, p) => p + 6 <= Len(s)
      /\ IsUnit(s, p + 6) => p + 12 <= Len(s)
  BY <1>1 DEF IsUnit
<1> QED BY <1>1, <1>2, <1>3 DEF Piece

(* What a body means from an offset on depends on what follows alone.      *)
LEMMA MeansFromLocal ==
  ASSUME NEW s, Block(s), NEW p \in 0..Len(s), NEW f, NEW g,
         \A q \in 0..Len(s) : q > p => f[q] = g[q]
  PROVE  MeansFrom(s, f, p) = MeansFrom(s, g, p)
<1>1. Len(s) \in Nat
  BY DEF Block
<1>2. CASE p = Len(s)
  BY <1>2 DEF MeansFrom
<1>3. CASE p # Len(s)
  <2> DEFINE w == Piece(s, p).width
  <2>1. w \in Nat /\ p + w <= Len(s)
    BY <1>1, <1>3, PieceWidth
  <2> HIDE DEF w
  <2>2. w # 0 => f[p + w] = g[p + w]
    BY <1>1, <2>1
  <2> QED BY <1>3, <2>2 DEF MeansFrom, w
<1> QED BY <1>2, <1>3

(* The recursion of Meanings is well defined.                              *)
LEMMA MeaningsIs ==
  ASSUME NEW s, Block(s)
  PROVE  Meanings(s) = [p \in 0..Len(s) |-> MeansFrom(s, Meanings(s), p)]
<1> DEFINE n == Len(s)
           D(k) == {p \in 0..n : p + k >= n}
           Good(g, k) == \A p \in D(k) : g[p] = MeansFrom(s, g, p)
           S == {k \in Nat : \E g : Good(g, k)}
<1>1. n \in Nat
  BY DEF Block
<1>2. 0 \in S
  <2> DEFINE g == [p \in 0..n |-> <<>>]
  <2>1. Good(g, 0)
    <3> SUFFICES ASSUME NEW p \in D(0) PROVE g[p] = MeansFrom(s, g, p)
      OBVIOUS
    <3>1. p = n
      BY <1>1
    <3> QED BY <3>1 DEF MeansFrom
  <2> QED BY <2>1
<1>3. ASSUME NEW k \in S PROVE k + 1 \in S
  <2>1. PICK g : Good(g, k)
    OBVIOUS
  <2>2. k \in Nat
    OBVIOUS
  <2> DEFINE h == [p \in 0..n |-> IF p \in D(k) THEN g[p] ELSE MeansFrom(s, g, p)]
  <2>3. \A p \in 0..n : h[p] = MeansFrom(s, g, p)
    BY <2>1
  <2>4. \A p \in D(k) : h[p] = g[p]
    OBVIOUS
  <2>5. Good(h, k + 1)
    <3> SUFFICES ASSUME NEW p \in D(k + 1) PROVE h[p] = MeansFrom(s, h, p)
      OBVIOUS
    <3>1. p \in 0..n /\ \A q \in 0..n : q > p => q \in D(k)
      BY <1>1, <2>2
    <3>2. \A q \in 0..n : q > p => g[q] = h[q]
      BY <2>4, <3>1
    <3> HIDE DEF h
    <3>3. MeansFrom(s, g, p) = MeansFrom(s, h, p)
      BY <3>1, <3>2, MeansFromLocal
    <3> QED BY <2>3, <3>1, <3>3
  <2> HIDE DEF h, Good
  <2> QED BY <2>2, <2>5
<1>4. n \in S
  <2> HIDE DEF Good
  <2>1. S \in SUBSET Nat
    OBVIOUS
  <2> HIDE DEF S
  <2> QED BY <1>1, <1>2, <1>3, <2>1, Induct
<1>5. PICK g : Good(g, n)
  BY <1>4
<1>6. D(n) = 0..n
  BY <1>1
<1> DEFINE f == [p \in 0..n |-> g[p]]
<1>7. f = [p \in 0..n |-> MeansFrom(s, f, p)]
  <2>1. \A p \in 0..n : f[p] = MeansFrom(s, g, p)
    BY <1>5, <1>6
  <2>2. \A p \in 0..n : MeansFrom(s, g, p) = MeansFrom(s, f, p)
    <3> SUFFICES ASSUME NEW p \in 0..n PROVE MeansFrom(s, g, p) = MeansFrom(s, f, p)
      OBVIOUS
    <3>1. \A q \in 0..n : q > p => g[q] = f[q]
      OBVIOUS
    <3> HIDE DEF f
    <3> QED BY <3>1, MeansFromLocal
  <2> QED BY <2>1, <2>2
<1>8. \E from : from = [p \in 0..Len(s) |-> MeansFrom(s, from, p)]
  BY <1>7
<1> QED BY <1>8 DEF Meanings

-----------------------------------------------------------------------------
(* Units and their encoding.                                               *)

(* A byte of a text.                                                       *)
LEMMA ChByte ==
  ASSUME NEW s, Block(s), NEW p \in Nat, p < Len(s)
  PROVE  Ch(s, p) \in Byte /\ p + 1 \in 1..Len(s)
<1>1. p + 1 \in 1..Len(s)
  BY DEF Block
<1> QED BY <1>1, ElementOf DEF Ch, Block

(* The table yields a digit of four bits or 255.                           *)
LEMMA HexDigitIs ==
  ASSUME NEW b \in Byte
  PROVE  HexDigit(b) \in 0..15 \/ HexDigit(b) = 255
BY DEF HexDigit, Byte

(* Four digits make sixteen bits, whichever way they are put together.     *)
LEMMA FourHexDigits ==
  ASSUME NEW a \in 0..15, NEW b \in 0..15, NEW c \in 0..15, NEW e \in 0..15
  PROVE  /\ a * 4096 + b * 256 + c * 16 + e \in Nat
         /\ a * 4096 + b * 256 + c * 16 + e <= 65535
         /\ ((a * 16 + b) * 16 + c) * 16 + e = a * 4096 + b * 256 + c * 16 + e
<1>1. /\ a \in Nat /\ b \in Nat /\ c \in Nat /\ e \in Nat
      /\ a <= 15 /\ b <= 15 /\ c <= 15 /\ e <= 15
  OBVIOUS
<1>2. a * 4096 + b * 256 + c * 16 + e \in Nat
  BY <1>1
<1>3. a * 4096 + b * 256 + c * 16 + e <= 65535
  BY <1>1
<1>4. ((a * 16 + b) * 16 + c) * 16 + e = a * 4096 + b * 256 + c * 16 + e
  BY <1>1
<1> QED BY <1>2, <1>3, <1>4

(* A unit in the text has a value of sixteen bits.                         *)
LEMMA UnitRange ==
  ASSUME NEW s, Block(s), NEW p \in Nat, IsUnit(s, p)
  PROVE  /\ Unit(s, p) \in Nat /\ Unit(s, p) <= 65535
         /\ Unit(s, p) = HexDigit(Ch(s, p + 2)) * 4096 + HexDigit(Ch(s, p + 3)) * 256
                           + HexDigit(Ch(s, p + 4)) * 16 + HexDigit(Ch(s, p + 5))
<1> DEFINE a == HexDigit(Ch(s, p + 2))
           b == HexDigit(Ch(s, p + 3))
           c == HexDigit(Ch(s, p + 4))
           e == HexDigit(Ch(s, p + 5))
<1>1. p + 6 <= Len(s) /\ a < 16 /\ b < 16 /\ c < 16 /\ e < 16
  <2>1. \A i \in 2..5 : HexDigit(Ch(s, p + i)) < 16
    BY DEF IsUnit
  <2> QED BY <2>1 DEF IsUnit
<1>2. \A i \in 2..5 : p + i \in Nat /\ p + i < Len(s)
  BY <1>1 DEF Block
<1>3. \A i \in 2..5 : Ch(s, p + i) \in Byte
  BY <1>2, ChByte
<1>4. \A i \in 2..5 : HexDigit(Ch(s, p + i)) \in 0..15 \/ HexDigit(Ch(s, p + i)) = 255
  BY <1>3, HexDigitIs
<1>5. a \in 0..15 /\ b \in 0..15 /\ c \in 0..15 /\ e \in 0..15
  <2>1. \A n : (n \in 0..15 \/ n = 255) /\ n < 16 => n \in 0..15
    OBVIOUS
  <2> HIDE DEF a, b, c, e
  <2>2. /\ a \in 0..15 \/ a = 255
        /\ b \in 0..15 \/ b = 255
        /\ c \in 0..15 \/ c = 255
        /\ e \in 0..15 \/ e = 255
    BY <1>4 DEF a, b, c, e
  <2> QED BY <1>1, <2>1, <2>2
<1>6. Unit(s, p) = ((a * 16 + b) * 16 + c) * 16 + e
  BY DEF Unit
<1> HIDE DEF a, b, c, e
<1>7. /\ a * 4096 + b * 256 + c * 16 + e \in Nat
      /\ a * 4096 + b * 256 + c * 16 + e <= 65535
      /\ ((a * 16 + b) * 16 + c) * 16 + e = a * 4096 + b * 256 + c * 16 + e
  BY <1>5, FourHexDigits
<1>8. Unit(s, p) = a * 4096 + b * 256 + c * 16 + e
  BY <1>6, <1>7
<1> QED BY <1>6, <1>7, <1>8 DEF a, b, c, e

(* decodeUnicodeHex reads a unit that is there, and tells when it is not.  *)
LEMMA UnitDecoded ==
  ASSUME Block(src), NEW p \in Nat, p + 1 < End, At(p) = Backslash, At(p + 1) = 117
  PROVE  IF IsUnit(src, p) THEN DecodeUnicodeHex(p + 2) = Unit(src, p)
                           ELSE DecodeUnicodeHex(p + 2) = TooLarge
<1> DEFINE d == [i \in 0..3 |-> HexDigit(At((p + 2) + i))]
<1>1. End \in Nat
  BY Lengths DEF End
<1>2. DecodeUnicodeHex(p + 2) = IF \E i \in 0..3 : d[i] > 15 THEN TooLarge
                                ELSE d[0] * 4096 + d[1] * 256 + d[2] * 16 + d[3]
  BY DEF DecodeUnicodeHex
<1>3. \A i \in 0..3 : (p + 2) + i \in Nat
  OBVIOUS
<1>4. \A i \in 0..3 : d[i] \in 0..15 \/ d[i] = 255
  BY <1>3, AtByte, HexDigitIs
<1>5. p + 6 <= End => \A i \in 2..5 : At(p + i) = Ch(src, p + i)
  BY <1>1 DEF At, Ch, End
<1>6. p \in Nat /\ p < End /\ Ch(src, p) = Backslash /\ Ch(src, p + 1) = 117
  <2>1. p \in Nat /\ p < End
    BY <1>1
  <2> QED BY <2>1 DEF At, Ch
<1>7. p + 6 <= End => \A i \in 0..3 : d[i] = HexDigit(Ch(src, p + (i + 2)))
  <2> SUFFICES ASSUME p + 6 <= End, NEW i \in 0..3
               PROVE  d[i] = HexDigit(Ch(src, p + (i + 2)))
    OBVIOUS
  <2>1. (p + 2) + i = p + (i + 2) /\ i + 2 \in 2..5
    OBVIOUS
  <2> QED BY <1>5, <2>1
<1>8. CASE p + 6 > End
  <2>1. ~IsUnit(src, p)
    BY <1>1, <1>8 DEF IsUnit, End
  <2>2. p + 5 \in Nat /\ p + 5 >= End /\ (p + 2) + 3 = p + 5
    BY <1>1, <1>8
  <2>3. At(p + 5) = Quote
    BY <2>2, AtByte
  <2>4. d[3] = 255
    <3>1. HexDigit(Quote) = 255
      BY DEF HexDigit, Quote
    <3> QED BY <2>2, <2>3, <3>1
  <2> HIDE DEF d
  <2>5. \E i \in 0..3 : d[i] > 15
    BY <2>4
  <2> QED BY <1>2, <2>1, <2>5
<1>9. CASE p + 6 <= End
  <2>1. IsUnit(src, p) <=> \A i \in 2..5 : HexDigit(Ch(src, p + i)) < 16
    BY <1>6, <1>9 DEF IsUnit, End
  <2>2. /\ d[0] = HexDigit(Ch(src, p + 2)) /\ d[1] = HexDigit(Ch(src, p + 3))
        /\ d[2] = HexDigit(Ch(src, p + 4)) /\ d[3] = HexDigit(Ch(src, p + 5))
    BY <1>7, <1>9
  <2> HIDE DEF d
  <2>3. IsUnit(src, p) <=> \A i \in 0..3 : d[i] < 16
    <3>1. (\A i \in 2..5 : HexDigit(Ch(src, p + i)) < 16)
            <=> /\ HexDigit(Ch(src, p + 2)) < 16 /\ HexDigit(Ch(src, p + 3)) < 16
                /\ HexDigit(Ch(src, p + 4)) < 16 /\ HexDigit(Ch(src, p + 5)) < 16
      <4> DEFINE h(i) == HexDigit(Ch(src, p + i)) < 16
      <4> HIDE DEF h
      <4>1. (\A i \in 2..5 : h(i)) <=> h(2) /\ h(3) /\ h(4) /\ h(5)
        OBVIOUS
      <4> QED BY <4>1 DEF h
    <3>2. (\A i \in 0..3 : d[i] < 16) <=> d[0] < 16 /\ d[1] < 16 /\ d[2] < 16 /\ d[3] < 16
      OBVIOUS
    <3> QED BY <2>1, <2>2, <3>1, <3>2
  <2>4. (\A i \in 0..3 : d[i] < 16) <=> ~\E i \in 0..3 : d[i] > 15
    BY <1>4
  <2>5. IsUnit(src, p) =>
          Unit(src, p) = d[0] * 4096 + d[1] * 256 + d[2] * 16 + d[3]
    BY <2>2, UnitRange
  <2> QED BY <1>2, <2>3, <2>4, <2>5
<1> QED BY <1>1, <1>8, <1>9

(* A surrogate pair makes a code point of Unicode.                         *)
LEMMA PairRange ==
  ASSUME NEW cp \in High, NEW cp2 \in Low
  PROVE  /\ 65536 + (cp - 55296) * 1024 + (cp2 - 56320) \in Nat
         /\ 65536 + (cp - 55296) * 1024 + (cp2 - 56320) <= 1114111
<1> DEFINE m == cp - 55296
           n == cp2 - 56320
<1>1. m \in Nat /\ m <= 1023
  BY SMT DEF High
<1>2. n \in Nat /\ n <= 1023
  BY SMT DEF Low
<1> HIDE DEF m, n
<1>3. 65536 + m * 1024 + n \in Nat /\ 65536 + m * 1024 + n <= 1114111
  BY SMT, <1>1, <1>2
<1> QED BY SMT, <1>3 DEF m, n

(* encodeUtf8 gives the encoding: its masks cut nothing off.               *)
LEMMA Utf8Encodes ==
  ASSUME NEW cp \in Nat, cp <= 1114111
  PROVE  Utf8(cp) = Encoded(cp)
<1> DEFINE E(n) == InBytes(cp, n)
<1>1. /\ Weight[1] = 1 /\ Weight[2] = 64 /\ Weight[3] = 4096 /\ Weight[4] = 262144
  BY DEF Weight
<1>2. CASE cp < 128
  <2>1. Encoded(cp) = E(1) /\ Utf8(cp) = <<cp>>
    BY SMT, <1>2 DEF Encoded, Utf8
  <2>2. E(1) = [i \in 1..1 |-> 0 + cp \div 1]
    BY SMT, <1>1 DEF InBytes
  <2>3. 0 + cp \div 1 = cp
    BY SMT
  <2> HIDE DEF E
  <2>4. E(1) = <<cp>>
    BY SMT, <2>2, <2>3
  <2> QED BY <2>1, <2>4
<1>3. CASE ~(cp < 128) /\ cp < 2048
  <2> DEFINE a == 192 + cp \div 64
             b == 128 + (cp % 64)
  <2>1. Encoded(cp) = E(2) /\ Utf8(cp) = <<192 + ((cp \div 64) % 32), b>>
    BY SMT, <1>3 DEF Encoded, Utf8
  <2>2. 192 + ((cp \div 64) % 32) = a
    BY SMT, <1>3
  <2>3. /\ E(2)[1] = a /\ E(2)[2] = b
        /\ E(2) = [i \in 1..2 |-> E(2)[i]]
    <3>1. cp \div 1 = cp
      BY SMT
    <3> QED BY SMT, <1>1, <3>1 DEF InBytes
  <2> HIDE DEF E, a, b
  <2>4. E(2) = <<a, b>>
    BY SMT, <2>3
  <2> QED BY <2>1, <2>2, <2>4
<1>4. CASE ~(cp < 128) /\ ~(cp < 2048) /\ cp < 65536
  <2> DEFINE a == 224 + cp \div 4096
             b == 128 + ((cp \div 64) % 64)
             c == 128 + (cp % 64)
  <2>1. Encoded(cp) = E(3) /\ Utf8(cp) = <<224 + ((cp \div 4096) % 16), b, c>>
    BY SMT, <1>4 DEF Encoded, Utf8
  <2>2. 224 + ((cp \div 4096) % 16) = a
    BY SMT, <1>4
  <2>3. /\ E(3)[1] = a /\ E(3)[2] = b /\ E(3)[3] = c
        /\ E(3) = [i \in 1..3 |-> E(3)[i]]
    <3>1. cp \div 1 = cp
      BY SMT
    <3> QED BY SMT, <1>1, <3>1 DEF InBytes
  <2> HIDE DEF E, a, b, c
  <2>4. E(3) = <<a, b, c>>
    BY SMT, <2>3
  <2> QED BY <2>1, <2>2, <2>4
<1>5. CASE ~(cp < 65536)
  <2> DEFINE a == 240 + cp \div 262144
             b == 128 + ((cp \div 4096) % 64)
             c == 128 + ((cp \div 64) % 64)
             d == 128 + (cp % 64)
  <2>1. Encoded(cp) = E(4) /\ Utf8(cp) = <<240 + ((cp \div 262144) % 8), b, c, d>>
    BY SMT, <1>5 DEF Encoded, Utf8
  <2>2. 240 + ((cp \div 262144) % 8) = a
    BY SMT, <1>5
  <2>3. /\ E(4)[1] = a /\ E(4)[2] = b /\ E(4)[3] = c /\ E(4)[4] = d
        /\ E(4) = [i \in 1..4 |-> E(4)[i]]
    <3>1. cp \div 1 = cp
      BY SMT
    <3> QED BY SMT, <1>1, <3>1 DEF InBytes
  <2> HIDE DEF E, a, b, c, d
  <2>4. E(4) = <<a, b, c, d>>
    BY SMT, <2>3
  <2> QED BY <2>1, <2>2, <2>4
<1> QED BY SMT, <1>2, <1>3, <1>4, <1>5

-----------------------------------------------------------------------------
(* The meaning of a body, from its end.                                    *)

(* Downwards from n.                                                       *)
LEMMA InductDown ==
  ASSUME NEW n \in Nat, NEW T, n \in T,
         \A p \in 0..(n - 1) : (\A q \in (p + 1)..n : q \in T) => p \in T
  PROVE  \A p \in 0..n : p \in T
<1> DEFINE S == {k \in Nat : \A q \in 0..n : q + k >= n => q \in T}
<1>1. S \in SUBSET Nat /\ 0 \in S
  OBVIOUS
<1>2. ASSUME NEW k \in S PROVE k + 1 \in S
  <2> SUFFICES ASSUME NEW p \in 0..n, p + (k + 1) >= n, p \notin T PROVE FALSE
    OBVIOUS
  <2>1. \A q \in (p + 1)..n : q \in T
    OBVIOUS
  <2>2. p \in 0..(n - 1)
    OBVIOUS
  <2> QED BY <2>1, <2>2
<1> HIDE DEF S
<1>3. n \in S
  BY <1>1, <1>2, Induct
<1> QED BY <1>3 DEF S

(* What a piece means are bytes, unless it means nothing.                  *)
LEMMA PieceBytes ==
  ASSUME NEW s, Block(s), NEW p \in Nat, p < Len(s), Piece(s, p).width # 0
  PROVE  Block(Piece(s, p).bytes)
<1> DEFINE cp   == Unit(s, p)
           pair == 65536 + (cp - 55296) * 1024 + (Unit(s, p + 6) - 56320)
<1>1. \A b, w : Means(b, w).width = w /\ Means(b, w).bytes = b
  BY DEF Means
<1>2. CASE Ch(s, p) # Backslash
  <2>1. Piece(s, p) = Means(<<Ch(s, p)>>, 1)
    BY <1>2 DEF Piece
  <2>2. Ch(s, p) \in Byte
    BY ChByte
  <2> QED BY <1>1, <2>1, <2>2 DEF Block
<1>3. CASE Ch(s, p) = Backslash /\ IsUnit(s, p) /\ cp \notin High
  <2>1. Piece(s, p) = Means(Encoded(cp), 6)
    BY <1>3 DEF Piece
  <2>2. cp \in Nat /\ cp <= 65535
    BY <1>3, UnitRange
  <2> HIDE DEF cp
  <2>3. Encoded(cp) = Utf8(cp)
    BY SMT, <2>2, Utf8Encodes
  <2> QED BY <1>1, <2>1, <2>2, <2>3, Utf8Short
<1>4. CASE /\ Ch(s, p) = Backslash /\ IsUnit(s, p) /\ cp \in High
           /\ IsUnit(s, p + 6) /\ Unit(s, p + 6) \in Low
  <2>1. Piece(s, p) = Means(Encoded(pair), 12)
    BY <1>4 DEF Piece
  <2>2. pair \in Nat /\ pair <= 1114111
    BY SMT, <1>4, PairRange
  <2> HIDE DEF pair
  <2>3. Encoded(pair) = Utf8(pair)
    BY SMT, <2>2, Utf8Encodes
  <2> QED BY <1>1, <2>1, <2>2, <2>3, Utf8Short
<1>5. CASE /\ Ch(s, p) = Backslash /\ ~(IsUnit(s, p) /\ cp \notin High)
           /\ ~(IsUnit(s, p) /\ IsUnit(s, p + 6) /\ Unit(s, p + 6) \in Low)
  <2>1. CASE p + 2 <= Len(s) /\ Ch(s, p + 1) \in DOMAIN Simple
    <3>1. Piece(s, p) = Means(<<Simple[Ch(s, p + 1)]>>, 2)
      BY <1>5, <2>1 DEF Piece
    <3> QED BY <1>1, <2>1, <3>1, SimpleByte
  <2>2. CASE ~(p + 2 <= Len(s) /\ Ch(s, p + 1) \in DOMAIN Simple)
    <3>1. Piece(s, p) = Means(Bad, 0)
      BY <1>5, <2>2 DEF Piece
    <3> QED BY <1>1, <3>1
  <2> QED BY <2>1, <2>2
<1> QED BY <1>2, <1>3, <1>4, <1>5

(* Nothing that bytes are is Bad.                                          *)
LEMMA BadIsNoText ==
  ASSUME NEW s, Block(s)
  PROVE  s # Bad
<1> SUFFICES ASSUME s = Bad PROVE FALSE
  OBVIOUS
<1>1. Len(s) = 1 /\ s[1] = -1
  BY DEF Bad
<1>2. s[1] \in Byte
  BY <1>1, ElementOf DEF Block
<1> QED BY <1>1, <1>2 DEF Byte

IsMeaning(m) == m = Bad \/ Block(m)

(* Putting bytes before a meaning.                                         *)
LEMMA BeforeIs ==
  ASSUME NEW a, Block(a), NEW m, IsMeaning(m)
  PROVE  /\ IsMeaning(Before(a, m))
         /\ Before(a, m) = Bad <=> m = Bad
         /\ Before(<<>>, m) = m
         /\ Before(a, <<>>) = a
<1>1. CASE m = Bad
  <2>1. <<>> # Bad
    BY Empty, BadIsNoText
  <2>2. a \o <<>> = a
    BY ConcatEmptySeq DEF Block
  <2> QED BY <1>1, <2>1, <2>2 DEF Before, IsMeaning
<1>2. CASE Block(m) /\ m # Bad
  <2>1. Block(a \o m) /\ a \o m # Bad
    BY <1>2, Joined, BadIsNoText
  <2>2. <<>> \o m = m /\ a \o <<>> = a
    BY <1>2, ConcatEmptySeq DEF Block
  <2>3. <<>> # Bad
    BY Empty, BadIsNoText
  <2> QED BY <1>2, <2>1, <2>2, <2>3 DEF Before, IsMeaning
<1> QED BY <1>1, <1>2 DEF IsMeaning

(* Bytes before bytes.                                                     *)
LEMMA BeforeTwice ==
  ASSUME NEW a, Block(a), NEW b, Block(b), NEW m, IsMeaning(m)
  PROVE  Before(a, Before(b, m)) = Before(a \o b, m)
<1>1. CASE m = Bad
  BY <1>1 DEF Before
<1>2. CASE Block(m) /\ m # Bad
  <2>1. Block(b \o m) /\ b \o m # Bad
    BY <1>2, Joined, BadIsNoText
  <2>2. (a \o b) \o m = a \o (b \o m)
    BY <1>2, ConcatAssociative DEF Block
  <2> QED BY <1>2, <2>1, <2>2 DEF Before
<1> QED BY <1>1, <1>2 DEF IsMeaning

(* The recursion, piece by piece.                                          *)
LEMMA MeaningsAt ==
  ASSUME NEW s, Block(s)
  PROVE  /\ Meanings(s)[Len(s)] = <<>>
         /\ \A p \in Nat : p < Len(s) =>
              Meanings(s)[p] = IF Piece(s, p).width = 0 THEN Bad
                               ELSE Before(Piece(s, p).bytes, Meanings(s)[p + Piece(s, p).width])
<1> DEFINE M == Meanings(s)
<1>1. Len(s) \in Nat
  BY Lengths
<1>2. M = [p \in 0..Len(s) |-> MeansFrom(s, M, p)]
  BY MeaningsIs
<1> HIDE DEF M
<1>3. \A p \in 0..Len(s) : M[p] = MeansFrom(s, M, p)
  BY <1>2
<1>4. M[Len(s)] = <<>>
  BY <1>1, <1>3 DEF MeansFrom
<1>5. \A p \in Nat : p < Len(s) => p \in 0..Len(s) /\ p # Len(s)
  BY <1>1
<1> QED BY <1>3, <1>4, <1>5 DEF M, MeansFrom

(* Every offset has a meaning: bytes or Bad.                               *)
LEMMA MeaningsTyped ==
  ASSUME NEW s, Block(s)
  PROVE  \A p \in 0..Len(s) : IsMeaning(Meanings(s)[p])
<1> DEFINE M == Meanings(s)
           T == {p \in 0..Len(s) : IsMeaning(M[p])}
<1>1. Len(s) \in Nat
  BY Lengths
<1>2. Len(s) \in T
  BY <1>1, MeaningsAt, Empty DEF IsMeaning
<1>3. ASSUME NEW p \in 0..(Len(s) - 1), \A q \in (p + 1)..Len(s) : q \in T
      PROVE  p \in T
  <2> DEFINE w == Piece(s, p).width
             b == Piece(s, p).bytes
  <2>1. p \in Nat /\ p < Len(s) /\ p \in 0..Len(s)
    BY <1>1
  <2>2. w \in Nat /\ p + w <= Len(s) /\ (w # 0 => Block(b))
    BY <2>1, PieceWidth, PieceBytes
  <2>3. M[p] = IF w = 0 THEN Bad ELSE Before(b, M[p + w])
    BY <2>1, MeaningsAt
  <2> HIDE DEF w, b, M
  <2>4. w # 0 => IsMeaning(M[p + w])
    <3>1. w # 0 => p + w \in (p + 1)..Len(s)
      BY <1>1, <2>1, <2>2
    <3> QED BY <1>3, <3>1
  <2>5. IsMeaning(M[p])
    BY <2>2, <2>3, <2>4, BeforeIs DEF IsMeaning
  <2> QED BY <2>1, <2>5
<1> HIDE DEF T
<1>4. \A p \in 0..Len(s) : p \in T
  BY <1>1, <1>2, <1>3, InductDown
<1> QED BY <1>4 DEF T

(* Bytes without a backslash mean themselves.                              *)
LEMMA PlainRun ==
  ASSUME NEW s, Block(s), NEW a \in Nat, NEW b \in Nat, a <= b, b <= Len(s),
         \A q \in a..(b - 1) : Ch(s, q) # Backslash
  PROVE  Meanings(s)[a] = Before(SubSeq(s, a + 1, b), Meanings(s)[b])
<1> DEFINE M == Meanings(s)
           S == {k \in Nat : a + k <= b => M[a] = Before(SubSeq(s, a + 1, a + k), M[a + k])}
<1>1. Len(s) \in Nat /\ s \in Seq(Byte)
  BY Lengths DEF Block
<1>2. \A p \in 0..Len(s) : IsMeaning(M[p])
  BY MeaningsTyped
<1>3. 0 \in S
  <2>1. SubSeq(s, a + 1, a + 0) = <<>>
    BY SubSeqEmpty
  <2>2. a + 0 = a /\ IsMeaning(M[a])
    BY <1>1, <1>2
  <2>3. Before(<<>>, M[a]) = M[a]
    BY <2>2, Empty, BeforeIs
  <2> QED BY <2>1, <2>2, <2>3
<1>4. ASSUME NEW k \in S PROVE k + 1 \in S
  <2> SUFFICES ASSUME a + (k + 1) <= b
               PROVE  M[a] = Before(SubSeq(s, a + 1, a + (k + 1)), M[a + (k + 1)])
    OBVIOUS
  <2> DEFINE q   == a + k
             run == SubSeq(s, a + 1, q)
             one == <<Ch(s, q)>>
  <2>1. k \in Nat /\ q \in Nat /\ q < Len(s) /\ q + 1 = a + (k + 1) /\ q \in a..(b - 1) /\ a <= q
    BY <1>1
  <2>2. M[a] = Before(run, M[q])
    BY <2>1
  <2>3. Piece(s, q) = Means(one, 1)
    BY <2>1 DEF Piece
  <2>4. M[q] = Before(one, M[q + 1])
    <3>1. Piece(s, q).width = 1 /\ Piece(s, q).bytes = one
      BY <2>3 DEF Means
    <3> HIDE DEF one, q
    <3>2. M[q] = IF Piece(s, q).width = 0 THEN Bad
                 ELSE Before(Piece(s, q).bytes, M[q + Piece(s, q).width])
      BY <2>1, MeaningsAt
    <3> QED BY <3>1, <3>2
  <2>5. Block(run) /\ Block(one)
    <3>1. Block(run)
      BY <2>1, Cut
    <3>2. Ch(s, q) \in Byte
      BY <2>1, ChByte
    <3> QED BY <3>1, <3>2 DEF Block
  <2>6. run \o one = SubSeq(s, a + 1, q + 1)
    <3>1. q + 1 \in 1..Len(s) /\ a + 1 \in 1..Len(s) /\ q + 1 \in (a + 1)..Len(s)
      BY <1>1, <2>1
    <3>2. SubSeq(s, a + 1, q + 1) = SubSeq(s, a + 1, (q + 1) - 1) \o <<s[q + 1]>>
      BY <1>1, <3>1, SubSeqRecursiveSecond
    <3>3. (q + 1) - 1 = q
      BY <2>1
    <3> QED BY <3>2, <3>3 DEF Ch
  <2>7. IsMeaning(M[q + 1])
    <3>1. q + 1 \in 0..Len(s)
      BY <1>1, <2>1
    <3> QED BY <1>2, <3>1
  <2> HIDE DEF M, run, one, q
  <2>8. M[a] = Before(run \o one, M[q + 1])
    BY <2>2, <2>4, <2>5, <2>7, BeforeTwice
  <2> QED BY <2>1, <2>6, <2>8
<1>5. b - a \in S
  <2>1. S \in SUBSET Nat
    OBVIOUS
  <2> HIDE DEF S
  <2>2. S = Nat
    BY <1>3, <1>4, <2>1, Induct
  <2> QED BY <2>2
<1>6. a + (b - a) = b
  OBVIOUS
<1> QED BY <1>5, <1>6

-----------------------------------------------------------------------------
(* unescapeString tells what the body means.                               *)

(* What is decoded so far and what the rest means, put together, are what  *)
(* the body means; a pass that gave up had met an escape that means        *)
(* nothing.                                                                *)
Truth ==
  Decoding => IF status = "None" THEN Meaning(src) = Before(out, Meanings(src)[ptr])
              ELSE Meaning(src) = Bad

(* A pass goes on only without an error, and stops after the last byte.    *)
Alive ==
  /\ pc # "done" => status = "None"
  /\ pc = "done" /\ status = "None" => round = "read back" /\ ptr = End

TInv == IInv /\ Alive /\ Truth

(* A piece and its rest.                                                   *)
LEMMA PieceMeans ==
  ASSUME NEW s, Block(s), NEW p \in Nat, p < Len(s), NEW bytes, NEW w \in Nat,
         Piece(s, p) = Means(bytes, w)
  PROVE  Meanings(s)[p] = IF w = 0 THEN Bad ELSE Before(bytes, Meanings(s)[p + w])
<1>1. Piece(s, p).width = w /\ Piece(s, p).bytes = bytes
  BY DEF Means
<1>2. Meanings(s)[p] = IF Piece(s, p).width = 0 THEN Bad
                       ELSE Before(Piece(s, p).bytes, Meanings(s)[p + Piece(s, p).width])
  BY MeaningsAt
<1> QED BY <1>1, <1>2

(* Writing what the next bytes mean.                                       *)
LEMMA WriteTells ==
  ASSUME TInv, Decoding, status = "None", Same, UNCHANGED status,
         NEW bytes, Block(bytes), out' = out \o bytes,
         NEW next \in 0..End, ptr' = next,
         Meanings(src)[ptr] = Before(bytes, Meanings(src)[next])
  PROVE  Truth'
<1>1. Block(src) /\ Block(out) /\ Meaning(src) = Before(out, Meanings(src)[ptr])
  BY DEF TInv, IInv, Typed, Truth
<1>2. src' = src /\ status' = "None"
  BY DEF Same
<1>3. IsMeaning(Meanings(src)[next])
  BY <1>1, MeaningsTyped DEF End
<1>4. Meaning(src) = Before(out \o bytes, Meanings(src)[next])
  BY <1>1, <1>3, BeforeTwice
<1> QED BY <1>2, <1>4 DEF Truth

(* Giving up where the next bytes mean nothing.                            *)
LEMMA FailTells ==
  ASSUME TInv, Decoding, status = "None", Same, Fail, Meanings(src)[ptr] = Bad
  PROVE  Truth'
<1>1. Meaning(src) = Before(out, Meanings(src)[ptr])
  BY DEF TInv, Truth
<1>2. src' = src /\ status' # "None"
  BY DEF Same, Fail
<1>3. Meaning(src) = Bad
  BY <1>1 DEF Before
<1> QED BY <1>2, <1>3 DEF Truth

(* A byte of a block.                                                      *)
LEMMA LoadByte ==
  ASSUME NEW s, Block(s), NEW at \in Nat, NEW width \in Nat, at + width <= Len(s),
         NEW i \in 1..width
  PROVE  Load(s, at, width)[i] = s[at + i]
<1>1. \A k \in (at + 1)..(at + width) : s[k] \in Byte
  BY Lengths, ElementOf DEF Block
<1>2. i \in 1..((at + width) - (at + 1) + 1) /\ (at + 1) + i - 1 = at + i
  OBVIOUS
<1>3. at + 1 \in Int /\ at + width \in Int
  OBVIOUS
<1>4. SubSeq(s, at + 1, at + width)[i] = s[(at + 1) + i - 1]
  BY <1>1, <1>2, <1>3, SubSeqProperties
<1> QED BY <1>2, <1>4 DEF Load

(* The bytes before the first backslash of a block, or all of them.        *)
LEMMA BlockMeans ==
  ASSUME Block(src), ptr \in Nat, NEW n \in Nat, ptr + n <= End,
         \A i \in 1..n : Load(src, ptr, n)[i] # Backslash
  PROVE  Meanings(src)[ptr] = Before(Load(src, ptr, n), Meanings(src)[ptr + n])
<1>1. End \in Nat /\ End = Len(src)
  BY Lengths DEF End
<1>2. \A q \in ptr..((ptr + n) - 1) : Ch(src, q) # Backslash
  <2> SUFFICES ASSUME NEW q \in ptr..((ptr + n) - 1) PROVE Ch(src, q) # Backslash
    OBVIOUS
  <2> DEFINE i == q - ptr + 1
  <2>1. i \in 1..n /\ ptr + i = q + 1 /\ ptr + n <= Len(src)
    BY <1>1
  <2>2. Load(src, ptr, n)[i] = src[ptr + i]
    BY <2>1, LoadByte
  <2> HIDE DEF i
  <2> QED BY <2>1, <2>2 DEF Ch
<1>3. ptr + n \in Nat /\ ptr <= ptr + n /\ ptr + n <= Len(src)
  BY <1>1
<1>4. Meanings(src)[ptr] = Before(SubSeq(src, ptr + 1, ptr + n), Meanings(src)[ptr + n])
  BY <1>2, <1>3, PlainRun
<1> QED BY <1>4 DEF Load

(* What either engine's mask tells: all of a block, or what stands before  *)
(* its first flag, is without a backslash.                                 *)
LEMMA CopyBlockTells ==
  ASSUME TInv, Decoding, pc = "scan", HasBlock(Width),
         NEW mask \in SUBSET Lanes(Load(src, ptr, Width)), CopyBlock(mask),
         FirstMatches(mask, Load(src, ptr, Width), {Backslash})
  PROVE  Truth'
<1> DEFINE chunk == Load(src, ptr, Width)
<1>1. /\ Width \in Nat /\ Width >= 1 /\ End \in Nat /\ End = Len(src)
      /\ ptr \in Nat /\ Block(src) /\ ptr + Width <= End
  BY Widths DEF TInv, IInv, Typed, HasBlock, End
<1>2. Block(chunk) /\ Len(chunk) = Width /\ Lanes(chunk) = 1..Width
  BY <1>1, Loaded DEF Lanes
<1>3. /\ mask = {} => \A i \in Lanes(chunk) : chunk[i] \notin {Backslash}
      /\ mask # {} => \A i \in 1..FirstLane(mask) : chunk[i] \notin {Backslash}
  <2> HIDE DEF chunk
  <2>1. mask \in SUBSET Lanes(chunk) /\ FirstMatches(mask, chunk, {Backslash})
    BY DEF chunk
  <2> QED BY <1>2, <2>1, ScanStopsAtFirst
<1>4. Same /\ status = "None"
  BY DEF CopyBlock, TInv, Alive
<1>5. ASSUME NEW n \in Nat, n <= Width, \A i \in 1..n : chunk[i] # Backslash,
             out' = out \o Load(src, ptr, n), ptr' = ptr + n, UNCHANGED status
      PROVE  Truth'
  <2> DEFINE some == Load(src, ptr, n)
  <2>1. ptr + n <= Len(src) /\ ptr + n \in 0..End
    BY <1>1, <1>5
  <2>2. Block(some)
    BY <1>1, <2>1, Loaded
  <2>3. \A i \in 1..n : some[i] # Backslash
    <3> SUFFICES ASSUME NEW i \in 1..n PROVE some[i] # Backslash
      OBVIOUS
    <3>1. some[i] = src[ptr + i]
      BY <1>1, <2>1, LoadByte
    <3>2. i \in 1..Width
      BY <1>1, <1>5
    <3>3. chunk[i] = src[ptr + i]
      BY <1>1, <3>2, LoadByte
    <3> QED BY <1>5, <3>1, <3>3
  <2>4. Meanings(src)[ptr] = Before(some, Meanings(src)[ptr + n])
    BY <1>1, <2>1, <2>3, BlockMeans
  <2> HIDE DEF some, chunk
  <2>5. out' = out \o some
    BY <1>5 DEF some
  <2> QED BY <1>4, <1>5, <2>1, <2>2, <2>4, <2>5, WriteTells
<1>6. CASE mask = {}
  <2>1. out' = out \o chunk /\ ptr' = ptr + Width /\ UNCHANGED status
    BY <1>6 DEF CopyBlock, Write
  <2>2. \A i \in 1..Width : chunk[i] # Backslash
    BY <1>2, <1>3, <1>6
  <2>3. Width <= Width
    BY <1>1
  <2> QED BY <1>1, <1>5, <2>1, <2>2, <2>3
<1>7. CASE mask # {}
  <2> DEFINE n == FirstLane(mask)
  <2>1. n \in Nat /\ n <= Width
    BY <1>1, <1>2, <1>7, FirstLaneWithin
  <2>2. out' = out \o Load(src, ptr, n) /\ ptr' = ptr + n /\ UNCHANGED status
    BY <1>7 DEF CopyBlock
  <2>3. \A i \in 1..n : chunk[i] # Backslash
    BY <1>3, <1>7
  <2> HIDE DEF n
  <2> QED BY <1>5, <2>1, <2>2, <2>3
<1> QED BY <1>6, <1>7

(* The blocks of both engines.                                             *)
LEMMA BlocksTell == TInv /\ (SwarCopyBlock \/ Avx2CopyBlock) => Truth'
<1> SUFFICES ASSUME TInv, SwarCopyBlock \/ Avx2CopyBlock PROVE Truth'
  OBVIOUS
<1> DEFINE chunk == Load(src, ptr, Width)
<1>1. Decoding /\ pc = "scan" /\ HasBlock(Width)
  BY DEF SwarCopyBlock, Avx2CopyBlock
<1>2. Block(src) /\ ptr \in Nat /\ Width \in Nat /\ ptr + Width <= Len(src)
  BY <1>1, Widths DEF TInv, IInv, Typed, HasBlock, End
<1>3. Block(chunk)
  BY <1>2, Loaded
<1>4. CASE SwarCopyBlock
  <2> DEFINE mask == FindZeroByteMask(Xor(chunk, Backslash))
  <2>1. Backslash \in Byte
    BY DEF Backslash, Byte
  <2>2. FirstMatches(mask, chunk, {Backslash})
    BY <1>3, <2>1, FindsByte
  <2>3. mask \in SUBSET Lanes(chunk)
    BY <1>3, <2>1, MasksWithin
  <2>4. CopyBlock(mask)
    BY <1>4 DEF SwarCopyBlock
  <2> QED BY <1>1, <2>2, <2>3, <2>4, CopyBlockTells
<1>5. CASE Avx2CopyBlock
  <2> DEFINE mask == {i \in Lanes(chunk) : chunk[i] = Backslash}
  <2>1. FirstMatches(mask, chunk, {Backslash})
    BY DEF FirstMatches
  <2>2. mask \in SUBSET Lanes(chunk)
    OBVIOUS
  <2>3. CopyBlock(mask)
    BY <1>5 DEF Avx2CopyBlock
  <2> QED BY <1>1, <2>1, <2>2, <2>3, CopyBlockTells
<1> QED BY <1>4, <1>5

(* One byte.                                                               *)
LEMMA CopyByteTells == TInv /\ CopyByte => Truth'
<1> SUFFICES ASSUME TInv, CopyByte PROVE Truth'
  OBVIOUS
<1> DEFINE bytes == <<At(ptr)>>
<1>1. Decoding /\ Block(src) /\ ptr \in Nat /\ ptr < End /\ End \in Nat /\ status = "None"
  BY CharacterBeforeEnd DEF CopyByte, TInv, Alive, AtCharacter
<1>2. At(ptr) = Ch(src, ptr) /\ At(ptr) # Backslash /\ At(ptr) \in Byte
  BY <1>1, AtByte DEF At, Ch, CopyByte
<1>3. Block(bytes)
  BY <1>2 DEF Block
<1>4. Piece(src, ptr) = Means(bytes, 1)
  BY <1>2 DEF Piece
<1>5. ptr < Len(src) /\ ptr + 1 \in 0..End /\ 1 \in Nat
  BY <1>1 DEF End
<1> HIDE DEF bytes
<1>6. Meanings(src)[ptr] = Before(bytes, Meanings(src)[ptr + 1])
  BY <1>1, <1>4, <1>5, PieceMeans
<1>7. out' = out \o bytes /\ ptr' = ptr + 1 /\ UNCHANGED status /\ Same
  BY DEF CopyByte, Write, bytes
<1> QED BY <1>1, <1>3, <1>5, <1>6, <1>7, WriteTells

(* An escape that is no unit.                                              *)
LEMMA SimplePiece ==
  ASSUME NEW s, Block(s), NEW p \in Nat, p + 1 < Len(s), Ch(s, p) = Backslash,
         Ch(s, p + 1) # 117
  PROVE  Piece(s, p) = IF Ch(s, p + 1) \in DOMAIN Simple
                       THEN Means(<<Simple[Ch(s, p + 1)]>>, 2) ELSE Means(Bad, 0)
<1>1. ~IsUnit(s, p) /\ p + 2 <= Len(s)
  BY Lengths DEF IsUnit
<1> QED BY <1>1 DEF Piece

(* An escape that begins as a unit.                                        *)
LEMMA UnitPiece ==
  ASSUME NEW s, NEW p, Ch(s, p) = Backslash, Ch(s, p + 1) = 117
  PROVE  Piece(s, p) =
           IF IsUnit(s, p) /\ Unit(s, p) \notin High THEN Means(Encoded(Unit(s, p)), 6)
           ELSE IF IsUnit(s, p) /\ IsUnit(s, p + 6) /\ Unit(s, p + 6) \in Low
           THEN Means(Encoded(65536 + (Unit(s, p) - 55296) * 1024 + (Unit(s, p + 6) - 56320)), 12)
           ELSE Means(Bad, 0)
<1>1. 117 \notin DOMAIN Simple
  BY DEF Simple
<1>2. Ch(s, p) = Backslash /\ Ch(s, p + 1) \notin DOMAIN Simple
  BY <1>1
<1> QED BY <1>2 DEF Piece

(* The case 'u'.                                                           *)
LEMMA WriteUnicodeTells ==
  ASSUME TInv, Decoding, status = "None", Same, ptr + 1 < End,
         At(ptr) = Backslash, At(ptr + 1) = 117, WriteUnicode(ptr + 1)
  PROVE  Truth'
<1> DEFINE p   == ptr + 1
           q   == p + 4
           cp  == DecodeUnicodeHex(p + 1)
           cp2 == DecodeUnicodeHex(q + 3)
<1>1. /\ ptr \in Nat /\ End \in Nat /\ End = Len(src) /\ Block(src)
      /\ ptr < Len(src) /\ ptr + 1 < End
  <2>1. End \in Nat
    BY Widths DEF TInv
  <2>2. ptr \in Nat /\ Block(src)
    BY DEF TInv, IInv, Typed
  <2>3. ptr < End /\ ptr + 1 < End
    BY <2>1, <2>2
  <2> QED BY <2>1, <2>2, <2>3 DEF End
<1>2. Ch(src, ptr) = Backslash /\ Ch(src, ptr + 1) = 117
  <2>1. ptr + 1 < End /\ ptr < End
    BY <1>1
  <2> QED BY <2>1 DEF At, Ch
<1>3. /\ p + 1 = ptr + 2 /\ q = ptr + 5 /\ q + 1 = ptr + 6 /\ q + 2 = (ptr + 6) + 1
      /\ q + 3 = (ptr + 6) + 2 /\ q + 7 = ptr + 12 /\ p + 5 = ptr + 6 /\ q + 6 = ptr + 11
  BY <1>1
<1>4. IF IsUnit(src, ptr) THEN cp = Unit(src, ptr) ELSE cp = TooLarge
  BY <1>1, <1>3, UnitDecoded
<1>5. IsUnit(src, ptr) => ptr + 6 <= End /\ Unit(src, ptr) \in Nat /\ Unit(src, ptr) <= 65535
  <2>1. IsUnit(src, ptr) => Unit(src, ptr) \in Nat /\ Unit(src, ptr) <= 65535
    BY <1>1, UnitRange
  <2>2. IsUnit(src, ptr) => ptr + 6 <= End
    BY DEF IsUnit, End
  <2> QED BY <2>1, <2>2
<1>6. TooLarge \notin High /\ TooLarge \notin Low /\ \A n \in Nat : n <= 65535 => n < TooLarge
  BY SMT DEF TooLarge, High, Low
<1>7. IF p + 5 > End THEN Fail
      ELSE IF cp \notin High
      THEN IF cp < TooLarge THEN Write(Utf8(cp), q + 1) ELSE Fail
      ELSE IF PairFits(q) /\ At(q + 1) = Backslash /\ At(q + 2) = 117
      THEN IF cp2 \in Low
           THEN Write(Utf8(65536 + (cp - 55296) * 1024 + (cp2 - 56320)), q + 7)
           ELSE Fail
      ELSE Fail
  BY DEF WriteUnicode
<1> HIDE DEF p, q, cp, cp2
<1>8. Piece(src, ptr) =
        IF IsUnit(src, ptr) /\ Unit(src, ptr) \notin High THEN Means(Encoded(Unit(src, ptr)), 6)
        ELSE IF IsUnit(src, ptr) /\ IsUnit(src, ptr + 6) /\ Unit(src, ptr + 6) \in Low
        THEN Means(Encoded(65536 + (Unit(src, ptr) - 55296) * 1024
                             + (Unit(src, ptr + 6) - 56320)), 12)
        ELSE Means(Bad, 0)
  BY <1>2, UnitPiece
<1>9. ASSUME Fail, Piece(src, ptr) = Means(Bad, 0) PROVE Truth'
  <2>1. Meanings(src)[ptr] = Bad
    BY <1>1, <1>9, PieceMeans
  <2> QED BY <1>9, <2>1, FailTells
<1>10. ASSUME NEW c \in Nat, c <= 1114111, NEW w \in Nat, w # 0, ptr + w <= End,
              Write(Utf8(c), ptr + w), Piece(src, ptr) = Means(Encoded(c), w)
       PROVE  Truth'
  <2> DEFINE bytes == Utf8(c)
  <2>1. Block(bytes)
    BY Utf8Short
  <2>2. Encoded(c) = bytes
    BY SMT, <1>10, Utf8Encodes
  <2>3. out' = out \o bytes /\ ptr' = ptr + w /\ UNCHANGED status
    BY <1>10 DEF Write
  <2>4. ptr + w \in 0..End
    BY <1>1, <1>10
  <2> HIDE DEF bytes
  <2>5. Meanings(src)[ptr] = Before(bytes, Meanings(src)[ptr + w])
    BY <1>1, <1>10, <2>2, PieceMeans
  <2> QED BY <2>1, <2>3, <2>4, <2>5, WriteTells
<1>11. CASE ~IsUnit(src, ptr)
  <2>1. cp = TooLarge
    BY <1>4, <1>11
  <2>2. cp \notin High /\ ~(cp < TooLarge)
    <3>1. ~(TooLarge < TooLarge)
      BY SMT DEF TooLarge
    <3> QED BY <1>6, <2>1, <3>1
  <2>3. Fail
    BY <1>7, <2>2
  <2>4. Piece(src, ptr) = Means(Bad, 0)
    BY <1>8, <1>11
  <2> QED BY <1>9, <2>3, <2>4
<1>12. CASE IsUnit(src, ptr) /\ cp \notin High
  <2>1. cp = Unit(src, ptr) /\ cp \in Nat /\ cp <= 65535 /\ ptr + 6 <= End
    BY <1>4, <1>5, <1>12
  <2>2. cp < TooLarge /\ ~(p + 5 > End)
    BY <1>1, <1>3, <1>6, <2>1
  <2>3. Write(Utf8(cp), ptr + 6)
    BY <1>3, <1>7, <1>12, <2>2
  <2>4. Piece(src, ptr) = Means(Encoded(cp), 6)
    BY <1>8, <1>12, <2>1
  <2>5. cp <= 1114111
    BY SMT, <2>1
  <2>6. 6 \in Nat /\ 6 # 0
    BY SMT
  <2> QED BY <1>10, <2>1, <2>3, <2>4, <2>5, <2>6
<1>13. CASE IsUnit(src, ptr) /\ cp \in High
  <2>1. cp = Unit(src, ptr) /\ ptr + 6 <= End /\ ~(p + 5 > End)
    BY <1>1, <1>3, <1>4, <1>5, <1>13
  <2> DEFINE pair == PairFits(q) /\ At(q + 1) = Backslash /\ At(q + 2) = 117
  <2>2. CASE pair
    <3>1. (ptr + 6) + 1 < End /\ ptr + 6 \in Nat
      BY <1>1, <1>3, <2>2 DEF PairFits
    <3>2. At(ptr + 6) = Backslash /\ At((ptr + 6) + 1) = 117
      BY <1>3, <2>2
    <3>3. IF IsUnit(src, ptr + 6) THEN cp2 = Unit(src, ptr + 6) ELSE cp2 = TooLarge
      <4>1. IF IsUnit(src, ptr + 6) THEN DecodeUnicodeHex((ptr + 6) + 2) = Unit(src, ptr + 6)
            ELSE DecodeUnicodeHex((ptr + 6) + 2) = TooLarge
        BY <1>1, <3>1, <3>2, UnitDecoded
      <4>2. cp2 = DecodeUnicodeHex((ptr + 6) + 2)
        BY <1>3 DEF cp2
      <4> QED BY <4>1, <4>2
    <3>4. CASE cp2 \in Low
      <4>1. IsUnit(src, ptr + 6) /\ cp2 = Unit(src, ptr + 6)
        BY <1>6, <3>3, <3>4
      <4>2. ptr + 12 <= End
        <5>1. (ptr + 6) + 6 <= End
          BY <4>1 DEF IsUnit, End
        <5> QED BY <1>1, <5>1
      <4> DEFINE c == 65536 + (cp - 55296) * 1024 + (cp2 - 56320)
      <4>3. c \in Nat /\ c <= 1114111
        BY SMT, <1>13, <3>4, PairRange
      <4>4. Write(Utf8(c), ptr + 12)
        BY <1>3, <1>7, <1>13, <2>1, <2>2, <3>4
      <4>5. Piece(src, ptr) = Means(Encoded(c), 12)
        BY <1>8, <1>13, <2>1, <3>4, <4>1
      <4>6. 12 \in Nat /\ 12 # 0
        BY SMT
      <4> HIDE DEF c
      <4> QED BY <1>10, <4>2, <4>3, <4>4, <4>5, <4>6
    <3>5. CASE cp2 \notin Low
      <4>1. Fail
        BY <1>7, <1>13, <2>1, <2>2, <3>5
      <4>2. ~(IsUnit(src, ptr + 6) /\ Unit(src, ptr + 6) \in Low)
        BY <3>3, <3>5
      <4>3. Piece(src, ptr) = Means(Bad, 0)
        BY <1>8, <1>13, <2>1, <4>2
      <4> QED BY <1>9, <4>1, <4>3
    <3> QED BY <3>4, <3>5
  <2>3. CASE ~pair
    <3>1. Fail
      BY <1>7, <1>13, <2>1, <2>3
    <3>2. ~IsUnit(src, ptr + 6)
      <4> SUFFICES ASSUME IsUnit(src, ptr + 6) PROVE pair
        BY <2>3
      <4>1. /\ (ptr + 6) + 6 <= End /\ Ch(src, ptr + 6) = Backslash
            /\ Ch(src, (ptr + 6) + 1) = 117
        BY DEF IsUnit, End
      <4>2. (ptr + 6) + 1 < End /\ ptr + 6 < End /\ (ptr + 5) + 6 <= End
        BY <1>1, <4>1
      <4>3. At(ptr + 6) = Backslash /\ At((ptr + 6) + 1) = 117
        BY <4>1, <4>2 DEF At, Ch
      <4> QED BY <1>3, <4>2, <4>3 DEF PairFits
    <3>3. Piece(src, ptr) = Means(Bad, 0)
      BY <1>8, <1>13, <2>1, <3>2
    <3> QED BY <1>9, <3>1, <3>3
  <2> QED BY <2>2, <2>3
<1> QED BY <1>11, <1>12, <1>13

(* One escape.                                                             *)
LEMMA DecodeEscapeTells == TInv /\ DecodeEscape => Truth'
<1> SUFFICES ASSUME TInv, DecodeEscape PROVE Truth'
  OBVIOUS
<1> DEFINE p == ptr + 1
<1>1. /\ Decoding /\ Block(src) /\ ptr \in Nat /\ ptr < End /\ End \in Nat /\ End = Len(src)
      /\ status = "None" /\ Same /\ At(ptr) = Backslash
  BY CharacterBeforeEnd DEF DecodeEscape, TInv, Alive, AtCharacter, End
<1>2. Ch(src, ptr) = Backslash /\ (p < End => Ch(src, p) = At(p))
  BY <1>1 DEF At, Ch
<1>3. CASE p < End /\ At(p) = 117 /\ WriteUnicode(p)
  BY <1>1, <1>3, WriteUnicodeTells
<1>4. 117 \notin DOMAIN Simple
  BY DEF Simple
<1>5. CASE p < End /\ At(p) \in DOMAIN Simple /\ Write(<<Simple[At(p)]>>, p + 1)
  <2> DEFINE bytes == <<Simple[At(p)]>>
  <2>1. Piece(src, ptr) = Means(bytes, 2)
    BY <1>1, <1>2, <1>4, <1>5, SimplePiece
  <2>2. Block(bytes)
    BY <1>5, SimpleByte
  <2>3. out' = out \o bytes /\ ptr' = ptr + 2 /\ UNCHANGED status
    BY <1>1, <1>5 DEF Write
  <2>4. ptr + 2 \in 0..End /\ 2 \in Nat /\ 2 # 0
    BY <1>1, <1>5
  <2> HIDE DEF bytes
  <2>5. Meanings(src)[ptr] = Before(bytes, Meanings(src)[ptr + 2])
    BY <1>1, <2>1, <2>4, PieceMeans
  <2> QED BY <1>1, <2>2, <2>3, <2>4, <2>5, WriteTells
<1>6. CASE p < End /\ At(p) \notin DOMAIN Simple \cup {117} /\ Fail
  <2>1. Piece(src, ptr) = Means(Bad, 0)
    BY <1>1, <1>2, <1>6, SimplePiece
  <2>2. Meanings(src)[ptr] = Bad
    BY <1>1, <2>1, PieceMeans
  <2> QED BY <1>1, <1>6, <2>2, FailTells
<1> QED BY <1>3, <1>5, <1>6 DEF DecodeEscape

(* Where a pass begins, nothing is decoded.                                *)
LEMMA BeginsTrue ==
  ASSUME NEW s, Block(s)
  PROVE  Meaning(s) = Before(<<>>, Meanings(s)[0])
<1>1. 0 \in 0..Len(s)
  BY Lengths
<1>2. IsMeaning(Meanings(s)[0])
  BY <1>1, MeaningsTyped
<1> QED BY <1>2, Empty, BeforeIs DEF Meaning

(* The decoding engines tell the truth at every step.                      *)
LEMMA TruthKeeps == TInv /\ [Next]_vars => TInv'
<1> SUFFICES ASSUME TInv, [Next]_vars PROVE TInv'
  OBVIOUS
<1>1. IInv'
  BY NextKeeps DEF TInv
<1>2. Alive'
  <2>1. End \in Nat /\ ptr \in Nat /\ ptr <= End
    BY Widths DEF TInv, IInv, Typed
  <2>2. Alive
    BY DEF TInv
  <2>3. CASE SwarCopyBlock \/ Avx2CopyBlock \/ CopyByte
    BY <2>2, <2>3 DEF SwarCopyBlock, Avx2CopyBlock, CopyByte, AtCharacter, CopyBlock, Write, Alive
  <2>4. CASE DecodeEscape
    <3>1. status = "None"
      BY <2>2, <2>4 DEF DecodeEscape, AtCharacter, Alive
    <3>2. (pc' = "scan" /\ UNCHANGED status) \/ Fail
      BY <2>4 DEF DecodeEscape, WriteUnicode, Write
    <3> QED BY <3>1, <3>2 DEF Alive, Fail
  <2>5. CASE EndDecode
    <3>1. round = "decode" => pc' = "scan" /\ status' = "None"
      BY <2>2, <2>5 DEF EndDecode, Alive
    <3>2. round # "decode" => /\ pc' = "done" /\ status' = "None" /\ round' = round
                              /\ round = "read back" /\ ptr' = End'
      <4> SUFFICES ASSUME round # "decode"
                   PROVE  /\ pc' = "done" /\ status' = "None" /\ round' = round
                          /\ round = "read back" /\ ptr' = End'
        OBVIOUS
      <4>1. /\ pc' = "done" /\ status' = status /\ status = "None"
            /\ UNCHANGED <<round, src, ptr>> /\ ptr >= End /\ round # "escape"
        BY <2>2, <2>5 DEF EndDecode, Alive, Decoding
      <4>2. ptr = End /\ End' = End
        BY <2>1, <4>1 DEF End
      <4>3. round = "read back"
        BY <4>1 DEF TInv, IInv, Typed
      <4> QED BY <4>1, <4>2, <4>3
    <3> QED BY <3>1, <3>2 DEF Alive
  <2>6. CASE Escape
    BY <2>2, <2>6
       DEF Escape, EscapeBlock, EscapeTail, WriteEscape, EndEscape, Alive, Same
  <2>7. CASE UNCHANGED vars
    BY <2>2, <2>7 DEF vars, Alive, End
  <2> QED BY <2>3, <2>4, <2>5, <2>6, <2>7 DEF Next, Decode, Done
<1>3. Truth'
  <2>1. CASE SwarCopyBlock \/ Avx2CopyBlock \/ CopyByte \/ DecodeEscape
    BY <2>1, BlocksTell, CopyByteTells, DecodeEscapeTells
  <2>2. CASE EndDecode
    <3>1. CASE round = "decode"
      BY <2>2, <3>1 DEF EndDecode, Truth, Decoding
    <3>2. CASE round # "decode"
      BY <2>2, <3>2 DEF EndDecode, Truth, Decoding, TInv
    <3> QED BY <3>1, <3>2
  <2>3. CASE EscapeBlock \/ EscapeTail \/ WriteEscape
    BY <2>3 DEF EscapeBlock, EscapeTail, WriteEscape, Same, Escaping, Truth, Decoding
  <2>4. CASE EndEscape
    <3>1. out' = <<>> /\ ptr' = 0 /\ status' = "None"
      BY <2>4 DEF EndEscape, TInv, Alive
    <3>2. Block(src')
      BY <1>1 DEF IInv, Typed
    <3>3. Meaning(src') = Before(<<>>, Meanings(src')[0])
      BY <3>2, BeginsTrue
    <3> QED BY <3>1, <3>3 DEF Truth
  <2>5. CASE UNCHANGED vars
    BY <2>5 DEF vars, Truth, Decoding, TInv
  <2> QED BY <2>1, <2>2, <2>3, <2>4, <2>5 DEF Next, Decode, Escape, Done
<1> QED BY <1>1, <1>2, <1>3 DEF TInv

(* Before the first step.                                                  *)
LEMMA TruthBegins == Init => TInv
<1> SUFFICES ASSUME Init PROVE TInv
  OBVIOUS
<1>1. IInv
  BY InitHolds
<1>2. Meaning(src) = Before(<<>>, Meanings(src)[0])
  BY <1>1, BeginsTrue DEF IInv, Typed
<1>3. out = <<>> /\ ptr = 0 /\ status = "None" /\ pc = "scan"
  BY DEF Init
<1>4. Truth /\ Alive
  BY <1>2, <1>3 DEF Truth, Alive
<1> QED BY <1>1, <1>4 DEF TInv

(* For every body, both engines and blocks of any width: the decoded text  *)
(* is what the body means, escape by escape, and the pass fails only on a  *)
(* body that means nothing (unescapeString of both engines).               *)
THEOREM DecodingTrue == Spec => []DecodesTruly
<1>1. Spec => []TInv
  BY TruthBegins, TruthKeeps, PTL DEF Spec
<1>2. TInv => DecodesTruly
  <2> SUFFICES ASSUME TInv, Decoding
               PROVE  /\ pc = "scan" /\ ptr = End => out = Meaning(src)
                      /\ status # "None" => Meaning(src) = Bad
    BY DEF DecodesTruly
  <2>1. status # "None" => Meaning(src) = Bad
    BY DEF TInv, Truth
  <2>2. ASSUME pc = "scan", ptr = End PROVE out = Meaning(src)
    <3>1. Meaning(src) = Before(out, Meanings(src)[End])
      BY <2>2 DEF TInv, Truth, Alive
    <3>2. Block(src) /\ Block(out)
      BY DEF TInv, IInv, Typed
    <3>3. Meanings(src)[End] = <<>>
      BY <3>2, MeaningsAt DEF End
    <3>4. Before(out, <<>>) = out
      BY <3>2, Empty, BeforeIs DEF IsMeaning
    <3> QED BY <3>1, <3>3, <3>4
  <2> QED BY <2>1, <2>2
<1> QED BY <1>1, <1>2, PTL

-----------------------------------------------------------------------------
(* The meaning of texts put together.                                      *)

(* The bytes of two texts put together.                                    *)
LEMMA ChJoined ==
  ASSUME NEW s, Block(s), NEW t, Block(t)
  PROVE  /\ \A p \in Nat : p < Len(s) => Ch(s \o t, p) = Ch(s, p)
         /\ \A p \in Nat : p < Len(t) => Ch(s \o t, Len(s) + p) = Ch(t, p)
<1>1. Len(s) \in Nat /\ Len(t) \in Nat
  BY Lengths
<1>2. \A i \in 1..(Len(s) + Len(t)) :
        (s \o t)[i] = IF i <= Len(s) THEN s[i] ELSE t[i - Len(s)]
  BY ConcatProperties DEF Block
<1>3. ASSUME NEW p \in Nat, p < Len(s) PROVE Ch(s \o t, p) = Ch(s, p)
  <2>1. p + 1 \in 1..(Len(s) + Len(t)) /\ p + 1 <= Len(s)
    BY <1>1, <1>3
  <2> QED BY <1>2, <2>1 DEF Ch
<1>4. ASSUME NEW p \in Nat, p < Len(t) PROVE Ch(s \o t, Len(s) + p) = Ch(t, p)
  <2> DEFINE i == (Len(s) + p) + 1
  <2>1. i \in 1..(Len(s) + Len(t)) /\ ~(i <= Len(s)) /\ i - Len(s) = p + 1
    BY <1>1, <1>4
  <2> HIDE DEF i
  <2>2. (s \o t)[i] = t[i - Len(s)]
    BY <1>2, <2>1
  <2> QED BY <2>1, <2>2 DEF Ch, i
<1> QED BY <1>3, <1>4

(* A unit of the second text.                                              *)
LEMMA UnitShifts ==
  ASSUME NEW s, Block(s), NEW t, Block(t), NEW p \in Nat
  PROVE  /\ IsUnit(s \o t, Len(s) + p) <=> IsUnit(t, p)
         /\ IsUnit(t, p) => Unit(s \o t, Len(s) + p) = Unit(t, p)
<1> DEFINE st == s \o t
           o  == Len(s) + p
<1>1. o \in Nat /\ Len(s) \in Nat /\ Len(t) \in Nat /\ Len(st) = Len(s) + Len(t)
  BY Lengths, Joined
<1>2. ASSUME p + 6 <= Len(t), NEW i \in 0..5 PROVE Ch(st, o + i) = Ch(t, p + i)
  <2>1. p + i \in Nat /\ p + i < Len(t) /\ Len(s) + (p + i) = o + i
    BY <1>1, <1>2
  <2>2. Ch(st, Len(s) + (p + i)) = Ch(t, p + i)
    BY <2>1, ChJoined
  <2> QED BY <2>1, <2>2
<1>3. o + 6 <= Len(st) <=> p + 6 <= Len(t)
  BY <1>1
<1> HIDE DEF st, o
<1>4. CASE p + 6 <= Len(t)
  <2>1. Ch(st, o) = Ch(t, p) /\ Ch(st, o + 1) = Ch(t, p + 1)
    <3>1. o + 0 = o /\ p + 0 = p
      BY <1>1
    <3>2. Ch(st, o + 0) = Ch(t, p + 0) /\ Ch(st, o + 1) = Ch(t, p + 1)
      BY <1>2, <1>4
    <3> QED BY <3>1, <3>2
  <2>2. \A i \in 2..5 : Ch(st, o + i) = Ch(t, p + i)
    BY <1>2, <1>4
  <2>3. /\ Ch(st, o + 2) = Ch(t, p + 2) /\ Ch(st, o + 3) = Ch(t, p + 3)
        /\ Ch(st, o + 4) = Ch(t, p + 4) /\ Ch(st, o + 5) = Ch(t, p + 5)
    BY <2>2
  <2>4. IsUnit(st, o) <=> IsUnit(t, p)
    BY <1>3, <1>4, <2>1, <2>2 DEF IsUnit
  <2>5. Unit(st, o) = Unit(t, p)
    BY <2>3 DEF Unit
  <2> QED BY <2>4, <2>5 DEF st, o
<1>5. CASE ~(p + 6 <= Len(t))
  <2>1. ~IsUnit(st, o) /\ ~IsUnit(t, p)
    BY <1>3, <1>5 DEF IsUnit
  <2> QED BY <2>1 DEF st, o
<1> QED BY <1>4, <1>5

(* A piece of the second text.                                             *)
LEMMA PieceShifts ==
  ASSUME NEW s, Block(s), NEW t, Block(t), NEW p \in Nat, p < Len(t)
  PROVE  Piece(s \o t, Len(s) + p) = Piece(t, p)
<1> DEFINE st == s \o t
           o  == Len(s) + p
<1>1. o \in Nat /\ Len(s) \in Nat /\ Len(t) \in Nat /\ Len(st) = Len(s) + Len(t)
  BY Lengths, Joined
<1>2. Ch(st, o) = Ch(t, p)
  BY ChJoined
<1>3. o + 2 <= Len(st) <=> p + 2 <= Len(t)
  BY <1>1
<1>4. p + 2 <= Len(t) => Ch(st, o + 1) = Ch(t, p + 1)
  <2>1. p + 2 <= Len(t) => p + 1 < Len(t) /\ p + 1 \in Nat /\ Len(s) + (p + 1) = o + 1
    BY <1>1
  <2>2. p + 2 <= Len(t) => Ch(st, Len(s) + (p + 1)) = Ch(t, p + 1)
    BY <2>1, ChJoined
  <2> QED BY <2>1, <2>2
<1>5. (IsUnit(st, o) <=> IsUnit(t, p)) /\ (IsUnit(t, p) => Unit(st, o) = Unit(t, p))
  BY UnitShifts
<1>6. /\ IsUnit(st, o + 6) <=> IsUnit(t, p + 6)
      /\ IsUnit(t, p + 6) => Unit(st, o + 6) = Unit(t, p + 6)
  <2>1. p + 6 \in Nat /\ Len(s) + (p + 6) = o + 6
    BY <1>1
  <2>2. /\ IsUnit(st, Len(s) + (p + 6)) <=> IsUnit(t, p + 6)
        /\ IsUnit(t, p + 6) => Unit(st, Len(s) + (p + 6)) = Unit(t, p + 6)
    BY <2>1, UnitShifts
  <2> QED BY <2>1, <2>2
<1> HIDE DEF st, o
<1>7. Piece(st, o) = Piece(t, p)
  BY <1>2, <1>3, <1>4, <1>5, <1>6 DEF Piece
<1> QED BY <1>7 DEF st, o

(* The meaning of the second text does not depend on the first.            *)
LEMMA MeaningShifts ==
  ASSUME NEW s, Block(s), NEW t, Block(t)
  PROVE  \A p \in 0..Len(t) : Meanings(s \o t)[Len(s) + p] = Meanings(t)[p]
<1> DEFINE st == s \o t
           MS == Meanings(st)
           MT == Meanings(t)
           T  == {p \in 0..Len(t) : MS[Len(s) + p] = MT[p]}
<1>1. Block(st) /\ Len(s) \in Nat /\ Len(t) \in Nat /\ Len(st) = Len(s) + Len(t)
  BY Lengths, Joined
<1>2. MS[Len(st)] = <<>> /\ MT[Len(t)] = <<>>
  BY <1>1, MeaningsAt
<1>3. Len(t) \in T
  BY <1>1, <1>2
<1>4. ASSUME NEW p \in 0..(Len(t) - 1), \A q \in (p + 1)..Len(t) : q \in T
      PROVE  p \in T
  <2> DEFINE w == Piece(t, p).width
             b == Piece(t, p).bytes
             o == Len(s) + p
  <2>1. p \in Nat /\ p < Len(t) /\ p \in 0..Len(t) /\ o \in Nat /\ o < Len(st)
    BY <1>1
  <2>2. w \in Nat /\ p + w <= Len(t)
    BY <2>1, PieceWidth
  <2>3. Piece(st, o) = Piece(t, p)
    BY <2>1, PieceShifts
  <2>4. MT[p] = IF w = 0 THEN Bad ELSE Before(b, MT[p + w])
    BY <2>1, MeaningsAt
  <2>5. MS[o] = IF w = 0 THEN Bad ELSE Before(b, MS[o + w])
    <3>1. MS[o] = IF Piece(st, o).width = 0 THEN Bad
                  ELSE Before(Piece(st, o).bytes, MS[o + Piece(st, o).width])
      BY <1>1, <2>1, MeaningsAt
    <3> QED BY <2>3, <3>1
  <2>6. w # 0 => p + w \in T /\ Len(s) + (p + w) = o + w
    <3>1. w # 0 => p + w \in (p + 1)..Len(t)
      BY <1>1, <2>1, <2>2
    <3> QED BY <1>1, <1>4, <2>1, <2>2, <3>1
  <2>7. w # 0 => MS[o + w] = MT[p + w]
    BY <2>6
  <2> HIDE DEF w, b, MS, MT
  <2>8. MS[o] = MT[p]
    BY <2>4, <2>5, <2>7
  <2> QED BY <2>1, <2>8
<1> HIDE DEF T
<1>5. \A p \in 0..Len(t) : p \in T
  BY <1>1, <1>3, <1>4, InductDown
<1> QED BY <1>5 DEF T

(* A piece of the first text that means something is not cut off by its    *)
(* end.                                                                    *)
LEMMA PieceStays ==
  ASSUME NEW s, Block(s), NEW t, Block(t), NEW p \in Nat, p < Len(s),
         Piece(s, p).width # 0
  PROVE  Piece(s \o t, p) = Piece(s, p)
<1> DEFINE st == s \o t
<1>1. Len(s) \in Nat /\ Len(t) \in Nat /\ Len(st) = Len(s) + Len(t)
  BY Lengths, Joined
<1>2. ASSUME NEW q \in Nat, q < Len(s) PROVE Ch(st, q) = Ch(s, q)
  BY <1>2, ChJoined
<1>3. ASSUME NEW q \in Nat, q + 6 <= Len(s)
      PROVE  (IsUnit(st, q) <=> IsUnit(s, q)) /\ Unit(st, q) = Unit(s, q)
  <2>1. \A i \in 0..5 : q + i \in Nat /\ q + i < Len(s)
    BY <1>1, <1>3
  <2>2. \A i \in 0..5 : Ch(st, q + i) = Ch(s, q + i)
    BY <1>2, <2>1
  <2>3. q \in Nat /\ q < Len(s) /\ Ch(st, q) = Ch(s, q)
    BY <1>1, <1>2, <1>3
  <2>4. q + 6 <= Len(st)
    BY <1>1, <1>3
  <2> HIDE DEF st
  <2>5. /\ Ch(st, q + 1) = Ch(s, q + 1) /\ Ch(st, q + 2) = Ch(s, q + 2)
        /\ Ch(st, q + 3) = Ch(s, q + 3) /\ Ch(st, q + 4) = Ch(s, q + 4)
        /\ Ch(st, q + 5) = Ch(s, q + 5)
    BY <2>2
  <2>6. \A i \in 2..5 : Ch(st, q + i) = Ch(s, q + i)
    BY <2>2
  <2>7. IsUnit(st, q) <=> IsUnit(s, q)
    BY <1>3, <2>3, <2>4, <2>5, <2>6 DEF IsUnit
  <2>8. Unit(st, q) = Unit(s, q)
    BY <2>5 DEF Unit
  <2> QED BY <2>7, <2>8
<1>4. Ch(st, p) = Ch(s, p)
  BY <1>2
<1>5. \A b, w : Means(b, w).width = w
  BY DEF Means
<1>6. CASE Ch(s, p) # Backslash
  BY <1>4, <1>6 DEF Piece
<1>7. CASE Ch(s, p) = Backslash /\ IsUnit(s, p) /\ Unit(s, p) \notin High
  <2>1. p + 6 <= Len(s)
    BY <1>7 DEF IsUnit
  <2>2. IsUnit(st, p) /\ Unit(st, p) = Unit(s, p)
    BY <1>3, <1>7, <2>1
  <2> HIDE DEF st
  <2>3. Piece(st, p) = Piece(s, p)
    BY <1>4, <1>7, <2>2 DEF Piece
  <2> QED BY <2>3 DEF st
<1>8. CASE /\ Ch(s, p) = Backslash /\ IsUnit(s, p) /\ Unit(s, p) \in High
           /\ IsUnit(s, p + 6) /\ Unit(s, p + 6) \in Low
  <2>1. p + 6 \in Nat /\ p + 6 <= Len(s) /\ (p + 6) + 6 <= Len(s)
    BY <1>1, <1>8 DEF IsUnit
  <2>2. /\ IsUnit(st, p) /\ Unit(st, p) = Unit(s, p)
        /\ IsUnit(st, p + 6) /\ Unit(st, p + 6) = Unit(s, p + 6)
    BY <1>3, <1>8, <2>1
  <2> HIDE DEF st
  <2>3. Piece(st, p) = Piece(s, p)
    BY <1>4, <1>8, <2>2 DEF Piece
  <2> QED BY <2>3 DEF st
<1>9. CASE /\ Ch(s, p) = Backslash /\ ~(IsUnit(s, p) /\ Unit(s, p) \notin High)
           /\ ~(IsUnit(s, p) /\ IsUnit(s, p + 6) /\ Unit(s, p + 6) \in Low)
  <2>1. Piece(s, p) = IF p + 2 <= Len(s) /\ Ch(s, p + 1) \in DOMAIN Simple
                      THEN Means(<<Simple[Ch(s, p + 1)]>>, 2) ELSE Means(Bad, 0)
    BY <1>9 DEF Piece
  <2>2. p + 2 <= Len(s) /\ Ch(s, p + 1) \in DOMAIN Simple
    BY <1>5, <2>1
  <2>3. p + 1 \in Nat /\ p + 1 < Len(s) /\ p + 2 <= Len(st)
    BY <1>1, <2>2
  <2>4. Ch(st, p + 1) = Ch(s, p + 1)
    BY <1>2, <2>3
  <2>5. 117 \notin DOMAIN Simple
    BY DEF Simple
  <2>6. ~IsUnit(st, p)
    BY <2>2, <2>4, <2>5 DEF IsUnit
  <2> HIDE DEF st
  <2>7. Piece(st, p) = Piece(s, p)
    BY <1>4, <1>9, <2>1, <2>2, <2>3, <2>4, <2>6 DEF Piece
  <2> QED BY <2>7 DEF st
<1> QED BY <1>6, <1>7, <1>8, <1>9

(* The meaning of a text that means something and another after it.        *)
LEMMA MeaningJoins ==
  ASSUME NEW s, Block(s), NEW t, Block(t), Meaning(s) # Bad
  PROVE  Meaning(s \o t) = Before(Meaning(s), Meaning(t))
<1> DEFINE st == s \o t
           MJ == Meanings(st)
           MS == Meanings(s)
           MT == Meanings(t)
           T  == {p \in 0..Len(s) : MS[p] # Bad => MJ[p] = Before(MS[p], MT[0])}
<1>1. Block(st) /\ Len(s) \in Nat /\ Len(t) \in Nat /\ Len(st) = Len(s) + Len(t)
  BY Lengths, Joined
<1>2. IsMeaning(MT[0]) /\ \A p \in 0..Len(s) : IsMeaning(MS[p])
  <2>1. 0 \in 0..Len(t)
    BY <1>1
  <2> QED BY <2>1, MeaningsTyped
<1>3. Len(s) \in T
  <2>1. MS[Len(s)] = <<>>
    BY MeaningsAt
  <2>2. 0 \in 0..Len(t) /\ Len(s) + 0 = Len(s)
    BY <1>1
  <2>3. MJ[Len(s) + 0] = MT[0]
    BY <2>2, MeaningShifts
  <2>4. Before(<<>>, MT[0]) = MT[0]
    BY <1>2, Empty, BeforeIs
  <2> HIDE DEF MS, MT, MJ
  <2>5. MJ[Len(s)] = Before(MS[Len(s)], MT[0])
    BY <2>1, <2>2, <2>3, <2>4
  <2> QED BY <1>1, <2>5
<1>4. ASSUME NEW p \in 0..(Len(s) - 1), \A q \in (p + 1)..Len(s) : q \in T
      PROVE  p \in T
  <2> DEFINE w == Piece(s, p).width
             b == Piece(s, p).bytes
  <2>1. p \in Nat /\ p < Len(s) /\ p \in 0..Len(s) /\ p < Len(st)
    BY <1>1
  <2> SUFFICES ASSUME MS[p] # Bad PROVE MJ[p] = Before(MS[p], MT[0])
    BY <2>1
  <2>2. MS[p] = IF w = 0 THEN Bad ELSE Before(b, MS[p + w])
    BY <2>1, MeaningsAt
  <2>3. w # 0 /\ w \in Nat /\ p + w <= Len(s) /\ Block(b)
    BY <2>1, <2>2, PieceWidth, PieceBytes
  <2>4. Piece(st, p) = Piece(s, p)
    BY <2>1, <2>3, PieceStays
  <2>5. MJ[p] = Before(b, MJ[p + w])
    <3>1. MJ[p] = IF Piece(st, p).width = 0 THEN Bad
                  ELSE Before(Piece(st, p).bytes, MJ[p + Piece(st, p).width])
      BY <1>1, <2>1, MeaningsAt
    <3> HIDE DEF MJ
    <3> QED BY <2>3, <2>4, <3>1
  <2>6. p + w \in (p + 1)..Len(s) /\ p + w \in 0..Len(s)
    BY <1>1, <2>1, <2>3
  <2>7. IsMeaning(MS[p + w]) /\ p + w \in T
    BY <1>2, <1>4, <2>6
  <2>8. MS[p + w] # Bad
    BY <2>2, <2>3, <2>7, BeforeIs
  <2>9. MJ[p + w] = Before(MS[p + w], MT[0])
    BY <2>7, <2>8
  <2> HIDE DEF w, b, MS, MT, MJ
  <2>10. Block(MS[p + w]) /\ b \o MS[p + w] = MS[p]
    BY <2>2, <2>3, <2>7, <2>8 DEF IsMeaning, Before
  <2>11. Before(b, Before(MS[p + w], MT[0])) = Before(b \o MS[p + w], MT[0])
    <3> DEFINE rest == MS[p + w]
               last == MT[0]
    <3>1. Block(b) /\ Block(rest) /\ IsMeaning(last)
      BY <1>2, <2>3, <2>10
    <3> HIDE DEF rest, last
    <3>2. Before(b, Before(rest, last)) = Before(b \o rest, last)
      BY <3>1, BeforeTwice
    <3> QED BY <3>2 DEF rest, last
  <2> QED BY <2>5, <2>9, <2>10, <2>11
<1> HIDE DEF T
<1>5. \A p \in 0..Len(s) : p \in T
  BY <1>1, <1>3, <1>4, InductDown
<1>6. 0 \in T
  BY <1>1, <1>5
<1> QED BY <1>6 DEF T, Meaning

-----------------------------------------------------------------------------
(* Bodies of strings.                                                      *)

(* No byte of the text ends a string, and its last escape is complete.     *)
Clean(s) ==
  /\ ~Escaped(s, 0, Len(s))
  /\ \A q \in 0..(Len(s) - 1) : Ch(s, q) = 34 \/ Ch(s, q) < 32 => Escaped(s, 0, q)

(* Such a text is what the lexer takes for the body of one string.         *)
LEMMA CleanIsBody ==
  ASSUME NEW s, Block(s), Clean(s)
  PROVE  Body(s)
<1> DEFINE t == Append(s, Quote)
<1>1. Len(s) \in Nat /\ Quote = 34 /\ Quote \in Byte
  BY Lengths DEF Quote, Byte
<1>2. /\ Len(t) = Len(s) + 1 /\ Ch(t, Len(s)) = 34
      /\ \A q \in 0..(Len(s) - 1) : Ch(t, q) = Ch(s, q)
  <2>1. /\ Len(t) = Len(s) + 1
        /\ \A i \in 1..Len(s) : t[i] = s[i]
        /\ t[Len(s) + 1] = Quote
    BY <1>1, AppendProperties DEF Block
  <2>2. \A q \in 0..(Len(s) - 1) : q + 1 \in 1..Len(s)
    BY <1>1
  <2> QED BY <1>1, <2>1, <2>2 DEF Ch
<1> HIDE DEF t
<1>3. \A q \in 0..Len(s) : Escaped(t, 0, q) <=> Escaped(s, 0, q)
  <2> SUFFICES ASSUME NEW q \in 0..Len(s) PROVE Escaped(t, 0, q) <=> Escaped(s, 0, q)
    OBVIOUS
  <2>1. q \in Nat /\ \A j \in 0..(q - 1) : Ch(t, j) = Ch(s, j)
    BY <1>1, <1>2
  <2> QED BY <2>1, EscapedAlike
<1>4. ~Escaped(t, 0, Len(s))
  BY <1>1, <1>3 DEF Clean
<1>5. \A q \in 0..(Len(s) - 1) : Ch(t, q) = 34 \/ Ch(t, q) < 32 => Escaped(t, 0, q)
  <2>1. \A q \in 0..(Len(s) - 1) : q \in 0..Len(s)
    BY <1>1
  <2> QED BY <1>2, <1>3, <2>1 DEF Clean
<1>6. IsString(t, 0, Len(s))
  BY <1>1, <1>2, <1>4, <1>5 DEF IsString
<1> QED BY <1>6 DEF Body, Block, t

(* A second body behind a first.                                           *)
LEMMA CleanJoins ==
  ASSUME NEW s, Block(s), NEW t, Block(t), Clean(s), Clean(t)
  PROVE  Clean(s \o t)
<1> DEFINE st == s \o t
           n  == Len(s)
           S  == {k \in Nat : k <= Len(t) => (Escaped(st, 0, n + k) <=> Escaped(t, 0, k))}
<1>1. n \in Nat /\ Len(t) \in Nat /\ Len(st) = n + Len(t)
  BY Lengths, Joined
<1>2. \A p \in Nat : p < n => Ch(st, p) = Ch(s, p)
  BY ChJoined
<1>3. \A p \in Nat : p < Len(t) => Ch(st, n + p) = Ch(t, p)
  BY ChJoined
<1>4. \A q \in 0..n : Escaped(st, 0, q) <=> Escaped(s, 0, q)
  <2> SUFFICES ASSUME NEW q \in 0..n PROVE Escaped(st, 0, q) <=> Escaped(s, 0, q)
    OBVIOUS
  <2>1. q \in Nat /\ \A j \in 0..(q - 1) : Ch(st, j) = Ch(s, j)
    BY <1>1, <1>2
  <2> HIDE DEF st
  <2> QED BY <2>1, EscapedAlike
<1>5. 0 \in S
  <2>1. ~Escaped(st, 0, n)
    BY <1>1, <1>4 DEF Clean
  <2>2. ~Escaped(t, 0, 0)
    BY NoRun
  <2>3. n + 0 = n
    BY <1>1
  <2> QED BY <2>1, <2>2, <2>3
<1>6. ASSUME NEW k \in S PROVE k + 1 \in S
  <2> SUFFICES ASSUME k + 1 <= Len(t)
               PROVE  Escaped(st, 0, n + (k + 1)) <=> Escaped(t, 0, k + 1)
    OBVIOUS
  <2>1. k \in Nat /\ k <= Len(t) /\ k < Len(t) /\ n + k \in Nat /\ (n + k) + 1 = n + (k + 1)
    BY <1>1
  <2>2. Escaped(st, 0, n + k) <=> Escaped(t, 0, k)
    BY <2>1
  <2>3. Ch(st, n + k) = Ch(t, k)
    BY <1>3, <2>1
  <2> HIDE DEF st, n
  <2>4. Escaped(st, 0, (n + k) + 1) <=> Ch(st, n + k) = 92 /\ ~Escaped(st, 0, n + k)
    BY <2>1, EscapedNext
  <2>5. Escaped(t, 0, k + 1) <=> Ch(t, k) = 92 /\ ~Escaped(t, 0, k)
    BY <2>1, EscapedNext
  <2> QED BY <2>1, <2>2, <2>3, <2>4, <2>5
<1>7. \A k \in 0..Len(t) : Escaped(st, 0, n + k) <=> Escaped(t, 0, k)
  <2>1. S \in SUBSET Nat
    OBVIOUS
  <2> HIDE DEF S
  <2>2. S = Nat
    BY <1>5, <1>6, <2>1, Induct
  <2>3. \A k \in 0..Len(t) : k \in S /\ k <= Len(t)
    BY <1>1, <2>2
  <2> QED BY <2>3 DEF S
<1>8. ~Escaped(st, 0, Len(st))
  <2>1. Len(t) \in 0..Len(t)
    BY <1>1
  <2>2. Escaped(st, 0, n + Len(t)) <=> Escaped(t, 0, Len(t))
    BY <1>7, <2>1
  <2> QED BY <1>1, <2>2 DEF Clean
<1>9. ASSUME NEW q \in 0..(Len(st) - 1), Ch(st, q) = 34 \/ Ch(st, q) < 32
      PROVE  Escaped(st, 0, q)
  <2>1. CASE q < n
    <3>1. q \in Nat /\ q \in 0..(n - 1) /\ q \in 0..n
      BY <1>1, <2>1
    <3>2. Ch(s, q) = 34 \/ Ch(s, q) < 32
      BY <1>2, <1>9, <2>1, <3>1
    <3>3. Escaped(s, 0, q)
      BY <3>1, <3>2 DEF Clean
    <3> QED BY <1>4, <3>1, <3>3
  <2>2. CASE ~(q < n)
    <3> DEFINE k == q - n
    <3>1. k \in Nat /\ k < Len(t) /\ k \in 0..(Len(t) - 1) /\ k \in 0..Len(t) /\ n + k = q
      BY <1>1, <2>2
    <3> HIDE DEF k
    <3>2. Ch(t, k) = 34 \/ Ch(t, k) < 32
      BY <1>3, <1>9, <3>1
    <3>3. Escaped(t, 0, k)
      BY <3>1, <3>2 DEF Clean
    <3> QED BY <1>7, <3>1, <3>3
  <2> QED BY <2>1, <2>2
<1> QED BY <1>8, <1>9 DEF Clean

(* Bytes that need no escape are a body that means itself.                 *)
LEMMA PlainBody ==
  ASSUME NEW s, Block(s), \A q \in 0..(Len(s) - 1) : Ch(s, q) \notin NeedsEscape
  PROVE  Clean(s) /\ Meaning(s) = s
<1>1. Len(s) \in Nat /\ s \in Seq(Byte)
  BY Lengths DEF Block
<1>2. \A b \in Byte : b \notin NeedsEscape => b # 34 /\ b # 92 /\ ~(b < 32)
  BY DEF NeedsEscape, Quote, Backslash, Byte
<1>3. \A q \in 0..(Len(s) - 1) : Ch(s, q) # 34 /\ Ch(s, q) # 92 /\ ~(Ch(s, q) < 32)
  <2> SUFFICES ASSUME NEW q \in 0..(Len(s) - 1)
               PROVE  Ch(s, q) # 34 /\ Ch(s, q) # 92 /\ ~(Ch(s, q) < 32)
    OBVIOUS
  <2>1. q \in Nat /\ q < Len(s)
    BY <1>1
  <2>2. Ch(s, q) \in Byte
    BY <2>1, ChByte
  <2> QED BY <1>2, <2>2
<1>4. ~Escaped(s, 0, Len(s))
  <2>1. Len(s) = 0 \/ Len(s) - 1 \in 0..(Len(s) - 1)
    BY <1>1
  <2>2. Len(s) = 0 \/ Ch(s, Len(s) - 1) # 92
    BY <1>3, <2>1
  <2>3. 0 <= Len(s)
    BY <1>1
  <2> QED BY <1>1, <2>2, <2>3, NoRun
<1>5. Meaning(s) = s
  <2>1. \A q \in 0..(Len(s) - 1) : Ch(s, q) # Backslash
    BY <1>3 DEF Backslash
  <2>2. Meanings(s)[0] = Before(SubSeq(s, 0 + 1, Len(s)), Meanings(s)[Len(s)])
    <3>1. 0 <= Len(s) /\ Len(s) <= Len(s)
      BY <1>1
    <3> QED BY <1>1, <2>1, <3>1, PlainRun
  <2>3. SubSeq(s, 1, Len(s)) = s
    BY <1>1, SubSeqFull
  <2>4. Meanings(s)[Len(s)] = <<>> /\ Before(s, <<>>) = s
    BY MeaningsAt, Empty, BeforeIs DEF IsMeaning
  <2>5. 0 + 1 = 1
    OBVIOUS
  <2> QED BY <2>2, <2>3, <2>4, <2>5 DEF Meaning
<1> QED BY <1>3, <1>4, <1>5 DEF Clean

(* A body of one piece.                                                    *)
LEMMA OnePiece ==
  ASSUME NEW s, Block(s), Len(s) # 0, NEW bytes, Block(bytes),
         Piece(s, 0) = Means(bytes, Len(s))
  PROVE  Meaning(s) = bytes
<1>1. 0 \in Nat /\ Len(s) \in Nat /\ 0 < Len(s) /\ 0 + Len(s) = Len(s)
  BY Lengths
<1>2. Meanings(s)[0] = Before(bytes, Meanings(s)[0 + Len(s)])
  BY <1>1, PieceMeans
<1>3. Meanings(s)[Len(s)] = <<>> /\ Before(bytes, <<>>) = bytes
  BY MeaningsAt, Empty, BeforeIs DEF IsMeaning
<1> QED BY <1>1, <1>2, <1>3 DEF Meaning

(* An escape of two bytes.                                                 *)
LEMMA ShortEscapeBody ==
  ASSUME NEW c \in DOMAIN Simple, NEW s, s = <<Backslash, c>>
  PROVE  Block(s) /\ Clean(s) /\ Meaning(s) = <<Simple[c]>>
<1>1. c \in Byte /\ c # 117 /\ Backslash \in Byte /\ Backslash = 92
  BY DEF Simple, Byte, Backslash
<1>2. Block(s) /\ Len(s) = 2 /\ Ch(s, 0) = 92 /\ Ch(s, 1) = c
  BY <1>1 DEF Block, Ch
<1>3. Clean(s)
  <2>0. \A q \in Nat : Escaped(s, 0, q + 1) <=> Ch(s, q) = 92 /\ ~Escaped(s, 0, q)
    <3> SUFFICES ASSUME NEW q \in Nat
                 PROVE  Escaped(s, 0, q + 1) <=> Ch(s, q) = 92 /\ ~Escaped(s, 0, q)
      OBVIOUS
    <3>1. 0 \in Nat /\ 0 <= q
      OBVIOUS
    <3> QED BY <3>1, EscapedNext
  <2>1. ~Escaped(s, 0, 0)
    BY NoRun
  <2>2. Escaped(s, 0, 0 + 1) <=> Ch(s, 0) = 92 /\ ~Escaped(s, 0, 0)
    BY <2>0
  <2>3. Escaped(s, 0, 1 + 1) <=> Ch(s, 1) = 92 /\ ~Escaped(s, 0, 1)
    BY <2>0
  <2>4. 0 + 1 = 1 /\ 1 + 1 = 2
    OBVIOUS
  <2>5. Escaped(s, 0, 1) /\ ~Escaped(s, 0, 2)
    BY <1>2, <2>1, <2>2, <2>3, <2>4
  <2>6. \A q \in 0..(2 - 1) : q = 0 \/ q = 1
    OBVIOUS
  <2>7. ~(92 = 34) /\ ~(92 < 32)
    OBVIOUS
  <2> QED BY <1>2, <2>5, <2>6, <2>7 DEF Clean
<1>4. Meaning(s) = <<Simple[c]>>
  <2> DEFINE bytes == <<Simple[c]>>
  <2>1. Block(bytes)
    BY SimpleByte
  <2>2. Ch(s, 0 + 1) = c
    <3>1. 0 + 1 = 1
      OBVIOUS
    <3> QED BY <1>2, <3>1
  <2>3. 0 \in Nat /\ 0 + 1 < Len(s) /\ 0 < Len(s) /\ 2 \in Nat
    BY <1>2
  <2>4. Piece(s, 0) = IF Ch(s, 0 + 1) \in DOMAIN Simple
                      THEN Means(<<Simple[Ch(s, 0 + 1)]>>, 2) ELSE Means(Bad, 0)
    BY <1>1, <1>2, <2>2, <2>3, SimplePiece
  <2>5. Piece(s, 0) = Means(bytes, 2)
    BY <2>2, <2>4
  <2> HIDE DEF bytes
  <2>6. Len(s) # 0 /\ Piece(s, 0) = Means(bytes, Len(s))
    BY <1>2, <2>5
  <2>7. Meaning(s) = bytes
    BY <1>2, <2>1, <2>6, OnePiece
  <2> QED BY <2>7 DEF bytes
<1> QED BY <1>2, <1>3, <1>4

(* The digits of a control character.                                      *)
LEMMA ControlDigits ==
  ASSUME NEW b \in 0..31
  PROVE  /\ HexByte(b \div 16) \in Byte /\ HexByte(b % 16) \in Byte
         /\ HexByte(b \div 16) # 92 /\ HexByte(b \div 16) >= 35
         /\ HexByte(b % 16) # 92 /\ HexByte(b % 16) >= 35
         /\ HexDigit(HexByte(b \div 16)) = b \div 16
         /\ HexDigit(HexByte(b % 16)) = b % 16
         /\ b \div 16 < 16 /\ b % 16 < 16
         /\ (b \div 16) * 16 + (b % 16) = b
<1>1. b \div 16 \in 0..15 /\ b % 16 \in 0..15 /\ (b \div 16) * 16 + (b % 16) = b
  OBVIOUS
<1>2. ASSUME NEW n \in 0..15
      PROVE  /\ HexByte(n) \in Byte /\ HexByte(n) # 92 /\ HexByte(n) >= 35
             /\ HexDigit(HexByte(n)) = n /\ n < 16
  <2>1. CASE n < 10
    <3>1. HexByte(n) = 48 + n /\ 48 + n \in 48..57 /\ (48 + n) - 48 = n
      BY <2>1 DEF HexByte
    <3> QED BY <2>1, <3>1 DEF HexDigit, Byte
  <2>2. CASE ~(n < 10)
    <3>1. HexByte(n) = 87 + n /\ 87 + n \in 97..102 /\ (87 + n) - 87 = n
      BY <2>2 DEF HexByte
    <3>2. 87 + n \notin 48..57 /\ 87 + n \notin 65..70
      BY <2>2
    <3> QED BY <2>2, <3>1, <3>2 DEF HexDigit, Byte
  <2> QED BY <2>1, <2>2
<1> DEFINE h == b \div 16
           l == b % 16
<1>3. h \in 0..15 /\ l \in 0..15 /\ h * 16 + l = b
  BY <1>1
<1> HIDE DEF h, l
<1>4. /\ HexByte(h) \in Byte /\ HexByte(l) \in Byte
      /\ HexByte(h) # 92 /\ HexByte(h) >= 35 /\ HexByte(l) # 92 /\ HexByte(l) >= 35
      /\ HexDigit(HexByte(h)) = h /\ HexDigit(HexByte(l)) = l
      /\ h < 16 /\ l < 16 /\ h * 16 + l = b
  BY <1>2, <1>3
<1> QED BY <1>4 DEF h, l

(* An escape of six bytes.                                                 *)
LEMMA LongEscapeBody ==
  ASSUME NEW b \in 0..31, NEW s,
         s = <<Backslash, 117, 48, 48, HexByte(b \div 16), HexByte(b % 16)>>
  PROVE  Block(s) /\ Clean(s) /\ Meaning(s) = <<b>>
<1> DEFINE h == HexByte(b \div 16)
           l == HexByte(b % 16)
<1>1. /\ h \in Byte /\ l \in Byte /\ h # 92 /\ h >= 35 /\ l # 92 /\ l >= 35
      /\ HexDigit(h) = b \div 16 /\ HexDigit(l) = b % 16
      /\ b \div 16 < 16 /\ b % 16 < 16 /\ (b \div 16) * 16 + (b % 16) = b
  BY ControlDigits
<1>2. Backslash = 92 /\ 92 \in Byte /\ 117 \in Byte /\ 48 \in Byte
  BY DEF Backslash, Byte
<1>3. s = <<92, 117, 48, 48, h, l>>
  BY <1>2
<1> HIDE DEF h, l
<1>4. /\ Block(s) /\ Len(s) = 6
      /\ Ch(s, 0) = 92 /\ Ch(s, 1) = 117 /\ Ch(s, 2) = 48 /\ Ch(s, 3) = 48
      /\ Ch(s, 4) = h /\ Ch(s, 5) = l
  BY <1>1, <1>2, <1>3 DEF Block, Ch
<1>5. Clean(s)
  <2>1. 6 \in Nat /\ 0 <= 6 /\ 6 - 1 = 5
    OBVIOUS
  <2>2. ~Escaped(s, 0, 6)
    BY <1>1, <1>4, <2>1, NoRun
  <2>3. \A q \in 0..(6 - 1) : q = 0 \/ q = 1 \/ q = 2 \/ q = 3 \/ q = 4 \/ q = 5
    OBVIOUS
  <2>4. \A c : c = 92 \/ c = 117 \/ c = 48 => ~(c = 34) /\ ~(c < 32)
    OBVIOUS
  <2>5. ~(h = 34) /\ ~(h < 32) /\ ~(l = 34) /\ ~(l < 32)
    BY <1>1 DEF Byte
  <2>6. \A q \in 0..(6 - 1) : ~(Ch(s, q) = 34) /\ ~(Ch(s, q) < 32)
    BY <1>4, <2>3, <2>4, <2>5
  <2> QED BY <1>4, <2>2, <2>6 DEF Clean
<1>6. Meaning(s) = <<b>>
  <2>1. HexDigit(48) = 0
    BY DEF HexDigit
  <2>2. /\ Ch(s, 0 + 1) = 117 /\ Ch(s, 0 + 2) = 48 /\ Ch(s, 0 + 3) = 48
        /\ Ch(s, 0 + 4) = h /\ Ch(s, 0 + 5) = l /\ 0 + 6 <= Len(s)
    <3>1. 0 + 1 = 1 /\ 0 + 2 = 2 /\ 0 + 3 = 3 /\ 0 + 4 = 4 /\ 0 + 5 = 5 /\ 0 + 6 = 6 /\ 6 <= 6
      OBVIOUS
    <3> QED BY <1>4, <3>1
  <2>3. \A i \in 2..5 : HexDigit(Ch(s, 0 + i)) < 16
    <3>1. \A i \in 2..5 : i = 2 \/ i = 3 \/ i = 4 \/ i = 5
      OBVIOUS
    <3>2. 0 < 16
      OBVIOUS
    <3> QED BY <1>1, <2>1, <2>2, <3>1, <3>2
  <2>4. IsUnit(s, 0)
    BY <1>2, <1>4, <2>2, <2>3 DEF IsUnit
  <2>5. Unit(s, 0) = b
    <3>1. Unit(s, 0) = ((0 * 16 + 0) * 16 + (b \div 16)) * 16 + (b % 16)
      BY <1>1, <2>1, <2>2 DEF Unit
    <3>2. ((0 * 16 + 0) * 16 + (b \div 16)) * 16 + (b % 16) = b
      OBVIOUS
    <3> QED BY <3>1, <3>2
  <2>6. b \notin High
    BY SMT DEF High
  <2>7. Piece(s, 0) = Means(Encoded(b), 6)
    BY <1>2, <1>4, <2>4, <2>5, <2>6 DEF Piece
  <2> DEFINE bytes == <<b>>
  <2>8. Encoded(b) = bytes
    <3>1. b \in Nat /\ b <= 1114111 /\ b <= 127
      BY SMT
    <3>2. Utf8(b) = bytes
      BY SMT, <3>1 DEF Utf8
    <3> QED BY SMT, <3>1, <3>2, Utf8Encodes
  <2>9. Block(bytes)
    BY DEF Block, Byte
  <2> HIDE DEF bytes
  <2>10. Len(s) # 0 /\ Piece(s, 0) = Means(bytes, Len(s))
    BY <1>4, <2>7, <2>8
  <2>11. Meaning(s) = bytes
    BY <1>4, <2>9, <2>10, OnePiece
  <2> QED BY <2>11 DEF bytes
<1> QED BY <1>4, <1>5, <1>6

(* The escape of a byte is a body that means the byte.                     *)
LEMMA EscapeBody ==
  ASSUME NEW b \in NeedsEscape
  PROVE  /\ b \in Byte /\ Block(EscapeOf(b)) /\ Clean(EscapeOf(b))
         /\ Meaning(EscapeOf(b)) = <<b>>
<1>1. b \in Byte
  BY DEF NeedsEscape, Quote, Backslash, Byte
<1>2. CASE b \in {Quote, Backslash}
  <2>1. EscapeOf(b) = <<Backslash, b>>
    <3>1. b \notin {8, 9, 10, 12, 13}
      BY <1>2 DEF Quote, Backslash
    <3> QED BY <1>2, <3>1 DEF EscapeOf
  <2>2. b \in DOMAIN Simple /\ Simple[b] = b
    BY <1>2 DEF Simple, Quote, Backslash
  <2> QED BY <1>1, <2>1, <2>2, ShortEscapeBody
<1>3. CASE b \notin {Quote, Backslash} /\ b \in {8, 9, 10, 12, 13}
  <2>1. \E c \in DOMAIN Simple : Simple[c] = b
    <3>1. /\ {34, 92, 47, 98, 102, 110, 114, 116} = DOMAIN Simple
          /\ Simple[98] = 8 /\ Simple[102] = 12 /\ Simple[110] = 10
          /\ Simple[114] = 13 /\ Simple[116] = 9
      BY DEF Simple
    <3> QED BY <1>3, <3>1
  <2>2. ShortFor(b) \in DOMAIN Simple /\ Simple[ShortFor(b)] = b
    BY <2>1 DEF ShortFor
  <2>3. EscapeOf(b) = <<Backslash, ShortFor(b)>>
    BY <1>3 DEF EscapeOf
  <2> QED BY <1>1, <2>2, <2>3, ShortEscapeBody
<1>4. CASE b \notin {Quote, Backslash} /\ b \notin {8, 9, 10, 12, 13}
  <2>1. EscapeOf(b) = <<Backslash, 117, 48, 48, HexByte(b \div 16), HexByte(b % 16)>>
    BY <1>4 DEF EscapeOf
  <2>2. b \in 0..31
    BY <1>4 DEF NeedsEscape
  <2> QED BY <1>1, <2>1, <2>2, LongEscapeBody
<1> QED BY <1>2, <1>3, <1>4

-----------------------------------------------------------------------------
(* serializeString writes a body that means what it copies.                *)

(* The serializer's side: what it has written is a body that means what it *)
(* has copied, and the run not yet copied needs no escape.                 *)
Written ==
  Escaping =>
    /\ src = stored
    /\ Clean(out) /\ Meaning(out) = Run(0, start)
    /\ \A q \in start..(ptr - 1) : Ch(src, q) \notin NeedsEscape
    /\ pc = "escape" => Ch(src, ptr) \in NeedsEscape

(* What is read back is a body that means the stored string.               *)
ReadBack == round = "read back" => Clean(src) /\ Meaning(src) = stored

RInv == TInv /\ Written /\ ReadBack

(* Runs next to each other.                                                *)
LEMMA RunsJoin ==
  ASSUME Block(src), NEW m \in Nat, NEW n \in Nat, m <= n, n <= End
  PROVE  Block(Run(0, m)) /\ Block(Run(m, n)) /\ Run(0, m) \o Run(m, n) = Run(0, n)
<1>1. Len(src) \in Nat /\ End = Len(src) /\ src \in Seq(Byte)
  BY Lengths DEF End, Block
<1>2. 0 \in Nat /\ 0 <= m /\ m <= Len(src) /\ n <= Len(src) /\ 0 + 1 = 1
  BY <1>1
<1>3. Block(Run(0, m)) /\ Block(Run(m, n))
  BY <1>1, <1>2, Cut DEF Run
<1>4. 1 \in 1..(Len(src) + 1) /\ m \in (1 - 1)..Len(src) /\ n \in m..Len(src)
  BY <1>1, <1>2
<1>5. SubSeq(src, 1, m) \o SubSeq(src, m + 1, n) = SubSeq(src, 1, n)
  BY <1>1, <1>4, ConcatAdjacentSubSeq
<1> QED BY <1>2, <1>3, <1>5 DEF Run

(* The bytes of a run.                                                     *)
LEMMA RunBytes ==
  ASSUME Block(src), NEW m \in Nat, NEW n \in Nat, m <= n, n <= End
  PROVE  /\ Len(Run(m, n)) = n - m
         /\ \A q \in 0..((n - m) - 1) : Ch(Run(m, n), q) = Ch(src, m + q)
<1>1. Len(src) \in Nat /\ End = Len(src)
  BY Lengths DEF End
<1>2. n <= Len(src) /\ m + (n - m) = n /\ n - m \in Nat
  BY <1>1
<1>3. Len(Run(m, n)) = n - m
  BY <1>2, Cut DEF Run
<1>4. ASSUME NEW q \in 0..((n - m) - 1) PROVE Ch(Run(m, n), q) = Ch(src, m + q)
  <2> DEFINE d == n - m
             i == q + 1
  <2>1. d \in Nat /\ m + d <= Len(src) /\ i \in 1..d /\ m + i = (m + q) + 1 /\ m + d = n
    BY <1>2
  <2>2. Load(src, m, d)[i] = src[m + i]
    <3> HIDE DEF d, i
    <3> QED BY <2>1, LoadByte
  <2>3. Load(src, m, d) = Run(m, n)
    BY <2>1 DEF Load, Run
  <2> QED BY <2>1, <2>2, <2>3 DEF Ch
<1> QED BY <1>3, <1>4

(* The empty text is a body that means itself.                             *)
LEMMA EmptyBody == Clean(<<>>) /\ Meaning(<<>>) = <<>>
<1>1. Block(<<>>) /\ \A q \in 0..(Len(<<>>) - 1) : Ch(<<>>, q) \notin NeedsEscape
  BY Empty
<1> QED BY <1>1, PlainBody

(* Appending a run that needs no escape.                                   *)
LEMMA RunAppended ==
  ASSUME Block(src), Block(out), Clean(out), NEW m \in Nat, NEW n \in Nat, m <= n, n <= End,
         Meaning(out) = Run(0, m), \A q \in m..(n - 1) : Ch(src, q) \notin NeedsEscape
  PROVE  /\ Block(out \o Run(m, n)) /\ Clean(out \o Run(m, n))
         /\ Meaning(out \o Run(m, n)) = Run(0, n)
<1> DEFINE run == Run(m, n)
           all == Run(0, m)
<1>1. Block(run) /\ Block(all) /\ all \o run = Run(0, n)
  BY RunsJoin
<1>2. Clean(run) /\ Meaning(run) = run
  <2>1. /\ Len(run) = n - m
        /\ \A q \in 0..((n - m) - 1) : Ch(run, q) = Ch(src, m + q)
    BY RunBytes
  <2>2. \A q \in 0..((n - m) - 1) : m + q \in m..(n - 1)
    OBVIOUS
  <2>3. \A q \in 0..(Len(run) - 1) : Ch(run, q) \notin NeedsEscape
    BY <2>1, <2>2
  <2> HIDE DEF run
  <2> QED BY <1>1, <2>3, PlainBody
<1> HIDE DEF run, all
<1>3. Clean(out \o run) /\ Block(out \o run)
  BY <1>1, <1>2, CleanJoins, Joined
<1>4. Meaning(out) = all /\ all # Bad /\ run # Bad
  BY <1>1, BadIsNoText DEF all
<1>5. Meaning(out \o run) = Before(all, run)
  BY <1>1, <1>2, <1>4, MeaningJoins
<1>6. Meaning(out \o run) = Run(0, n)
  BY <1>1, <1>4, <1>5 DEF Before
<1> QED BY <1>3, <1>6 DEF run

(* A byte and its escape.                                                  *)
LEMMA EscapeAppended ==
  ASSUME Block(src), NEW s, Block(s), Clean(s), NEW n \in Nat, n < End,
         Meaning(s) = Run(0, n), Ch(src, n) \in NeedsEscape
  PROVE  /\ Clean(s \o EscapeOf(Ch(src, n)))
         /\ Meaning(s \o EscapeOf(Ch(src, n))) = Run(0, n + 1)
<1> DEFINE esc == EscapeOf(Ch(src, n))
           all == Run(0, n)
           one == <<Ch(src, n)>>
<1>1. Block(esc) /\ Clean(esc) /\ Meaning(esc) = one
  BY EscapeBody
<1>2. Block(one)
  BY EscapeBody DEF Block
<1>3. n + 1 \in Nat /\ n <= n + 1 /\ n + 1 <= End /\ n <= End /\ n <= n
  BY Lengths DEF End
<1>4. Block(all) /\ all \o Run(n, n + 1) = Run(0, n + 1)
  BY <1>3, RunsJoin
<1>5. Run(n, n + 1) = one
  <2>1. n + 1 \in 1..Len(src)
    BY <1>3 DEF End
  <2>2. SubSeq(src, n + 1, n + 1) = SubSeq(src, n + 1, (n + 1) - 1) \o <<src[n + 1]>>
    <3>1. src \in Seq(Byte) /\ n + 1 \in (n + 1)..Len(src)
      BY <2>1 DEF Block
    <3> QED BY <2>1, <3>1, SubSeqRecursiveSecond
  <2>3. SubSeq(src, n + 1, (n + 1) - 1) = <<>>
    <3>1. n + 1 \in Int /\ (n + 1) - 1 \in Int /\ (n + 1) - 1 < n + 1
      OBVIOUS
    <3> QED BY <3>1, SubSeqEmpty
  <2>4. <<src[n + 1]>> \in Seq(Byte)
    BY <1>2 DEF Block, Ch
  <2>5. <<>> \o <<src[n + 1]>> = <<src[n + 1]>>
    BY <2>4, ConcatEmptySeq
  <2> QED BY <2>2, <2>3, <2>5 DEF Run, Ch
<1> HIDE DEF esc, all, one
<1>6. Clean(s \o esc)
  BY <1>1, CleanJoins
<1>7. Meaning(s) = all /\ all # Bad /\ one # Bad
  BY <1>2, <1>4, BadIsNoText DEF all
<1>8. Meaning(s \o esc) = Before(all, one)
  BY <1>1, <1>7, MeaningJoins
<1>9. Meaning(s \o esc) = Run(0, n + 1)
  BY <1>4, <1>5, <1>7, <1>8 DEF Before
<1> QED BY <1>6, <1>9 DEF esc

(* What the invariants say while the serializer runs.                      *)
LEMMA EscapingFacts ==
  ASSUME RInv, Escaping
  PROVE  /\ Block(src) /\ Block(out) /\ Clean(out) /\ src = stored
         /\ ptr \in Nat /\ start \in Nat /\ End \in Nat /\ start <= ptr /\ ptr <= End
         /\ Meaning(out) = Run(0, start)
         /\ \A q \in start..(ptr - 1) : Ch(src, q) \notin NeedsEscape
<1>1. End \in Nat
  BY Widths DEF RInv, TInv
<1>2. Typed /\ Written
  BY DEF RInv, TInv, IInv
<1>3. Block(src) /\ Block(out) /\ ptr \in Nat /\ start \in Nat /\ start <= ptr /\ ptr <= End
  BY <1>2 DEF Typed
<1>4. /\ Clean(out) /\ src = stored /\ Meaning(out) = Run(0, start)
      /\ \A q \in start..(ptr - 1) : Ch(src, q) \notin NeedsEscape
  BY <1>2 DEF Written
<1> QED BY <1>1, <1>3, <1>4

(* The serializer passes over bytes that need no escape.                   *)
LEMMA PassesOver ==
  ASSUME RInv, Escaping, Same, UNCHANGED out,
         NEW next \in Nat, ptr' = next, ptr <= next, next <= End,
         \A q \in ptr..(next - 1) : Ch(src, q) \notin NeedsEscape,
         pc' = "escape" => Ch(src, next) \in NeedsEscape
  PROVE  Written'
<1>1. /\ src = stored /\ Clean(out) /\ Meaning(out) = Run(0, start)
      /\ ptr \in Nat /\ start \in Nat /\ start <= ptr
      /\ \A q \in start..(ptr - 1) : Ch(src, q) \notin NeedsEscape
  BY EscapingFacts
<1>2. src' = src /\ stored' = stored /\ start' = start
  BY DEF Same
<1>3. \A q \in start..(next - 1) : Ch(src, q) \notin NeedsEscape
  <2>1. \A q \in start..(next - 1) : q \in start..(ptr - 1) \/ q \in ptr..(next - 1)
    BY <1>1
  <2> QED BY <1>1, <2>1
<1>4. Run(0, start)' = Run(0, start)
  BY <1>2 DEF Run
<1>5. /\ src' = stored' /\ Clean(out)' /\ Meaning(out)' = Run(0, start)'
      /\ (\A q \in start..(ptr - 1) : Ch(src, q) \notin NeedsEscape)'
      /\ (pc = "escape" => Ch(src, ptr) \in NeedsEscape)'
  BY <1>1, <1>2, <1>3, <1>4
<1> QED BY <1>5 DEF Written

(* A block of the serializer.                                              *)
LEMMA EscapeBlockPasses == RInv /\ EscapeBlock => Written'
<1> SUFFICES ASSUME RInv, EscapeBlock PROVE Written'
  OBVIOUS
<1> DEFINE w     == BlockSize["Swar"]
           chunk == Load(src, ptr, w)
           mask  == StringMask(chunk)
<1>1. /\ Escaping /\ Same /\ UNCHANGED out
      /\ IF mask = {} THEN ptr' = ptr + w /\ pc' = "scan"
                      ELSE ptr' = ptr + FirstLane(mask) /\ pc' = "escape"
  BY DEF EscapeBlock
<1>2. Block(src) /\ ptr \in Nat /\ End \in Nat /\ End = Len(src)
  BY <1>1, EscapingFacts DEF End
<1>3. w \in Nat /\ ptr + w <= End
  BY Widths DEF RInv, TInv, EscapeBlock, HasBlock
<1>4. Block(chunk) /\ Len(chunk) = w /\ Lanes(chunk) = 1..w
  BY <1>2, <1>3, Loaded DEF Lanes
<1>5. ASSUME NEW i \in 1..w PROVE chunk[i] = Ch(src, ptr + (i - 1))
  <2>1. chunk[i] = src[ptr + i]
    BY <1>2, <1>3, LoadByte
  <2>2. (ptr + (i - 1)) + 1 = ptr + i
    BY <1>2, <1>3
  <2> QED BY <2>1, <2>2 DEF Ch
<1>6. NeedsEscape = {Quote, Backslash} \cup 0..31
  BY DEF NeedsEscape
<1>7. mask \in SUBSET Lanes(chunk) /\ FirstMatches(mask, chunk, NeedsEscape)
  BY <1>4, <1>6, FindsStringEnd, MasksWithin
<1> HIDE DEF w, chunk, mask
<1>8. /\ mask = {} => \A i \in Lanes(chunk) : chunk[i] \notin NeedsEscape
      /\ mask # {} => /\ FirstLane(mask) + 1 \in Lanes(chunk)
                      /\ chunk[FirstLane(mask) + 1] \in NeedsEscape
                      /\ \A i \in 1..FirstLane(mask) : chunk[i] \notin NeedsEscape
  BY <1>4, <1>7, ScanStopsAtFirst
<1>9. ASSUME NEW n \in Nat, n <= w, ptr' = ptr + n,
             \A i \in 1..n : chunk[i] \notin NeedsEscape,
             pc' = "escape" => Ch(src, ptr + n) \in NeedsEscape
      PROVE  Written'
  <2> DEFINE next == ptr + n
  <2>1. next \in Nat /\ ptr <= next /\ next <= End
    BY <1>2, <1>3, <1>9
  <2>2. \A q \in ptr..(next - 1) : Ch(src, q) \notin NeedsEscape
    <3> SUFFICES ASSUME NEW q \in ptr..(next - 1) PROVE Ch(src, q) \notin NeedsEscape
      OBVIOUS
    <3> DEFINE i == q - ptr + 1
    <3>1. i \in 1..n /\ i \in 1..w /\ ptr + (i - 1) = q
      BY <1>2, <1>3, <1>9
    <3> HIDE DEF i
    <3> QED BY <1>5, <1>9, <3>1
  <2>3. ptr' = next /\ (pc' = "escape" => Ch(src, next) \in NeedsEscape)
    BY <1>9
  <2> HIDE DEF next
  <2> QED BY <1>1, <2>1, <2>2, <2>3, PassesOver
<1>10. CASE mask = {}
  <2>1. ptr' = ptr + w /\ pc' # "escape" /\ w <= w
    BY <1>1, <1>3, <1>10
  <2>2. \A i \in 1..w : chunk[i] \notin NeedsEscape
    BY <1>4, <1>8, <1>10
  <2> QED BY <1>3, <1>9, <2>1, <2>2
<1>11. CASE mask # {}
  <2> DEFINE n == FirstLane(mask)
  <2>1. n \in Nat /\ n < w
    BY <1>4, <1>7, <1>11, FirstLaneWithin
  <2>2. ptr' = ptr + n
    BY <1>1, <1>11
  <2>3. /\ n + 1 \in 1..w /\ chunk[n + 1] \in NeedsEscape
        /\ \A i \in 1..n : chunk[i] \notin NeedsEscape
    BY <1>4, <1>8, <1>11
  <2> HIDE DEF n
  <2>4. chunk[n + 1] = Ch(src, ptr + ((n + 1) - 1)) /\ (n + 1) - 1 = n
    BY <1>5, <2>1, <2>3
  <2>5. n <= w /\ Ch(src, ptr + n) \in NeedsEscape
    BY <1>3, <2>1, <2>3, <2>4
  <2> QED BY <1>9, <2>1, <2>2, <2>3, <2>5
<1> QED BY <1>10, <1>11

(* A byte of its tail.                                                     *)
LEMMA EscapeTailPasses == RInv /\ EscapeTail => Written'
<1> SUFFICES ASSUME RInv, EscapeTail PROVE Written'
  OBVIOUS
<1>1. /\ Escaping /\ Same /\ UNCHANGED out /\ ptr < End
      /\ IF At(ptr) \in NeedsEscape THEN ptr' = ptr /\ pc' = "escape"
                                    ELSE ptr' = ptr + 1 /\ pc' = "scan"
  BY DEF EscapeTail
<1>2. Block(src) /\ ptr \in Nat /\ End \in Nat
  BY <1>1, EscapingFacts
<1>3. At(ptr) = Ch(src, ptr)
  BY <1>1 DEF At, Ch
<1>4. CASE Ch(src, ptr) \in NeedsEscape
  <2>1. ptr <= ptr /\ ptr <= End /\ ptr..(ptr - 1) = {}
    BY <1>1, <1>2
  <2>2. ptr' = ptr
    BY <1>1, <1>3, <1>4
  <2> QED BY <1>1, <1>2, <1>4, <2>1, <2>2, PassesOver
<1>5. CASE Ch(src, ptr) \notin NeedsEscape
  <2> DEFINE next == ptr + 1
  <2>1. next \in Nat /\ ptr <= next /\ next <= End /\ \A q \in ptr..(next - 1) : q = ptr
    BY <1>1, <1>2
  <2>2. ptr' = next /\ pc' # "escape"
    BY <1>1, <1>3, <1>5
  <2> HIDE DEF next
  <2>3. \A q \in ptr..(next - 1) : Ch(src, q) \notin NeedsEscape
    BY <1>5, <2>1
  <2> QED BY <1>1, <2>1, <2>2, <2>3, PassesOver
<1> QED BY <1>4, <1>5

(* An escape it writes.                                                    *)
LEMMA WriteEscapePasses == RInv /\ WriteEscape => Written'
<1> SUFFICES ASSUME RInv, WriteEscape PROVE Written'
  OBVIOUS
<1>1. /\ Escaping /\ pc = "escape" /\ pc' = "scan" /\ ptr' = ptr + 1 /\ start' = ptr + 1
      /\ out' = out \o Run(start, ptr) \o EscapeOf(At(ptr))
      /\ src' = src /\ stored' = stored
  BY DEF WriteEscape
<1>2. /\ Block(src) /\ Block(out) /\ Clean(out) /\ src = stored
      /\ ptr \in Nat /\ start \in Nat /\ End \in Nat /\ start <= ptr /\ ptr <= End
      /\ Meaning(out) = Run(0, start)
      /\ \A q \in start..(ptr - 1) : Ch(src, q) \notin NeedsEscape
  BY <1>1, EscapingFacts
<1>3. ptr < End /\ Ch(src, ptr) \in NeedsEscape
  BY <1>1 DEF RInv, TInv, IInv, Waiting, Written
<1>4. At(ptr) = Ch(src, ptr)
  BY <1>3 DEF At, Ch
<1> DEFINE s == out \o Run(start, ptr)
<1>5. Block(s) /\ Clean(s) /\ Meaning(s) = Run(0, ptr)
  BY <1>2, RunAppended
<1>6. out' = s \o EscapeOf(Ch(src, ptr))
  BY <1>1, <1>4
<1> HIDE DEF s
<1>7. Clean(out') /\ Meaning(out') = Run(0, ptr + 1)
  BY <1>2, <1>3, <1>5, <1>6, EscapeAppended
<1>8. Run(0, start)' = Run(0, ptr + 1)
  BY <1>1 DEF Run
<1>9. (\A q \in start..(ptr - 1) : Ch(src, q) \notin NeedsEscape)'
  <2>1. start'..(ptr' - 1) = {}
    BY <1>1, <1>2
  <2> QED BY <2>1
<1>10. pc' # "escape" /\ src' = stored'
  BY <1>1, <1>2
<1> QED BY <1>7, <1>8, <1>9, <1>10 DEF Written

(* Both invariants where a pass gives way to the next.                     *)
LEMMA PassesHandOver ==
  ASSUME RInv, EndDecode \/ EndEscape
  PROVE  Written' /\ ReadBack'
<1>1. CASE EndDecode /\ round = "decode"
  <2>1. /\ round' = "escape" /\ pc' = "scan" /\ stored' = out /\ src' = out
        /\ out' = <<>> /\ ptr' = 0 /\ start' = 0
    BY <1>1 DEF EndDecode
  <2>2. Run(0, start)' = <<>>
    <3>1. SubSeq(out, 0 + 1, 0) = <<>>
      BY SubSeqEmpty
    <3> QED BY <2>1, <3>1 DEF Run
  <2>3. (\A q \in start..(ptr - 1) : Ch(src, q) \notin NeedsEscape)'
    <3>1. 0..(0 - 1) = {}
      OBVIOUS
    <3> QED BY <2>1, <3>1
  <2>4. pc' # "escape" /\ round' # "read back" /\ src' = stored'
    BY <2>1
  <2>5. Clean(out') /\ Meaning(out') = <<>>
    BY <2>1, EmptyBody
  <2> QED BY <2>2, <2>3, <2>4, <2>5 DEF Written, ReadBack
<1>2. CASE EndDecode /\ round # "decode"
  <2>1. UNCHANGED <<round, stored, src>> /\ round # "escape"
    BY <1>2 DEF EndDecode, Decoding
  <2> QED BY <2>1 DEF RInv, Written, ReadBack, Escaping
<1>3. CASE EndEscape
  <2>1. /\ Escaping /\ ptr >= End /\ src' = out \o Run(start, ptr)
        /\ round' = "read back" /\ stored' = stored
    BY <1>3 DEF EndEscape
  <2>2. /\ Block(src) /\ Block(out) /\ Clean(out) /\ src = stored
        /\ ptr \in Nat /\ start \in Nat /\ End \in Nat /\ start <= ptr /\ ptr <= End
        /\ Meaning(out) = Run(0, start)
        /\ \A q \in start..(ptr - 1) : Ch(src, q) \notin NeedsEscape
    BY <2>1, EscapingFacts
  <2>3. Clean(src') /\ Meaning(src') = Run(0, ptr)
    BY <2>1, <2>2, RunAppended
  <2>4. Run(0, ptr) = src
    <3>0. ptr = End /\ 0 + 1 = 1
      <4>1. ptr >= End /\ ptr \in Nat /\ End \in Nat /\ ptr <= End
        BY <2>1, <2>2
      <4> QED BY <4>1
    <3>1. ptr = Len(src) /\ 0 + 1 = 1
      BY <3>0 DEF End
    <3>2. SubSeq(src, 1, Len(src)) = src
      BY <2>2, SubSeqFull DEF Block
    <3> QED BY <3>1, <3>2 DEF Run
  <2>5. Meaning(src') = stored'
    BY <2>1, <2>2, <2>3, <2>4
  <2> QED BY <2>1, <2>3, <2>5 DEF Written, ReadBack, Escaping
<1> QED BY <1>1, <1>2, <1>3

(* No step disturbs them.                                                  *)
LEMMA ReadBackKeeps == RInv /\ [Next]_vars => RInv'
<1> SUFFICES ASSUME RInv, [Next]_vars PROVE RInv'
  OBVIOUS
<1>1. TInv'
  BY TruthKeeps DEF RInv
<1>2. CASE SwarCopyBlock \/ Avx2CopyBlock \/ CopyByte \/ DecodeEscape
  <2>1. UNCHANGED <<round, stored, src>> /\ round # "escape"
    BY <1>2 DEF SwarCopyBlock, Avx2CopyBlock, CopyByte, DecodeEscape, CopyBlock, Same, Decoding,
                AtCharacter
  <2>2. Written' /\ ReadBack'
    BY <2>1 DEF RInv, Written, ReadBack, Escaping
  <2> QED BY <1>1, <2>2 DEF RInv
<1>3. CASE EndDecode \/ EndEscape
  BY <1>1, <1>3, PassesHandOver DEF RInv
<1>4. CASE EscapeBlock \/ EscapeTail \/ WriteEscape
  <2>1. Written'
    BY <1>4, EscapeBlockPasses, EscapeTailPasses, WriteEscapePasses
  <2>2. round' = "escape"
    BY <1>4 DEF EscapeBlock, EscapeTail, WriteEscape, Escaping, Same
  <2> QED BY <1>1, <2>1, <2>2 DEF RInv, ReadBack
<1>5. CASE UNCHANGED vars
  <2>1. Written' /\ ReadBack'
    BY <1>5 DEF vars, RInv, Written, ReadBack, Escaping, Run
  <2> QED BY <1>1, <2>1 DEF RInv
<1> QED BY <1>2, <1>3, <1>4, <1>5 DEF Next, Decode, Escape, Done

(* For every stored string: what the serializer writes is one string for   *)
(* the lexer, and either engine reads it back as the string it came from   *)
(* (serializeString against unescapeString).                               *)
THEOREM RoundTripHolds == Spec => []RoundTrip
<1>1. Init => RInv
  <2> SUFFICES ASSUME Init PROVE RInv
    OBVIOUS
  <2>1. TInv
    BY TruthBegins
  <2>2. round # "escape" /\ round # "read back"
    BY DEF Init
  <2> QED BY <2>1, <2>2 DEF RInv, Written, ReadBack, Escaping
<1>2. Spec => []RInv
  BY <1>1, ReadBackKeeps, PTL DEF Spec
<1>3. RInv => RoundTrip
  <2> SUFFICES ASSUME RInv, round = "read back"
               PROVE  Body(src) /\ (pc = "done" => status = "None" /\ out = stored)
    BY DEF RoundTrip
  <2>1. Block(src) /\ Block(out) /\ Block(stored)
    BY DEF RInv, TInv, IInv, Typed
  <2>2. Clean(src) /\ Meaning(src) = stored
    BY DEF RInv, ReadBack
  <2>3. Body(src)
    BY <2>1, <2>2, CleanIsBody
  <2>4. ASSUME pc = "done" PROVE status = "None" /\ out = stored
    <3>1. Decoding
      BY DEF Decoding
    <3>2. status = "None"
      <4>1. stored # Bad
        BY <2>1, BadIsNoText
      <4> QED BY <2>2, <3>1, <4>1 DEF RInv, TInv, Truth
    <3>3. ptr = Len(src) /\ Meaning(src) = Before(out, Meanings(src)[ptr])
      BY <2>4, <3>1, <3>2 DEF RInv, TInv, Truth, Alive, End
    <3>4. Meanings(src)[Len(src)] = <<>> /\ Before(out, <<>>) = out
      BY <2>1, MeaningsAt, Empty, BeforeIs DEF IsMeaning
    <3> QED BY <2>2, <3>2, <3>3, <3>4
  <2> QED BY <2>3, <2>4
<1> QED BY <1>2, <1>3, PTL
=============================================================================

---------------------------- MODULE StringCodec ----------------------------
(***************************************************************************)
(* The contents of a string on their way through zuu_json: unescapeString  *)
(* of a parser engine turns the body of a string token into the stored     *)
(* text, serializeString escapes the stored text when it is dumped, and    *)
(* the dumped body is read back.  The three passes are the three values of *)
(* `round`.  A step is one block, one character of the source, or one run  *)
(* of bytes copied by the serializer.  Offsets count from 0.               *)
(***************************************************************************)
EXTENDS SwarLanes, Lexemes

CONSTANTS
  Sources,    \* bound: the bodies the lexer delivers with has_escape_ set
  Engines,    \* the parser engines that unescape them
  BlockSize   \* kSimdBlockSize of each engine; Swar's is also the
              \* serializer's

ASSUME EnginesAssumption ==
  /\ Engines \subseteq {"Swar", "Avx2"}
  /\ BlockSize \in [{"Swar", "Avx2"} -> Nat \ {0}]

(* What the lexer guarantees of a body, its closing quote put back.        *)
Body(s) == s \in Seq(Byte) /\ IsString(Append(s, Quote), 0, Len(s))

ASSUME SourcesAssumption == \A s \in Sources : Body(s)

VARIABLES
  engine,
  round,      \* "decode", "escape", then "read back"
  src,        \* the text the running pass reads
  stored,     \* the string the first pass stored
  ptr,        \* the read pointer
  start,      \* serializeString: where the run not yet copied begins
  out,        \* what the running pass has written
  seen,       \* the highest offset of src read so far
  status,     \* status_
  pc

vars == <<engine, round, src, stored, ptr, start, out, seen, status, pc>>

End == Len(src)
Width == BlockSize[engine]

(* The body of a token is followed by its closing quote in the same text.  *)
At(p) == IF p < End THEN src[p + 1] ELSE Quote
Run(from, to) == SubSeq(src, from + 1, to)

Init ==
  /\ engine \in Engines
  /\ src \in Sources
  /\ round = "decode"
  /\ stored = <<>> /\ out = <<>>
  /\ ptr = 0 /\ start = 0 /\ seen = 0
  /\ status = "None"
  /\ pc = "scan"

Same == UNCHANGED <<engine, round, src, stored, start>>

Read(p) == seen' = IF p > seen THEN p ELSE seen

-----------------------------------------------------------------------------
(* unescapeString                                                          *)

Decoding == round # "escape"

(* traits::LookupTrait<char>::hex                                          *)
HexDigit(b) ==
  CASE b \in 48..57  -> b - 48
    [] b \in 65..70  -> b - 55
    [] b \in 97..102 -> b - 87
    [] OTHER -> 255

TooLarge == 1114112

(* decodeUnicodeHex: a digit that is none makes the number too large for a *)
(* code point.                                                             *)
DecodeUnicodeHex(p) ==
  LET d == [i \in 0..3 |-> HexDigit(At(p + i))]
  IN  IF \E i \in 0..3 : d[i] > 15 THEN TooLarge
      ELSE d[0] * 4096 + d[1] * 256 + d[2] * 16 + d[3]

Utf8(cp) ==
  IF cp <= 127 THEN <<cp>>
  ELSE IF cp <= 2047 THEN <<192 + ((cp \div 64) % 32), 128 + (cp % 64)>>
  ELSE IF cp <= 65535
  THEN <<224 + ((cp \div 4096) % 16), 128 + ((cp \div 64) % 64), 128 + (cp % 64)>>
  ELSE <<240 + ((cp \div 262144) % 8), 128 + ((cp \div 4096) % 64),
         128 + ((cp \div 64) % 64), 128 + (cp % 64)>>

High == 55296..56319
Low  == 56320..57343

(* Fault: a pair at the very end is missed.                                *)
PairFitsBefore(p) == p + 7 < End

(* `ptr + 6 <= end`: room for the second half, less its last digit.        *)
PairFits(p) == p + 6 <= End

Simple == [b \in {34, 92, 47, 98, 102, 110, 114, 116} |->
             CASE b = 98 -> 8 [] b = 102 -> 12 [] b = 110 -> 10 [] b = 114 -> 13
               [] b = 116 -> 9 [] OTHER -> b]

(* Fault: the read pointer is advanced once more.                          *)
WriteTwice(bytes, next) ==
  /\ out' = out \o bytes
  /\ ptr' = next + 1
  /\ pc' = "scan"
  /\ UNCHANGED status

Write(bytes, next) ==
  /\ out' = out \o bytes
  /\ ptr' = next
  /\ pc' = "scan"
  /\ UNCHANGED status

Fail ==
  /\ status' = "InvalidValue"
  /\ pc' = "done"
  /\ UNCHANGED <<ptr, out>>

(* The case 'u', its letter at p.                                          *)
WriteUnicode(p) ==
  LET cp  == DecodeUnicodeHex(p + 1)
      q   == p + 4
      cp2 == DecodeUnicodeHex(q + 3)
  IN  IF p + 5 > End THEN Fail /\ Read(p)
      ELSE IF cp \notin High
      THEN /\ IF cp < TooLarge THEN Write(Utf8(cp), q + 1) ELSE Fail
           /\ Read(q)
      ELSE IF PairFits(q) /\ At(q + 1) = Backslash /\ At(q + 2) = 117
      THEN /\ IF cp2 \in Low
              THEN Write(Utf8(65536 + (cp - 55296) * 1024 + (cp2 - 56320)), q + 7)
              ELSE Fail
           /\ Read(q + 6)
      ELSE Fail /\ Read(q)

(* Fault: the whole block is kept before a backslash too.                  *)
CopyWholeBlock(mask) ==
  /\ out' = out \o Load(src, ptr, Width)
  /\ ptr' = ptr + (IF mask = {} THEN Width ELSE FirstLane(mask))
  /\ pc' = IF mask = {} THEN "scan" ELSE "character"
  /\ UNCHANGED status
  /\ Read(ptr + Width - 1)
  /\ Same

(* A block without a backslash is copied; before one, the bytes up to it.  *)
CopyBlock(mask) ==
  /\ IF mask = {}
     THEN Write(Load(src, ptr, Width), ptr + Width)
     ELSE /\ out' = out \o Load(src, ptr, FirstLane(mask))
          /\ ptr' = ptr + FirstLane(mask)
          /\ pc' = "character"
          /\ UNCHANGED status
  /\ Read(ptr + Width - 1)
  /\ Same

HasBlock(width) == ptr + width <= End

SwarCopyBlock ==
  /\ Decoding /\ pc = "scan" /\ engine = "Swar" /\ HasBlock(Width)
  /\ CopyBlock(FindZeroByteMask(Xor(Load(src, ptr, Width), Backslash)))

Avx2CopyBlock ==
  /\ Decoding /\ pc = "scan" /\ engine = "Avx2" /\ HasBlock(Width)
  /\ LET chunk == Load(src, ptr, Width)
     IN  CopyBlock({i \in Lanes(chunk) : chunk[i] = Backslash})

(* One character after the block loop.                                     *)
AtCharacter ==
  Decoding /\ (pc = "character" \/ (pc = "scan" /\ ptr < End /\ ~HasBlock(Width)))

CopyByte ==
  /\ AtCharacter /\ At(ptr) # Backslash
  /\ Write(<<At(ptr)>>, ptr + 1)
  /\ Read(ptr)
  /\ Same

DecodeEscape ==
  /\ AtCharacter /\ At(ptr) = Backslash
  /\ LET p == ptr + 1
     IN  \/ /\ p < End /\ At(p) \in DOMAIN Simple
            /\ Write(<<Simple[At(p)]>>, p + 1)
            /\ Read(p)
         \/ /\ p < End /\ At(p) = 117
            /\ WriteUnicode(p)
         \/ /\ p < End /\ At(p) \notin DOMAIN Simple \cup {117}
            /\ Fail
            /\ Read(p)
  /\ Same

(* The decoded string: stored, then escaped, then read back.               *)
EndDecode ==
  /\ Decoding /\ pc = "scan" /\ ptr >= End
  /\ IF round = "decode"
     THEN /\ round' = "escape" /\ pc' = "scan"
          /\ stored' = out /\ src' = out /\ out' = <<>>
          /\ ptr' = 0 /\ start' = 0 /\ seen' = 0
     ELSE /\ pc' = "done"
          /\ UNCHANGED <<round, stored, src, out, ptr, start, seen>>
  /\ UNCHANGED <<engine, status>>

-----------------------------------------------------------------------------
(* serializeString                                                         *)

Escaping == round = "escape"

(* Fault: a backslash in the tail is copied as it is.                      *)
NeedsNoBackslash == 0..31 \cup {Quote}

NeedsEscape == 0..31 \cup {Quote, Backslash}

EscapeBlock ==
  /\ Escaping /\ pc = "scan" /\ HasBlock(BlockSize["Swar"])
  /\ LET mask == StringMask(Load(src, ptr, BlockSize["Swar"]))
     IN  IF mask = {}
         THEN ptr' = ptr + BlockSize["Swar"] /\ pc' = "scan"
         ELSE ptr' = ptr + FirstLane(mask) /\ pc' = "escape"
  /\ Read(ptr + BlockSize["Swar"] - 1)
  /\ UNCHANGED <<out, status>> /\ Same

EscapeTail ==
  /\ Escaping /\ pc = "scan" /\ ptr < End /\ ~HasBlock(BlockSize["Swar"])
  /\ IF At(ptr) \in NeedsEscape
     THEN UNCHANGED ptr /\ pc' = "escape"
     ELSE ptr' = ptr + 1 /\ pc' = "scan"
  /\ Read(ptr)
  /\ UNCHANGED <<out, status>> /\ Same

HexByte(n) == IF n < 10 THEN 48 + n ELSE 87 + n

ShortFor(b) == CHOOSE c \in DOMAIN Simple : Simple[c] = b

EscapeOf(b) ==
  CASE b \in {Quote, Backslash} -> <<Backslash, b>>
    [] b \in {8, 9, 10, 12, 13} -> <<Backslash, ShortFor(b)>>
    [] OTHER -> <<Backslash, 117, 48, 48, HexByte(b \div 16), HexByte(b % 16)>>

(* escape_found: the run before the byte, then its escape.                 *)
WriteEscape ==
  /\ Escaping /\ pc = "escape"
  /\ out' = out \o Run(start, ptr) \o EscapeOf(At(ptr))
  /\ ptr' = ptr + 1 /\ start' = ptr + 1
  /\ pc' = "scan"
  /\ UNCHANGED <<engine, round, src, stored, seen, status>>

EndEscape ==
  /\ Escaping /\ pc = "scan" /\ ptr >= End
  /\ src' = out \o Run(start, ptr)
  /\ round' = "read back"
  /\ ptr' = 0 /\ start' = 0 /\ seen' = 0 /\ out' = <<>>
  /\ UNCHANGED <<engine, stored, status, pc>>

-----------------------------------------------------------------------------
Done == pc = "done" /\ UNCHANGED vars

Decode == SwarCopyBlock \/ Avx2CopyBlock \/ CopyByte \/ DecodeEscape \/ EndDecode
Escape == EscapeBlock \/ EscapeTail \/ WriteEscape \/ EndEscape

Next == Decode \/ Escape \/ Done

Spec == Init /\ [][Next]_vars

-----------------------------------------------------------------------------
(* The meaning of a body, byte by byte and from its end.                   *)

Bad == <<-1>>

IsUnit(s, p) ==
  /\ p + 6 <= Len(s) /\ Ch(s, p) = Backslash /\ Ch(s, p + 1) = 117
  /\ \A i \in 2..5 : HexDigit(Ch(s, p + i)) < 16

Unit(s, p) ==
  LET d(i) == HexDigit(Ch(s, p + i)) IN ((d(2) * 16 + d(3)) * 16 + d(4)) * 16 + d(5)

(* A code point in n bytes: a lead byte, then six bits each.               *)
Weight == <<1, 64, 4096, 262144>>

InBytes(cp, n) ==
  LET lead == <<0, 192, 224, 240>>
  IN  [i \in 1..n |-> IF i = 1 THEN lead[n] + cp \div Weight[n]
                      ELSE 128 + ((cp \div Weight[n - i + 1]) % 64)]

Encoded(cp) ==
  InBytes(cp, IF cp < 128 THEN 1 ELSE IF cp < 2048 THEN 2 ELSE IF cp < 65536 THEN 3 ELSE 4)

(* The character or escape at p: the bytes it means and its own width.  An *)
(* escape that means nothing has none.                                     *)
Means(bytes, width) == [bytes |-> bytes, width |-> width]

Piece(s, p) ==
  IF Ch(s, p) # Backslash THEN Means(<<Ch(s, p)>>, 1)
  ELSE IF IsUnit(s, p) /\ Unit(s, p) \notin High THEN Means(Encoded(Unit(s, p)), 6)
  ELSE IF IsUnit(s, p) /\ IsUnit(s, p + 6) /\ Unit(s, p + 6) \in Low
       THEN Means(Encoded(65536 + (Unit(s, p) - 55296) * 1024 + (Unit(s, p + 6) - 56320)), 12)
  ELSE IF p + 2 <= Len(s) /\ Ch(s, p + 1) \in DOMAIN Simple
       THEN Means(<<Simple[Ch(s, p + 1)]>>, 2)
  ELSE Means(Bad, 0)

Before(bytes, rest) == IF rest = Bad THEN Bad ELSE bytes \o rest

(* What the body means from p on, given what it means further on.          *)
MeansFrom(s, from, p) ==
  IF p = Len(s) THEN <<>>
  ELSE LET piece == Piece(s, p)
       IN  IF piece.width = 0 THEN Bad ELSE Before(piece.bytes, from[p + piece.width])

Meanings(s) ==
  LET from[p \in 0..Len(s)] == MeansFrom(s, from, p) IN from

Meaning(s) == Meanings(s)[0]

-----------------------------------------------------------------------------
(* Properties                                                              *)

TypeOK ==
  /\ engine \in Engines /\ round \in {"decode", "escape", "read back"}
  /\ {src, stored, out} \subseteq Seq(Byte)
  /\ ptr \in 0..End /\ start \in 0..ptr
  /\ status \in {"None", "InvalidValue"}
  /\ pc \in {"scan", "character", "escape", "done"}

(* The decoded string never runs ahead of what was read, so a buffer of    *)
(* the body's length (allocateStringBuffer(src.size())) is enough for      *)
(* every write.                                                            *)
FitsBuffer == Decoding => Len(out) <= ptr

(* Nothing is read past the closing quote of the body, although the second *)
(* half of a surrogate pair is looked for one byte too far; the serializer *)
(* reads nothing past its string.                                          *)
ReadsInText == seen <= IF Decoding \/ End = 0 THEN End ELSE End - 1

(* The three passes stay within their buffers.                             *)
InBounds == FitsBuffer /\ ReadsInText

(* For every engine and block width the pass returns what the body means,  *)
(* and an error exactly when it means nothing: escapes across the end of a *)
(* block, surrogate pairs up to the very end.                              *)
DecodesTruly ==
  Decoding =>
    /\ pc = "scan" /\ ptr = End => out = Meaning(src)
    /\ status # "None" => Meaning(src) = Bad

(* What the serializer writes is the body of one string for the lexer, and *)
(* reading it back gives the stored string again.                          *)
RoundTrip ==
  round = "read back" =>
    /\ Body(src)
    /\ pc = "done" => status = "None" /\ out = stored
=============================================================================

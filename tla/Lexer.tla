------------------------------- MODULE Lexer -------------------------------
(***************************************************************************)
(* The lexer of zuu_json (internal/lexer): next_token, called until the    *)
(* end of the text or an error, as Lexer::Tokenize does.  The engines scan *)
(* whitespace and strings in blocks of their own width and finish byte by  *)
(* byte; digits are scanned in blocks by both.  A step is one block, one   *)
(* byte of a tail, or one decision of next_token.  Offsets count from 0:   *)
(* `current_` points to text[pos + 1].                                     *)
(***************************************************************************)
EXTENDS SwarLanes, Lexemes, SequencesExt

CONSTANTS
  Texts,       \* bound: the texts that are tokenized
  Engines,     \* those of "Swar" and "Avx2" that tokenize them
  BlockSize    \* kBlockSize of each engine: 8 and 32; Swar's is also the
               \* width of skip_digits

ASSUME TextsAssumption == \A t \in Texts : t \in Seq(Byte)
ASSUME EnginesAssumption ==
  /\ Engines \subseteq {"Swar", "Avx2"}
  /\ BlockSize \in [{"Swar", "Avx2"} -> Nat \ {0}]

VARIABLES
  engine, text,
  pos,         \* current_
  ptr,         \* read_string: the scan pointer
  begin,       \* where the value of the token being read begins
  has_escape,
  stage,       \* read_numeric: the digits being skipped
  tokens,      \* the tokens returned so far, each with the span of its value
  status,      \* status_
  pc

vars == <<engine, text, pos, ptr, begin, has_escape, stage, tokens, status, pc>>
scan == <<ptr, begin, has_escape, stage>>

End     == Len(text)
At(p)   == text[p + 1]
Width   == BlockSize[engine]
Digits  == 48..57
IsDigit(p) == p < End /\ At(p) \in Digits

-----------------------------------------------------------------------------
(* LookupTrait<Token>::value, the table next_token dispatches on.          *)

WhiteSpace == {9, 10, 12, 13, 32}
Alphabet   == 65..90 \cup 97..122
Minus_     == 45
SingleQuote == 39
Punctuation ==
  [b \in {123, 125, 91, 93, 58, 44} |->
     CASE b = 123 -> "LeftCurlyBracket"  [] b = 125 -> "RightCurlyBracket"
       [] b = 91  -> "LeftSquareBracket" [] b = 93  -> "RightSquareBracket"
       [] b = 58  -> "Colon"             [] b = 44  -> "Comma"]
ErrorBytes ==
  Byte \ (WhiteSpace \cup Alphabet \cup Digits \cup DOMAIN Punctuation \cup {Minus_, SingleQuote, Quote})

(* Fault: the table without the carriage return.                          *)
ShuffleNoReturn(b) ==
  IF b >= 128 THEN 0
  ELSE CASE b % 16 = 0 -> 32 [] b % 16 \in {9, 10} -> b % 16 [] OTHER -> 0

(* simd32_lut_whitespace: PSHUFB looks up the low four bits of a byte, or  *)
(* yields 0 for a byte with the top bit set.                               *)
Shuffle(b) ==
  IF b >= 128 THEN 0
  ELSE CASE b % 16 = 0 -> 32 [] b % 16 \in {9, 10, 13} -> b % 16 [] OTHER -> 0

(* null_word, true_word and fals_word with the byte read after it.         *)
Null  == <<110, 117, 108, 108>>
True  == <<116, 114, 117, 101>>
False == <<102, 97, 108, 115, 101>>

Token(type, from, to, escape) ==
  [type |-> type, from |-> from, to |-> to, has_escape |-> escape]

-----------------------------------------------------------------------------
Init ==
  /\ engine \in Engines
  /\ text \in Texts
  /\ pos = 0 /\ ptr = 0 /\ begin = 0
  /\ has_escape = FALSE
  /\ stage = "integer"
  /\ tokens = <<>>
  /\ status = "None"
  /\ pc = "next"

Emit(token, to) ==
  /\ tokens' = Append(tokens, token)
  /\ pos' = to
  /\ pc' = "next"
  /\ UNCHANGED <<engine, text, status>>

(* An error: Token::Type::Unknown is returned and Tokenize stops.          *)
Fail(error) ==
  /\ status' = error
  /\ pc' = "done"
  /\ UNCHANGED <<engine, text, tokens>>

Move(label) ==
  /\ pc' = label
  /\ UNCHANGED <<engine, text, tokens, status>>

-----------------------------------------------------------------------------
(* next_token                                                              *)

EndOfFile ==
  /\ pc = "next" /\ pos >= End
  /\ Move("done")
  /\ UNCHANGED <<pos, scan>>

ReadPunctuation ==
  /\ pc = "next" /\ pos < End /\ At(pos) \in DOMAIN Punctuation
  /\ Emit(Token(Punctuation[At(pos)], pos, pos + 1, FALSE), pos + 1)
  /\ UNCHANGED scan

SkipWhitespace ==
  /\ pc = "next" /\ pos < End /\ At(pos) \in WhiteSpace
  /\ Move("space")
  /\ UNCHANGED <<pos, scan>>

ReadString ==
  /\ pc = "next" /\ pos < End /\ At(pos) = Quote
  /\ pos' = pos + 1 /\ begin' = pos + 1 /\ ptr' = pos + 1
  /\ has_escape' = FALSE
  /\ Move("string")
  /\ UNCHANGED stage

RejectByte ==
  /\ pc = "next" /\ pos < End /\ At(pos) \in ErrorBytes \cup {SingleQuote}
  /\ Fail(IF At(pos) = SingleQuote THEN "SingleQuotedString" ELSE "Unknown")
  /\ UNCHANGED <<pos, scan>>

ReadAlphabet ==
  /\ pc = "next" /\ pos < End /\ At(pos) \in Alphabet
  /\ LET words == {w \in {Null, True, False} : IsWord(text, pos, pos + Len(w), w)}
     IN  \/ \E w \in words :
              Emit(Token(IF w = Null THEN "Null" ELSE "Boolean", pos, pos + Len(w), FALSE), pos + Len(w))
         \/ /\ words = {}
            /\ Fail("InvalidValue")
            /\ UNCHANGED pos
  /\ UNCHANGED scan

-----------------------------------------------------------------------------
(* skip_whitespace                                                         *)

HasBlock(p, width) == p + width <= End

(* Every byte up to the space is skipped; the tail loop follows.           *)
SwarSpaceBlock ==
  /\ pc = "space" /\ engine = "Swar" /\ HasBlock(pos, Width)
  /\ LET non_ws == NonSpaceMask(Load(text, pos, Width))
     IN  IF non_ws = {}
         THEN pos' = pos + Width /\ Move("space")
         ELSE pos' = pos + FirstLane(non_ws) /\ Move("tail")
  /\ UNCHANGED scan

(* The bytes the shuffle maps to themselves are skipped; no tail follows.  *)
Avx2SpaceBlock ==
  /\ pc = "space" /\ engine = "Avx2" /\ HasBlock(pos, Width)
  /\ LET chunk == Load(text, pos, Width)
         non_ws == {i \in Lanes(chunk) : Shuffle(chunk[i]) # chunk[i]}
     IN  IF non_ws = {}
         THEN pos' = pos + Width /\ Move("space")
         ELSE pos' = pos + FirstLane(non_ws) /\ Move("next")
  /\ UNCHANGED scan

SpaceTail ==
  /\ \/ pc = "space" /\ ~HasBlock(pos, Width)
     \/ pc = "tail"
  /\ IF pos < End /\ At(pos) \in WhiteSpace
     THEN pos' = pos + 1 /\ Move("tail")
     ELSE UNCHANGED pos /\ Move("next")
  /\ UNCHANGED scan

-----------------------------------------------------------------------------
(* read_string.  An escape skips the byte after the backslash unseen.      *)

CloseString(p) ==
  /\ Emit(Token("String", begin, p, has_escape), p + 1)
  /\ UNCHANGED scan

(* What both engines do with the first byte their mask flags, if any.      *)
StringBlock(mask) ==
  LET p == ptr + FirstLane(mask)
  IN  \/ /\ mask = {}
         /\ ptr' = ptr + Width
         /\ Move("string")
         /\ UNCHANGED <<pos, begin, has_escape, stage>>
      \/ /\ mask # {} /\ At(p) = Quote
         /\ CloseString(p)
      \/ /\ mask # {} /\ At(p) < 32
         /\ Fail("UnescapedCharacter")
         /\ UNCHANGED <<pos, scan>>
      \/ /\ mask # {} /\ At(p) # Quote /\ At(p) >= 32
         /\ has_escape' = TRUE
         /\ ptr' = p + 2
         /\ Move("string")
         /\ UNCHANGED <<pos, begin, stage>>

SwarStringBlock ==
  /\ pc = "string" /\ engine = "Swar" /\ HasBlock(ptr, Width)
  /\ StringBlock(StringMask(Load(text, ptr, Width)))

Avx2StringBlock ==
  /\ pc = "string" /\ engine = "Avx2" /\ HasBlock(ptr, Width)
  /\ LET chunk == Load(text, ptr, Width)
     IN  StringBlock({i \in Lanes(chunk) : chunk[i] \in {Quote, Backslash} \cup 0..31})

(* finish_string_scalar                                                    *)
StringTail ==
  /\ pc = "string" /\ ~HasBlock(ptr, Width)
  /\ \/ /\ ptr >= End
        /\ Fail("InvalidValue")
        /\ UNCHANGED <<pos, scan>>
     \/ /\ ptr < End /\ At(ptr) < 32
        /\ Fail("UnescapedCharacter")
        /\ UNCHANGED <<pos, scan>>
     \/ /\ ptr < End /\ At(ptr) = Quote
        /\ CloseString(ptr)
     \/ /\ ptr < End /\ At(ptr) = Backslash
        /\ has_escape' = TRUE
        /\ ptr' = ptr + 2
        /\ IF ptr + 2 > End THEN Fail("InvalidValue") ELSE Move("string")
        /\ UNCHANGED <<pos, begin, stage>>
     \/ /\ ptr < End /\ At(ptr) >= 32 /\ At(ptr) \notin {Quote, Backslash}
        /\ ptr' = ptr + 1
        /\ Move("string")
        /\ UNCHANGED <<pos, begin, has_escape, stage>>

-----------------------------------------------------------------------------
(* read_numeric: sign and first digit, then digits, fraction, exponent.    *)

ReadNumeric ==
  /\ pc = "next" /\ pos < End /\ At(pos) \in Digits \cup {Minus_}
  /\ begin' = pos /\ stage' = "integer"
  /\ LET p == IF At(pos) = Minus_ THEN pos + 1 ELSE pos
     IN  \/ /\ ~IsDigit(p)
            /\ pos' = p /\ Fail("InvalidValue")
         \/ /\ IsDigit(p) /\ At(p) = 48
            /\ pos' = p + 1
            /\ IF IsDigit(p + 1) THEN Fail("LeadingZero") ELSE Move("number")
         \/ /\ IsDigit(p) /\ At(p) # 48
            /\ pos' = p /\ Move("digits")
  /\ UNCHANGED <<ptr, has_escape>>

(* skip_digits                                                             *)
DigitBlock ==
  /\ pc = "digits" /\ HasBlock(pos, BlockSize["Swar"])
  /\ LET non_digits == NonDigitMask(Load(text, pos, BlockSize["Swar"]))
     IN  IF non_digits = {}
         THEN pos' = pos + BlockSize["Swar"] /\ Move("digits")
         ELSE pos' = pos + FirstLane(non_digits) /\ Move("number")
  /\ UNCHANGED scan

DigitTail ==
  /\ pc = "digits" /\ ~HasBlock(pos, BlockSize["Swar"])
  /\ IF IsDigit(pos) THEN pos' = pos + 1 /\ Move("digits")
                     ELSE UNCHANGED pos /\ Move("number")
  /\ UNCHANGED scan

(* A part that begins at p must have a digit there.                        *)
NumberPart(p, part) ==
  /\ pos' = p /\ stage' = part
  /\ IF IsDigit(p) THEN Move("digits") ELSE Fail("InvalidValue")
  /\ UNCHANGED <<ptr, begin, has_escape>>

StartsFraction == stage = "integer" /\ pos < End /\ At(pos) = 46
StartsExponent == stage # "exponent" /\ pos < End /\ At(pos) \in {69, 101}

Fraction ==
  /\ pc = "number" /\ StartsFraction
  /\ NumberPart(pos + 1, "fraction")

(* Fault: the sign is skipped unseen.                                     *)
ExponentSigned ==
  /\ pc = "number" /\ StartsExponent
  /\ NumberPart(pos + 2, "exponent")

(* Fault: no sign is expected.                                            *)
ExponentUnsigned ==
  /\ pc = "number" /\ StartsExponent
  /\ NumberPart(pos + 1, "exponent")

Exponent ==
  /\ pc = "number" /\ StartsExponent
  /\ NumberPart(IF pos + 1 < End /\ At(pos + 1) \in {43, Minus_} THEN pos + 2 ELSE pos + 1, "exponent")

EndNumber ==
  /\ pc = "number" /\ ~StartsFraction /\ ~StartsExponent
  /\ Emit(Token(IF stage = "integer" THEN "Integer" ELSE "Double", begin, pos, FALSE), pos)
  /\ UNCHANGED scan

-----------------------------------------------------------------------------
Done == pc = "done" /\ UNCHANGED vars

NextToken ==
  EndOfFile \/ ReadPunctuation \/ SkipWhitespace \/ ReadString \/ RejectByte \/ ReadAlphabet \/ ReadNumeric

Scan ==
  \/ SwarSpaceBlock \/ Avx2SpaceBlock \/ SpaceTail
  \/ SwarStringBlock \/ Avx2StringBlock \/ StringTail
  \/ DigitBlock \/ DigitTail \/ Fraction \/ Exponent \/ EndNumber

Next == NextToken \/ Scan \/ Done

Spec     == Init /\ [][Next]_vars
FairSpec == Spec /\ WF_vars(NextToken \/ Scan)

-----------------------------------------------------------------------------
(* Properties                                                              *)

(* Offsets stay inside the text, the scan pointer at most one past its     *)
(* end: only an escape in the last byte takes it there.                    *)
TypeOK ==
  /\ engine \in Engines /\ text \in Seq(Byte)
  /\ pos \in 0..End /\ begin \in 0..End /\ ptr \in 0..(End + 1)
  /\ has_escape \in BOOLEAN
  /\ stage \in {"integer", "fraction", "exponent"}
  /\ status \in {"None", "Unknown", "SingleQuotedString", "LeadingZero", "InvalidValue",
                 "UnescapedCharacter"}
  /\ pc \in {"next", "space", "tail", "string", "digits", "number", "done"}
  /\ \A i \in DOMAIN tokens : tokens[i].from \in 0..End /\ tokens[i].to \in tokens[i].from..End

(* Where the bytes of a token begin and end, its quotes included.          *)
First(tk) == IF tk.type = "String" THEN tk.from - 1 ELSE tk.from
After(tk) == IF tk.type = "String" THEN tk.to + 1 ELSE tk.to
Consumed  == IF tokens = <<>> THEN 0 ELSE After(Last(tokens))

(* Every token is what the byte-wise definition makes of its span, for     *)
(* each engine and block width: a string ends at its first unescaped quote *)
(* even when the backslash is the last byte of a block, has_escape_ tells  *)
(* the parser truly whether there is an escape, and a number is the        *)
(* longest one that starts there.                                          *)
IsLexeme(tk) ==
  CASE tk.type = "String" ->
         /\ At(tk.from - 1) = Quote /\ IsString(text, tk.from, tk.to)
         /\ tk.has_escape <=> \E q \in tk.from..(tk.to - 1) : At(q) = Backslash
    [] tk.type \in {"Integer", "Double"} ->
         /\ IsNumber(text, tk.from, tk.to)
         /\ \A to \in (tk.to + 1)..End : ~IsNumber(text, tk.from, to)
         /\ tk.type = "Integer" <=> IsInteger(text, tk.from, tk.to)
    [] tk.type = "Null"    -> IsWord(text, tk.from, tk.to, Null)
    [] tk.type = "Boolean" -> \E w \in {True, False} : IsWord(text, tk.from, tk.to, w)
    [] OTHER -> tk.to = tk.from + 1 /\ Punctuation[At(tk.from)] = tk.type

TokensAreLexemes == tokens # <<>> => IsLexeme(Last(tokens))

Blank(from, to) == \A p \in from..(to - 1) : At(p) \in WhiteSpace

(* Between two tokens, and after the last one when the text is accepted,   *)
(* nothing is passed over but whitespace of the dispatch table; the blocks *)
(* of the SWAR engine pass over every byte up to the space, but over none  *)
(* above it.                                                               *)
Skippable(from, to) ==
  Blank(from, to) \/ (engine = "Swar" /\ \A p \in from..(to - 1) : At(p) <= 32)

NothingSkipped ==
  /\ tokens # <<>> =>
       Skippable(IF Len(tokens) = 1 THEN 0 ELSE After(tokens[Len(tokens) - 1]), First(Last(tokens)))
  /\ pc = "done" /\ status = "None" => Skippable(Consumed, End)

(* An error is reported only where no token starts: no string closes, no   *)
(* word matches, and a number that starts there is followed by a byte that *)
(* cannot follow one.                                                      *)
RejectsNoLexeme ==
  status # "None" =>
    \A p \in Consumed..(End - 1) : Blank(Consumed, p) /\ At(p) \notin WhiteSpace =>
      /\ At(p) \notin DOMAIN Punctuation
      /\ \A to \in (p + 1)..End :
           /\ At(p) = Quote => ~IsString(text, p + 1, to)
           /\ \A w \in {Null, True, False} : ~IsWord(text, p, to, w)
           /\ IsNumber(text, p, to) => to < End /\ At(to) \in Digits \cup {46, 69, 101}

(* Tokenizing ends: every pass of next_token's loop consumes something,    *)
(* unless the AVX2 engine stands before a form feed, which next_token      *)
(* takes for whitespace and skip_whitespace does not.                      *)
BeforeFormFeed == engine = "Avx2" /\ pc \in {"next", "space"} /\ pos < End /\ At(pos) = 12

EndsOrMeetsFormFeed == <>(pc = "done" \/ BeforeFormFeed)

(* docs/ARCHITECTURE.md:160: the lexer makes a single pass.                *)
SinglePass == <>(pc = "done")
=============================================================================

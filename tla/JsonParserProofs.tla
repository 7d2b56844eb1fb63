-------------------------- MODULE JsonParserProofs --------------------------
(***************************************************************************)
(* Proofs about JsonParser, for every source text, every nesting limit and *)
(* every interpretation of texts and numbers.                              *)
(***************************************************************************)
EXTENDS JsonParser, SequenceTheorems, WellFoundedInduction, TLAPS

-----------------------------------------------------------------------------
(* Facts about tokens and sequences.                                       *)

(* Of some positions there is a lowest one.                                *)
LEMMA LowestMember ==
  ASSUME NEW n \in Nat, NEW S \in SUBSET (1..n), S # {}
  PROVE  \E i \in S : \A j \in S : i <= j
<1> DEFINE Less == OpToRel(<, Nat)
<1>1. S \subseteq Nat
  OBVIOUS
<1>2. IsWellFoundedOn(Less, Nat)
  BY NatLessThanWellFounded, Zenon
<1> HIDE DEF Less
<1>3. PICK i \in S : \A j \in S : ~(<<j, i>> \in Less)
  BY <1>1, <1>2, WFMin
<1>4. \A j \in S : ~(j < i)
  BY <1>1, <1>3, Zenon DEF OpToRel, Less
<1> QED
  BY <1>1, <1>3, <1>4

(* What the tokens that carry something carry.                             *)
LEMMA TokenPayloads ==
  ASSUME NEW t \in Tokens
  PROVE  /\ t.type = "Boolean" => t.value \in BOOLEAN
         /\ t.type = "Integer" => t.value \in IntegerLiterals
         /\ t.type = "Double" => t.value \in DoubleLiterals
         /\ t.type = "String" => t.value \in Texts
         /\ t.type = "Unknown" => t.error \in LexerErrors
  BY DEF Tokens

(* Last and Front of a non-empty sequence.                                 *)
LEMMA LastFront ==
  ASSUME NEW S, NEW s \in Seq(S), s # <<>>
  PROVE  /\ Len(s) \in Nat \ {0}
         /\ Last(s) = s[Len(s)] /\ Last(s) \in S
         /\ Front(s) \in Seq(S) /\ Len(Front(s)) = Len(s) - 1
         /\ \A i \in 1..(Len(s) - 1) : Front(s)[i] = s[i]
<1>1. Len(s) \in Nat \ {0}
  BY EmptySeq
<1>2. \A i \in 1..(Len(s) - 1) : s[i] \in S
  BY <1>1, ElementOfSeq
<1>3. /\ SubSeq(s, 1, Len(s) - 1) \in Seq(S)
      /\ Len(SubSeq(s, 1, Len(s) - 1)) =
           IF 1 <= Len(s) - 1 THEN Len(s) - 1 - 1 + 1 ELSE 0
      /\ \A i \in 1..(Len(s) - 1 - 1 + 1) : SubSeq(s, 1, Len(s) - 1)[i] = s[1 + i - 1]
  BY <1>1, <1>2, SubSeqProperties
<1>4. Last(s) = s[Len(s)] /\ Last(s) \in S
  BY <1>1, ElementOfSeq DEF Last
<1>5. Len(SubSeq(s, 1, Len(s) - 1)) = Len(s) - 1
  <2> DEFINE l == Len(s)  t == SubSeq(s, 1, Len(s) - 1)
  <2>1. l \in Nat \ {0} /\ Len(t) = IF 1 <= l - 1 THEN l - 1 - 1 + 1 ELSE 0
    BY <1>1, <1>3
  <2> HIDE DEF l, t
  <2>2. Len(t) = l - 1
    BY <2>1
  <2> QED
    BY <2>2 DEF l, t
<1>6. \A i \in 1..(Len(s) - 1) : Front(s)[i] = s[i]
  BY <1>1, <1>3 DEF Front
<1> QED
  BY <1>1, <1>3, <1>4, <1>5, <1>6 DEF Front

(* Cutting a stack back keeps its lower part and hands over the rest.      *)
LEMMA CutBackFacts ==
  ASSUME NEW S, NEW s \in Seq(S), NEW n \in 0..Len(s)
  PROVE  /\ CutBack(s, n) \in Seq(S) /\ Len(CutBack(s, n)) = n
         /\ \A i \in 1..n : CutBack(s, n)[i] = s[i]
         /\ ItemsFrom(s, n) \in Seq(S) /\ Len(ItemsFrom(s, n)) = Len(s) - n
         /\ \A i \in 1..(Len(s) - n) : ItemsFrom(s, n)[i] = s[n + i]
         /\ DOMAIN CutBack(s, n) = 1..n /\ DOMAIN ItemsFrom(s, n) = 1..(Len(s) - n)
<1>1. Len(s) \in Nat /\ n \in Nat /\ \A i \in 1..Len(s) : s[i] \in S
  BY LenProperties, ElementOfSeq
<1>2. /\ SubSeq(s, 1, n) \in Seq(S) /\ Len(SubSeq(s, 1, n)) = n
      /\ \A i \in 1..n : SubSeq(s, 1, n)[i] = s[i]
  BY <1>1, SubSeqProperties
<1>3. /\ SubSeq(s, n + 1, Len(s)) \in Seq(S)
      /\ Len(SubSeq(s, n + 1, Len(s))) = Len(s) - n
      /\ \A i \in 1..(Len(s) - n) : SubSeq(s, n + 1, Len(s))[i] = s[n + i]
  <2>1. \A i \in (n + 1)..Len(s) : s[i] \in S
    BY <1>1
  <2>2. /\ SubSeq(s, n + 1, Len(s)) \in Seq(S)
        /\ Len(SubSeq(s, n + 1, Len(s))) =
             IF n + 1 <= Len(s) THEN Len(s) - (n + 1) + 1 ELSE 0
        /\ \A i \in 1..(Len(s) - (n + 1) + 1) :
             SubSeq(s, n + 1, Len(s))[i] = s[n + 1 + i - 1]
    BY <1>1, <2>1, SubSeqProperties
  <2> QED
    BY <1>1, <2>2
<1>4. /\ CutBack(s, n) \in Seq(S) /\ Len(CutBack(s, n)) = n
      /\ ItemsFrom(s, n) \in Seq(S) /\ Len(ItemsFrom(s, n)) = Len(s) - n
  BY <1>2, <1>3 DEF CutBack, ItemsFrom
<1>5. DOMAIN CutBack(s, n) = 1..n /\ DOMAIN ItemsFrom(s, n) = 1..(Len(s) - n)
  BY <1>4, LenProperties
<1> QED
  BY <1>2, <1>3, <1>4, <1>5 DEF CutBack, ItemsFrom

(* The part that is cut off.                                               *)
LEMMA ItemsFacts ==
  ASSUME NEW S, NEW s \in Seq(S), NEW n \in 0..Len(s)
  PROVE  /\ ItemsFrom(s, n) \in Seq(S) /\ DOMAIN ItemsFrom(s, n) = 1..(Len(s) - n)
         /\ \A i \in 1..(Len(s) - n) : ItemsFrom(s, n)[i] = s[n + i]
BY CutBackFacts

(* A pull appends one token and keeps the statuses in their sets.          *)
LEMMA AdvanceType ==
  ASSUME TypeOK, Advance
  PROVE  /\ pulled' \in Seq(Tokens) /\ pulled' # <<>>
         /\ lexer_status' \in LexerErrors \cup {"None"}
         /\ status' \in LexerErrors \cup ParserErrors \cup {"None"}
<1>1. PICK t \in Tokens : Pull(t)
  BY SourceAssumption DEF Advance, NextTokens, EndOfFile, Tokens
<1>2. t.type = "Unknown" => t.error \in LexerErrors
  BY TokenPayloads
<1>3. pulled \in Seq(Tokens) /\ pulled' = Append(pulled, t)
  BY <1>1 DEF Pull, TypeOK
<1>4. pulled' \in Seq(Tokens) /\ pulled' # <<>>
  BY <1>3, AppendProperties
<1> QED
  BY <1>1, <1>2, <1>4 DEF Pull, TypeOK

(* The current token is a token.                                           *)
LEMMA CurrentType ==
  ASSUME TypeOK
  PROVE  Current \in Tokens
BY LastFront DEF TypeOK, Current

(* Decoding a text gives a text, or Malformed.                             *)
LEMMA DecodedType ==
  ASSUME NEW t \in Texts, Decoded(t) # Malformed
  PROVE  Decoded(t) \in Texts
BY TextsAssumption DEF Decoded

(* Truncating an integer to 48 bits gives an integer.                      *)
LEMMA Truncate48Type ==
  ASSUME NEW n \in Int
  PROVE  Truncate48(n) \in Int
<1>1. IntegerModulus \in Nat \ {0}
  BY NumbersAssumption
<1> DEFINE half == IntegerModulus \div 2
<1>2. half \in Int
  BY <1>1
<1> HIDE DEF half
<1>3. ((n + half) % IntegerModulus) - half \in Int
  BY <1>1, <1>2
<1> QED
  BY <1>3 DEF Truncate48, half

-----------------------------------------------------------------------------
(* Type correctness.                                                       *)

(* An unwound-free parser's innermost segment starts within its stack.     *)
LEMMA TopStart ==
  ASSUME TypeOK, StructureInv, pc = "closed"
  PROVE  /\ InArray => Top.start \in 0..Len(array_stack)
         /\ InObject => Top.start \in 0..Len(object_stack)
<1>1. ~Unwinding /\ calls # <<>>
  BY DEF StructureInv, CallsFitPlace, Unwinding
<1>2. Len(calls) \in DOMAIN calls /\ Top = calls[Len(calls)] /\ Top \in Frames
  BY <1>1, LastFront, LenProperties DEF TypeOK, Top
<1>3. Top.start \in Nat
  BY <1>2 DEF Frames
<1>4. Top.kind = "Array" => Top.start <= Len(array_stack)
  BY <1>1, <1>2 DEF StructureInv, SharedStacksNested, SegmentsNested
<1>5. Top.kind = "Object" => Top.start <= Len(object_stack)
  BY <1>1, <1>2 DEF StructureInv, SharedStacksNested, SegmentsNested
<1>6. Len(array_stack) \in Nat /\ Len(object_stack) \in Nat
  BY LenProperties DEF TypeOK
<1> QED
  BY <1>3, <1>4, <1>5, <1>6 DEF InArray, InObject

(* A container that has items has counted its level.                       *)
LEMMA DepthPositive ==
  ASSUME TypeOK, StructureInv, pc = "closed"
  PROVE  depth = Len(calls) /\ depth - 1 \in Nat
<1>1. ~Unwinding /\ calls # <<>>
  BY DEF StructureInv, CallsFitPlace, Unwinding
<1>2. Len(calls) \in Nat \ {0}
  BY <1>1, LastFront DEF TypeOK
<1> QED
  BY <1>1, <1>2 DEF StructureInv, DepthCountsCalls, Uncounted

(* The constructor leaves every variable in its set.                       *)
LEMMA TypeInit == Init => TypeOK
<1> SUFFICES ASSUME Init PROVE TypeOK
  OBVIOUS
<1>1. PICK t \in Tokens : /\ pulled = <<t>>
                          /\ lexer_status = IF t.type = "Unknown" THEN t.error ELSE "None"
                          /\ status = lexer_status
  BY SourceAssumption DEF Init, Tokens, EndOfFile
<1>2. t.type = "Unknown" => t.error \in LexerErrors
  BY TokenPayloads
<1>3. pulled \in Seq(Tokens) /\ pulled # <<>>
  BY <1>1
<1> QED
  BY <1>1, <1>2, <1>3, EmptySeq DEF Init, TypeOK, Value, JsonValues, Places, NoRoot

(* Two actions need more than types: a member takes the key its object     *)
(* waits with, and cutting a stack back needs start_size within it.        *)
LEMMA TypeStep == TypeOK /\ StructureInv /\ [Next]_vars => TypeOK'
<1> SUFFICES ASSUME TypeOK, StructureInv, [Next]_vars PROVE TypeOK'
  OBVIOUS
<1> USE DEF TypeOK
<1>tok. Current \in Tokens
  BY CurrentType
<1>adv. Advance => /\ pulled' \in Seq(Tokens) /\ pulled' # <<>>
                   /\ lexer_status' \in LexerErrors \cup {"None"}
                   /\ status' \in LexerErrors \cup ParserErrors \cup {"None"}
  BY AdvanceType
<1>top. calls # <<>> => Top \in Frames /\ Front(calls) \in Seq(Frames)
  BY LastFront DEF Top
<1>1. CASE RejectStart
  BY <1>1 DEF RejectStart, ParserErrors, Places, stacks, storage
<1>2. CASE BuildRoot
  BY <1>2 DEF BuildRoot, Places, stacks, storage
<1>3. CASE BuildNull
  BY <1>3, <1>adv DEF BuildNull, Return, Value, JsonValues, Places, stacks, storage
<1>4. CASE BuildBoolean
  BY <1>4, <1>adv DEF BuildBoolean, Return, Value, JsonValues, Places, stacks, storage
<1>5. CASE BuildInteger
  <2>1. Truncate48(Current.value) \in Int
    BY <1>5, <1>tok, TokenPayloads, Truncate48Type, NumbersAssumption DEF BuildInteger, Is
  <2> QED
    BY <1>5, <1>adv, <2>1 DEF BuildInteger, Return, Value, JsonValues, Places, stacks, storage
<1>6. CASE BuildDouble
  <2>1. Current.value \in Int
    BY <1>6, <1>tok, TokenPayloads, NumbersAssumption DEF BuildDouble, Is
  <2>2. CASE Current.value \in OutOfRange
    BY <1>6, <2>2 DEF BuildDouble, Fail, Keep, ParserErrors, Places, stacks, storage
  <2>3. CASE Current.value \notin OutOfRange
    BY <1>6, <1>adv, <2>1, <2>3
    DEF BuildDouble, Return, Value, JsonValues, Places, stacks, storage
  <2> QED
    BY <2>2, <2>3
<1>7. CASE BuildString
  <2>1. Current.value \in Texts
    BY <1>7, <1>tok, TokenPayloads DEF BuildString, Is
  <2>2. CASE Decoded(Current.value) = Malformed
    BY <1>7, <2>2 DEF BuildString, Fail, Keep, ParserErrors, Places, stacks, storage
  <2>3. CASE Decoded(Current.value) # Malformed
    <3>0. Decoded(Current.value) \in Texts
      BY <2>1, <2>3, DecodedType
    <3>1. strings' = Append(strings, Decoded(Current.value))
      BY <1>7, <2>3 DEF BuildString
    <3>3. strings' \in Seq(Texts)
      BY <3>0, <3>1, AppendProperties
    <3>2. ret' \in JsonValues
      BY <1>7, <2>3, LenProperties DEF BuildString, Return, Value, JsonValues
    <3> QED
      BY <1>7, <1>adv, <2>3, <3>3, <3>2 DEF BuildString, Return, Places, stacks, storage
  <2> QED
    BY <2>2, <2>3
<1>8. CASE OpenArray \/ OpenObject
  <2>0. /\ [kind |-> "Array", start |-> Len(array_stack), key |-> NoKey] \in Frames
        /\ [kind |-> "Object", start |-> Len(object_stack), key |-> NoKey] \in Frames
    BY LenProperties DEF Frames
  <2>2. PICK frame \in Frames : calls' = Append(calls, frame)
    BY <1>8, <2>0 DEF OpenArray, OpenObject, Open
  <2>1. calls' \in Seq(Frames)
    BY <2>2, AppendProperties
  <2> QED
    BY <1>8, <1>adv, <2>1 DEF OpenArray, OpenObject, Open, Places, stacks, storage
<1>9. CASE RejectValue
  BY <1>9 DEF RejectValue, Fail, Keep, ParserErrors, Places, stacks, storage
<1>10. CASE EmptyArray
  <2>1. arrays' \in Seq(Seq(JsonValues))
    BY <1>10, EmptySeq, AppendProperties DEF EmptyArray, SealArray
  <2>2. ret' \in JsonValues
    BY <1>10, LenProperties DEF EmptyArray, SealArray, Return, Value, JsonValues
  <2> QED
    BY <1>10, <1>top, <2>1, <2>2
    DEF EmptyArray, InArray, SealArray, Return, Places, stacks, storage
<1>11. CASE EmptyObject
  <2>1. objects' \in Seq(Seq(Members))
    BY <1>11, EmptySeq, AppendProperties DEF EmptyObject, SealObject
  <2>2. ret' \in JsonValues
    BY <1>11, LenProperties DEF EmptyObject, SealObject, Return, Value, JsonValues
  <2> QED
    BY <1>11, <1>top, <2>1, <2>2
    DEF EmptyObject, InObject, SealObject, Return, Places, stacks, storage
<1>12. CASE EnterLoop
  BY <1>12 DEF EnterLoop, EnterLoopWithLimit, Fail, Keep, ParserErrors, Places, stacks, storage
<1>13. CASE RejectKey
  BY <1>13 DEF RejectKey, Fail, Keep, ParserErrors, Places, stacks, storage
<1>14. CASE ReadKey
  <2>1. Current.value \in Texts
    BY <1>14, <1>tok, TokenPayloads DEF ReadKey, Is
  <2> DEFINE text == Decoded(Current.value)
  <2>2. text \in Texts
    BY <1>14, <2>1, DecodedType DEF ReadKey
  <2>3. strings' \in Seq(Texts)
    BY <1>14, <2>2, AppendProperties DEF ReadKey
  <2>4. MemberKey(text) \in Keys
    BY <2>2, LenProperties DEF MemberKey, Keys
  <2>5. calls' \in Seq(Frames)
    <3>1. calls' = [calls EXCEPT ![Len(calls)] =
                      [calls[Len(calls)] EXCEPT !.key = MemberKey(text)]]
      BY <1>14 DEF ReadKey
    <3>2. calls # <<>>
      BY <1>14 DEF ReadKey, StructureInv, CallsFitPlace
    <3>3. Len(calls) \in 1..Len(calls) /\ calls[Len(calls)] \in Frames
      BY <3>2, EmptySeq, ElementOfSeq
    <3>4. [calls[Len(calls)] EXCEPT !.key = MemberKey(text)] \in Frames
      BY <3>3, <2>4 DEF Frames
    <3> QED
      BY <3>1, <3>3, <3>4, ExceptSeq
  <2> QED
    BY <1>14, <1>adv, <2>3, <2>5 DEF ReadKey, Places, stacks, storage
<1>15. CASE ReadColon
  BY <1>15, <1>adv DEF ReadColon, Fail, Keep, ParserErrors, Places, stacks, storage
<1>16. CASE Unwind
  BY <1>16, <1>top DEF Unwind, Places, stacks, storage
<1>17. CASE SetRoot
  BY <1>17 DEF SetRoot, ParserErrors, Places, stacks, storage
<1>18. CASE AddElement
  <2>1. array_stack' \in Seq(JsonValues)
    BY <1>18, AppendProperties DEF AddElement
  <2> QED
    BY <1>18, <2>1 DEF AddElement, Places, stacks, storage
<1>19. CASE ReadComma
  BY <1>19, <1>adv DEF ReadComma, Places, stacks, storage
<1>20. CASE AfterComma
  BY <1>20 DEF AfterComma, Fail, Keep, ParserErrors, Places, stacks, storage
<1>21. CASE MissingComma
  BY <1>21 DEF MissingComma, Fail, Keep, ParserErrors, Places, stacks, storage
<1>22. CASE AddMember
  <2>1. Top.key # NoKey
    <3>0. calls # <<>>
      BY <1>22 DEF AddMember, InObject
    <3>1. Top = calls[Len(calls)] /\ Len(calls) \in DOMAIN calls
      BY <3>0, EmptySeq, LenProperties DEF Top, Last
    <3>2. ~Unwinding /\ pc = "return" /\ Top.kind = "Object"
      BY <1>22 DEF AddMember, InObject, Unwinding
    <3> QED
      BY <3>1, <3>2 DEF StructureInv, KeysBeforeValues, Uncounted
  <2>2. [key |-> Top.key, value |-> ret] \in Members
    BY <1>22, <1>top, <2>1 DEF AddMember, InObject, Frames, Members
  <2>3. object_stack' \in Seq(Members)
    BY <1>22, <2>2, AppendProperties DEF AddMember
  <2> QED
    BY <1>22, <2>3 DEF AddMember, Places, stacks, storage
<1>23. CASE CloseArray
  <2>1. Top.start \in 0..Len(array_stack)
    BY <1>23, <1>top, TopStart DEF CloseArray
  <2>2. /\ CutBack(array_stack, Top.start) \in Seq(JsonValues)
        /\ ItemsFrom(array_stack, Top.start) \in Seq(JsonValues)
    BY <2>1, CutBackFacts
  <2>3. arrays' \in Seq(Seq(JsonValues))
    BY <1>23, <2>2, AppendProperties DEF CloseArray, SealArray
  <2>4. ret' \in JsonValues
    BY <1>23, LenProperties DEF CloseArray, SealArray, Return, Value, JsonValues
  <2>5. depth' \in Nat
    BY <1>23, DepthPositive DEF CloseArray
  <2> QED
    BY <1>23, <1>top, <2>2, <2>3, <2>4, <2>5
    DEF CloseArray, InArray, SealArray, Return, Places, stacks, storage
<1>24. CASE CloseObject
  <2>1. Top.start \in 0..Len(object_stack)
    BY <1>24, <1>top, TopStart DEF CloseObject
  <2>2. /\ CutBack(object_stack, Top.start) \in Seq(Members)
        /\ ItemsFrom(object_stack, Top.start) \in Seq(Members)
    BY <2>1, CutBackFacts
  <2>3. objects' \in Seq(Seq(Members))
    BY <1>24, <2>2, AppendProperties DEF CloseObject, SealObject
  <2>4. ret' \in JsonValues
    BY <1>24, LenProperties DEF CloseObject, SealObject, Return, Value, JsonValues
  <2>5. depth' \in Nat
    BY <1>24, DepthPositive DEF CloseObject
  <2> QED
    BY <1>24, <1>top, <2>2, <2>3, <2>4, <2>5
    DEF CloseObject, InObject, SealObject, Return, Places, stacks, storage
<1>25. CASE Done \/ UNCHANGED vars
  BY <1>25 DEF Done, vars, stacks, storage
<1>26. CASE ReadClosing
  BY <1>26, <1>adv DEF ReadClosing, Places, stacks, storage
<1> QED
  BY <1>1, <1>2, <1>3, <1>4, <1>5, <1>6, <1>7, <1>8, <1>9, <1>10, <1>11, <1>12, <1>13,
     <1>14, <1>15, <1>16, <1>17, <1>18, <1>19, <1>20, <1>21, <1>22, <1>23, <1>24, <1>25,
     <1>26 DEF Next

-----------------------------------------------------------------------------
(* The segments of the shared stacks, as facts about sequences of frames.  *)

(* A new innermost segment starts at the top of its stack.                 *)
LEMMA PushNested ==
  ASSUME NEW frames \in Seq(Frames), NEW kind, NEW size \in Nat, NEW f \in Frames,
         SegmentsNested(frames, kind, size), f.kind = kind => f.start = size
  PROVE  SegmentsNested(Append(frames, f), kind, size)
<1> DEFINE longer == Append(frames, f)
           own == {i \in DOMAIN frames : frames[i].kind = kind}
<1>1. /\ Len(frames) \in Nat /\ DOMAIN frames = 1..Len(frames)
      /\ \A i \in DOMAIN frames : frames[i] \in Frames
  BY LenProperties, ElementOfSeq
<1>2. /\ DOMAIN longer = 1..(Len(frames) + 1)
      /\ \A i \in 1..Len(frames) : longer[i] = frames[i]
      /\ longer[Len(frames) + 1] = f
  <2>1. longer \in Seq(Frames) /\ Len(longer) = Len(frames) + 1
    BY AppendProperties
  <2> QED
    BY <2>1, AppendProperties, LenProperties
<1>3. CASE f.kind # kind
  <2>1. {i \in DOMAIN longer : longer[i].kind = kind} = own
    BY <1>1, <1>2, <1>3
  <2> QED
    BY <1>1, <1>2, <2>1 DEF SegmentsNested
<1>4. CASE f.kind = kind
  <2>1. {i \in DOMAIN longer : longer[i].kind = kind} = own \cup {Len(frames) + 1}
    BY <1>1, <1>2, <1>4
  <2>2. own = {} => size = 0
    BY DEF SegmentsNested
  <2> QED
    BY <1>1, <1>2, <1>4, <2>1, <2>2 DEF SegmentsNested, Frames
<1> QED
  BY <1>3, <1>4

(* Without its innermost segment a stack ends where that segment began.    *)
LEMMA PopNested ==
  ASSUME NEW frames \in Seq(Frames), frames # <<>>, NEW kind, NEW size \in Nat,
         SegmentsNested(frames, kind, size)
  PROVE  SegmentsNested(Front(frames), kind,
                        IF Last(frames).kind = kind THEN Last(frames).start ELSE size)
<1> DEFINE shorter == Front(frames)
           n == Len(frames)
           own == {i \in DOMAIN frames : frames[i].kind = kind}
<1>1. /\ n \in Nat \ {0} /\ DOMAIN frames = 1..n
      /\ \A i \in DOMAIN frames : frames[i] \in Frames
  BY LenProperties, ElementOfSeq, EmptySeq
<1>2. /\ Last(frames) = frames[n]
      /\ DOMAIN shorter = 1..(n - 1)
      /\ \A i \in 1..(n - 1) : shorter[i] = frames[i]
  BY LastFront, LenProperties
<1>3. {i \in DOMAIN shorter : shorter[i].kind = kind} = own \ {n}
  BY <1>1, <1>2
<1>4. CASE Last(frames).kind # kind
  <2>1. n \notin own
    BY <1>2, <1>4
  <2> QED
    BY <1>1, <1>2, <1>3, <1>4, <2>1 DEF SegmentsNested
<1>5. CASE Last(frames).kind = kind
  <2>1. n \in own
    BY <1>1, <1>2, <1>5
  <2>2. /\ \A i \in own \ {n} : shorter[i].start <= frames[n].start
        /\ \A i, j \in own \ {n} : i < j => shorter[i].start <= shorter[j].start
    BY <1>1, <1>2, <2>1 DEF SegmentsNested
  <2>3. \A i \in own \ {n} : (\A j \in own \ {n} : i <= j) => shorter[i].start = 0
    BY <1>1, <1>2, <2>1 DEF SegmentsNested
  <2>4. own \ {n} = {} => frames[n].start = 0
    BY <1>1, <2>1 DEF SegmentsNested
  <2> QED
    BY <1>2, <1>3, <1>5, <2>2, <2>3, <2>4 DEF SegmentsNested
<1> QED
  BY <1>4, <1>5

(* Only an open container's stack grows.                                   *)
LEMMA GrowNested ==
  ASSUME NEW frames \in Seq(Frames), frames # <<>>, NEW kind, NEW size \in Nat,
         SegmentsNested(frames, kind, size), Last(frames).kind = kind
  PROVE  SegmentsNested(frames, kind, size + 1)
<1>1. DOMAIN frames = 1..Len(frames) /\ Len(frames) \in Nat \ {0}
  BY EmptySeq, LenProperties
<1>2. Len(frames) \in DOMAIN frames /\ Last(frames) = frames[Len(frames)]
  BY <1>1 DEF Last
<1>3. \A i \in DOMAIN frames : frames[i] \in Frames
  BY <1>1, ElementOfSeq
<1>4. \A i \in DOMAIN frames : frames[i].start \in Nat
  BY <1>3 DEF Frames
<1> QED
  BY <1>2, <1>4 DEF SegmentsNested

-----------------------------------------------------------------------------
(* The structural invariant.                                               *)

(* Where the current token is not Unknown, a running function has no error *)
(* pending.                                                                *)
LEMMA NothingPending ==
  ASSUME StructureInv, pc \notin {"parse", "return", "done"}, ~Is("Unknown")
  PROVE  status = "None" /\ lexer_status = "None" /\ ~Unwinding
BY DEF StructureInv, PendingErrorIsLexers, has_error, Unwinding

(* A pull sets an error exactly when it returns Unknown.                   *)
LEMMA AdvanceError ==
  ASSUME TypeOK, Advance, status = "None", lexer_status = "None"
  PROVE  /\ lexer_status' # "None" => status' # "None"
         /\ status' # "None" => Is("Unknown")'
<1>1. PICK t \in Tokens : Pull(t)
  BY SourceAssumption DEF Advance, NextTokens, EndOfFile, Tokens
<1>2. pulled \in Seq(Tokens) /\ pulled' = Append(pulled, t)
  BY <1>1 DEF Pull, TypeOK
<1>3. Len(pulled') = Len(pulled) + 1 /\ pulled'[Len(pulled) + 1] = t
  BY <1>2, AppendProperties
<1>4. Current' = t
  BY <1>3 DEF Current, Last
<1> QED
  BY <1>1, <1>4 DEF Pull, Is

(* The innermost activation record.                                        *)
LEMMA TopFrame ==
  ASSUME TypeOK, calls # <<>>
  PROVE  /\ Len(calls) \in Nat \ {0} /\ DOMAIN calls = 1..Len(calls)
         /\ Top = calls[Len(calls)] /\ Top \in Frames
         /\ Front(calls) \in Seq(Frames) /\ Len(Front(calls)) = Len(calls) - 1
         /\ DOMAIN Front(calls) = 1..(Len(calls) - 1)
         /\ \A i \in 1..(Len(calls) - 1) : Front(calls)[i] = calls[i]
<1>1. calls \in Seq(Frames)
  BY DEF TypeOK
<1>2. Front(calls) \in Seq(Frames) /\ Len(Front(calls)) = Len(calls) - 1
  BY <1>1, LastFront
<1>3. DOMAIN Front(calls) = 1..(Len(calls) - 1)
  BY <1>2, LenProperties
<1> QED
  BY <1>1, <1>2, <1>3, LastFront, LenProperties DEF Top

(* A step that leaves the activation records, the stacks and the depth     *)
(* alone disturbs nothing but where it goes next.                          *)
LEMMA QuietStep ==
  ASSUME StructureInv, UNCHANGED <<calls, array_stack, object_stack, depth>>,
         ~Unwinding, ~Uncounted, ~Uncounted',
         pc = "key" => Unwinding' \/ pc' = "key"
  PROVE  DepthCountsCalls' /\ SharedStacksNested' /\ KeysBeforeValues'
<1>1. DepthCountsCalls'
  BY DEF StructureInv, DepthCountsCalls
<1>2. SharedStacksNested'
  BY DEF StructureInv, SharedStacksNested, SegmentsNested
<1>3. KeysBeforeValues'
  BY DEF StructureInv, KeysBeforeValues
<1> QED
  BY <1>1, <1>2, <1>3

(* No container is open before parse().                                    *)
LEMMA StructureInit == Init => StructureInv
<1> SUFFICES ASSUME Init PROVE StructureInv
  OBVIOUS
<1>1. CallsFitPlace
  BY DEF Init, CallsFitPlace
<1>2. PendingErrorIsLexers
  BY DEF Init, PendingErrorIsLexers, has_error
<1>3. DepthCountsCalls
  BY BoundsAssumption, EmptySeq DEF Init, DepthCountsCalls, Uncounted
<1>4. SharedStacksNested
  BY EmptySeq DEF Init, SharedStacksNested, SegmentsNested, Uncounted
<1>5. KeysBeforeValues
  BY DEF Init, KeysBeforeValues
<1> QED
  BY <1>1, <1>2, <1>3, <1>4, <1>5 DEF StructureInv

(* The actions that move on without opening or closing a container.        *)
LEMMA StructureQuiet ==
  ASSUME TypeOK, StructureInv,
         \/ BuildRoot \/ BuildNull \/ BuildBoolean \/ BuildInteger \/ BuildDouble
         \/ BuildString \/ RejectValue \/ RejectKey \/ ReadColon
         \/ ReadComma \/ AfterComma \/ MissingComma
  PROVE  StructureInv'
<1> USE DEF stacks, storage
<1>adv. Advance /\ status = "None" /\ lexer_status = "None" =>
          /\ lexer_status' # "None" => status' # "None"
          /\ status' # "None" => Is("Unknown")'
  BY AdvanceError
<1>1. CASE BuildRoot
  <2>1. CallsFitPlace' /\ PendingErrorIsLexers'
    BY <1>1 DEF BuildRoot, StructureInv, CallsFitPlace, PendingErrorIsLexers, has_error
  <2>2. DepthCountsCalls' /\ SharedStacksNested' /\ KeysBeforeValues'
    BY <1>1, QuietStep DEF BuildRoot, Unwinding, Uncounted
  <2> QED
    BY <2>1, <2>2 DEF StructureInv
<1>2. CASE BuildNull \/ BuildBoolean \/ BuildInteger
  <2>1. status = "None" /\ lexer_status = "None" /\ ~Unwinding /\ Advance
    BY <1>2, NothingPending DEF BuildNull, BuildBoolean, BuildInteger, Is
  <2>2. pc = "value" /\ pc' = "return" /\ UNCHANGED <<calls, array_stack, object_stack, depth>>
    BY <1>2 DEF BuildNull, BuildBoolean, BuildInteger, Return
  <2>3. CallsFitPlace' /\ PendingErrorIsLexers'
    BY <1>adv, <2>1, <2>2 DEF CallsFitPlace, PendingErrorIsLexers, has_error
  <2>4. DepthCountsCalls' /\ SharedStacksNested' /\ KeysBeforeValues'
    BY <2>1, <2>2, QuietStep DEF Uncounted
  <2> QED
    BY <2>3, <2>4 DEF StructureInv
<1>3. CASE BuildDouble \/ BuildString
  <2>1. status = "None" /\ lexer_status = "None" /\ ~Unwinding
    BY <1>3, NothingPending DEF BuildDouble, BuildString, Is
  <2>2. pc = "value" /\ pc' = "return" /\ UNCHANGED <<calls, array_stack, object_stack, depth>>
    BY <1>3 DEF BuildDouble, BuildString, Return, Fail
  <2>3. Advance \/ (status' = "InvalidValue" /\ UNCHANGED lexer_status)
    BY <1>3 DEF BuildDouble, BuildString, Fail, Keep
  <2>4. CallsFitPlace' /\ PendingErrorIsLexers'
    BY <1>adv, <2>1, <2>2, <2>3 DEF CallsFitPlace, PendingErrorIsLexers, has_error
  <2>5. DepthCountsCalls' /\ SharedStacksNested' /\ KeysBeforeValues'
    BY <2>1, <2>2, QuietStep DEF Uncounted
  <2> QED
    BY <2>4, <2>5 DEF StructureInv
<1>4. CASE RejectValue \/ RejectKey \/ MissingComma
  <2>1. pc \in {"value", "key", "added"} /\ pc' = "return" /\ status' # "None"
    BY <1>4 DEF RejectValue, RejectKey, MissingComma, Fail
  <2>2. UNCHANGED <<calls, array_stack, object_stack, depth, lexer_status>>
    BY <1>4 DEF RejectValue, RejectKey, MissingComma, Fail, Keep
  <2>3. CallsFitPlace' /\ PendingErrorIsLexers' /\ Unwinding'
    BY <2>1, <2>2 DEF CallsFitPlace, PendingErrorIsLexers, has_error, Unwinding
  <2> QED
    BY <2>3 DEF StructureInv, DepthCountsCalls, SharedStacksNested, KeysBeforeValues
<1>5. CASE ReadColon
  <2>1. CASE Is("Colon")
    <3>1. status = "None" /\ lexer_status = "None" /\ ~Unwinding
      BY <1>5, <2>1, NothingPending DEF ReadColon, Is
    <3>2. /\ Advance /\ pc = "colon" /\ pc' = "value"
          /\ UNCHANGED <<calls, array_stack, object_stack, depth>>
      BY <1>5, <2>1 DEF ReadColon
    <3>3. CallsFitPlace' /\ PendingErrorIsLexers'
      BY <1>adv, <3>1, <3>2 DEF CallsFitPlace, PendingErrorIsLexers, has_error
    <3>4. DepthCountsCalls' /\ SharedStacksNested' /\ KeysBeforeValues'
      BY <3>1, <3>2, QuietStep DEF Uncounted
    <3> QED
      BY <3>3, <3>4 DEF StructureInv
  <2>2. CASE ~Is("Colon")
    <3>1. /\ pc' = "return" /\ status' # "None"
          /\ UNCHANGED <<calls, array_stack, object_stack, depth, lexer_status>>
      BY <1>5, <2>2 DEF ReadColon, Fail, Keep
    <3>2. CallsFitPlace' /\ PendingErrorIsLexers' /\ Unwinding'
      BY <3>1 DEF CallsFitPlace, PendingErrorIsLexers, has_error, Unwinding
    <3> QED
      BY <3>2 DEF StructureInv, DepthCountsCalls, SharedStacksNested, KeysBeforeValues
  <2> QED
    BY <2>1, <2>2
<1>6. CASE ReadComma
  <2>1. status = "None" /\ lexer_status = "None" /\ ~Unwinding /\ Advance
    BY <1>6, NothingPending DEF ReadComma, Is
  <2>2. /\ pc = "added" /\ pc' = "comma"
        /\ UNCHANGED <<calls, array_stack, object_stack, depth>>
    BY <1>6 DEF ReadComma
  <2>3. CallsFitPlace' /\ PendingErrorIsLexers'
    BY <1>adv, <2>1, <2>2 DEF StructureInv, CallsFitPlace, PendingErrorIsLexers, has_error
  <2>4. DepthCountsCalls' /\ SharedStacksNested' /\ KeysBeforeValues'
    BY <2>1, <2>2, QuietStep DEF Uncounted
  <2> QED
    BY <2>3, <2>4 DEF StructureInv
<1>7. CASE AfterComma
  <2>1. CASE Closes
    <3>1. /\ pc' = "return" /\ status' # "None"
          /\ UNCHANGED <<calls, array_stack, object_stack, depth, lexer_status>>
      BY <1>7, <2>1 DEF AfterComma, Fail, Keep
    <3>2. CallsFitPlace' /\ PendingErrorIsLexers' /\ Unwinding'
      BY <3>1 DEF CallsFitPlace, PendingErrorIsLexers, has_error, Unwinding
    <3> QED
      BY <3>2 DEF StructureInv, DepthCountsCalls, SharedStacksNested, KeysBeforeValues
  <2>2. CASE ~Closes
    <3>1. /\ pc = "comma" /\ pc' = IF InArray THEN "value" ELSE "key"
          /\ UNCHANGED <<calls, array_stack, object_stack, depth, pulled, lexer_status, status>>
      BY <1>7, <2>2 DEF AfterComma
    <3>2. calls # <<>> /\ (InArray \/ InObject) /\ ~Unwinding
      BY <3>1, TopFrame DEF StructureInv, CallsFitPlace, InArray, InObject, Frames, Unwinding
    <3>3. CallsFitPlace'
      BY <3>1, <3>2 DEF CallsFitPlace, InObject, Top
    <3>4. PendingErrorIsLexers'
      BY <3>1 DEF StructureInv, PendingErrorIsLexers, has_error, Is, Current
    <3>5. DepthCountsCalls' /\ SharedStacksNested' /\ KeysBeforeValues'
      BY <3>1, <3>2, QuietStep DEF Uncounted
    <3> QED
      BY <3>3, <3>4, <3>5 DEF StructureInv
  <2> QED
    BY <2>1, <2>2
<1> QED
  BY <1>1, <1>2, <1>3, <1>4, <1>5, <1>6, <1>7

(* The actions that push an activation record or enter its loop.           *)
LEMMA StructureOpen ==
  ASSUME TypeOK, StructureInv, OpenArray \/ OpenObject
  PROVE  StructureInv'
<1>1. status = "None" /\ lexer_status = "None" /\ ~Unwinding /\ Advance
  BY NothingPending DEF OpenArray, OpenObject, Open, Is
<1>2. /\ pc = "value" /\ pc' = "opened"
      /\ UNCHANGED <<array_stack, object_stack, depth>>
  BY DEF OpenArray, OpenObject, Open, stacks
<1> DEFINE frameA == [kind |-> "Array", start |-> Len(array_stack), key |-> NoKey]
           frameO == [kind |-> "Object", start |-> Len(object_stack), key |-> NoKey]
<1>3. /\ array_stack \in Seq(JsonValues) /\ Len(array_stack) \in Nat
      /\ object_stack \in Seq(Members) /\ Len(object_stack) \in Nat
      /\ calls \in Seq(Frames) /\ Len(calls) \in Nat
  BY LenProperties DEF TypeOK
<1>4. PICK f \in {frameA, frameO} : calls' = Append(calls, f)
  BY DEF OpenArray, OpenObject, Open
<1>5. f \in Frames
  BY <1>3 DEF Frames
<1>6. /\ calls' # <<>> /\ Len(calls') = Len(calls) + 1
      /\ DOMAIN calls' = 1..(Len(calls) + 1) /\ DOMAIN calls = 1..Len(calls)
      /\ \A i \in 1..Len(calls) : calls'[i] = calls[i]
      /\ calls'[Len(calls) + 1] = f
  <2>1. calls' \in Seq(Frames)
    BY <1>3, <1>4, <1>5, AppendProperties
  <2>2. DOMAIN calls' = 1..Len(calls') /\ DOMAIN calls = 1..Len(calls)
    BY <2>1, <1>3, LenProperties
  <2> QED
    BY <1>3, <1>4, <1>5, <2>2, AppendProperties
<1>7. Top' = f
  BY <1>6 DEF Top, Last
<1>8. CallsFitPlace' /\ PendingErrorIsLexers'
  BY <1>1, <1>2, <1>6, AdvanceError DEF CallsFitPlace, PendingErrorIsLexers, has_error
<1>9. DepthCountsCalls'
  BY <1>1, <1>2, <1>3, <1>6 DEF StructureInv, DepthCountsCalls, Uncounted
<1>10. SharedStacksNested'
  <2>1. /\ SegmentsNested(calls, "Array", Len(array_stack))
        /\ SegmentsNested(calls, "Object", Len(object_stack))
    BY <1>1 DEF StructureInv, SharedStacksNested
  <2>2. SegmentsNested(Append(calls, f), "Array", Len(array_stack))
    BY <1>3, <1>5, <2>1, PushNested
  <2>3. SegmentsNested(Append(calls, f), "Object", Len(object_stack))
    BY <1>3, <1>5, <2>1, PushNested
  <2> QED
    BY <1>2, <1>4, <1>7, <2>2, <2>3 DEF SharedStacksNested, InArray, InObject, Uncounted
<1>11. KeysBeforeValues'
  BY <1>1, <1>2, <1>3, <1>6 DEF StructureInv, KeysBeforeValues, Uncounted
<1> QED
  BY <1>8, <1>9, <1>10, <1>11 DEF StructureInv

(* Passing the depth check counts the level of the innermost container.    *)
LEMMA StructureEnter ==
  ASSUME TypeOK, StructureInv, EnterLoop
  PROVE  StructureInv'
<1>1. /\ pc = "opened" /\ depth' = depth + 1
      /\ UNCHANGED <<calls, array_stack, object_stack>>
  BY DEF EnterLoop, EnterLoopWithLimit, stacks
<1>2. calls # <<>> /\ (InArray \/ InObject) /\ ~Unwinding
  BY <1>1, TopFrame DEF StructureInv, CallsFitPlace, InArray, InObject, Frames, Unwinding
<1>3. CASE depth' > MaxDepth
  <2>1. pc' = "return" /\ status' # "None" /\ UNCHANGED lexer_status
    BY <1>3 DEF EnterLoop, EnterLoopWithLimit, Fail, Keep
  <2>2. CallsFitPlace' /\ PendingErrorIsLexers' /\ Unwinding'
    BY <2>1 DEF CallsFitPlace, PendingErrorIsLexers, has_error, Unwinding
  <2> QED
    BY <2>2 DEF StructureInv, DepthCountsCalls, SharedStacksNested, KeysBeforeValues
<1>4. CASE ~(depth' > MaxDepth)
  <2>1. /\ pc' = IF InArray THEN "value" ELSE "key"
        /\ UNCHANGED <<pulled, lexer_status, status>>
    BY <1>4 DEF EnterLoop, EnterLoopWithLimit
  <2>2. CallsFitPlace'
    BY <1>1, <1>2, <2>1 DEF CallsFitPlace, InObject, Top
  <2>3. PendingErrorIsLexers'
    BY <1>1, <2>1 DEF StructureInv, PendingErrorIsLexers, has_error, Is, Current
  <2>4. DepthCountsCalls'
    <3>1. depth \in Nat /\ MaxDepth \in Nat /\ Len(calls) \in Nat
      BY <1>2, TopFrame, BoundsAssumption DEF TypeOK
    <3> QED
      BY <1>1, <1>2, <1>4, <2>1, <3>1 DEF StructureInv, DepthCountsCalls, Uncounted
  <2>5. SharedStacksNested'
    BY <1>1, <1>2, <2>1 DEF StructureInv, SharedStacksNested, SegmentsNested, Uncounted
  <2>6. KeysBeforeValues'
    <3>1. InArray => Top.kind # "Object" /\ Top = calls[Len(calls)]
      BY <1>2, TopFrame DEF InArray
    <3> QED
      BY <1>1, <1>2, <2>1, <3>1 DEF StructureInv, KeysBeforeValues, Uncounted
  <2> QED
    BY <2>2, <2>3, <2>4, <2>5, <2>6 DEF StructureInv
<1> QED
  BY <1>3, <1>4

(* Reading a key changes nothing of the record but its key.                *)
LEMMA StructureReadKey ==
  ASSUME TypeOK, StructureInv, ReadKey
  PROVE  StructureInv'
<1> DEFINE n == Len(calls)
           k == MemberKey(Decoded(Current.value))
<1>1. status = "None" /\ lexer_status = "None" /\ ~Unwinding /\ Advance
  BY NothingPending DEF ReadKey, Is
<1>2. /\ pc = "key" /\ pc' = "colon"
      /\ UNCHANGED <<array_stack, object_stack, depth>>
      /\ calls' = [calls EXCEPT ![n].key = k]
  BY DEF ReadKey, stacks
<1>3. calls # <<>> /\ InObject
  BY <1>2 DEF StructureInv, CallsFitPlace
<1>4. /\ n \in Nat \ {0} /\ DOMAIN calls = 1..n /\ Top = calls[n]
      /\ \A i \in DOMAIN calls : calls[i] \in Frames
  BY <1>3, TopFrame, ElementOfSeq DEF TypeOK
<1>5. /\ DOMAIN calls' = 1..n
      /\ \A i \in 1..n : calls'[i].kind = calls[i].kind /\ calls'[i].start = calls[i].start
      /\ \A i \in 1..(n - 1) : calls'[i] = calls[i]
      /\ calls'[n].key = k
  BY <1>2, <1>4 DEF Frames
<1>6. Len(calls') = n
  BY <1>2, <1>3, <1>4
<1>7. k # NoKey
  BY DEF MemberKey, NoKey
<1>8. CallsFitPlace' /\ PendingErrorIsLexers'
  <2>1. InObject' /\ calls' # <<>>
    BY <1>3, <1>4, <1>5, <1>6, EmptySeq DEF InObject, Top, Last
  <2> QED
    BY <1>1, <1>2, <2>1, AdvanceError DEF CallsFitPlace, PendingErrorIsLexers, has_error
<1>9. DepthCountsCalls'
  BY <1>1, <1>2, <1>6 DEF StructureInv, DepthCountsCalls, Uncounted
<1>10. SharedStacksNested'
  <2>1. \A kind : {i \in DOMAIN calls' : calls'[i].kind = kind}
                  = {i \in DOMAIN calls : calls[i].kind = kind}
    BY <1>4, <1>5
  <2>2. \A kind, size : SegmentsNested(calls, kind, size) => SegmentsNested(calls', kind, size)
    BY <1>4, <1>5, <2>1 DEF SegmentsNested
  <2> QED
    BY <1>1, <1>2, <2>2 DEF StructureInv, SharedStacksNested, Uncounted
<1>11. KeysBeforeValues'
  BY <1>1, <1>2, <1>4, <1>5, <1>6, <1>7 DEF StructureInv, KeysBeforeValues, Uncounted
<1> QED
  BY <1>8, <1>9, <1>10, <1>11 DEF StructureInv

(* A finished container leaves its stack where its segment began, and its  *)
(* caller's record innermost.                                              *)
LEMMA PopFrame ==
  ASSUME TypeOK, StructureInv, TypeOK', calls # <<>>, ~Unwinding,
         pc \in {"empty", "closed"}, pc' = "return",
         calls' = Front(calls),
         depth' = IF pc = "closed" THEN depth - 1 ELSE depth,
         Len(array_stack') = IF Top.kind = "Array" THEN Top.start ELSE Len(array_stack),
         Len(object_stack') = IF Top.kind = "Object" THEN Top.start ELSE Len(object_stack),
         lexer_status' # "None" => status' # "None"
  PROVE  StructureInv'
<1> DEFINE n == Len(calls)
<1>1. /\ n \in Nat \ {0} /\ DOMAIN calls = 1..n
      /\ calls \in Seq(Frames) /\ Top = Last(calls)
      /\ Len(Front(calls)) = n - 1 /\ DOMAIN Front(calls) = 1..(n - 1)
      /\ \A i \in 1..(n - 1) : Front(calls)[i] = calls[i]
  BY TopFrame DEF TypeOK, Top
<1>2. Len(array_stack) \in Nat /\ Len(object_stack) \in Nat
  BY LenProperties DEF TypeOK
<1>3. CallsFitPlace' /\ PendingErrorIsLexers'
  BY DEF CallsFitPlace, PendingErrorIsLexers, has_error
<1>4. DepthCountsCalls'
  <2>1. MaxDepth \in Nat /\ depth \in Nat
    BY BoundsAssumption DEF TypeOK
  <2>2. /\ depth = n - (IF pc = "empty" THEN 1 ELSE 0)
        /\ depth <= MaxDepth
    BY DEF StructureInv, DepthCountsCalls, Uncounted
  <2>3. Len(calls') = n - 1
    BY <1>1
  <2>4. n \in Nat \ {0} /\ depth' = IF pc = "closed" THEN depth - 1 ELSE depth
    BY <1>1
  <2> HIDE DEF n
  <2>5. depth' = n - 1 /\ depth' <= MaxDepth
    <3>1. CASE pc = "empty"
      BY <2>1, <2>2, <2>4, <3>1
    <3>2. CASE pc = "closed"
      BY <2>1, <2>2, <2>4, <3>2
    <3> QED
      BY <3>1, <3>2
  <2> QED
    BY <2>3, <2>5 DEF DepthCountsCalls, Uncounted, n
<1>5. SharedStacksNested'
  <2>1. /\ SegmentsNested(calls, "Array", Len(array_stack))
        /\ SegmentsNested(calls, "Object", Len(object_stack))
    BY DEF StructureInv, SharedStacksNested
  <2>2. SegmentsNested(Front(calls), "Array", Len(array_stack'))
    BY <1>1, <1>2, <2>1, PopNested
  <2>3. SegmentsNested(Front(calls), "Object", Len(object_stack'))
    BY <1>1, <1>2, <2>1, PopNested
  <2> QED
    BY <2>2, <2>3 DEF SharedStacksNested, Uncounted
<1>6. KeysBeforeValues'
  BY <1>1 DEF StructureInv, KeysBeforeValues, Uncounted
<1> QED
  BY <1>3, <1>4, <1>5, <1>6 DEF StructureInv

(* The actions that seal a container.                                      *)
LEMMA StructureSeal ==
  ASSUME TypeOK, StructureInv, TypeOK',
         EmptyArray \/ EmptyObject \/ CloseArray \/ CloseObject
  PROVE  StructureInv'
<1>1. /\ pc \in {"empty", "closed"} /\ ~Unwinding
      /\ UNCHANGED <<status, lexer_status>>
  BY DEF EmptyArray, EmptyObject, CloseArray, CloseObject, Unwinding
<1>2. lexer_status' # "None" => status' # "None"
  BY <1>1 DEF StructureInv, PendingErrorIsLexers, has_error
<1>3. calls # <<>> /\ calls' = Front(calls) /\ pc' = "return"
  BY DEF EmptyArray, EmptyObject, CloseArray, CloseObject, SealArray, SealObject, Return,
         InArray, InObject
<1>4. depth' = IF pc = "closed" THEN depth - 1 ELSE depth
  BY DEF EmptyArray, EmptyObject, CloseArray, CloseObject
<1>5. /\ Len(array_stack') = IF Top.kind = "Array" THEN Top.start ELSE Len(array_stack)
      /\ Len(object_stack') = IF Top.kind = "Object" THEN Top.start ELSE Len(object_stack)
  <2>1. CASE EmptyArray \/ EmptyObject
    BY <1>1, <2>1
    DEF EmptyArray, EmptyObject, InArray, InObject, StructureInv, SharedStacksNested,
        Uncounted, stacks
  <2>2. CASE CloseArray
    <3>1. Top.start \in 0..Len(array_stack) /\ Top.kind = "Array"
      BY <2>2, TopStart DEF CloseArray, InArray
    <3>2. Len(CutBack(array_stack, Top.start)) = Top.start
      BY <3>1, CutBackFacts DEF TypeOK
    <3> QED
      BY <2>2, <3>1, <3>2 DEF CloseArray
  <2>3. CASE CloseObject
    <3>1. Top.start \in 0..Len(object_stack) /\ Top.kind = "Object"
      BY <2>3, TopStart DEF CloseObject, InObject
    <3>2. Len(CutBack(object_stack, Top.start)) = Top.start
      BY <3>1, CutBackFacts DEF TypeOK
    <3> QED
      BY <2>3, <3>1, <3>2 DEF CloseObject
  <2> QED
    BY <2>1, <2>2, <2>3
<1> QED
  BY <1>1, <1>2, <1>3, <1>4, <1>5, PopFrame

(* Reading a closing bracket leaves its container open and its level as it *)
(* is: what follows the bracket, error or not, is not looked at yet.       *)
LEMMA StructureClosing ==
  ASSUME TypeOK, StructureInv, ReadClosing
  PROVE  StructureInv'
<1>1. status = "None" /\ lexer_status = "None" /\ ~Unwinding /\ Advance
  BY NothingPending DEF ReadClosing, Closes, Is
<1>2. /\ pc \in {"opened", "added"} /\ pc' = IF pc = "opened" THEN "empty" ELSE "closed"
      /\ UNCHANGED <<calls, array_stack, object_stack, depth>>
  BY DEF ReadClosing, stacks
<1>3. CallsFitPlace' /\ PendingErrorIsLexers'
  BY <1>1, <1>2, AdvanceError
  DEF StructureInv, CallsFitPlace, PendingErrorIsLexers, has_error
<1>4. DepthCountsCalls' /\ KeysBeforeValues'
  BY <1>1, <1>2 DEF StructureInv, DepthCountsCalls, KeysBeforeValues, Uncounted
<1>5. SharedStacksNested'
  BY <1>1, <1>2 DEF StructureInv, SharedStacksNested, Uncounted, InArray, InObject, Top
<1> QED
  BY <1>3, <1>4, <1>5 DEF StructureInv

(* A finished value becomes the last item of the innermost container.      *)
LEMMA StructureAdd ==
  ASSUME TypeOK, StructureInv, AddElement \/ AddMember
  PROVE  StructureInv'
<1>1. /\ pc = "return" /\ pc' = "added" /\ ~has_error /\ ~Unwinding /\ calls # <<>>
      /\ UNCHANGED <<calls, depth, status, lexer_status>>
  BY DEF AddElement, AddMember, InArray, InObject, Unwinding
<1>2. /\ calls \in Seq(Frames) /\ Top = Last(calls)
      /\ Len(array_stack) \in Nat /\ Len(object_stack) \in Nat
  BY LenProperties DEF TypeOK, Top
<1>3. CallsFitPlace' /\ PendingErrorIsLexers'
  BY <1>1 DEF StructureInv, CallsFitPlace, PendingErrorIsLexers, has_error
<1>4. DepthCountsCalls' /\ KeysBeforeValues'
  BY <1>1 DEF StructureInv, DepthCountsCalls, KeysBeforeValues, Uncounted
<1>5. SharedStacksNested'
  <2>1. /\ SegmentsNested(calls, "Array", Len(array_stack))
        /\ SegmentsNested(calls, "Object", Len(object_stack))
    BY <1>1 DEF StructureInv, SharedStacksNested
  <2>2. CASE AddElement
    <3>1. Len(array_stack') = Len(array_stack) + 1 /\ object_stack' = object_stack
      BY <2>2, AppendProperties DEF AddElement, TypeOK
    <3>2. SegmentsNested(calls, "Array", Len(array_stack) + 1)
      BY <1>1, <1>2, <2>1, <2>2, GrowNested DEF AddElement, InArray
    <3> QED
      BY <1>1, <2>1, <3>1, <3>2 DEF SharedStacksNested, Uncounted
  <2>3. CASE AddMember
    <3>1. Len(object_stack') = Len(object_stack) + 1 /\ array_stack' = array_stack
      BY <2>3, AppendProperties DEF AddMember, TypeOK
    <3>2. SegmentsNested(calls, "Object", Len(object_stack) + 1)
      BY <1>1, <1>2, <2>1, <2>3, GrowNested DEF AddMember, InObject
    <3> QED
      BY <1>1, <2>1, <3>1, <3>2 DEF SharedStacksNested, Uncounted
  <2> QED
    BY <2>2, <2>3
<1> QED
  BY <1>3, <1>4, <1>5 DEF StructureInv

(* The actions that end the parse or pass an error on.                     *)
LEMMA StructureEnd ==
  ASSUME TypeOK, StructureInv, RejectStart \/ Unwind \/ SetRoot \/ Done
  PROVE  StructureInv'
<1>1. CASE RejectStart
  <2>1. /\ pc' = "done" /\ has_error' /\ UNCHANGED calls /\ calls = <<>>
    BY <1>1 DEF RejectStart, StructureInv, CallsFitPlace, has_error
  <2> QED
    BY <2>1 DEF StructureInv, CallsFitPlace, PendingErrorIsLexers, DepthCountsCalls,
                SharedStacksNested, KeysBeforeValues, Unwinding
<1>2. CASE Unwind
  <2>1. /\ pc' \in {"return", "done"} /\ has_error' /\ (pc' = "done" => calls' = <<>>)
    BY <1>2 DEF Unwind, has_error
  <2> QED
    BY <2>1 DEF StructureInv, CallsFitPlace, PendingErrorIsLexers, DepthCountsCalls,
                SharedStacksNested, KeysBeforeValues, Unwinding
<1>3. CASE SetRoot
  <2>1. /\ pc = "return" /\ pc' = "done" /\ ~has_error /\ calls = <<>>
        /\ UNCHANGED <<calls, depth, array_stack, object_stack, lexer_status>>
    BY <1>3 DEF SetRoot, stacks
  <2>2. CallsFitPlace' /\ PendingErrorIsLexers'
    BY <1>3, <2>1 DEF SetRoot, StructureInv, CallsFitPlace, PendingErrorIsLexers, has_error
  <2>3. DepthCountsCalls' /\ SharedStacksNested' /\ KeysBeforeValues'
    BY <2>1, QuietStep DEF Unwinding, Uncounted
  <2> QED
    BY <2>2, <2>3 DEF StructureInv
<1>4. CASE Done
  BY <1>4 DEF Done, vars, stacks, StructureInv, CallsFitPlace, PendingErrorIsLexers,
              DepthCountsCalls, SharedStacksNested, KeysBeforeValues, SegmentsNested,
              Uncounted, Unwinding, has_error, Is, Current, InArray, InObject, Top
<1> QED
  BY <1>1, <1>2, <1>3, <1>4

(* Every step keeps the structure.                                         *)
LEMMA StructureStep == TypeOK /\ StructureInv /\ TypeOK' /\ [Next]_vars => StructureInv'
<1> SUFFICES ASSUME TypeOK, StructureInv, TypeOK', [Next]_vars PROVE StructureInv'
  OBVIOUS
<1>1. CASE \/ BuildRoot \/ BuildNull \/ BuildBoolean \/ BuildInteger \/ BuildDouble
           \/ BuildString \/ RejectValue \/ RejectKey \/ ReadColon
           \/ ReadComma \/ AfterComma \/ MissingComma
  BY <1>1, StructureQuiet
<1>2. CASE OpenArray \/ OpenObject
  BY <1>2, StructureOpen
<1>3. CASE EnterLoop
  BY <1>3, StructureEnter
<1>4. CASE ReadKey
  BY <1>4, StructureReadKey
<1>5. CASE EmptyArray \/ EmptyObject \/ CloseArray \/ CloseObject
  BY <1>5, StructureSeal
<1>6. CASE AddElement \/ AddMember
  BY <1>6, StructureAdd
<1>7. CASE RejectStart \/ Unwind \/ SetRoot \/ Done
  BY <1>7, StructureEnd
<1>8. CASE ReadClosing
  BY <1>8, StructureClosing
<1>9. CASE UNCHANGED vars
  BY <1>9 DEF vars, stacks, StructureInv, CallsFitPlace, PendingErrorIsLexers,
              DepthCountsCalls, SharedStacksNested, KeysBeforeValues, SegmentsNested,
              Uncounted, Unwinding, has_error, Is, Current, InArray, InObject, Top
<1> QED
  BY <1>1, <1>2, <1>3, <1>4, <1>5, <1>6, <1>7, <1>8, <1>9 DEF Next

-----------------------------------------------------------------------------
(* The theorems.                                                           *)

(* Every variable stays in its set, and the activation records, the depth  *)
(* counter and the two shared stacks always agree: whichever containers    *)
(* nest in which, sealing one hands over its own items and no others.      *)
THEOREM StructureSafe == Spec => [](TypeOK /\ StructureInv)
<1>1. Init => TypeOK /\ StructureInv
  BY TypeInit, StructureInit
<1>2. TypeOK /\ StructureInv /\ [Next]_vars => TypeOK' /\ StructureInv'
  BY TypeStep, StructureStep
<1> QED
  BY <1>1, <1>2, PTL DEF Spec

(* The values, keys, stacks and tables keep their types, whatever tokens   *)
(* the lexer delivers.                                                     *)
THEOREM TypesSafe == Spec => []TypeOK
BY StructureSafe, PTL

(* The recursion never goes deeper than the limit and one: an activation   *)
(* record is pushed only by a function that has passed the depth check.    *)
THEOREM RecursionSafe == Spec => []RecursionBounded
<1>1. Init => RecursionBounded
  BY BoundsAssumption, EmptySeq DEF Init, RecursionBounded
<1>2. TypeOK /\ StructureInv /\ RecursionBounded /\ [Next]_vars => RecursionBounded'
  <2> SUFFICES ASSUME TypeOK, StructureInv, RecursionBounded, [Next]_vars
               PROVE  RecursionBounded'
    OBVIOUS
  <2>0. Len(calls) \in Nat /\ MaxDepth \in Nat
    BY LenProperties, BoundsAssumption DEF TypeOK
  <2>1. CASE OpenArray \/ OpenObject
    <3>1. ~Unwinding /\ pc = "value"
      BY <2>1, NothingPending DEF OpenArray, OpenObject, Open, Is
    <3>2. Len(calls) <= MaxDepth
      BY <2>0, <3>1 DEF StructureInv, DepthCountsCalls, Uncounted
    <3>3. Len(calls') = Len(calls) + 1
      BY <2>1, LenProperties, AppendProperties DEF OpenArray, OpenObject, Open, TypeOK, Frames
    <3> QED
      BY <2>0, <3>2, <3>3 DEF RecursionBounded
  <2>2. CASE EmptyArray \/ EmptyObject \/ CloseArray \/ CloseObject \/ Unwind
    <3>1. UNCHANGED calls \/ (calls # <<>> /\ calls' = Front(calls))
      BY <2>2 DEF EmptyArray, EmptyObject, CloseArray, CloseObject, Unwind,
                  SealArray, SealObject, InArray, InObject
    <3>2. Len(calls') <= Len(calls)
      BY <2>0, <3>1, TopFrame
    <3>3. Len(calls') \in Int
      BY <2>0, <3>1, TopFrame
    <3> QED
      BY <2>0, <3>2, <3>3 DEF RecursionBounded
  <2>3. CASE ReadKey
    <3>1. calls # <<>>
      BY <2>3 DEF ReadKey, StructureInv, CallsFitPlace
    <3>2. Len(calls') = Len(calls)
      BY <2>3, <3>1, TopFrame DEF ReadKey, TypeOK
    <3> QED
      BY <3>2 DEF RecursionBounded
  <2>4. CASE UNCHANGED calls
    BY <2>4 DEF RecursionBounded
  <2> QED
    BY <2>1, <2>2, <2>3, <2>4
    DEF Next, vars, RejectStart, BuildRoot, BuildNull, BuildBoolean, BuildInteger,
        BuildDouble, BuildString, RejectValue, EnterLoop, EnterLoopWithLimit, RejectKey,
        ReadColon, SetRoot, AddElement, AddMember, ReadComma, ReadClosing, AfterComma,
        MissingComma, Done
<1> QED
  BY <1>1, <1>2, StructureSafe, PTL DEF Spec

(* A successful parse has emptied both shared stacks and undone its depth. *)
THEOREM NothingLeftOverSafe == Spec => []NothingLeftOver
<1>1. TypeOK /\ StructureInv => NothingLeftOver
  <2> SUFFICES ASSUME TypeOK, StructureInv, pc = "done", ~has_error
               PROVE  depth = 0 /\ array_stack = <<>> /\ object_stack = <<>>
    BY DEF NothingLeftOver
  <2>1. calls = <<>> /\ ~Unwinding
    BY DEF StructureInv, CallsFitPlace, Unwinding
  <2>2. depth = 0
    BY <2>1, EmptySeq DEF StructureInv, DepthCountsCalls, Uncounted, TypeOK
  <2>3. Len(array_stack) = 0 /\ Len(object_stack) = 0
    BY <2>1 DEF StructureInv, SharedStacksNested, SegmentsNested
  <2> QED
    BY <2>2, <2>3, EmptySeq DEF TypeOK
<1> QED
  BY <1>1, StructureSafe, PTL

(* Once an error is set it stays set, and the parser reads no token, keeps *)
(* no string and sets no root any more.  Nothing is pushed or sealed       *)
(* either, but for the one container whose closing bracket has just been   *)
(* read, if the token after that bracket carries the error.                *)
THEOREM NothingAfterErrorSafe == Spec => NothingAfterError
<1> DEFINE Holds == /\ has_error' /\ ~Sealing'
                    /\ UNCHANGED <<pulled, strings, root>>
                    /\ ~Sealing => UNCHANGED <<stacks, arrays, objects>>
<1>1. TypeOK /\ StructureInv /\ [Next]_vars => [has_error => Holds]_vars
  <2> SUFFICES ASSUME TypeOK, StructureInv, Next, has_error
               PROVE  Holds
    OBVIOUS
  <2>1. pc \in {"parse", "return", "done"} \/ Is("Unknown")
    BY DEF StructureInv, PendingErrorIsLexers
  <2>2. CASE pc \in {"parse", "return", "done"}
    <3>1. RejectStart \/ Unwind \/ Done
      BY <2>2 DEF Next, BuildRoot, BuildNull, BuildBoolean, BuildInteger, BuildDouble,
        BuildString, OpenArray, OpenObject, RejectValue, ReadClosing, EmptyArray,
        EmptyObject, EnterLoop, EnterLoopWithLimit, RejectKey, ReadKey, ReadColon,
        SetRoot, AddElement, AddMember, ReadComma, AfterComma, CloseArray, CloseObject,
        MissingComma
    <3> QED
      BY <2>2, <3>1 DEF RejectStart, Unwind, Done, has_error, Sealing, stacks, storage, vars
  <2>3. CASE Sealing
    <3>1. EmptyArray \/ EmptyObject \/ CloseArray \/ CloseObject
      BY <2>3 DEF Sealing, Next, RejectStart, BuildRoot, BuildNull, BuildBoolean,
        BuildInteger, BuildDouble, BuildString, OpenArray, OpenObject, RejectValue,
        ReadClosing, EnterLoop, EnterLoopWithLimit, RejectKey, ReadKey, ReadColon, Unwind,
        SetRoot, AddElement, AddMember, ReadComma, AfterComma, MissingComma, Done
    <3> QED
      BY <2>3, <3>1 DEF EmptyArray, EmptyObject, CloseArray, CloseObject, SealArray,
        SealObject, Return, Sealing, has_error
  <2>4. CASE Is("Unknown") /\ pc \notin {"parse", "return", "done"} /\ ~Sealing
    <3>1. RejectValue \/ EnterLoop \/ RejectKey \/ ReadColon \/ AfterComma \/ MissingComma
      BY <2>4 DEF Sealing, Next, RejectStart, BuildRoot, BuildNull, BuildBoolean,
        BuildInteger, BuildDouble, BuildString, OpenArray, OpenObject, ReadClosing,
        EmptyArray, EmptyObject, ReadKey, Unwind, SetRoot, AddElement, AddMember,
        ReadComma, CloseArray, CloseObject, Done, Is, Closes
    <3> QED
      BY <2>4, <3>1 DEF RejectValue, EnterLoop, EnterLoopWithLimit, RejectKey, ReadColon,
        AfterComma, MissingComma, Sealing, has_error, Is, Fail, Keep, stacks, storage
  <2> QED
    BY <2>1, <2>2, <2>3, <2>4
<1> QED
  BY <1>1, StructureSafe, PTL DEF Spec, NothingAfterError

-----------------------------------------------------------------------------
(* What holds an index, and the tables it is an index into.                *)

(* Appending keeps what was there and puts the new element behind it.      *)
LEMMA AppendFacts ==
  ASSUME NEW S, NEW q \in Seq(S), NEW x \in S
  PROVE  /\ Append(q, x) \in Seq(S) /\ Len(q) \in Nat /\ Len(Append(q, x)) = Len(q) + 1
         /\ DOMAIN q = 1..Len(q) /\ DOMAIN Append(q, x) = 1..(Len(q) + 1)
         /\ \A i \in 1..Len(q) : Append(q, x)[i] = q[i] /\ q[i] \in S
         /\ Append(q, x)[Len(q) + 1] = x
<1>1. /\ Append(q, x) \in Seq(S) /\ Len(Append(q, x)) = Len(q) + 1
      /\ \A i \in 1..Len(q) : Append(q, x)[i] = q[i]
      /\ Append(q, x)[Len(q) + 1] = x
  BY AppendProperties
<1> QED
  BY <1>1, LenProperties, ElementOfSeq

(* Which actions write which variable.                                     *)
LEMMA Writers ==
  ASSUME [Next]_vars
  PROVE  /\ UNCHANGED array_stack \/ AddElement \/ CloseArray
         /\ UNCHANGED object_stack \/ AddMember \/ CloseObject
         /\ UNCHANGED strings \/ BuildString \/ ReadKey
         /\ UNCHANGED arrays \/ EmptyArray \/ CloseArray
         /\ UNCHANGED objects \/ EmptyObject \/ CloseObject
         /\ UNCHANGED root \/ SetRoot
         /\ \/ UNCHANGED ret \/ BuildNull \/ BuildBoolean \/ BuildInteger \/ BuildDouble
            \/ BuildString \/ EmptyArray \/ EmptyObject \/ CloseArray \/ CloseObject
         /\ \/ UNCHANGED calls \/ OpenArray \/ OpenObject \/ ReadKey
            \/ calls # <<>> /\ calls' = Front(calls)
BY DEF Next, vars, stacks, storage, RejectStart, BuildRoot, BuildNull, BuildBoolean,
       BuildInteger, BuildDouble, BuildString, OpenArray, OpenObject, Open, RejectValue,
       EmptyArray, EmptyObject, EnterLoop, EnterLoopWithLimit, RejectKey, ReadKey, ReadColon,
       Unwind, SetRoot, AddElement, AddMember, ReadComma, ReadClosing,
       AfterComma, CloseArray, CloseObject,
       MissingComma, SealArray, SealObject, InArray, InObject, Done

(* The tables of the storage only grow.                                    *)
LEMMA TablesGrow ==
  ASSUME TypeOK, TypeOK', StructureInv, [Next]_vars
  PROVE  /\ Len(strings) \in Nat /\ Len(strings') \in Nat /\ Len(strings) <= Len(strings')
         /\ Len(arrays) \in Nat /\ Len(arrays') \in Nat /\ Len(arrays) <= Len(arrays')
         /\ Len(objects) \in Nat /\ Len(objects') \in Nat /\ Len(objects) <= Len(objects')
<1>1. /\ Len(strings) \in Nat /\ Len(strings') \in Nat /\ Len(arrays) \in Nat
      /\ Len(arrays') \in Nat /\ Len(objects) \in Nat /\ Len(objects') \in Nat
  BY LenProperties DEF TypeOK
<1>2. Len(strings) <= Len(strings')
  <2>1. CASE UNCHANGED strings
    BY <1>1, <2>1
  <2>2. CASE BuildString \/ ReadKey
    <3>1. UNCHANGED strings \/ \E x : strings' = Append(strings, x)
      BY <2>2 DEF BuildString, ReadKey
    <3>2. \A x : strings' = Append(strings, x) => Len(strings') = Len(strings) + 1
      BY DEF TypeOK
    <3> QED
      BY <1>1, <3>1, <3>2
  <2> QED
    BY <2>1, <2>2, Writers
<1>3. Len(arrays) <= Len(arrays')
  <2>1. UNCHANGED arrays \/ \E x : arrays' = Append(arrays, x)
    BY Writers DEF EmptyArray, CloseArray, SealArray
  <2>2. \A x : arrays' = Append(arrays, x) => Len(arrays') = Len(arrays) + 1
    BY DEF TypeOK
  <2> QED
    BY <1>1, <2>1, <2>2
<1>4. Len(objects) <= Len(objects')
  <2>1. UNCHANGED objects \/ \E x : objects' = Append(objects, x)
    BY Writers DEF EmptyObject, CloseObject, SealObject
  <2>2. \A x : objects' = Append(objects, x) => Len(objects') = Len(objects) + 1
    BY DEF TypeOK
  <2> QED
    BY <1>1, <2>1, <2>2
<1> QED
  BY <1>1, <1>2, <1>3, <1>4

(* So what resolved once does so for ever.                                 *)
LEMMA ResolvesKept ==
  ASSUME TypeOK, TypeOK', StructureInv, [Next]_vars
  PROVE  /\ \A v \in JsonValues : Resolves(v) => Resolves(v)'
         /\ \A k \in Keys \cup {NoKey} : KeyResolves(k) => KeyResolves(k)'
         /\ \A m \in Members : MemberResolves(m) => MemberResolves(m)'
<1>1. ASSUME NEW v \in JsonValues, Resolves(v) PROVE Resolves(v)'
  <2>1. v.payload \in Int
    BY DEF JsonValues
  <2> QED
    BY <1>1, <2>1, TablesGrow DEF Resolves
<1>2. ASSUME NEW k \in Keys \cup {NoKey}, KeyResolves(k) PROVE KeyResolves(k)'
  <2>1. k.tag = "ref" => k.index \in Nat
    BY DEF Keys, NoKey
  <2> QED
    BY <1>2, <2>1, TablesGrow DEF KeyResolves
<1>3. ASSUME NEW m \in Members, MemberResolves(m) PROVE MemberResolves(m)'
  <2>1. m.key \in Keys /\ m.value \in JsonValues
    BY DEF Members
  <2> QED
    BY <1>1, <1>2, <1>3, <2>1 DEF MemberResolves
<1> QED
  BY <1>1, <1>2, <1>3

(* The value a build function returns is an index it has just made, or     *)
(* none at all.                                                            *)
LEMMA ReturnedResolves ==
  ASSUME TypeOK, TypeOK', StructureInv, IndicesResolve, [Next]_vars
  PROVE  Resolves(ret)'
<1>1. CASE UNCHANGED ret
  BY <1>1, ResolvesKept DEF IndicesResolve, TypeOK, Resolves
<1>2. CASE BuildNull \/ BuildBoolean \/ BuildInteger \/ BuildDouble
  <2>1. UNCHANGED ret \/ ret'.type \in {"Null", "Boolean", "Integer", "Double"}
    BY <1>2 DEF BuildNull, BuildBoolean, BuildInteger, BuildDouble, Return, Value
  <2> QED
    BY <1>1, <2>1 DEF Resolves
<1>3. CASE BuildString
  <2>1. \/ UNCHANGED ret
        \/ /\ \E x : strings' = Append(strings, x)
           /\ ret' = [type |-> "String", payload |-> Len(strings)]
    BY <1>3 DEF BuildString, Return, Value
  <2>2. \A x : strings' = Append(strings, x) => Len(strings') = Len(strings) + 1
    BY DEF TypeOK
  <2>3. Len(strings) \in Nat
    BY LenProperties DEF TypeOK
  <2> QED
    BY <1>1, <2>1, <2>2, <2>3 DEF Resolves
<1>4. CASE EmptyArray \/ CloseArray
  <2>1. /\ \E x : arrays' = Append(arrays, x)
        /\ ret' = [type |-> "Array", payload |-> Len(arrays)]
    BY <1>4 DEF EmptyArray, CloseArray, SealArray, Return, Value
  <2>2. \A x : arrays' = Append(arrays, x) => Len(arrays') = Len(arrays) + 1
    BY DEF TypeOK
  <2>3. Len(arrays) \in Nat
    BY LenProperties DEF TypeOK
  <2> QED
    BY <2>1, <2>2, <2>3 DEF Resolves
<1>5. CASE EmptyObject \/ CloseObject
  <2>1. /\ \E x : objects' = Append(objects, x)
        /\ ret' = [type |-> "Object", payload |-> Len(objects)]
    BY <1>5 DEF EmptyObject, CloseObject, SealObject, Return, Value
  <2>2. \A x : objects' = Append(objects, x) => Len(objects') = Len(objects) + 1
    BY DEF TypeOK
  <2>3. Len(objects) \in Nat
    BY LenProperties DEF TypeOK
  <2> QED
    BY <2>1, <2>2, <2>3 DEF Resolves
<1> QED
  BY <1>1, <1>2, <1>3, <1>4, <1>5, Writers

(* What is on the shared stacks resolves.                                  *)
LEMMA StackedResolves ==
  ASSUME TypeOK, TypeOK', StructureInv, IndicesResolve, [Next]_vars
  PROVE  /\ \A i \in DOMAIN array_stack' : \A v : v = array_stack'[i] => Resolves(v)'
         /\ \A i \in DOMAIN object_stack' : \A m : m = object_stack'[i] => MemberResolves(m)'
<1>1. /\ array_stack \in Seq(JsonValues) /\ ret \in JsonValues /\ object_stack \in Seq(Members)
      /\ object_stack' \in Seq(Members)
      /\ Len(array_stack) \in Nat /\ DOMAIN array_stack = 1..Len(array_stack)
      /\ Len(object_stack) \in Nat /\ DOMAIN object_stack = 1..Len(object_stack)
  BY LenProperties DEF TypeOK
<1>2. ASSUME NEW i \in DOMAIN array_stack, NEW v, v = array_stack[i] PROVE Resolves(v)'
  BY <1>1, <1>2, ElementOfSeq, ResolvesKept DEF IndicesResolve
<1>3. ASSUME NEW i \in DOMAIN object_stack, NEW m, m = object_stack[i] PROVE MemberResolves(m)'
  BY <1>1, <1>3, ElementOfSeq, ResolvesKept DEF IndicesResolve
<1>4. ASSUME NEW i \in DOMAIN array_stack', NEW v, v = array_stack'[i] PROVE Resolves(v)'
  <2>1. CASE UNCHANGED array_stack
    BY <1>2, <1>4, <2>1
  <2>2. CASE AddElement
    <3>1. array_stack' = Append(array_stack, ret)
      BY <2>2 DEF AddElement
    <3>2. \A w : w = ret => Resolves(w)'
      BY <1>1, ResolvesKept DEF IndicesResolve
    <3>3. (i \in 1..Len(array_stack) /\ v = array_stack[i]) \/ v = ret
      BY <1>1, <1>4, <3>1, AppendFacts
    <3> QED
      BY <1>1, <1>2, <3>2, <3>3
  <2>3. CASE CloseArray
    <3> DEFINE n == Top.start
    <3>1. n \in 0..Len(array_stack) /\ array_stack' = CutBack(array_stack, n)
      BY <2>3, TopStart DEF CloseArray
    <3> HIDE DEF n
    <3>2. array_stack \in Seq(JsonValues)
      BY <1>1
    <3>3. DOMAIN array_stack' = 1..n /\ \A j \in 1..n : array_stack'[j] = array_stack[j]
      BY <3>1, <3>2, CutBackFacts
    <3> QED
      BY <1>1, <1>2, <1>4, <3>1, <3>3
  <2> QED
    BY <2>1, <2>2, <2>3, Writers
<1>5. ASSUME NEW i \in DOMAIN object_stack', NEW m, m = object_stack'[i] PROVE MemberResolves(m)'
  <2>1. CASE UNCHANGED object_stack
    BY <1>3, <1>5, <2>1
  <2>2. CASE AddMember
    <3> DEFINE member == [key |-> Top.key, value |-> ret]
    <3>1. object_stack' = Append(object_stack, member) /\ calls # <<>>
      BY <2>2 DEF AddMember, InObject
    <3>2. member.key = calls[Len(calls)].key /\ member.value = ret
      BY <3>1, TopFrame
    <3>3. Len(calls) \in DOMAIN calls /\ Len(object_stack') = Len(object_stack) + 1
      BY <1>1, <3>1, TopFrame
    <3>4. member = object_stack'[Len(object_stack) + 1]
      BY <1>1, <3>1
    <3>5. member \in Members
      BY <1>1, <3>3, <3>4, ElementOfSeq
    <3>6. MemberResolves(member)
      BY <3>2, <3>3 DEF IndicesResolve, MemberResolves
    <3> HIDE DEF member
    <3>7. \A w : w = member => MemberResolves(w)'
      BY <3>5, <3>6, ResolvesKept
    <3>8. (i \in 1..Len(object_stack) /\ m = object_stack[i]) \/ m = member
      BY <1>1, <1>5, <3>1, <3>5, AppendFacts
    <3> QED
      BY <1>1, <1>3, <3>7, <3>8
  <2>3. CASE CloseObject
    <3> DEFINE n == Top.start
    <3>1. n \in 0..Len(object_stack) /\ object_stack' = CutBack(object_stack, n)
      BY <2>3, TopStart DEF CloseObject
    <3> HIDE DEF n
    <3>2. object_stack \in Seq(Members)
      BY <1>1
    <3>3. DOMAIN object_stack' = 1..n /\ \A j \in 1..n : object_stack'[j] = object_stack[j]
      BY <3>1, <3>2, CutBackFacts
    <3> QED
      BY <1>1, <1>3, <1>5, <3>1, <3>3
  <2> QED
    BY <2>1, <2>2, <2>3, Writers
<1> QED
  BY <1>4, <1>5

(* So do the elements and members of the finished containers.              *)
LEMMA StoredResolves ==
  ASSUME TypeOK, TypeOK', StructureInv, IndicesResolve, [Next]_vars
  PROVE  /\ \A a \in DOMAIN arrays' : \A i \in DOMAIN arrays'[a] :
              \A v : v = arrays'[a][i] => Resolves(v)'
         /\ \A o \in DOMAIN objects' : \A i \in DOMAIN objects'[o] :
              \A m : m = objects'[o][i] => MemberResolves(m)'
<1>1. /\ arrays \in Seq(Seq(JsonValues)) /\ objects \in Seq(Seq(Members))
      /\ array_stack \in Seq(JsonValues) /\ object_stack \in Seq(Members)
      /\ Len(array_stack) \in Nat /\ DOMAIN array_stack = 1..Len(array_stack)
      /\ Len(object_stack) \in Nat /\ DOMAIN object_stack = 1..Len(object_stack)
      /\ Len(arrays) \in Nat /\ DOMAIN arrays = 1..Len(arrays)
      /\ Len(objects) \in Nat /\ DOMAIN objects = 1..Len(objects)
  BY LenProperties DEF TypeOK
<1>2. ASSUME NEW a \in DOMAIN arrays, NEW i \in DOMAIN arrays[a], NEW v, v = arrays[a][i]
      PROVE  Resolves(v)'
  <2>1. arrays[a] \in Seq(JsonValues)
    BY <1>1, ElementOfSeq
  <2>2. v \in JsonValues
    BY <1>2, <2>1, ElementOfSeq, LenProperties
  <2> QED
    BY <1>2, <2>2, ResolvesKept DEF IndicesResolve
<1>3. ASSUME NEW o \in DOMAIN objects, NEW i \in DOMAIN objects[o], NEW m, m = objects[o][i]
      PROVE  MemberResolves(m)'
  <2>1. objects[o] \in Seq(Members)
    BY <1>1, ElementOfSeq
  <2>2. m \in Members
    BY <1>3, <2>1, ElementOfSeq, LenProperties
  <2> QED
    BY <1>3, <2>2, ResolvesKept DEF IndicesResolve
<1>4. ASSUME NEW a \in DOMAIN arrays', NEW i \in DOMAIN arrays'[a], NEW v, v = arrays'[a][i]
      PROVE  Resolves(v)'
  <2>1. CASE UNCHANGED arrays
    BY <1>2, <1>4, <2>1
  <2>2. CASE EmptyArray \/ CloseArray
    <3>1. PICK items \in Seq(JsonValues) :
            /\ arrays' = Append(arrays, items)
            /\ \A j \in DOMAIN items : \E n \in DOMAIN array_stack : items[j] = array_stack[n]
      <4>1. CASE EmptyArray
        <5>1. <<>> \in Seq(JsonValues) /\ \A j \in DOMAIN (<<>>) : FALSE
          OBVIOUS
        <5> QED
          BY <4>1, <5>1 DEF EmptyArray, SealArray
      <4>2. CASE CloseArray
        <5> DEFINE n == Top.start  items == ItemsFrom(array_stack, n)
        <5>1. n \in 0..Len(array_stack) /\ arrays' = Append(arrays, items)
          BY <4>2, TopStart DEF CloseArray, SealArray
        <5> HIDE DEF n
        <5>0. array_stack \in Seq(JsonValues)
          BY <1>1
        <5>2. /\ items \in Seq(JsonValues) /\ DOMAIN items = 1..(Len(array_stack) - n)
              /\ \A j \in 1..(Len(array_stack) - n) : items[j] = array_stack[n + j]
          <6>1. n \in 0..Len(array_stack)
            BY <5>1
          <6> QED
            BY <5>0, <6>1, ItemsFacts
        <5>3. \A j \in 1..(Len(array_stack) - n) : n + j \in DOMAIN array_stack
          BY <1>1, <5>1
        <5> QED
          BY <5>1, <5>2, <5>3
      <4> QED
        BY <2>2, <4>1, <4>2
    <3>2. (a \in 1..Len(arrays) /\ arrays'[a] = arrays[a]) \/ arrays'[a] = items
      <4>1. /\ DOMAIN arrays' = 1..(Len(arrays) + 1) /\ arrays'[Len(arrays) + 1] = items
            /\ \A n \in 1..Len(arrays) : arrays'[n] = arrays[n]
        BY <1>1, <3>1, AppendFacts
      <4>2. \A n \in 1..(Len(arrays) + 1) : n \in 1..Len(arrays) \/ n = Len(arrays) + 1
        BY <1>1
      <4> QED
        BY <1>4, <4>1, <4>2
    <3>3. CASE a \in 1..Len(arrays) /\ arrays'[a] = arrays[a]
      BY <1>1, <1>2, <1>4, <3>3
    <3>4. CASE arrays'[a] = items
      <4>1. PICK n \in DOMAIN array_stack : v = array_stack[n]
        BY <1>4, <3>1, <3>4
      <4>2. v \in JsonValues /\ Resolves(v)
        BY <1>1, <4>1, ElementOfSeq DEF IndicesResolve
      <4> QED
        BY <4>2, ResolvesKept
    <3> QED
      BY <3>2, <3>3, <3>4
  <2> QED
    BY <2>1, <2>2, Writers
<1>5. ASSUME NEW o \in DOMAIN objects', NEW i \in DOMAIN objects'[o], NEW m, m = objects'[o][i]
      PROVE  MemberResolves(m)'
  <2>1. CASE UNCHANGED objects
    BY <1>3, <1>5, <2>1
  <2>2. CASE EmptyObject \/ CloseObject
    <3>1. PICK items \in Seq(Members) :
            /\ objects' = Append(objects, items)
            /\ \A j \in DOMAIN items : \E n \in DOMAIN object_stack : items[j] = object_stack[n]
      <4>1. CASE EmptyObject
        <5>1. <<>> \in Seq(Members) /\ \A j \in DOMAIN (<<>>) : FALSE
          OBVIOUS
        <5> QED
          BY <4>1, <5>1 DEF EmptyObject, SealObject
      <4>2. CASE CloseObject
        <5> DEFINE n == Top.start  items == ItemsFrom(object_stack, n)
        <5>1. n \in 0..Len(object_stack) /\ objects' = Append(objects, items)
          BY <4>2, TopStart DEF CloseObject, SealObject
        <5> HIDE DEF n
        <5>0. object_stack \in Seq(Members)
          BY <1>1
        <5>2. /\ items \in Seq(Members) /\ DOMAIN items = 1..(Len(object_stack) - n)
              /\ \A j \in 1..(Len(object_stack) - n) : items[j] = object_stack[n + j]
          <6>1. n \in 0..Len(object_stack)
            BY <5>1
          <6> QED
            BY <5>0, <6>1, ItemsFacts
        <5>3. \A j \in 1..(Len(object_stack) - n) : n + j \in DOMAIN object_stack
          BY <1>1, <5>1
        <5> QED
          BY <5>1, <5>2, <5>3
      <4> QED
        BY <2>2, <4>1, <4>2
    <3>2. (o \in 1..Len(objects) /\ objects'[o] = objects[o]) \/ objects'[o] = items
      <4>1. /\ DOMAIN objects' = 1..(Len(objects) + 1) /\ objects'[Len(objects) + 1] = items
            /\ \A n \in 1..Len(objects) : objects'[n] = objects[n]
        BY <1>1, <3>1, AppendFacts
      <4>2. \A n \in 1..(Len(objects) + 1) : n \in 1..Len(objects) \/ n = Len(objects) + 1
        BY <1>1
      <4> QED
        BY <1>5, <4>1, <4>2
    <3>3. CASE o \in 1..Len(objects) /\ objects'[o] = objects[o]
      BY <1>1, <1>3, <1>5, <3>3
    <3>4. CASE objects'[o] = items
      <4>1. PICK n \in DOMAIN object_stack : m = object_stack[n]
        BY <1>5, <3>1, <3>4
      <4>2. m \in Members /\ MemberResolves(m)
        BY <1>1, <4>1, ElementOfSeq DEF IndicesResolve
      <4> QED
        BY <4>2, ResolvesKept
    <3> QED
      BY <3>2, <3>3, <3>4
  <2> QED
    BY <2>1, <2>2, Writers
<1> QED
  BY <1>4, <1>5

(* The keys that objects under construction wait with resolve.             *)
LEMMA WaitingKeysResolve ==
  ASSUME TypeOK, TypeOK', StructureInv, IndicesResolve, [Next]_vars
  PROVE  \A i \in DOMAIN calls' : \A k : k = calls'[i].key => KeyResolves(k)'
<1>1. /\ calls \in Seq(Frames) /\ Len(calls) \in Nat /\ DOMAIN calls = 1..Len(calls)
      /\ \A i \in DOMAIN calls : calls[i] \in Frames
  BY LenProperties, ElementOfSeq DEF TypeOK
<1>2. ASSUME NEW i \in DOMAIN calls, NEW k, k = calls[i].key PROVE KeyResolves(k)'
  <2>1. k \in Keys \cup {NoKey} /\ KeyResolves(k)
    BY <1>1, <1>2 DEF Frames, IndicesResolve
  <2> QED
    BY <2>1, ResolvesKept
<1> SUFFICES ASSUME NEW i \in DOMAIN calls', NEW k, k = calls'[i].key PROVE KeyResolves(k)'
  OBVIOUS
<1>3. CASE UNCHANGED calls
  BY <1>2, <1>3
<1>4. CASE OpenArray \/ OpenObject
  <2>1. PICK frame \in Frames : calls' = Append(calls, frame) /\ frame.key = NoKey
    <3>1. /\ [kind |-> "Array", start |-> Len(array_stack), key |-> NoKey] \in Frames
          /\ [kind |-> "Object", start |-> Len(object_stack), key |-> NoKey] \in Frames
      BY LenProperties DEF Frames, TypeOK
    <3> QED
      BY <1>4, <3>1 DEF OpenArray, OpenObject, Open
  <2>2. (i \in 1..Len(calls) /\ calls'[i] = calls[i]) \/ calls'[i] = frame
    BY <1>1, <2>1, AppendFacts
  <2>3. k = NoKey => KeyResolves(k)'
    BY DEF KeyResolves, NoKey
  <2> QED
    BY <1>1, <1>2, <2>1, <2>2, <2>3
<1>5. CASE ReadKey
  <2> DEFINE text == Decoded(Current.value)
             n == Len(calls)
  <2>1. /\ calls' = [calls EXCEPT ![n].key = MemberKey(text)]
        /\ strings' = IF text \in LongTexts THEN Append(strings, text) ELSE strings
    BY <1>5 DEF ReadKey
  <2> HIDE DEF text
  <2>2. i \in DOMAIN calls /\ (calls'[i].key = calls[i].key \/ calls'[i].key = MemberKey(text))
    BY <1>1, <2>1
  <2>3. k = MemberKey(text) => KeyResolves(k)'
    <3>1. Len(strings) \in Nat
      BY LenProperties DEF TypeOK
    <3>2. text \in LongTexts => Len(strings') = Len(strings) + 1
      BY <2>1 DEF TypeOK
    <3> QED
      BY <3>1, <3>2 DEF KeyResolves, MemberKey
  <2> QED
    BY <1>2, <2>2, <2>3
<1>6. CASE calls # <<>> /\ calls' = Front(calls)
  <2>1. i \in DOMAIN calls /\ calls'[i] = calls[i]
    BY <1>1, <1>6, TopFrame
  <2> QED
    BY <1>2, <2>1
<1> QED
  BY <1>3, <1>4, <1>5, <1>6, Writers

(* Every value, wherever it is held, is an index into a table that has the *)
(* element: an array is sealed before its index goes anywhere, a table     *)
(* never shrinks, and unwinding leaves no index behind that dangles.       *)
THEOREM IndicesSafe == Spec => []IndicesResolve
<1>1. Init => IndicesResolve
  <2> SUFFICES ASSUME Init PROVE IndicesResolve
    OBVIOUS
  <2>1. /\ DOMAIN array_stack = {} /\ DOMAIN object_stack = {} /\ DOMAIN calls = {}
        /\ DOMAIN arrays = {} /\ DOMAIN objects = {}
    BY DEF Init
  <2>2. Resolves(ret) /\ Resolves(root)
    BY DEF Init, Resolves, NoRoot, Value
  <2> QED
    BY <2>1, <2>2 DEF IndicesResolve
<1>2. TypeOK /\ StructureInv /\ IndicesResolve /\ TypeOK' /\ [Next]_vars => IndicesResolve'
  <2> SUFFICES ASSUME TypeOK, StructureInv, IndicesResolve, TypeOK', [Next]_vars
               PROVE  IndicesResolve'
    OBVIOUS
  <2>1. Resolves(ret)'
    BY ReturnedResolves
  <2>2. Resolves(root)'
    <3>1. CASE UNCHANGED root
      <4>1. \A v \in JsonValues \cup {NoRoot} : Resolves(v) => Resolves(v)'
        BY ResolvesKept DEF Resolves, NoRoot, Value
      <4>2. \A v : v = root => Resolves(v)'
        BY <4>1 DEF TypeOK, IndicesResolve
      <4> QED
        BY <3>1, <4>2 DEF Resolves
    <3>2. CASE SetRoot
      <4>1. \A v : v = ret => Resolves(v)'
        BY ResolvesKept DEF TypeOK, IndicesResolve
      <4>2. root' = ret
        BY <3>2 DEF SetRoot
      <4> QED
        BY <4>1, <4>2 DEF Resolves
    <3> QED
      BY <3>1, <3>2, Writers
  <2>3. \A i \in DOMAIN array_stack' : Resolves(array_stack[i])'
    BY StackedResolves DEF Resolves
  <2>4. \A i \in DOMAIN object_stack' : MemberResolves(object_stack[i])'
    BY StackedResolves DEF MemberResolves, KeyResolves, Resolves
  <2>5. \A i \in DOMAIN calls' : KeyResolves(calls[i].key)'
    BY WaitingKeysResolve DEF KeyResolves
  <2>6. \A a \in DOMAIN arrays' : \A i \in DOMAIN arrays'[a] : Resolves(arrays[a][i])'
    BY StoredResolves DEF Resolves
  <2>7. \A o \in DOMAIN objects' : \A i \in DOMAIN objects'[o] : MemberResolves(objects[o][i])'
    BY StoredResolves DEF MemberResolves, KeyResolves, Resolves
  <2> QED
    BY <2>1, <2>2, <2>3, <2>4, <2>5, <2>6, <2>7 DEF IndicesResolve
<1> QED
  BY <1>1, <1>2, StructureSafe, PTL DEF Spec
-----------------------------------------------------------------------------
(* The open containers, each with the items of its segments.               *)

Item == JsonValues \cup Members
Kinds == {"Array", "Object"}
OpenFrames == [kind : Kinds, key : Keys \cup {NoKey}, items : Seq(Item)]

(* Frame j is the next one of the kind of frame i.                         *)
IsNext(frames, i, j) ==
  /\ j \in DOMAIN frames /\ j > i /\ frames[j].kind = frames[i].kind
  /\ \A k \in DOMAIN frames : k > i /\ frames[k].kind = frames[i].kind => j <= k
NoNext(frames, i) == \A k \in DOMAIN frames : k > i => frames[k].kind # frames[i].kind

SegmentEnd(frames, i, size) ==
  LET above == {j \in DOMAIN frames : j > i /\ frames[j].kind = frames[i].kind}
  IN  IF above = {} THEN size
      ELSE frames[CHOOSE j \in above : \A k \in above : j <= k].start

(* st maps each kind to its shared stack.                                  *)
Segment(frames, i, st) ==
  LET stack == st[frames[i].kind]
  IN  SubSeq(stack, frames[i].start + 1, SegmentEnd(frames, i, Len(stack)))
Opened(frames, st) ==
  [i \in DOMAIN frames |-> [kind |-> frames[i].kind, key |-> frames[i].key,
                            items |-> Segment(frames, i, st)]]

Nested(frames, st) ==
  /\ frames \in Seq(Frames) /\ st \in [Kinds -> Seq(Item)]
  /\ \A kind \in Kinds : SegmentsNested(frames, kind, Len(st[kind]))

(* A segment ends at the end of its stack or where the next one starts.    *)
LEMMA SegmentEnds ==
  ASSUME NEW frames \in Seq(Frames), NEW i \in DOMAIN frames, NEW size
  PROVE  /\ NoNext(frames, i) \/ \E j \in DOMAIN frames : IsNext(frames, i, j)
         /\ NoNext(frames, i) => SegmentEnd(frames, i, size) = size
         /\ \A j \in DOMAIN frames : IsNext(frames, i, j) =>
              SegmentEnd(frames, i, size) = frames[j].start
<1> DEFINE n == Len(frames)
           above == {j \in DOMAIN frames : j > i /\ frames[j].kind = frames[i].kind}
<1>1. n \in Nat /\ DOMAIN frames = 1..n /\ above \in SUBSET (1..n) /\ i \in Nat
  BY LenProperties
<1>2. NoNext(frames, i) <=> above = {}
  BY <1>1 DEF NoNext
<1>3. \A j \in above : (\A k \in above : j <= k) <=> IsNext(frames, i, j)
  BY <1>1 DEF IsNext
<1>4. \A j \in DOMAIN frames : IsNext(frames, i, j) => j \in above
  BY <1>1 DEF IsNext
<1> HIDE DEF above, n
<1>5. above # {} => \E j \in above : \A k \in above : j <= k
  BY <1>1, LowestMember
<1> DEFINE first == CHOOSE j \in above : \A k \in above : j <= k
<1>6. SegmentEnd(frames, i, size) = IF above = {} THEN size ELSE frames[first].start
  BY DEF SegmentEnd, above
<1>7. above # {} => first \in above /\ \A k \in above : first <= k
  BY <1>5
<1> HIDE DEF first
<1>8. \A j, k \in above : j <= k /\ k <= j => j = k
  BY <1>1
<1> QED
  BY <1>1, <1>2, <1>3, <1>4, <1>5, <1>6, <1>7, <1>8

(* The two ends a segment can have, one at a time.                         *)
LEMMA EndOfStack ==
  ASSUME NEW frames \in Seq(Frames), NEW i \in DOMAIN frames, NEW size, NoNext(frames, i)
  PROVE  SegmentEnd(frames, i, size) = size
BY SegmentEnds

(* A segment of the buffer ends where the next one starts.                 *)
LEMMA EndAtNext ==
  ASSUME NEW frames \in Seq(Frames), NEW i \in DOMAIN frames, NEW size,
         NEW j \in DOMAIN frames, IsNext(frames, i, j)
  PROVE  SegmentEnd(frames, i, size) = frames[j].start
BY SegmentEnds

(* A segment lies within its stack.                                        *)
LEMMA SegmentFacts ==
  ASSUME NEW frames, NEW st, Nested(frames, st), NEW i \in DOMAIN frames
  PROVE  LET stack == st[frames[i].kind]
             end == SegmentEnd(frames, i, Len(stack))
         IN  /\ frames[i] \in Frames /\ frames[i].kind \in Kinds /\ frames[i].start \in Nat
             /\ stack \in Seq(Item) /\ Len(stack) \in Nat /\ end \in Nat
             /\ frames[i].start <= end /\ end <= Len(stack)
<1> DEFINE kind == frames[i].kind
           stack == st[kind]
           end == SegmentEnd(frames, i, Len(stack))
<1>1. frames \in Seq(Frames) /\ DOMAIN frames = 1..Len(frames) /\ Len(frames) \in Nat
  BY LenProperties DEF Nested
<1>2. \A j \in DOMAIN frames : frames[j] \in Frames /\ frames[j].start \in Nat
  <2>1. \A j \in DOMAIN frames : frames[j] \in Frames
    BY <1>1, ElementOfSeq
  <2> QED
    BY <2>1 DEF Frames
<1>3. frames[i] \in Frames /\ kind \in Kinds
  BY <1>2 DEF Frames, Kinds
<1>4. stack \in Seq(Item) /\ Len(stack) \in Nat
  BY <1>3, LenProperties DEF Nested
<1>5. SegmentsNested(frames, kind, Len(stack))
  BY <1>3 DEF Nested
<1>6. /\ frames[i].start <= Len(stack)
      /\ \A j \in DOMAIN frames : IsNext(frames, i, j) =>
           frames[i].start <= frames[j].start /\ frames[j].start <= Len(stack)
  BY <1>5 DEF SegmentsNested, IsNext
<1>7. /\ NoNext(frames, i) \/ \E j \in DOMAIN frames : IsNext(frames, i, j)
      /\ NoNext(frames, i) => end = Len(stack)
      /\ \A j \in DOMAIN frames : IsNext(frames, i, j) => end = frames[j].start
  BY <1>1, SegmentEnds
<1> HIDE DEF stack, kind, end
<1>8. end \in Nat /\ frames[i].start <= end /\ end <= Len(stack)
  BY <1>2, <1>4, <1>6, <1>7
<1> QED
  BY <1>2, <1>3, <1>4, <1>8 DEF stack, kind, end

(* The elements m + 1 to n of a sequence.                                  *)
LEMMA Slice ==
  ASSUME NEW S, NEW q \in Seq(S), NEW m \in Nat, NEW n \in Nat, m <= n, n <= Len(q)
  PROVE  /\ SubSeq(q, m + 1, n) \in Seq(S) /\ Len(SubSeq(q, m + 1, n)) = n - m
         /\ \A i \in 1..(n - m) : SubSeq(q, m + 1, n)[i] = q[m + i]
<1>1. Len(q) \in Nat
  BY LenProperties
<1>2. \A i \in (m + 1)..n : q[i] \in S
  BY <1>1, ElementOfSeq
<1>3. /\ SubSeq(q, m + 1, n) \in Seq(S)
      /\ Len(SubSeq(q, m + 1, n)) = IF m + 1 <= n THEN n - (m + 1) + 1 ELSE 0
      /\ \A i \in 1..(n - (m + 1) + 1) : SubSeq(q, m + 1, n)[i] = q[m + 1 + i - 1]
  BY <1>2, SubSeqProperties
<1> DEFINE slice == SubSeq(q, m + 1, n)
<1> HIDE DEF slice
<1>4. Len(slice) = IF m + 1 <= n THEN n - (m + 1) + 1 ELSE 0
  BY <1>3 DEF slice
<1>5. Len(slice) = n - m
  BY <1>4
<1>6. \A i \in 1..(n - (m + 1) + 1) : slice[i] = q[m + 1 + i - 1]
  BY <1>3 DEF slice
<1>7. \A i \in 1..(n - m) : i \in 1..(n - (m + 1) + 1) /\ m + 1 + i - 1 = m + i
  OBVIOUS
<1>8. \A i \in 1..(n - m) : slice[i] = q[m + i]
  BY <1>6, <1>7
<1> QED
  BY <1>3, <1>5, <1>8 DEF slice

(* A slice of a stack depends on nothing above its end.                    *)
LEMMA SameSlice ==
  ASSUME NEW S, NEW s \in Seq(S), NEW t \in Seq(S), NEW m \in Nat, NEW n \in Nat,
         m <= n, n <= Len(s), n <= Len(t), \A i \in 1..n : s[i] = t[i]
  PROVE  SubSeq(s, m + 1, n) = SubSeq(t, m + 1, n)
<1> DEFINE a == SubSeq(s, m + 1, n)
           b == SubSeq(t, m + 1, n)
<1>2. /\ a \in Seq(S) /\ b \in Seq(S) /\ Len(a) = n - m /\ Len(b) = n - m
      /\ \A i \in 1..(n - m) : a[i] = s[m + i] /\ b[i] = t[m + i]
  BY Slice
<1>3. \A i \in 1..(n - m) : m + i \in 1..n
  OBVIOUS
<1> HIDE DEF a, b
<1>4. \A i \in 1..Len(a) : a[i] = b[i]
  BY <1>2, <1>3
<1>5. a = b
  BY <1>2, <1>4, SeqEqual
<1> QED
  BY <1>5 DEF a, b

(* What Opened yields.                                                     *)
LEMMA OpenedFacts ==
  ASSUME NEW frames, NEW st, Nested(frames, st)
  PROVE  /\ Opened(frames, st) \in Seq(OpenFrames)
         /\ Len(Opened(frames, st)) = Len(frames) /\ Len(frames) \in Nat
         /\ DOMAIN frames = 1..Len(frames) /\ DOMAIN Opened(frames, st) = 1..Len(frames)
         /\ \A i \in 1..Len(frames) :
              Opened(frames, st)[i] = [kind |-> frames[i].kind, key |-> frames[i].key,
                                       items |-> Segment(frames, i, st)]
<1> DEFINE n == Len(frames)
           open == Opened(frames, st)
<1>1. n \in Nat /\ DOMAIN frames = 1..n
  BY LenProperties DEF Nested
<1>2. open = [i \in 1..n |-> [kind |-> frames[i].kind, key |-> frames[i].key,
                              items |-> Segment(frames, i, st)]]
  BY <1>1 DEF Opened
<1>3. ASSUME NEW i \in 1..n PROVE open[i] \in OpenFrames
  <2>1. /\ frames[i] \in Frames /\ frames[i].kind \in Kinds
        /\ Segment(frames, i, st) \in Seq(Item)
    <3> DEFINE stack == st[frames[i].kind]
               end == SegmentEnd(frames, i, Len(stack))
               start == frames[i].start
    <3>1. /\ frames[i] \in Frames /\ frames[i].kind \in Kinds /\ start \in Nat
          /\ stack \in Seq(Item) /\ end \in Nat /\ start <= end /\ end <= Len(stack)
      BY <1>1, SegmentFacts
    <3>2. Segment(frames, i, st) = SubSeq(stack, start + 1, end)
      BY DEF Segment
    <3> HIDE DEF stack, end, start
    <3>3. SubSeq(stack, start + 1, end) \in Seq(Item)
      BY <3>1, Slice
    <3> QED
      BY <3>1, <3>2, <3>3
  <2>2. open[i] = [kind |-> frames[i].kind, key |-> frames[i].key, items |-> Segment(frames, i, st)]
    BY <1>2
  <2>3. frames[i].key \in Keys \cup {NoKey}
    BY <2>1 DEF Frames
  <2> QED
    BY <2>1, <2>2, <2>3 DEF OpenFrames
<1>4. open \in [1..n -> OpenFrames]
  BY <1>2, <1>3
<1> HIDE DEF open, n
<1>5. open \in Seq(OpenFrames)
  BY <1>1, <1>4
<1>6. Len(open) = n /\ DOMAIN open = 1..n
  BY <1>1, <1>4, <1>5, LenProperties
<1> QED
  BY <1>1, <1>2, <1>5, <1>6 DEF open, n

(* A new container is open above the others, without items.                *)
LEMMA PushOpened ==
  ASSUME NEW frames, NEW st, Nested(frames, st), NEW f \in Frames, f.start = Len(st[f.kind])
  PROVE  Opened(Append(frames, f), st)
           = Append(Opened(frames, st), [kind |-> f.kind, key |-> f.key, items |-> <<>>])
<1> DEFINE n == Len(frames)
           longer == Append(frames, f)
           open == Opened(frames, st)
           new == [kind |-> f.kind, key |-> f.key, items |-> <<>>]
           opened == Opened(longer, st)
<1>1. /\ frames \in Seq(Frames) /\ n \in Nat /\ DOMAIN frames = 1..n
      /\ f.kind \in Kinds /\ f.key \in Keys \cup {NoKey}
  BY OpenedFacts DEF Nested, Frames, Kinds
<1>2. /\ longer \in Seq(Frames) /\ DOMAIN longer = 1..(n + 1) /\ Len(longer) = n + 1
      /\ \A i \in 1..n : longer[i] = frames[i]
      /\ longer[n + 1] = f
  BY <1>1, AppendFacts
<1>3. st \in [Kinds -> Seq(Item)] /\ \A kind \in Kinds : Len(st[kind]) \in Nat
  BY LenProperties DEF Nested
<1>4. Nested(longer, st)
  BY <1>1, <1>2, <1>3, PushNested DEF Nested
<1> HIDE DEF longer
<1>5. ASSUME NEW i \in 1..n PROVE Segment(longer, i, st) = Segment(frames, i, st)
  <2> DEFINE size == Len(st[frames[i].kind])
  <2>1. longer[i] = frames[i] /\ i \in DOMAIN longer /\ i \in DOMAIN frames /\ i # n + 1 /\ i < n + 1
    BY <1>1, <1>2
  <2>2. CASE NoNext(frames, i)
    <3>1. SegmentEnd(frames, i, size) = size
      BY <1>1, <2>1, <2>2, SegmentEnds
    <3>2. CASE f.kind = frames[i].kind
      <4>1. IsNext(longer, i, n + 1)
        BY <1>1, <1>2, <2>1, <2>2, <3>2 DEF IsNext, NoNext
      <4>2. SegmentEnd(longer, i, size) = f.start
        BY <1>2, <2>1, <4>1, SegmentEnds DEF IsNext
      <4> QED
        BY <2>1, <3>1, <3>2, <4>2 DEF Segment
    <3>3. CASE f.kind # frames[i].kind
      <4>1. NoNext(longer, i)
        BY <1>1, <1>2, <2>1, <2>2, <3>3 DEF NoNext
      <4>2. SegmentEnd(longer, i, size) = size
        BY <1>2, <2>1, <4>1, SegmentEnds
      <4> QED
        BY <2>1, <3>1, <4>2 DEF Segment
    <3> QED
      BY <3>2, <3>3
  <2>3. CASE ~NoNext(frames, i)
    <3>1. PICK j \in DOMAIN frames : IsNext(frames, i, j)
      BY <1>1, <2>1, <2>3, SegmentEnds
    <3>2. j \in DOMAIN longer /\ longer[j] = frames[j] /\ IsNext(longer, i, j)
      <4>1. j \in 1..n /\ j <= n + 1 /\ \A k \in 1..(n + 1) : k \in 1..n \/ k = n + 1
        BY <1>1
      <4> QED
        BY <1>1, <1>2, <2>1, <3>1, <4>1 DEF IsNext
    <3>3. /\ SegmentEnd(frames, i, size) = frames[j].start
          /\ SegmentEnd(longer, i, size) = longer[j].start
      <4>1. SegmentEnd(frames, i, size) = frames[j].start
        BY <1>1, <2>1, <3>1, EndAtNext
      <4>2. SegmentEnd(longer, i, size) = longer[j].start
        BY <1>2, <2>1, <3>2, EndAtNext
      <4> QED
        BY <4>1, <4>2
    <3> QED
      BY <2>1, <3>2, <3>3 DEF Segment
  <2> QED
    BY <2>2, <2>3
<1>6. Segment(longer, n + 1, st) = <<>>
  <2> DEFINE stack == st[f.kind]
             size == Len(stack)
  <2>1. n + 1 \in DOMAIN longer /\ NoNext(longer, n + 1)
    BY <1>1, <1>2 DEF NoNext
  <2>2. SegmentEnd(longer, n + 1, size) = size
    BY <1>2, <2>1, SegmentEnds
  <2>3. size \in Nat
    BY <1>1, <1>3
  <2>4. SubSeq(stack, size + 1, size) = <<>>
    BY <2>3, SubSeqEmpty
  <2> QED
    BY <1>2, <2>2, <2>4 DEF Segment
<1>7. new \in OpenFrames
  <2>1. <<>> \in Seq(Item)
    OBVIOUS
  <2> QED
    BY <1>1, <2>1 DEF OpenFrames
<1>8. /\ open \in Seq(OpenFrames) /\ Len(open) = n
      /\ \A i \in 1..n : open[i] = [kind |-> frames[i].kind, key |-> frames[i].key,
                                    items |-> Segment(frames, i, st)]
  BY OpenedFacts
<1>9. /\ opened \in Seq(OpenFrames) /\ Len(opened) = n + 1
      /\ \A i \in 1..(n + 1) : opened[i] = [kind |-> longer[i].kind, key |-> longer[i].key,
                                            items |-> Segment(longer, i, st)]
  BY <1>2, <1>4, OpenedFacts
<1>10. \A i \in 1..(n + 1) : i \in 1..n \/ i = n + 1
  BY <1>1
<1>11. /\ \A i \in 1..n : opened[i] = open[i]
       /\ opened[n + 1] = new
  <2>1. n + 1 \in 1..(n + 1) /\ \A i \in 1..n : i \in 1..(n + 1)
    BY <1>1
  <2> QED
    BY <1>2, <1>5, <1>6, <1>8, <1>9, <2>1
<1> HIDE DEF open, new, opened
<1>12. /\ Append(open, new) \in Seq(OpenFrames) /\ Len(Append(open, new)) = n + 1
       /\ \A i \in 1..n : Append(open, new)[i] = open[i]
       /\ Append(open, new)[n + 1] = new
  BY <1>7, <1>8, AppendFacts
<1>13. opened = Append(open, new)
  <2> DEFINE other == Append(open, new)
  <2>1. \A i \in 1..(n + 1) : opened[i] = other[i]
    BY <1>10, <1>11, <1>12
  <2>2. other \in Seq(OpenFrames) /\ Len(other) = n + 1
    BY <1>12
  <2> HIDE DEF other
  <2>3. opened = other
    BY <1>9, <2>1, <2>2, SeqEqual
  <2> QED
    BY <2>3 DEF other
<1> QED
  BY <1>13 DEF open, new, opened, longer

(* Replacing the key and appending an item, innermost; the stack of one    *)
(* kind grown by an item, or cut back.                                     *)
WithKey(q, key) == [q EXCEPT ![Len(q)].key = key]
WithItem(q, x) == [q EXCEPT ![Len(q)].items = Append(@, x)]
Grown(st, kind, x) == [st EXCEPT ![kind] = Append(st[kind], x)]
Cut(st, kind, start) == [st EXCEPT ![kind] = CutBack(st[kind], start)]

(* Closing the innermost container: its items are those cut off its stack, *)
(* and the containers around it keep theirs.                               *)
LEMMA PopOpened ==
  ASSUME NEW frames, NEW st, Nested(frames, st), frames # <<>>
  PROVE  /\ Opened(Front(frames), Cut(st, Last(frames).kind, Last(frames).start))
              = Front(Opened(frames, st))
         /\ Last(Opened(frames, st)) =
              [kind |-> Last(frames).kind, key |-> Last(frames).key,
               items |-> ItemsFrom(st[Last(frames).kind], Last(frames).start)]
<1> DEFINE n == Len(frames)
           f == Last(frames)
           stack == st[f.kind]
           front == Front(frames)
           open == Opened(frames, st)
           cut == Cut(st, f.kind, f.start)
           opened == Opened(front, cut)
<1>0. cut = [st EXCEPT ![f.kind] = CutBack(st[f.kind], f.start)]
  BY DEF Cut
<1> HIDE DEF cut
<1>1. /\ frames \in Seq(Frames) /\ n \in Nat \ {0} /\ DOMAIN frames = 1..n
      /\ f = frames[n] /\ front \in Seq(Frames) /\ Len(front) = n - 1 /\ f \in Frames
      /\ \A i \in 1..(n - 1) : front[i] = frames[i]
  BY LastFront, LenProperties DEF Nested
<1>2. DOMAIN front = 1..(n - 1)
  BY <1>1, LenProperties
<1>3. /\ n \in DOMAIN frames /\ NoNext(frames, n)
  BY <1>1 DEF NoNext
<1>4. f.kind \in Kinds /\ f.start \in Nat /\ stack \in Seq(Item)
  BY <1>1, <1>3, SegmentFacts
<1>5. f.start <= Len(stack) /\ Len(stack) \in Nat /\ SegmentEnd(frames, n, Len(stack)) = Len(stack)
  BY <1>1, <1>3, SegmentFacts, SegmentEnds
<1>6. st \in [Kinds -> Seq(Item)] /\ \A kind \in Kinds : Len(st[kind]) \in Nat
  BY LenProperties DEF Nested
<1> HIDE DEF f, front
<1>7. /\ CutBack(stack, f.start) \in Seq(Item) /\ Len(CutBack(stack, f.start)) = f.start
      /\ \A i \in 1..f.start : CutBack(stack, f.start)[i] = stack[i]
  <2> DEFINE m == f.start
  <2>1. m \in 0..Len(stack)
    BY <1>4, <1>5
  <2> HIDE DEF m, stack
  <2>2. /\ CutBack(stack, m) \in Seq(Item) /\ Len(CutBack(stack, m)) = m
        /\ \A i \in 1..m : CutBack(stack, m)[i] = stack[i]
    BY <1>4, <2>1, CutBackFacts
  <2> QED
    BY <2>2 DEF m
<1>8. /\ cut \in [Kinds -> Seq(Item)] /\ cut[f.kind] = CutBack(stack, f.start)
      /\ \A kind \in Kinds : kind # f.kind => cut[kind] = st[kind]
  BY <1>0, <1>4, <1>6, <1>7
<1>9. Nested(front, cut)
  <2>1. ASSUME NEW kind \in Kinds PROVE SegmentsNested(front, kind, Len(cut[kind]))
    <3>1. SegmentsNested(front, kind, IF f.kind = kind THEN f.start ELSE Len(st[kind]))
      BY <1>6, PopNested DEF Nested, f, front
    <3> QED
      BY <1>7, <1>8, <3>1
  <2> QED
    BY <1>1, <1>8, <2>1 DEF Nested
<1>10. ASSUME NEW i \in 1..(n - 1) PROVE Segment(front, i, cut) = Segment(frames, i, st)
  <2> DEFINE kind == frames[i].kind
             m == frames[i].start
             end == SegmentEnd(frames, i, Len(st[kind]))
  <2>1. i \in 1..n /\ i < n /\ i \in DOMAIN frames /\ i \in DOMAIN front /\ front[i] = frames[i]
    BY <1>1, <1>2
  <2>2. /\ kind \in Kinds /\ st[kind] \in Seq(Item) /\ Len(st[kind]) \in Nat
        /\ m \in Nat /\ end \in Nat /\ m <= end /\ end <= Len(st[kind])
    BY <2>1, SegmentFacts
  <2>3. /\ SegmentEnd(front, i, Len(cut[kind])) = end
        /\ f.kind = kind => end <= f.start
    <3>1. CASE NoNext(frames, i)
      <4>1. f.kind # kind
        BY <1>1, <1>3, <2>1, <3>1 DEF NoNext
      <4>2. cut[kind] = st[kind]
        BY <1>8, <2>2, <4>1
      <4>3. NoNext(front, i)
        <5>1. \A j \in DOMAIN front : j \in DOMAIN frames /\ front[j] = frames[j]
          BY <1>1, <1>2
        <5> QED
          BY <2>1, <3>1, <5>1 DEF NoNext
      <4>4. SegmentEnd(front, i, Len(cut[kind])) = Len(cut[kind])
        BY <1>1, <2>1, <4>3, SegmentEnds
      <4>5. end = Len(st[kind])
        BY <1>1, <2>1, <3>1, SegmentEnds
      <4> QED
        BY <4>1, <4>2, <4>4, <4>5
    <3>2. ASSUME NEW j \in DOMAIN frames, IsNext(frames, i, j), j = n
          PROVE  SegmentEnd(front, i, Len(cut[kind])) = end /\ end = f.start
      <4>1. end = f.start /\ f.kind = kind
        <5>1. end = frames[j].start
          BY <1>1, <2>1, <3>2, EndAtNext
        <5>2. frames[j] = f /\ frames[j].kind = kind
          BY <1>1, <3>2 DEF IsNext
        <5> QED
          BY <5>1, <5>2
      <4>2. NoNext(front, i)
        <5>1. \A k \in DOMAIN front : k \in DOMAIN frames /\ front[k] = frames[k] /\ k < n
          BY <1>1, <1>2
        <5>2. \A k \in DOMAIN frames : k > i /\ frames[k].kind = frames[i].kind => n <= k
          BY <3>2 DEF IsNext
        <5> QED
          BY <1>1, <1>2, <2>1, <5>1, <5>2 DEF NoNext
      <4>3. SegmentEnd(front, i, Len(cut[kind])) = Len(cut[kind])
        BY <1>1, <2>1, <4>2, SegmentEnds
      <4> QED
        BY <1>7, <1>8, <4>1, <4>3
    <3>3. ASSUME NEW j \in DOMAIN frames, IsNext(frames, i, j), j # n
          PROVE  SegmentEnd(front, i, Len(cut[kind])) = end /\ (f.kind = kind => end <= f.start)
      <4>1. j \in DOMAIN front /\ front[j] = frames[j] /\ j < n
        BY <1>1, <1>2, <3>3
      <4>2. IsNext(front, i, j)
        <5>1. \A k \in DOMAIN front : k \in DOMAIN frames /\ front[k] = frames[k]
          BY <1>1, <1>2
        <5> QED
          BY <2>1, <3>3, <4>1, <5>1 DEF IsNext
      <4>3. SegmentEnd(front, i, Len(cut[kind])) = front[j].start /\ end = frames[j].start
        <5>1. SegmentEnd(front, i, Len(cut[kind])) = front[j].start
          BY <1>1, <2>1, <4>1, <4>2, EndAtNext
        <5>2. end = frames[j].start
          BY <1>1, <2>1, <3>3, EndAtNext
        <5> QED
          BY <5>1, <5>2
      <4>4. f.kind = kind => frames[j].start <= f.start
        <5>1. SegmentsNested(frames, kind, Len(st[kind]))
          BY <2>2 DEF Nested
        <5> QED
          BY <1>1, <1>3, <3>3, <4>1, <5>1 DEF SegmentsNested, IsNext
      <4> QED
        BY <4>1, <4>3, <4>4
    <3>4. NoNext(frames, i) \/ \E j \in DOMAIN frames : IsNext(frames, i, j)
      BY <1>1, <2>1, SegmentEnds
    <3>5. end = f.start => end <= f.start
      BY <1>4
    <3> HIDE DEF end
    <3> QED
      BY <3>1, <3>2, <3>3, <3>4, <3>5
  <2>4. SubSeq(cut[kind], m + 1, end) = SubSeq(st[kind], m + 1, end)
    <3>1. CASE f.kind # kind
      BY <1>8, <2>2, <3>1
    <3>2. CASE f.kind = kind
      <4> DEFINE s == st[kind]
                 t == cut[kind]
      <4>1. /\ s \in Seq(Item) /\ t \in Seq(Item) /\ end <= Len(s) /\ end <= Len(t)
            /\ \A k \in 1..end : t[k] = s[k]
        <5>1. \A k \in 1..end : k \in 1..f.start
          BY <1>4, <2>2, <2>3, <3>2
        <5> QED
          BY <1>7, <1>8, <2>2, <2>3, <3>2, <5>1
      <4> HIDE DEF s, t, m, end
      <4>2. SubSeq(t, m + 1, end) = SubSeq(s, m + 1, end)
        BY <2>2, <4>1, SameSlice
      <4> QED
        BY <4>2 DEF s, t
    <3> QED
      BY <3>1, <3>2
  <2> QED
    BY <2>1, <2>3, <2>4 DEF Segment
<1>11. Segment(frames, n, st) = ItemsFrom(stack, f.start)
  BY <1>1, <1>5 DEF Segment, ItemsFrom
<1>12. /\ open \in Seq(OpenFrames) /\ Len(open) = n
       /\ \A i \in 1..n : open[i] = [kind |-> frames[i].kind, key |-> frames[i].key,
                                     items |-> Segment(frames, i, st)]
  BY OpenedFacts
<1>13. /\ opened \in Seq(OpenFrames) /\ Len(opened) = n - 1
       /\ \A i \in 1..(n - 1) : opened[i] = [kind |-> front[i].kind, key |-> front[i].key,
                                             items |-> Segment(front, i, cut)]
  <2>1. /\ opened \in Seq(OpenFrames) /\ Len(opened) = Len(front)
        /\ \A i \in 1..Len(front) : opened[i] = [kind |-> front[i].kind, key |-> front[i].key,
                                                 items |-> Segment(front, i, cut)]
    BY <1>9, OpenedFacts
  <2> QED
    BY <1>1, <2>1
<1>14. \A i \in 1..(n - 1) : i \in 1..n
  BY <1>1
<1>15. \A i \in 1..(n - 1) : opened[i] = open[i]
  BY <1>1, <1>10, <1>12, <1>13, <1>14
<1>16. open[n] = [kind |-> f.kind, key |-> f.key, items |-> ItemsFrom(stack, f.start)]
  <2>1. n \in 1..n /\ f = frames[n]
    BY <1>1
  <2> HIDE DEF open, n, stack
  <2>2. open[n] = [kind |-> frames[n].kind, key |-> frames[n].key,
                   items |-> Segment(frames, n, st)]
    BY <1>12, <2>1
  <2> QED
    BY <1>11, <2>1, <2>2
<1> HIDE DEF open, opened, n
<1>17. open # <<>>
  BY <1>1, <1>12, EmptySeq
<1>18. /\ Front(open) \in Seq(OpenFrames) /\ Len(Front(open)) = n - 1 /\ Last(open) = open[n]
       /\ \A i \in 1..(n - 1) : Front(open)[i] = open[i]
  BY <1>12, <1>17, LastFront
<1>19. opened = Front(open)
  BY <1>13, <1>15, <1>18, SeqEqual
<1> QED
  BY <1>16, <1>18, <1>19 DEF open, opened, front, f, cut

(* A key read for the innermost object changes nothing else.               *)
LEMMA KeyOpened ==
  ASSUME NEW frames, NEW st, Nested(frames, st), frames # <<>>, NEW key \in Keys
  PROVE  Opened(WithKey(frames, key), st) = WithKey(Opened(frames, st), key)
<1> DEFINE n == Len(frames)
           open == Opened(frames, st)
           keyed == WithKey(frames, key)
<1>1. /\ frames \in Seq(Frames) /\ n \in Nat \ {0} /\ DOMAIN frames = 1..n
      /\ \A i \in DOMAIN frames : frames[i] \in Frames
  <2>1. frames \in Seq(Frames)
    BY DEF Nested
  <2> QED
    BY <2>1, EmptySeq, LenProperties, ElementOfSeq
<1>2. /\ DOMAIN keyed = 1..n
      /\ \A i \in 1..n : keyed[i].kind = frames[i].kind /\ keyed[i].start = frames[i].start
      /\ \A i \in 1..n : keyed[i].key = IF i = n THEN key ELSE frames[i].key
  BY <1>1 DEF Frames, WithKey
<1> HIDE DEF keyed
<1>3. \A i \in 1..n : \A size : SegmentEnd(keyed, i, size) = SegmentEnd(frames, i, size)
  <2> TAKE i \in 1..n
  <2> TAKE size
  <2>1. {j \in DOMAIN keyed : j > i /\ keyed[j].kind = keyed[i].kind}
          = {j \in DOMAIN frames : j > i /\ frames[j].kind = frames[i].kind}
    BY <1>1, <1>2
  <2> DEFINE above == {j \in DOMAIN frames : j > i /\ frames[j].kind = frames[i].kind}
             first == CHOOSE j \in above : \A k \in above : j <= k
  <2>2. /\ SegmentEnd(keyed, i, size) = IF above = {} THEN size ELSE keyed[first].start
        /\ SegmentEnd(frames, i, size) = IF above = {} THEN size ELSE frames[first].start
    <3>1. SegmentEnd(frames, i, size) = IF above = {} THEN size ELSE frames[first].start
      BY DEF SegmentEnd
    <3> DEFINE higher == {j \in DOMAIN keyed : j > i /\ keyed[j].kind = keyed[i].kind}
               lowest == CHOOSE j \in higher : \A k \in higher : j <= k
    <3>2. SegmentEnd(keyed, i, size) = IF higher = {} THEN size ELSE keyed[lowest].start
      BY DEF SegmentEnd
    <3>3. higher = above
      BY <2>1
    <3> HIDE DEF higher, above
    <3>4. lowest = first
      BY <3>3
    <3> HIDE DEF lowest, first
    <3> QED
      BY <3>1, <3>2, <3>3, <3>4
  <2>3. above \in SUBSET (1..n)
    BY <1>1
  <2>4. above # {} => \E j \in above : \A k \in above : j <= k
    <3> HIDE DEF above
    <3> QED
      BY <1>1, <2>3, LowestMember
  <2>5. above # {} => first \in above
    <3> HIDE DEF above
    <3> QED
      BY <2>4
  <2>6. above # {} => first \in 1..n
    BY <2>3, <2>5
  <2> HIDE DEF first, above
  <2> QED
    BY <1>2, <2>2, <2>6
<1>4. \A i \in 1..n : Segment(keyed, i, st) = Segment(frames, i, st)
  BY <1>2, <1>3 DEF Segment
<1>5. open = [i \in 1..n |-> [kind |-> frames[i].kind, key |-> frames[i].key,
                              items |-> Segment(frames, i, st)]]
  BY <1>1 DEF Opened
<1>6. Opened(keyed, st) = [i \in 1..n |-> [kind |-> keyed[i].kind, key |-> keyed[i].key,
                                           items |-> Segment(keyed, i, st)]]
  BY <1>2 DEF Opened
<1>7. Opened(keyed, st)
        = [i \in 1..n |-> [kind |-> frames[i].kind, key |-> IF i = n THEN key ELSE frames[i].key,
                           items |-> Segment(frames, i, st)]]
  BY <1>2, <1>4, <1>6
<1> HIDE DEF open, n
<1>8. [open EXCEPT ![n].key = key]
        = [i \in 1..n |-> [kind |-> frames[i].kind, key |-> IF i = n THEN key ELSE frames[i].key,
                           items |-> Segment(frames, i, st)]]
  <2>1. [open EXCEPT ![n].key = key]
          = [i \in 1..n |-> IF i = n THEN [open[n] EXCEPT !.key = key] ELSE open[i]]
    BY <1>5
  <2>2. n \in 1..n
    BY <1>1 DEF n
  <2>3. [open[n] EXCEPT !.key = key]
          = [kind |-> frames[n].kind, key |-> key, items |-> Segment(frames, n, st)]
    BY <1>5, <2>2
  <2>4. \A i \in 1..n :
          (IF i = n THEN [open[n] EXCEPT !.key = key] ELSE open[i])
            = [kind |-> frames[i].kind, key |-> IF i = n THEN key ELSE frames[i].key,
               items |-> Segment(frames, i, st)]
    BY <1>5, <2>3
  <2> QED
    BY <2>1, <2>4
<1>9. Len(open) = n
  BY OpenedFacts DEF open, n
<1> QED
  BY <1>7, <1>8, <1>9 DEF open, keyed, WithKey

(* Appending to a stack appends to its last slice.                         *)
LEMMA AppendSlice ==
  ASSUME NEW S, NEW q \in Seq(S), NEW x \in S, NEW m \in Nat, m <= Len(q)
  PROVE  SubSeq(Append(q, x), m + 1, Len(q) + 1) = Append(SubSeq(q, m + 1, Len(q)), x)
<1> DEFINE n == Len(q)
           top == n + 1
           longer == Append(q, x)
           part == SubSeq(q, m + 1, n)
           whole == SubSeq(longer, m + 1, top)
           both == Append(part, x)
<1>1. n \in Nat /\ m <= n /\ top \in Nat /\ m <= top /\ top - m = (n - m) + 1
  BY LenProperties
<1>2. /\ longer \in Seq(S) /\ Len(longer) = top
      /\ \A i \in 1..n : longer[i] = q[i]
      /\ longer[top] = x
  BY AppendFacts
<1>3. part \in Seq(S) /\ Len(part) = n - m /\ \A i \in 1..(n - m) : part[i] = q[m + i]
  BY <1>1, Slice
<1>4. /\ whole \in Seq(S) /\ Len(whole) = top - m
      /\ \A i \in 1..(top - m) : whole[i] = longer[m + i]
  <2>1. top <= Len(longer)
    BY <1>1, <1>2
  <2> HIDE DEF top, longer, n
  <2> QED
    BY <1>1, <1>2, <2>1, Slice
<1>5. /\ both \in Seq(S) /\ Len(both) = (n - m) + 1
      /\ \A i \in 1..(n - m) : both[i] = part[i]
      /\ both[(n - m) + 1] = x
  <2> HIDE DEF part, n
  <2>1. /\ both \in Seq(S) /\ Len(both) = Len(part) + 1
        /\ \A i \in 1..Len(part) : both[i] = part[i]
        /\ both[Len(part) + 1] = x
    BY <1>3, AppendFacts
  <2> QED
    BY <1>3, <2>1
<1> HIDE DEF n, longer, part, whole, both
<1>6. \A i \in 1..(top - m) : whole[i] = both[i]
  <2>1. \A i \in 1..(top - m) :
          \/ i \in 1..(n - m) /\ m + i \in 1..n
          \/ i = (n - m) + 1 /\ m + i = top
    BY <1>1
  <2> HIDE DEF top
  <2>2. ASSUME NEW i \in 1..(top - m)  PROVE whole[i] = both[i]
    <3>1. CASE i \in 1..(n - m) /\ m + i \in 1..n
      BY <1>2, <1>3, <1>4, <1>5, <3>1
    <3>2. CASE i = (n - m) + 1 /\ m + i = top
      BY <1>2, <1>4, <1>5, <3>2
    <3> QED
      BY <2>1, <3>1, <3>2
  <2> QED
    BY <2>2
<1> HIDE DEF top
<1>7. whole = both
  <2>1. Len(whole) = Len(both)
    BY <1>1, <1>4, <1>5
  <2>2. \A i \in 1..Len(whole) : whole[i] = both[i]
    BY <1>4, <1>6
  <2> QED
    BY <1>4, <1>5, <2>1, <2>2, SeqEqual
<1> QED
  BY <1>7 DEF n, top, longer, part, whole, both

(* An item pushed on the stack of the innermost container's kind is the    *)
(* last of that container and of no other.                                 *)
LEMMA AddOpened ==
  ASSUME NEW frames, NEW st, Nested(frames, st), frames # <<>>, NEW x \in Item
  PROVE  Opened(frames, Grown(st, Last(frames).kind, x)) = WithItem(Opened(frames, st), x)
<1> DEFINE n == Len(frames)
           f == Last(frames)
           stack == st[f.kind]
           size == Len(stack)
           open == Opened(frames, st)
           grown == Grown(st, f.kind, x)
<1>1. /\ frames \in Seq(Frames) /\ n \in Nat \ {0} /\ DOMAIN frames = 1..n /\ f = frames[n]
      /\ f \in Frames
  BY LastFront, LenProperties DEF Nested
<1>2. n \in DOMAIN frames /\ NoNext(frames, n)
  BY <1>1 DEF NoNext
<1>3. /\ f.kind \in Kinds /\ f.start \in Nat /\ stack \in Seq(Item)
      /\ f.start <= size /\ size \in Nat
  BY <1>1, <1>2, SegmentFacts, EndOfStack
<1>4. st \in [Kinds -> Seq(Item)]
  BY DEF Nested
<1>5. /\ Append(stack, x) \in Seq(Item) /\ Len(Append(stack, x)) = size + 1
      /\ \A i \in 1..size : Append(stack, x)[i] = stack[i]
      /\ Append(stack, x)[size + 1] = x
  BY <1>3, AppendFacts
<1> HIDE DEF f
<1>6. /\ grown \in [Kinds -> Seq(Item)] /\ grown[f.kind] = Append(stack, x)
      /\ \A kind \in Kinds : kind # f.kind => grown[kind] = st[kind]
  BY <1>3, <1>4, <1>5 DEF f, Grown
<1> HIDE DEF grown
<1>7. ASSUME NEW i \in 1..(n - 1) PROVE Segment(frames, i, grown) = Segment(frames, i, st)
  <2> DEFINE kind == frames[i].kind
             m == frames[i].start
             end == SegmentEnd(frames, i, Len(st[kind]))
  <2>1. i \in DOMAIN frames /\ i < n
    BY <1>1
  <2>2. /\ kind \in Kinds /\ st[kind] \in Seq(Item) /\ Len(st[kind]) \in Nat
        /\ m \in Nat /\ end \in Nat /\ m <= end /\ end <= Len(st[kind])
    BY <2>1, SegmentFacts
  <2>3. CASE f.kind # kind
    BY <1>6, <2>2, <2>3 DEF Segment
  <2>4. CASE f.kind = kind
    <3>1. ~NoNext(frames, i)
      BY <1>1, <1>2, <2>1, <2>4 DEF NoNext
    <3>2. PICK j \in DOMAIN frames : IsNext(frames, i, j)
      BY <1>1, <2>1, <3>1, SegmentEnds
    <3>3. end = frames[j].start
      BY <1>1, <2>1, <3>2, EndAtNext
    <3>4. SegmentEnd(frames, i, Len(grown[kind])) = frames[j].start
      BY <1>1, <2>1, <3>2, EndAtNext
    <3> DEFINE s == st[kind]
               t == grown[kind]
    <3>5. /\ s \in Seq(Item) /\ t \in Seq(Item) /\ end <= Len(s) /\ end <= Len(t)
          /\ \A k \in 1..end : t[k] = s[k]
      <4>1. \A k \in 1..end : k \in 1..size
        BY <1>3, <2>2, <2>4
      <4>2. Len(t) = size + 1 /\ Len(s) = size /\ t \in Seq(Item)
        BY <1>5, <1>6, <2>4
      <4>3. end <= size /\ end <= size + 1
        BY <2>2, <4>2
      <4> QED
        BY <1>5, <1>6, <2>2, <2>4, <4>1, <4>2, <4>3
    <3> HIDE DEF s, t, m, end
    <3>6. SubSeq(t, m + 1, end) = SubSeq(s, m + 1, end)
      BY <2>2, <3>5, SameSlice
    <3> QED
      BY <3>3, <3>4, <3>6 DEF Segment, s, t, m, end
  <2> QED
    BY <2>3, <2>4
<1>8. Segment(frames, n, grown) = Append(Segment(frames, n, st), x)
  <2> DEFINE m == f.start
  <2>1. Segment(frames, n, st) = SubSeq(stack, m + 1, size)
    <3>1. SegmentEnd(frames, n, size) = size
      BY <1>1, <1>2, EndOfStack
    <3> QED
      BY <1>1, <3>1 DEF Segment
  <2>2. Segment(frames, n, grown) = SubSeq(Append(stack, x), m + 1, size + 1)
    <3> DEFINE longer == Append(stack, x)
    <3>1. SegmentEnd(frames, n, size + 1) = size + 1
      BY <1>1, <1>2, EndOfStack
    <3>2. grown[f.kind] = longer /\ Len(longer) = size + 1
      BY <1>5, <1>6
    <3> HIDE DEF longer
    <3>3. Segment(frames, n, grown) = SubSeq(longer, m + 1, size + 1)
      BY <1>1, <3>1, <3>2 DEF Segment
    <3> QED
      BY <3>3 DEF longer
  <2>3. stack \in Seq(Item) /\ m \in Nat /\ m <= Len(stack) /\ size = Len(stack)
    BY <1>3
  <2> HIDE DEF m, stack, size
  <2> QED
    BY <2>1, <2>2, <2>3, AppendSlice
<1>9. /\ open = [i \in 1..n |-> [kind |-> frames[i].kind, key |-> frames[i].key,
                                 items |-> Segment(frames, i, st)]]
      /\ Opened(frames, grown) = [i \in 1..n |-> [kind |-> frames[i].kind, key |-> frames[i].key,
                                                  items |-> Segment(frames, i, grown)]]
  BY <1>1 DEF Opened
<1>10. \A i \in 1..n : i \in 1..(n - 1) \/ i = n
  <2>1. n \in Nat \ {0}
    BY <1>1
  <2> HIDE DEF n
  <2> QED
    BY <2>1
<1>11. n \in 1..n /\ open[n].items = Segment(frames, n, st)
  BY <1>1, <1>9
<1>12. Opened(frames, grown)
         = [i \in 1..n |-> [kind |-> frames[i].kind, key |-> frames[i].key,
                            items |-> IF i = n THEN Append(open[n].items, x)
                                      ELSE Segment(frames, i, st)]]
  BY <1>7, <1>8, <1>9, <1>10, <1>11
<1> DEFINE new == Append(open[n].items, x)
<1> HIDE DEF open, n, new
<1>13. [open EXCEPT ![n].items = new]
         = [i \in 1..n |-> [kind |-> frames[i].kind, key |-> frames[i].key,
                            items |-> IF i = n THEN new ELSE Segment(frames, i, st)]]
  <2>1. [open EXCEPT ![n].items = new]
          = [i \in 1..n |-> IF i = n THEN [open[n] EXCEPT !.items = new] ELSE open[i]]
    BY <1>9
  <2>2. [open[n] EXCEPT !.items = new] = [kind |-> frames[n].kind, key |-> frames[n].key, items |-> new]
    BY <1>9, <1>11
  <2>3. \A i \in 1..n :
          (IF i = n THEN [open[n] EXCEPT !.items = new] ELSE open[i])
            = [kind |-> frames[i].kind, key |-> frames[i].key,
               items |-> IF i = n THEN new ELSE Segment(frames, i, st)]
    BY <1>9, <2>2
  <2> QED
    BY <2>1, <2>3
<1>14. Len(open) = n
  BY OpenedFacts DEF open, n
<1> QED
  BY <1>12, <1>13, <1>14 DEF open, new, f, grown, WithItem

-----------------------------------------------------------------------------
(* The parser implements ContainerBuilder.                                 *)

Shared == [kind \in Kinds |-> IF kind = "Array" THEN array_stack ELSE object_stack]
OpenNow == Opened(calls, Shared)

(* The refinement mapping's open containers are those of the lemmas above. *)
LEMMA MappedOpen ==
  ASSUME TypeOK, TypeOK'
  PROVE  OpenContainers = OpenNow /\ OpenContainers' = OpenNow'
<1>1. ASSUME NEW i \in DOMAIN calls  PROVE ItemsOf(i) = Segment(calls, i, Shared)
  <2>1. calls[i].kind \in Kinds
    <3>1. calls[i] \in Frames
      BY ElementOfSeq, LenProperties DEF TypeOK
    <3> QED
      BY <3>1 DEF Frames, Kinds
  <2>2. Shared[calls[i].kind] = IF calls[i].kind = "Array" THEN array_stack ELSE object_stack
    BY <2>1 DEF Shared
  <2> QED
    BY <2>2 DEF ItemsOf, NextStart, Segment, SegmentEnd
<1>2. ASSUME NEW i \in (DOMAIN calls)'  PROVE ItemsOf(i)' = Segment(calls', i, Shared')
  <2>1. calls'[i].kind \in Kinds
    <3>1. calls'[i] \in Frames
      BY ElementOfSeq, LenProperties DEF TypeOK
    <3> QED
      BY <3>1 DEF Frames, Kinds
  <2>2. Shared'[calls'[i].kind] = IF calls'[i].kind = "Array" THEN array_stack' ELSE object_stack'
    BY <2>1 DEF Shared
  <2> QED
    BY <2>2 DEF ItemsOf, NextStart, Segment, SegmentEnd
<1> QED
  BY <1>1, <1>2 DEF OpenContainers, OpenNow, Opened

(* Outside of the way back from an error, the segments are nested.         *)
LEMMA OpenFacts ==
  ASSUME TypeOK, StructureInv, ~has_error
  PROVE  /\ ~Unwinding /\ Nested(calls, Shared)
         /\ Shared["Array"] = array_stack /\ Shared["Object"] = object_stack
         /\ OpenNow \in Seq(OpenFrames) /\ Len(OpenNow) = Len(calls)
         /\ DOMAIN OpenNow = 1..Len(calls)
         /\ calls = <<>> => OpenNow = <<>>
         /\ calls # <<>> => /\ OpenNow # <<>> /\ Last(OpenNow) = OpenNow[Len(calls)]
                            /\ Last(OpenNow).kind = Top.kind /\ Last(OpenNow).key = Top.key
<1>1. ~Unwinding
  BY DEF Unwinding
<1>2. Shared["Array"] = array_stack /\ Shared["Object"] = object_stack
  BY DEF Shared, Kinds
<1>3. Nested(calls, Shared)
  <2>1. Shared \in [Kinds -> Seq(Item)]
    <3>1. array_stack \in Seq(Item) /\ object_stack \in Seq(Item)
      BY SeqMonotonic DEF TypeOK, Item
    <3> QED
      BY <3>1 DEF Shared
  <2>2. \A kind \in Kinds : SegmentsNested(calls, kind, Len(Shared[kind]))
    BY <1>1, <1>2 DEF StructureInv, SharedStacksNested, Kinds
  <2> QED
    BY <2>1, <2>2 DEF Nested, TypeOK
<1>4. /\ OpenNow \in Seq(OpenFrames) /\ Len(OpenNow) = Len(calls) /\ Len(calls) \in Nat
      /\ DOMAIN OpenNow = 1..Len(calls)
      /\ \A i \in 1..Len(calls) :
           OpenNow[i].kind = calls[i].kind /\ OpenNow[i].key = calls[i].key
  <2>1. /\ OpenNow \in Seq(OpenFrames) /\ Len(OpenNow) = Len(calls) /\ Len(calls) \in Nat
        /\ DOMAIN OpenNow = 1..Len(calls)
    BY <1>3, OpenedFacts DEF OpenNow
  <2>2. \A i \in 1..Len(calls) :
          OpenNow[i] = [kind |-> calls[i].kind, key |-> calls[i].key,
                        items |-> Segment(calls, i, Shared)]
    BY <1>3, OpenedFacts DEF OpenNow
  <2>3. ASSUME NEW i \in 1..Len(calls)
        PROVE  OpenNow[i].kind = calls[i].kind /\ OpenNow[i].key = calls[i].key
    <3>1. OpenNow[i] = [kind |-> calls[i].kind, key |-> calls[i].key,
                        items |-> Segment(calls, i, Shared)]
      BY <2>2
    <3> QED
      BY <3>1
  <2> QED
    BY <2>1, <2>3
<1>5. calls = <<>> => OpenNow = <<>>
  BY <1>4, EmptySeq
<1>6. ASSUME calls # <<>>
      PROVE  /\ OpenNow # <<>> /\ Last(OpenNow) = OpenNow[Len(calls)]
             /\ Last(OpenNow).kind = Top.kind /\ Last(OpenNow).key = Top.key
  <2>1. Len(calls) # 0 /\ Top = calls[Len(calls)]
    BY <1>6, TopFrame
  <2>2. OpenNow # <<>> /\ Last(OpenNow) = OpenNow[Len(calls)]
    BY <1>4, <2>1, EmptySeq DEF Last
  <2> QED
    BY <1>4, <2>1, <2>2
<1> QED
  BY <1>1, <1>2, <1>3, <1>4, <1>5, <1>6

(* An error stays set.                                                     *)
LEMMA ErrorKept == has_error /\ [Next]_vars => has_error'
BY DEF has_error, Next, vars, stacks, storage, RejectStart, BuildRoot, BuildNull, BuildBoolean,
       BuildInteger, BuildDouble, BuildString, OpenArray, OpenObject, Open, RejectValue,
       EmptyArray, EmptyObject, EnterLoop, EnterLoopWithLimit, RejectKey, ReadKey, ReadColon,
       Unwind, SetRoot, AddElement, AddMember, ReadComma, ReadClosing, AfterComma, CloseArray,
       CloseObject, MissingComma, Done, Fail, Advance, Pull

(* Without an error before or after it, a step is one that builds.         *)
LEMMA BuildingSteps ==
  ASSUME Next, ~has_error, ~has_error'
  PROVE  \/ UNCHANGED vars
         \/ BuildRoot \/ ReadColon \/ ReadComma \/ ReadClosing \/ AfterComma \/ EnterLoop
         \/ BuildNull \/ BuildBoolean \/ BuildInteger \/ BuildDouble \/ BuildString
         \/ OpenArray \/ OpenObject \/ EmptyArray \/ EmptyObject \/ ReadKey
         \/ AddElement \/ AddMember \/ CloseArray \/ CloseObject \/ SetRoot
BY DEF Next, has_error, RejectStart, RejectValue, RejectKey, MissingComma, Unwind, Done, Fail

(* Reading a colon, a comma or a closing bracket and entering a loop build *)
(* nothing.                                                                *)
LEMMA QuietBuilds ==
  ASSUME TypeOK, TypeOK', ~has_error, ~has_error',
         BuildRoot \/ ReadColon \/ ReadComma \/ ReadClosing \/ AfterComma \/ EnterLoop
  PROVE  UNCHANGED Builder!vars
<1>1. /\ UNCHANGED <<calls, array_stack, object_stack, strings, arrays, objects, root>>
      /\ pc \notin {"return", "done"} /\ pc' \notin {"return", "done"}
  BY DEF BuildRoot, ReadColon, ReadComma, ReadClosing, AfterComma, EnterLoop,
         EnterLoopWithLimit, Fail, has_error, stacks, storage
<1>2. OpenNow' = OpenNow
  BY <1>1 DEF OpenNow, Shared
<1> QED
  BY <1>1, <1>2, MappedOpen DEF Builder!vars, Unless

(* A scalar is a leaf.                                                     *)
LEMMA LeafBuilds ==
  ASSUME TypeOK, TypeOK', ~has_error, ~has_error',
         BuildNull \/ BuildBoolean \/ BuildInteger \/ BuildDouble \/ BuildString
  PROVE  Builder!Leaf
<1>1. /\ UNCHANGED <<calls, array_stack, object_stack, arrays, objects, root>>
      /\ pc = "value" /\ pc' = "return"
  BY DEF BuildNull, BuildBoolean, BuildInteger, BuildDouble, BuildString, Fail, Return,
         has_error, stacks, storage
<1>2. /\ ret' \in JsonValues
      /\ \/ ret'.type \in {"Null", "Boolean", "Integer", "Double"} /\ UNCHANGED strings
         \/ /\ ret' = [type |-> "String", payload |-> Len(strings)]
            /\ \E t \in Texts : strings' = Append(strings, t)
  <2>1. ret' \in JsonValues
    BY DEF TypeOK
  <2>2. CASE BuildNull \/ BuildBoolean \/ BuildInteger \/ BuildDouble
    BY <2>1, <2>2 DEF BuildNull, BuildBoolean, BuildInteger, BuildDouble, Fail, Return,
                      has_error, storage, Value
  <2>3. CASE BuildString
    <3>1. /\ strings' = Append(strings, Decoded(Current.value))
          /\ ret' = Value("String", Len(strings))
          /\ Decoded(Current.value) # Malformed /\ Is("String")
      BY <2>3 DEF BuildString, Fail, Return, has_error
    <3>2. Current \in Tokens
      BY CurrentType
    <3>3. Decoded(Current.value) \in Texts
      BY <3>1, <3>2, TokenPayloads, DecodedType DEF Is
    <3> QED
      BY <2>1, <3>1, <3>3 DEF Value
  <2> QED
    BY <2>2, <2>3
<1>3. OpenNow' = OpenNow
  BY <1>1 DEF OpenNow, Shared
<1> QED
  BY <1>1, <1>2, <1>3, MappedOpen DEF Builder!Leaf, Builder!Building, Unless

(* The brackets of the containers.                                         *)
Bracket == [open  |-> [Array |-> "LeftSquareBracket", Object |-> "LeftCurlyBracket"],
            close |-> [Array |-> "RightSquareBracket", Object |-> "RightCurlyBracket"]]

(* A container is opened.                                                  *)
LEMMA OpenGrows ==
  ASSUME TypeOK, TypeOK', StructureInv, ~has_error, ~has_error', OpenArray \/ OpenObject
  PROVE  \E kind \in Kinds : /\ OpenNow' = Append(OpenNow, [kind |-> kind, key |-> NoKey, items |-> <<>>])
                             /\ Current.type = Bracket.open[kind]
<1>1. PICK kind \in Kinds : /\ calls' = Append(calls, [kind |-> kind, start |-> Len(Shared[kind]), key |-> NoKey])
                            /\ Current.type = Bracket.open[kind]
  BY OpenFacts DEF OpenArray, OpenObject, Open, Kinds, Bracket, Is
<1> DEFINE f == [kind |-> kind, start |-> Len(Shared[kind]), key |-> NoKey]
<1>3. Nested(calls, Shared)
  BY OpenFacts
<1>4. f \in Frames
  <2>1. Len(Shared[kind]) \in Nat
    BY <1>3, LenProperties DEF Nested
  <2> QED
    BY <2>1 DEF Frames, Kinds
<1>5. f.start = Len(Shared[f.kind]) /\ f.kind = kind /\ f.key = NoKey /\ calls' = Append(calls, f)
  BY <1>1
<1> HIDE DEF f
<1>6. Opened(Append(calls, f), Shared) =
        Append(OpenNow, [kind |-> f.kind, key |-> f.key, items |-> <<>>])
  BY <1>3, <1>4, <1>5, PushOpened DEF OpenNow
<1>7. Shared' = Shared
  BY DEF Shared, OpenArray, OpenObject, Open, stacks
<1> QED
  BY <1>1, <1>5, <1>6, <1>7 DEF OpenNow

(* Entering buildArray or buildObject opens a container without items.     *)
LEMMA OpenBuilds ==
  ASSUME TypeOK, TypeOK', StructureInv, ~has_error, ~has_error', OpenArray \/ OpenObject
  PROVE  Builder!OpenContainer
<1>1. /\ UNCHANGED <<array_stack, object_stack, strings, arrays, objects, root>>
      /\ pc = "value" /\ pc' = "opened"
  BY DEF OpenArray, OpenObject, Open, stacks, storage
<1>2. PICK kind \in Kinds : OpenNow' = Append(OpenNow, [kind |-> kind, key |-> NoKey, items |-> <<>>])
  BY OpenGrows
<1> QED
  BY <1>1, <1>2, MappedOpen DEF Builder!OpenContainer, Builder!Building, Unless, Kinds

(* Giving the innermost open container its next key.                       *)
LEMMA WithKeyFacts ==
  ASSUME NEW q \in Seq(OpenFrames), q # <<>>, NEW key \in Keys
  PROVE  Len(WithKey(q, key)) = Len(q) /\ Last(WithKey(q, key)).key = key
<1> DEFINE n == Len(q)
           keyed == WithKey(q, key)
           e == [q[n] EXCEPT !.key = key]
<1>1. n \in 1..Len(q) /\ n \in Nat
  BY EmptySeq, LenProperties
<1>2. q[n] \in OpenFrames
  BY <1>1, ElementOfSeq
<1>3. e \in OpenFrames /\ e.key = key
  BY <1>2 DEF OpenFrames
<1>4. keyed = [q EXCEPT ![n] = e]
  BY DEF WithKey
<1> HIDE DEF e, n, keyed
<1>5. Len(keyed) = Len(q) /\ keyed[n] = e
  BY <1>1, <1>3, <1>4, ExceptSeq
<1> QED
  BY <1>3, <1>5 DEF Last, n, keyed

(* A key is read.                                                          *)
LEMMA KeyGrows ==
  ASSUME TypeOK, TypeOK', StructureInv, ~has_error, ~has_error', ReadKey
  PROVE  /\ calls # <<>> /\ MemberKey(Decoded(Current.value)) \in Keys
         /\ Decoded(Current.value) \in Texts /\ Decoded(Current.value) # Malformed /\ Is("String")
         /\ OpenNow' = WithKey(OpenNow, MemberKey(Decoded(Current.value)))
<1> DEFINE text == Decoded(Current.value)
           key == MemberKey(text)
           n == Len(calls)
<1>1. /\ UNCHANGED <<array_stack, object_stack>>
      /\ pc = "key" /\ text # Malformed /\ Is("String")
      /\ calls' = [calls EXCEPT ![n].key = key]
  BY DEF ReadKey, stacks
<1>2. text \in Texts /\ key \in Keys
  <2>1. text \in Texts
    BY <1>1, CurrentType, TokenPayloads, DecodedType DEF Is
  <2> HIDE DEF text
  <2>2. Len(strings) \in Nat
    BY LenProperties DEF TypeOK
  <2> QED
    BY <2>1, <2>2 DEF MemberKey, Keys
<1>3. calls # <<>>
  BY <1>1 DEF StructureInv, CallsFitPlace
<1> HIDE DEF text, key
<1>4. OpenNow' = WithKey(OpenNow, key)
  <2>1. Nested(calls, Shared)
    BY OpenFacts
  <2>2. Opened(calls', Shared) = WithKey(OpenNow, key)
    <3>1. calls' = WithKey(calls, key)
      BY <1>1 DEF WithKey
    <3> QED
      BY <1>2, <1>3, <2>1, <3>1, KeyOpened DEF OpenNow
  <2>3. Shared' = Shared
    BY <1>1 DEF Shared
  <2> QED
    BY <2>2, <2>3 DEF OpenNow
<1> QED BY <1>1, <1>2, <1>3, <1>4 DEF text, key

(* An object's next key replaces the key of the innermost open object.     *)
LEMMA KeyBuilds ==
  ASSUME TypeOK, TypeOK', StructureInv, ~has_error, ~has_error', ReadKey
  PROVE  Builder!SetKey
<1> DEFINE text == Decoded(Current.value)
           key == MemberKey(text)
           n == Len(calls)
<1>1. /\ UNCHANGED <<array_stack, object_stack, arrays, objects, root>>
      /\ pc = "key" /\ pc' = "colon"
      /\ strings' = IF text \in LongTexts THEN Append(strings, text) ELSE strings
  BY DEF ReadKey, stacks
<1>2. text \in Texts /\ key \in Keys /\ OpenNow' = WithKey(OpenNow, key)
  BY KeyGrows
<1>3. calls # <<>> /\ Top.kind = "Object"
  BY <1>1 DEF StructureInv, CallsFitPlace, InObject
<1> HIDE DEF text, key
<1>5. /\ Len(OpenNow) = n /\ n \in Nat \ {0} /\ DOMAIN OpenNow = 1..n
      /\ OpenNow # <<>> /\ Last(OpenNow).kind = "Object" /\ OpenNow \in Seq(OpenFrames)
  BY <1>3, OpenFacts, TopFrame
<1>6. Len(OpenNow') = n /\ Last(OpenNow').key = key
  BY <1>2, <1>5, WithKeyFacts
<1>7. /\ Last(OpenNow').key \in Keys
      /\ OpenNow' = [OpenNow EXCEPT ![Len(OpenNow)].key = Last(OpenNow').key]
  BY <1>2, <1>6 DEF WithKey
<1>8. strings' = strings \/ \E t \in Texts : strings' = Append(strings, t)
  BY <1>1, <1>2
<1> HIDE DEF n
<1>9. /\ pc # "done" /\ pc # "return" /\ pc' # "done" /\ pc' # "return"
      /\ OpenContainers = OpenNow /\ OpenContainers' = OpenNow'
      /\ UNCHANGED <<arrays, objects, root>>
  BY <1>1, MappedOpen
<1> QED
  BY <1>5, <1>6, <1>7, <1>8, <1>9
  DEF Builder!SetKey, Builder!Building, Builder!Top, Builder!Last, Last, Unless

(* Nothing lies above the end of a stack.                                  *)
LEMMA CutAtEnd ==
  ASSUME NEW S, NEW s \in Seq(S)
  PROVE  CutBack(s, Len(s)) = s /\ ItemsFrom(s, Len(s)) = <<>>
<1> DEFINE n == Len(s)
<1>1. n \in Nat /\ n \in 0..Len(s)
  BY LenProperties
<1> HIDE DEF n
<1>2. /\ CutBack(s, n) \in Seq(S) /\ Len(CutBack(s, n)) = n
      /\ \A i \in 1..n : CutBack(s, n)[i] = s[i]
      /\ ItemsFrom(s, n) \in Seq(S) /\ Len(ItemsFrom(s, n)) = Len(s) - n
  BY <1>1, CutBackFacts
<1>3. CutBack(s, n) = s
  BY <1>2, SeqEqual DEF n
<1>4. Len(ItemsFrom(s, n)) = 0
  BY <1>1, <1>2 DEF n
<1>5. ItemsFrom(s, n) = <<>>
  BY <1>2, <1>4, EmptySeq
<1> QED
  BY <1>3, <1>5 DEF n

(* A finished member value finds its key in the innermost record.          *)
LEMMA WaitingKey ==
  ASSUME TypeOK, StructureInv, ~has_error, pc = "return", calls # <<>>, Top.kind = "Object"
  PROVE  Top.key \in Keys
<1>1. Len(calls) \in DOMAIN calls /\ Top = calls[Len(calls)] /\ Top \in Frames
  BY TopFrame
<1>2. Top.key # NoKey
  BY <1>1 DEF StructureInv, KeysBeforeValues, Uncounted, Unwinding
<1> QED
  BY <1>1, <1>2 DEF Frames

(* A finished value goes to the end of the innermost open container.       *)
LEMMA AddBuilds ==
  ASSUME TypeOK, TypeOK', StructureInv, ~has_error, ~has_error', AddElement \/ AddMember
  PROVE  Builder!AddItem
<1> DEFINE n == Len(calls)
           item == IF Top.kind = "Array" THEN ret ELSE [key |-> Top.key, value |-> ret]
<1>1. /\ UNCHANGED <<calls, strings, arrays, objects, root>>
      /\ pc = "return" /\ pc' = "added" /\ calls # <<>> /\ ret \in JsonValues
  BY DEF AddElement, AddMember, InArray, InObject, storage, TypeOK
<1>2. Nested(calls, Shared) /\ Shared["Array"] = array_stack /\ Shared["Object"] = object_stack
  BY OpenFacts
<1>3. Shared' = Grown(Shared, Top.kind, item) /\ item \in Item
  <2>1. CASE AddElement
    <3>1. /\ Top.kind = "Array" /\ item = ret /\ object_stack' = object_stack
          /\ array_stack' = Append(array_stack, item)
      BY <2>1 DEF AddElement, InArray
    <3> HIDE DEF item
    <3>2. Shared' = Grown(Shared, "Array", item)
      BY <3>1 DEF Shared, Grown, Kinds
    <3> QED
      BY <1>1, <3>1, <3>2 DEF Item
  <2>2. CASE AddMember
    <3>1. /\ Top.kind = "Object" /\ item = [key |-> Top.key, value |-> ret]
          /\ array_stack' = array_stack /\ object_stack' = Append(object_stack, item)
      BY <2>2 DEF AddMember, InObject
    <3>2. Top.key \in Keys
      BY <1>1, <2>2, <3>1, WaitingKey DEF AddMember
    <3>3. item \in Members
      BY <1>1, <3>1, <3>2 DEF Members
    <3> HIDE DEF item
    <3>4. Shared' = Grown(Shared, "Object", item)
      BY <3>1 DEF Shared, Grown, Kinds
    <3> QED
      BY <3>1, <3>3, <3>4 DEF Item
  <2> QED
    BY <2>1, <2>2
<1> HIDE DEF item
<1>4. OpenNow' = WithItem(OpenNow, item)
  <2>1. Opened(calls, Grown(Shared, Last(calls).kind, item)) = WithItem(Opened(calls, Shared), item)
    BY <1>1, <1>2, <1>3, AddOpened
  <2> QED
    BY <1>1, <1>3, <2>1 DEF OpenNow, Top
<1>5. /\ Len(OpenNow) = n /\ OpenNow # <<>>
      /\ Last(OpenNow).kind = Top.kind /\ Last(OpenNow).key = Top.key
  BY <1>1, OpenFacts
<1>6. item = IF Last(OpenNow).kind = "Array" THEN ret
             ELSE [key |-> Last(OpenNow).key, value |-> ret]
  BY <1>5 DEF item
<1>7. ret # NoRoot
  BY <1>1 DEF JsonValues, NoRoot, Value
<1>8. OpenNow' = [OpenNow EXCEPT ![Len(OpenNow)].items = Append(@, item)]
  BY <1>4 DEF WithItem
<1>9. /\ pc = "return" /\ pc' = "added"
      /\ OpenContainers = OpenNow /\ OpenContainers' = OpenNow'
      /\ UNCHANGED <<strings, arrays, objects, root>>
  BY <1>1, MappedOpen
<1> QED
  BY <1>5, <1>6, <1>7, <1>8, <1>9
  DEF Builder!AddItem, Builder!Building, Builder!Top, Builder!Last, Last, Unless

(* Sealing hands over the items of the innermost open container.           *)
LEMMA SealBuilds ==
  ASSUME TypeOK, TypeOK', StructureInv, ~has_error, ~has_error',
         EmptyArray \/ EmptyObject \/ CloseArray \/ CloseObject
  PROVE  Builder!Seal
<1> DEFINE kind == Top.kind
           start == Top.start
           n == Len(calls)
<1>1. /\ UNCHANGED <<strings, root>> /\ pc \in {"empty", "closed"} /\ pc' = "return"
      /\ calls # <<>> /\ calls' = Front(calls)
      /\ kind \in Kinds
  BY DEF EmptyArray, EmptyObject, CloseArray, CloseObject, SealArray, SealObject, Return,
         InArray, InObject, Kinds
<1>2. /\ Nested(calls, Shared) /\ Shared["Array"] = array_stack /\ Shared["Object"] = object_stack
      /\ ~Unwinding
  BY OpenFacts
<1>3. /\ Shared' = Cut(Shared, kind, start)
      /\ \/ /\ kind = "Array" /\ arrays' = Append(arrays, ItemsFrom(Shared[kind], start))
            /\ ret' = Value("Array", Len(arrays)) /\ UNCHANGED objects
         \/ /\ kind = "Object" /\ objects' = Append(objects, ItemsFrom(Shared[kind], start))
            /\ ret' = Value("Object", Len(objects)) /\ UNCHANGED arrays
  <2>1. CASE EmptyArray
    <3>1. /\ kind = "Array" /\ start = Len(array_stack)
          /\ UNCHANGED <<array_stack, object_stack, objects>>
          /\ arrays' = Append(arrays, <<>>) /\ ret' = Value("Array", Len(arrays))
      BY <1>2, <2>1 DEF EmptyArray, SealArray, Return, InArray, StructureInv, SharedStacksNested,
                        Uncounted, stacks
    <3>2. CutBack(array_stack, start) = array_stack /\ ItemsFrom(array_stack, start) = <<>>
      BY <3>1, CutAtEnd DEF TypeOK
    <3>3. Shared' = Cut(Shared, "Array", start)
      BY <3>1, <3>2 DEF Shared, Cut, Kinds
    <3> QED
      BY <1>2, <3>1, <3>2, <3>3
  <2>2. CASE EmptyObject
    <3>1. /\ kind = "Object" /\ start = Len(object_stack)
          /\ UNCHANGED <<array_stack, object_stack, arrays>>
          /\ objects' = Append(objects, <<>>) /\ ret' = Value("Object", Len(objects))
      BY <1>2, <2>2 DEF EmptyObject, SealObject, Return, InObject, StructureInv,
                        SharedStacksNested, Uncounted, stacks
    <3>2. CutBack(object_stack, start) = object_stack /\ ItemsFrom(object_stack, start) = <<>>
      BY <3>1, CutAtEnd DEF TypeOK
    <3>3. Shared' = Cut(Shared, "Object", start)
      BY <3>1, <3>2 DEF Shared, Cut, Kinds
    <3> QED
      BY <1>2, <3>1, <3>2, <3>3
  <2>3. CASE CloseArray
    <3>1. /\ kind = "Array" /\ array_stack' = CutBack(array_stack, start)
          /\ UNCHANGED <<object_stack, objects>>
          /\ arrays' = Append(arrays, ItemsFrom(array_stack, start))
          /\ ret' = Value("Array", Len(arrays))
      BY <2>3 DEF CloseArray, SealArray, Return, InArray
    <3>2. Shared' = Cut(Shared, "Array", start)
      BY <3>1 DEF Shared, Cut, Kinds
    <3> QED
      BY <1>2, <3>1, <3>2
  <2>4. CASE CloseObject
    <3>1. /\ kind = "Object" /\ object_stack' = CutBack(object_stack, start)
          /\ UNCHANGED <<array_stack, arrays>>
          /\ objects' = Append(objects, ItemsFrom(object_stack, start))
          /\ ret' = Value("Object", Len(objects))
      BY <2>4 DEF CloseObject, SealObject, Return, InObject
    <3>2. Shared' = Cut(Shared, "Object", start)
      BY <3>1 DEF Shared, Cut, Kinds
    <3> QED
      BY <1>2, <3>1, <3>2
  <2> QED
    BY <2>1, <2>2, <2>3, <2>4
<1>4. /\ Opened(Front(calls), Cut(Shared, kind, start)) = Front(OpenNow)
      /\ Last(OpenNow) = [kind |-> kind, key |-> Top.key,
                          items |-> ItemsFrom(Shared[kind], start)]
  BY <1>1, <1>2, PopOpened DEF OpenNow, Top
<1> HIDE DEF kind, start
<1>5. OpenNow' = Front(OpenNow)
  BY <1>1, <1>3, <1>4 DEF OpenNow
<1>6. Last(OpenNow).kind = kind /\ Last(OpenNow).items = ItemsFrom(Shared[kind], start)
  BY <1>4
<1>7. OpenNow # <<>>
  BY <1>1, OpenFacts
<1>8. \/ /\ Last(OpenNow).kind = "Array" /\ arrays' = Append(arrays, Last(OpenNow).items)
         /\ ret' = [type |-> "Array", payload |-> Len(arrays)] /\ UNCHANGED objects
      \/ /\ Last(OpenNow).kind = "Object" /\ objects' = Append(objects, Last(OpenNow).items)
         /\ ret' = [type |-> "Object", payload |-> Len(objects)] /\ UNCHANGED arrays
  BY <1>3, <1>6 DEF Value
<1>9. /\ pc # "return" /\ pc # "done" /\ pc' = "return"
      /\ OpenContainers = OpenNow /\ OpenContainers' = OpenNow' /\ UNCHANGED <<strings, root>>
  BY <1>1, MappedOpen
<1> QED
  BY <1>5, <1>7, <1>8, <1>9
  DEF Builder!Seal, Builder!Building, Builder!Top, Builder!Last, Last, Builder!Front, Front, Unless

(* A document that parses to its end is delivered.                         *)
LEMMA DeliverBuilds ==
  ASSUME TypeOK, TypeOK', StructureInv, ~has_error, ~has_error', SetRoot
  PROVE  Builder!Deliver
<1>1. /\ UNCHANGED <<calls, array_stack, object_stack, strings, arrays, objects>>
      /\ pc = "return" /\ pc' = "done" /\ calls = <<>> /\ root' = ret
      /\ ret \in JsonValues
  BY DEF SetRoot, stacks, storage, TypeOK
<1>2. ret # NoRoot
  BY <1>1 DEF JsonValues, NoRoot, Value
<1>3. OpenNow = <<>> /\ OpenNow' = OpenNow
  <2>1. OpenNow = <<>>
    BY <1>1, OpenFacts
  <2>2. Shared' = Shared
    BY <1>1 DEF Shared
  <2> QED
    BY <1>1, <2>1, <2>2 DEF OpenNow
<1> QED
  BY <1>1, <1>2, <1>3, MappedOpen DEF Builder!Deliver, Builder!Building, Unless

(* Every step is a step of the builder or none it sees.                    *)
LEMMA BuilderStep ==
  ASSUME TypeOK, TypeOK', StructureInv, [Next]_vars
  PROVE  [Builder!Next]_(Builder!vars)
<1>1. CASE UNCHANGED vars
  BY <1>1 DEF vars, stacks, storage, Builder!vars, Unless, has_error, OpenContainers, ItemsOf,
              NextStart
<1>2. CASE has_error
  BY <1>2, ErrorKept DEF Builder!vars, Unless
<1>3. CASE Next /\ ~has_error /\ has_error'
  <2>1. pc # "done" \/ UNCHANGED vars
    BY <1>3 DEF Next, RejectStart, BuildRoot, BuildNull, BuildBoolean, BuildInteger,
        BuildDouble, BuildString, OpenArray, OpenObject, RejectValue, EmptyArray,
        EmptyObject, EnterLoop, EnterLoopWithLimit, RejectKey, ReadKey, ReadColon, Unwind,
        SetRoot, AddElement, AddMember, ReadComma, ReadClosing, AfterComma, CloseArray,
        CloseObject, MissingComma, Done
  <2>2. CASE pc # "done"
    BY <1>3, <2>2 DEF Builder!Next, Builder!Reject, Builder!Building, Unless
  <2> QED
    BY <1>1, <2>1, <2>2
<1>4. CASE Next /\ ~has_error /\ ~has_error'
  <2>1. CASE BuildRoot \/ ReadColon \/ ReadComma \/ ReadClosing \/ AfterComma \/ EnterLoop
    BY <1>4, <2>1, QuietBuilds
  <2>2. CASE BuildNull \/ BuildBoolean \/ BuildInteger \/ BuildDouble \/ BuildString
    BY <1>4, <2>2, LeafBuilds DEF Builder!Next
  <2>3. CASE OpenArray \/ OpenObject
    BY <1>4, <2>3, OpenBuilds DEF Builder!Next
  <2>4. CASE ReadKey
    BY <1>4, <2>4, KeyBuilds DEF Builder!Next
  <2>5. CASE AddElement \/ AddMember
    BY <1>4, <2>5, AddBuilds DEF Builder!Next
  <2>6. CASE EmptyArray \/ EmptyObject \/ CloseArray \/ CloseObject
    BY <1>4, <2>6, SealBuilds DEF Builder!Next
  <2>7. CASE SetRoot
    BY <1>4, <2>7, DeliverBuilds DEF Builder!Next
  <2> QED
    BY <1>1, <1>4, <2>1, <2>2, <2>3, <2>4, <2>5, <2>6, <2>7, BuildingSteps
<1> QED
  BY <1>1, <1>2, <1>3, <1>4

(* The parser builds its documents as ContainerBuilder does, each open     *)
(* container with a list of its own: that all nesting levels share two     *)
(* stacks, and that they stay as they are on the way back from an error,   *)
(* is invisible.                                                           *)
THEOREM BuilderImplemented == Spec => ImplementsBuilder
<1>1. Init => Builder!Init
  <2> SUFFICES ASSUME Init PROVE Builder!Init
    OBVIOUS
  <2>1. pc = "parse" /\ root = NoRoot /\ strings = <<>> /\ arrays = <<>> /\ objects = <<>>
    BY DEF Init
  <2>2. OpenContainers = <<>>
    <3>1. calls = <<>> /\ DOMAIN calls = {}
      BY DEF Init
    <3>2. OpenContainers = [i \in {} |-> <<>>]
      BY <3>1 DEF OpenContainers
    <3> QED
      BY <3>2
  <2> QED
    BY <2>1, <2>2 DEF Builder!Init, Unless
<1>2. TypeOK /\ TypeOK' /\ StructureInv /\ [Next]_vars => [Builder!Next]_(Builder!vars)
  BY BuilderStep
<1> QED
  BY <1>1, <1>2, StructureSafe, PTL DEF Spec, ImplementsBuilder, Builder!Spec

-----------------------------------------------------------------------------
(***************************************************************************)
(* Every value the parser holds lies in the text it was made from.         *)
(***************************************************************************)

(* A text with the tables it is stored in, and for every stored container  *)
(* its marks, the places of the tokens that separate its items: the        *)
(* opening bracket, the commas, and the closing bracket if there are items.*)
Worlds == [text : Seq(Tokens), strings : Seq(Texts),
           arrays : Seq(Seq(Nat)), objects : Seq(Seq(Nat))]

EndOf(marks) == IF Len(marks) = 1 THEN marks[1] + 1 ELSE marks[Len(marks)]

(* The token t is a scalar of value v.                                     *)
Denotes(t, v, w) ==
  \/ t.type = "Null" /\ v = Value("Null", 0)
  \/ t.type = "Boolean" /\ v = Value("Boolean", IF t.value THEN 1 ELSE 0)
  \/ t.type = "Integer" /\ v = Value("Integer", Truncate48(t.value))
  \/ t.type = "Double" /\ t.value \notin OutOfRange /\ v = Value("Double", t.value)
  \/ /\ t.type = "String" /\ Decoded(t.value) # Malformed
     /\ v.type = "String" /\ v.payload + 1 \in 1..Len(w.strings)
     /\ w.strings[v.payload + 1] = Decoded(t.value)

(* The token t is the string that key was made of.                         *)
Names(t, key, w) ==
  /\ t.type = "String" /\ Decoded(t.value) # Malformed
  /\ \/ key.tag = "sso" /\ key.text = Decoded(t.value)
     \/ /\ key.tag = "ref" /\ key.index + 1 \in 1..Len(w.strings)
        /\ w.strings[key.index + 1] = Decoded(t.value)

(* The tokens lo to hi are the text of v.                                  *)
Spans(v, lo, hi, w) ==
  /\ lo \in 1..Len(w.text) /\ hi \in lo..Len(w.text)
  /\ \/ lo = hi /\ Denotes(w.text[lo], v, w)
     \/ /\ v.type = "Array" /\ v.payload + 1 \in 1..Len(w.arrays)
        /\ w.arrays[v.payload + 1][1] = lo /\ EndOf(w.arrays[v.payload + 1]) = hi
     \/ /\ v.type = "Object" /\ v.payload + 1 \in 1..Len(w.objects)
        /\ w.objects[v.payload + 1][1] = lo /\ EndOf(w.objects[v.payload + 1]) = hi

(* They are the text of an item of a container.                            *)
ItemSpans(kind, item, lo, hi, w) ==
  \/ kind = "Array" /\ Spans(item, lo, hi, w)
  \/ /\ kind = "Object" /\ lo \in 1..Len(w.text) /\ Spans(item.value, lo + 2, hi, w)
     /\ Names(w.text[lo], item.key, w) /\ w.text[lo + 1].type = "Colon"

(* The items of a container lie between its marks.                         *)
Marked(kind, items, marks, w) ==
  /\ marks \in Seq(Nat) /\ Len(marks) = Len(items) + 1
  /\ \A j \in 1..Len(marks) : marks[j] \in 1..Len(w.text)
  /\ w.text[marks[1]].type = Bracket.open[kind]
  /\ \A j \in 1..Len(items) : ItemSpans(kind, items[j], marks[j] + 1, marks[j + 1] - 1, w)
  /\ \A j \in 2..Len(items) : w.text[marks[j]].type = "Comma"

SealedIn(kind, items, marks, w) ==
  /\ Marked(kind, items, marks, w)
  /\ EndOf(marks) \in 1..Len(w.text) /\ w.text[EndOf(marks)].type = Bracket.close[kind]

TablesLie(as, os, w) ==
  /\ Len(w.arrays) = Len(as) /\ Len(w.objects) = Len(os)
  /\ \A a \in 1..Len(as) : SealedIn("Array", as[a], w.arrays[a], w)
  /\ \A o \in 1..Len(os) : SealedIn("Object", os[o], w.objects[o], w)

(* The last mark of an open container is its bracket or a comma.           *)
Separated(marks, w) == Len(marks) > 1 => w.text[Last(marks)].type = "Comma"

(* An open container waits for the value of its next item.                 *)
Waits(frame, marks, w) ==
  /\ Separated(marks, w)
  /\ frame.kind = "Object" =>
       /\ Last(marks) + 2 <= Len(w.text)
       /\ Names(w.text[Last(marks) + 1], frame.key, w)
       /\ w.text[Last(marks) + 2].type = "Colon"

ValueStart(frame, marks) == Last(marks) + (IF frame.kind = "Array" THEN 1 ELSE 3)

OpenLie(q, ms, w) ==
  /\ ms \in Seq(Seq(Nat)) /\ Len(ms) = Len(q)
  /\ \A i \in 1..Len(q) : Marked(q[i].kind, q[i].items, ms[i], w)
  /\ \A i \in 1..(Len(q) - 1) :
       Waits(q[i], ms[i], w) /\ ms[i + 1][1] = ValueStart(q[i], ms[i])
  /\ q # <<>> => ms[1][1] = 1

(* Where the value begins that the parser is at or has just read.          *)
Start(q, ms) == IF q = <<>> THEN 1 ELSE ValueStart(Last(q), Last(ms))
TopWaits(q, ms, w) == q # <<>> => Waits(Last(q), Last(ms), w)

(* How far the innermost open container is, with c tokens read.            *)
Progress(place, returned, delivered, q, ms, w) ==
  LET c == Len(w.text)
      marks == Last(ms)
  IN  /\ place = "parse" => c = 1
      /\ place = "value" => Start(q, ms) = c /\ TopWaits(q, ms, w)
      /\ place = "return" => Spans(returned, Start(q, ms), c - 1, w) /\ TopWaits(q, ms, w)
      /\ place = "opened" => Len(marks) = 1 /\ Last(marks) = c - 1
      /\ place = "empty" => /\ Len(marks) = 1 /\ Last(marks) = c - 2
                            /\ w.text[c - 1].type = Bracket.close[Last(q).kind]
      /\ place = "key" => Last(marks) = c - 1 /\ Separated(marks, w)
      /\ place = "colon" => /\ Last(marks) = c - 2 /\ Separated(marks, w)
                            /\ Names(w.text[c - 1], Last(q).key, w)
      /\ place = "added" => Len(marks) > 1 /\ Last(marks) = c
      /\ place = "comma" => Len(marks) > 1 /\ Last(marks) = c - 1 /\ Separated(marks, w)
      /\ place = "closed" => /\ Len(marks) > 1 /\ Last(marks) = c - 1
                             /\ w.text[c - 1].type = Bracket.close[Last(q).kind]
      /\ place = "done" => Spans(delivered, 1, c - 1, w) /\ w.text[c].type = "EndOfFile"

World(sa, so) == [text |-> pulled, strings |-> strings, arrays |-> sa, objects |-> so]

Lies(sa, so, ms) ==
  /\ TablesLie(arrays, objects, World(sa, so))
  /\ OpenLie(OpenNow, ms, World(sa, so))
  /\ Progress(pc, ret, root, OpenNow, ms, World(sa, so))

TextsLie == ~has_error => \E sa, so, ms \in Seq(Seq(Nat)) : Lies(sa, so, ms)

-----------------------------------------------------------------------------
(* One world goes on from another.                                         *)

Begins(s, t) == Len(s) <= Len(t) /\ \A i \in 1..Len(s) : t[i] = s[i]
Extends(w, x) ==
  /\ Begins(w.text, x.text) /\ Begins(w.strings, x.strings)
  /\ Begins(w.arrays, x.arrays) /\ Begins(w.objects, x.objects)

(* Where something lies in one world it lies in the other.                 *)
LEMMA WorldLens ==
  ASSUME NEW w \in Worlds
  PROVE  /\ Len(w.text) \in Nat /\ Len(w.strings) \in Nat
         /\ Len(w.arrays) \in Nat /\ Len(w.objects) \in Nat
         /\ \A i \in 1..Len(w.text) : w.text[i] \in Tokens
         /\ \A i \in 1..Len(w.arrays) : w.arrays[i] \in Seq(Nat)
         /\ \A i \in 1..Len(w.objects) : w.objects[i] \in Seq(Nat)
<1>1. /\ w.text \in Seq(Tokens) /\ w.strings \in Seq(Texts)
      /\ w.arrays \in Seq(Seq(Nat)) /\ w.objects \in Seq(Seq(Nat))
  BY DEF Worlds
<1> QED BY <1>1, LenProperties, ElementOfSeq

(* Tokens stay where they are.                                             *)
LEMMA TokensStay ==
  ASSUME NEW w \in Worlds, NEW x \in Worlds, Extends(w, x)
  PROVE  /\ Len(w.text) \in Nat /\ Len(x.text) \in Nat /\ Len(w.text) <= Len(x.text)
         /\ \A i \in 1..Len(w.text) : i \in 1..Len(x.text) /\ x.text[i] = w.text[i]
BY WorldLens DEF Extends, Begins

(* What a token named it still names when the world goes on.               *)
LEMMA NamesKept ==
  ASSUME NEW w \in Worlds, NEW x \in Worlds, Extends(w, x), NEW t, NEW key, Names(t, key, w)
  PROVE  Names(t, key, x)
BY WorldLens DEF Extends, Begins, Names

(* A value lies where it lay when the world goes on.                       *)
LEMMA SpansKept ==
  ASSUME NEW w \in Worlds, NEW x \in Worlds, Extends(w, x),
         NEW v, NEW lo, NEW hi, Spans(v, lo, hi, w)
  PROVE  Spans(v, lo, hi, x)
<1>0. /\ Len(w.text) \in Nat /\ Len(x.text) \in Nat /\ Len(w.arrays) \in Nat /\ Len(x.arrays) \in Nat
      /\ Len(w.objects) \in Nat /\ Len(x.objects) \in Nat
      /\ Len(w.strings) \in Nat /\ Len(x.strings) \in Nat
  BY WorldLens
<1>1. /\ lo \in 1..Len(x.text) /\ hi \in lo..Len(x.text) /\ x.text[lo] = w.text[lo]
  BY <1>0 DEF Extends, Begins, Spans
<1>2. CASE lo = hi /\ Denotes(w.text[lo], v, w)
  <2>1. Denotes(x.text[lo], v, x)
    BY <1>0, <1>1, <1>2 DEF Extends, Begins, Denotes
  <2> QED BY <1>1, <1>2, <2>1 DEF Spans
<1> DEFINE p == v.payload + 1
<1>3. CASE v.type = "Array" /\ p \in 1..Len(w.arrays) /\ w.arrays[p][1] = lo /\ EndOf(w.arrays[p]) = hi
  <2> HIDE DEF p
  <2>1. p \in 1..Len(x.arrays) /\ x.arrays[p] = w.arrays[p]
    BY <1>0, <1>3 DEF Extends, Begins
  <2>2. p \in 1..Len(x.arrays) /\ x.arrays[p][1] = lo /\ EndOf(x.arrays[p]) = hi
    BY <1>3, <2>1
  <2> QED BY <1>1, <1>3, <2>2 DEF Spans, p
<1>4. CASE v.type = "Object" /\ p \in 1..Len(w.objects) /\ w.objects[p][1] = lo /\ EndOf(w.objects[p]) = hi
  <2> HIDE DEF p
  <2>1. p \in 1..Len(x.objects) /\ x.objects[p] = w.objects[p]
    BY <1>0, <1>4 DEF Extends, Begins
  <2>2. p \in 1..Len(x.objects) /\ x.objects[p][1] = lo /\ EndOf(x.objects[p]) = hi
    BY <1>4, <2>1
  <2> QED BY <1>1, <1>4, <2>2 DEF Spans, p
<1> QED BY <1>2, <1>3, <1>4 DEF Spans

(* So does an item of a container.                                         *)
LEMMA ItemSpansKept ==
  ASSUME NEW w \in Worlds, NEW x \in Worlds, Extends(w, x),
         NEW kind, NEW item, NEW lo, NEW hi, ItemSpans(kind, item, lo, hi, w)
  PROVE  ItemSpans(kind, item, lo, hi, x)
<1>1. CASE kind = "Array"
  BY <1>1, SpansKept DEF ItemSpans
<1>2. CASE kind # "Array"
  <2>1. /\ kind = "Object" /\ lo \in 1..Len(w.text) /\ Spans(item.value, lo + 2, hi, w)
        /\ Names(w.text[lo], item.key, w) /\ w.text[lo + 1].type = "Colon"
    BY <1>2 DEF ItemSpans
  <2>2. lo + 2 \in 1..Len(w.text)
    BY <2>1 DEF Spans
  <2>3. lo \in 1..Len(x.text) /\ x.text[lo] = w.text[lo] /\ x.text[lo + 1] = w.text[lo + 1]
    <3>1. Len(w.text) \in Nat /\ lo \in Nat
      BY <2>1, WorldLens
    <3>2. lo + 1 \in 1..Len(w.text)
      BY <2>1, <2>2, <3>1
    <3> QED BY <2>1, <3>2, TokensStay
  <2>4. Spans(item.value, lo + 2, hi, x) /\ Names(w.text[lo], item.key, x)
    BY <2>1, SpansKept, NamesKept
  <2> QED BY <2>1, <2>3, <2>4 DEF ItemSpans
<1> QED BY <1>1, <1>2

(* So do the items of a container between its marks.                       *)
LEMMA MarkedKept ==
  ASSUME NEW w \in Worlds, NEW x \in Worlds, Extends(w, x),
         NEW kind, NEW items, NEW marks, Marked(kind, items, marks, w), Len(items) \in Nat
  PROVE  Marked(kind, items, marks, x)
<1>1. \A j \in 1..Len(marks) : marks[j] \in 1..Len(x.text) /\ x.text[marks[j]] = w.text[marks[j]]
  BY TokensStay DEF Marked
<1>2. \A j \in 1..Len(items) : ItemSpans(kind, items[j], marks[j] + 1, marks[j + 1] - 1, x)
  BY ItemSpansKept DEF Marked
<1>3. /\ marks \in Seq(Nat) /\ Len(marks) = Len(items) + 1
      /\ w.text[marks[1]].type = Bracket.open[kind]
      /\ \A j \in 2..Len(items) : w.text[marks[j]].type = "Comma"
  BY DEF Marked
<1>4. /\ x.text[marks[1]].type = Bracket.open[kind]
      /\ \A j \in 2..Len(items) : x.text[marks[j]].type = "Comma"
  BY <1>1, <1>3
<1> QED BY <1>1, <1>2, <1>3, <1>4 DEF Marked

(* So does a sealed container.                                             *)
LEMMA SealedKept ==
  ASSUME NEW w \in Worlds, NEW x \in Worlds, Extends(w, x),
         NEW kind, NEW items, NEW marks, SealedIn(kind, items, marks, w), Len(items) \in Nat
  PROVE  SealedIn(kind, items, marks, x)
<1>1. Marked(kind, items, marks, x)
  BY MarkedKept DEF SealedIn
<1>2. EndOf(marks) \in 1..Len(x.text) /\ x.text[EndOf(marks)] = w.text[EndOf(marks)]
  BY WorldLens DEF Extends, Begins, SealedIn
<1> QED BY <1>1, <1>2 DEF SealedIn

(* The tables hold what they held.                                         *)
LEMMA TablesKept ==
  ASSUME NEW w \in Worlds, NEW x \in Worlds, Extends(w, x),
         NEW as \in Seq(Seq(JsonValues)), NEW os \in Seq(Seq(Members)), TablesLie(as, os, w),
         x.arrays = w.arrays, x.objects = w.objects
  PROVE  TablesLie(as, os, x)
<1>1. \A a \in 1..Len(as) : Len(as[a]) \in Nat
  BY ElementOfSeq, LenProperties
<1>2. \A o \in 1..Len(os) : Len(os[o]) \in Nat
  BY ElementOfSeq, LenProperties
<1>3. \A a \in 1..Len(as) : SealedIn("Array", as[a], x.arrays[a], x)
  BY <1>1, SealedKept DEF TablesLie
<1>4. \A o \in 1..Len(os) : SealedIn("Object", os[o], x.objects[o], x)
  BY <1>2, SealedKept DEF TablesLie
<1> QED BY <1>3, <1>4 DEF TablesLie

(* Where an open container stands is in the text.                          *)
LEMMA LastMark ==
  ASSUME NEW w \in Worlds, NEW kind, NEW items, NEW marks, Marked(kind, items, marks, w),
         Len(items) \in Nat
  PROVE  /\ marks \in Seq(Nat) /\ marks # <<>> /\ Len(marks) \in Nat \ {0}
         /\ Last(marks) = marks[Len(marks)] /\ Last(marks) \in 1..Len(w.text)
<1>1. marks \in Seq(Nat) /\ Len(marks) \in Nat \ {0} /\ Len(marks) \in 1..Len(marks)
  BY DEF Marked
<1>2. marks # <<>>
  BY <1>1, EmptySeq
<1> QED BY <1>1, <1>2 DEF Marked, Last

(* A container that waits for a value goes on waiting for it.              *)
LEMMA WaitsKept ==
  ASSUME NEW w \in Worlds, NEW x \in Worlds, Extends(w, x), NEW frame, NEW kind, NEW items,
         NEW marks, Marked(kind, items, marks, w), Len(items) \in Nat
  PROVE  /\ Separated(marks, w) => Separated(marks, x)
         /\ Waits(frame, marks, w) => Waits(frame, marks, x)
<1>1. Last(marks) \in 1..Len(w.text) /\ Len(w.text) \in Nat /\ Len(x.text) \in Nat
  BY LastMark, WorldLens
<1>2. /\ x.text[Last(marks)] = w.text[Last(marks)] /\ Len(w.text) <= Len(x.text)
      /\ \A i \in 1..2 : Last(marks) + 2 <= Len(w.text) =>
                           x.text[Last(marks) + i] = w.text[Last(marks) + i]
  BY <1>1, TokensStay
<1>3. Separated(marks, w) => Separated(marks, x)
  BY <1>2 DEF Separated
<1>4. ASSUME Waits(frame, marks, w), frame.kind = "Object"
      PROVE  /\ Last(marks) + 2 <= Len(x.text)
             /\ Names(x.text[Last(marks) + 1], frame.key, x)
             /\ x.text[Last(marks) + 2].type = "Colon"
  <2>1. /\ Last(marks) + 2 <= Len(w.text) /\ Names(w.text[Last(marks) + 1], frame.key, w)
        /\ w.text[Last(marks) + 2].type = "Colon"
    BY <1>4 DEF Waits
  <2>2. x.text[Last(marks) + 1] = w.text[Last(marks) + 1] /\ x.text[Last(marks) + 2] = w.text[Last(marks) + 2]
    BY <1>2, <2>1
  <2>3. Names(w.text[Last(marks) + 1], frame.key, x)
    BY <2>1, NamesKept
  <2>4. Last(marks) + 2 <= Len(x.text)
    BY <1>1, <1>2, <2>1
  <2> QED BY <2>1, <2>2, <2>3, <2>4
<1> QED BY <1>3, <1>4 DEF Waits

(* The fields of the open containers, and the innermost one.               *)
LEMMA FrameFields ==
  ASSUME NEW q \in Seq(OpenFrames)
  PROVE  /\ Len(q) \in Nat
         /\ \A i \in 1..Len(q) : /\ q[i].kind \in Kinds /\ q[i].items \in Seq(Item)
                                 /\ Len(q[i].items) \in Nat /\ q[i] \in OpenFrames
         /\ q # <<>> => Len(q) \in Nat \ {0} /\ Last(q) = q[Len(q)]
<1>1. \A i \in 1..Len(q) : q[i] \in OpenFrames
  BY ElementOfSeq
<1>2. \A i \in 1..Len(q) : q[i].kind \in Kinds /\ q[i].items \in Seq(Item)
  BY <1>1 DEF OpenFrames
<1>3. \A i \in 1..Len(q) : Len(q[i].items) \in Nat
  BY <1>2, LenProperties
<1> QED BY <1>1, <1>2, <1>3, LenProperties, EmptySeq DEF Last

(* What is open stays where it is.                                         *)
LEMMA OpenKept ==
  ASSUME NEW w \in Worlds, NEW x \in Worlds, Extends(w, x), NEW q \in Seq(OpenFrames),
         NEW ms, OpenLie(q, ms, w)
  PROVE  OpenLie(q, ms, x)
<1>1. \A i \in 1..Len(q) : Marked(q[i].kind, q[i].items, ms[i], x)
  BY FrameFields, MarkedKept DEF OpenLie
<1>2. \A i \in 1..(Len(q) - 1) : Waits(q[i], ms[i], x) /\ ms[i + 1][1] = ValueStart(q[i], ms[i])
  <2> TAKE i \in 1..(Len(q) - 1)
  <2>1. i \in 1..Len(q)
    BY FrameFields
  <2>2. Marked(q[i].kind, q[i].items, ms[i], w) /\ Len(q[i].items) \in Nat /\ Waits(q[i], ms[i], w)
    BY <2>1, FrameFields DEF OpenLie
  <2> QED BY <2>2, WaitsKept DEF OpenLie
<1> QED BY <1>1, <1>2 DEF OpenLie

(* The innermost open container and its marks.                             *)
LEMMA TopFacts ==
  ASSUME NEW w \in Worlds, NEW q \in Seq(OpenFrames), q # <<>>, NEW ms, OpenLie(q, ms, w)
  PROVE  /\ Len(q) \in Nat \ {0} /\ Last(q) = q[Len(q)] /\ Last(q) \in OpenFrames
         /\ ms # <<>> /\ Len(ms) = Len(q) /\ Last(ms) = ms[Len(q)] /\ Last(ms) \in Seq(Nat)
         /\ Last(q).kind \in Kinds /\ Len(Last(q).items) \in Nat /\ Last(q).items \in Seq(Item)
         /\ Marked(Last(q).kind, Last(q).items, Last(ms), w)
         /\ Last(Last(ms)) \in 1..Len(w.text)
         /\ Len(Last(ms)) \in Nat \ {0} /\ Last(Last(ms)) = Last(ms)[Len(Last(ms))]
<1>1. Len(q) \in Nat \ {0} /\ Last(q) = q[Len(q)]
  BY FrameFields
<1>2. Len(q) \in 1..Len(q)
  BY <1>1
<1>3. ms \in Seq(Seq(Nat)) /\ Len(ms) = Len(q)
  BY DEF OpenLie
<1>4. ms # <<>> /\ Last(ms) = ms[Len(q)]
  BY <1>1, <1>3, EmptySeq DEF Last
<1>5. /\ q[Len(q)].kind \in Kinds /\ Len(q[Len(q)].items) \in Nat /\ q[Len(q)].items \in Seq(Item)
      /\ Marked(q[Len(q)].kind, q[Len(q)].items, ms[Len(q)], w) /\ q[Len(q)] \in OpenFrames
  BY <1>2, FrameFields DEF OpenLie
<1>6. ms[Len(q)] \in Seq(Nat)
  BY <1>2, <1>3, ElementOfSeq
<1>7. Last(ms[Len(q)]) \in 1..Len(w.text) /\ Last(ms[Len(q)]) = ms[Len(q)][Len(ms[Len(q)])]
      /\ Len(ms[Len(q)]) \in Nat \ {0}
  BY <1>5, LastMark
<1> QED BY <1>1, <1>3, <1>4, <1>5, <1>6, <1>7

(* Only the innermost container changes.                                   *)
LEMMA TopReplaced ==
  ASSUME NEW w \in Worlds, NEW q \in Seq(OpenFrames), q # <<>>, NEW ms, OpenLie(q, ms, w),
         NEW p \in Seq(OpenFrames), Len(p) = Len(q), \A i \in 1..(Len(q) - 1) : p[i] = q[i],
         NEW ns \in Seq(Seq(Nat)), Len(ns) = Len(q), \A i \in 1..(Len(q) - 1) : ns[i] = ms[i],
         Last(ns)[1] = Last(ms)[1], Marked(Last(p).kind, Last(p).items, Last(ns), w)
  PROVE  OpenLie(p, ns, w)
<1> DEFINE k == Len(q)
<1>1. k \in Nat \ {0} /\ Last(p) = p[k] /\ Last(ns) = ns[k] /\ Last(ms) = ms[k] /\ p # <<>>
  BY TopFacts, EmptySeq DEF Last
<1>2. /\ \A i \in 1..k : Marked(q[i].kind, q[i].items, ms[i], w)
      /\ \A i \in 1..(k - 1) : Waits(q[i], ms[i], w) /\ ms[i + 1][1] = ValueStart(q[i], ms[i])
      /\ ms[1][1] = 1
  BY DEF OpenLie
<1>3. \A i \in 1..(k - 1) : p[i] = q[i] /\ ns[i] = ms[i]
  OBVIOUS
<1> HIDE DEF k
<1>4. \A i \in 1..k : i \in 1..(k - 1) \/ i = k
  BY <1>1
<1>5. \A i \in 1..k : ns[i][1] = ms[i][1]
  BY <1>1, <1>3, <1>4
<1>6. \A i \in 1..k : Marked(p[i].kind, p[i].items, ns[i], w)
  <2> TAKE i \in 1..k
  <2>1. CASE i \in 1..(k - 1)
    BY <1>2, <1>3, <2>1
  <2>2. CASE i = k
    BY <1>1, <2>2
  <2> QED BY <1>4, <2>1, <2>2
<1>7. \A i \in 1..(k - 1) : Waits(p[i], ns[i], w) /\ ns[i + 1][1] = ValueStart(p[i], ns[i])
  <2> TAKE i \in 1..(k - 1)
  <2>1. i + 1 \in 1..k
    BY <1>1
  <2> QED BY <1>2, <1>3, <1>5, <2>1
<1>8. ns[1][1] = 1
  BY <1>1, <1>2, <1>5
<1> QED BY <1>6, <1>7, <1>8 DEF OpenLie, k

(* A container is opened where a value is due.                             *)
LEMMA OpenPushed ==
  ASSUME NEW w \in Worlds, NEW q \in Seq(OpenFrames), NEW ms, OpenLie(q, ms, w),
         TopWaits(q, ms, w), NEW c \in 1..Len(w.text), Start(q, ms) = c,
         NEW kind \in Kinds, NEW f \in OpenFrames,
         f = [kind |-> kind, key |-> NoKey, items |-> <<>>],
         w.text[c].type = Bracket.open[kind]
  PROVE  OpenLie(Append(q, f), Append(ms, <<c>>), w)
<1> DEFINE k == Len(q)
           marks == <<c>>
           p == Append(q, f)
           ns == Append(ms, marks)
<1>1. k \in Nat /\ ms \in Seq(Seq(Nat)) /\ Len(ms) = k /\ Len(w.text) \in Nat
  BY FrameFields, WorldLens DEF OpenLie
<1>2. marks \in Seq(Nat) /\ Len(marks) = 1 /\ marks[1] = c
  BY <1>1
<1> HIDE DEF marks
<1>3. /\ p \in Seq(OpenFrames) /\ Len(p) = k + 1 /\ \A i \in 1..k : p[i] = q[i]
      /\ p[k + 1] = f
  BY <1>1, AppendFacts
<1>4. /\ ns \in Seq(Seq(Nat)) /\ Len(ns) = k + 1 /\ \A i \in 1..k : ns[i] = ms[i]
      /\ ns[k + 1] = marks
  BY <1>1, <1>2, AppendFacts
<1>5. Marked(f.kind, f.items, marks, w)
  <2>1. Len(f.items) = 0 /\ f.kind = kind
    OBVIOUS
  <2> QED BY <1>2, <2>1 DEF Marked
<1>6. /\ \A i \in 1..k : Marked(q[i].kind, q[i].items, ms[i], w)
      /\ \A i \in 1..(k - 1) : Waits(q[i], ms[i], w) /\ ms[i + 1][1] = ValueStart(q[i], ms[i])
      /\ q # <<>> => ms[1][1] = 1
  BY DEF OpenLie
<1>7. k # 0 => /\ q # <<>> /\ Last(q) = q[k] /\ Last(ms) = ms[k]
               /\ Waits(q[k], ms[k], w) /\ c = ValueStart(q[k], ms[k])
  <2> SUFFICES ASSUME k # 0 PROVE /\ q # <<>> /\ Last(q) = q[k] /\ Last(ms) = ms[k]
                                  /\ Waits(q[k], ms[k], w) /\ c = ValueStart(q[k], ms[k])
    OBVIOUS
  <2>1. q # <<>>
    BY EmptySeq
  <2> QED BY <2>1, TopFacts DEF TopWaits, Start
<1>8. k = 0 => c = 1 /\ q = <<>>
  BY EmptySeq DEF Start
<1> HIDE DEF p, ns, k
<1>9. \A i \in 1..(k + 1) : Marked(p[i].kind, p[i].items, ns[i], w)
  <2> TAKE i \in 1..(k + 1)
  <2>1. CASE i \in 1..k
    BY <1>3, <1>4, <1>6, <2>1
  <2>2. CASE i = k + 1
    BY <1>3, <1>4, <1>5, <2>2
  <2> QED BY <1>1, <2>1, <2>2
<1>10. \A i \in 1..k : Waits(p[i], ns[i], w) /\ ns[i + 1][1] = ValueStart(p[i], ns[i])
  <2> TAKE i \in 1..k
  <2>1. CASE i \in 1..(k - 1)
    <3>1. i + 1 \in 1..k
      BY <1>1, <2>1
    <3> QED BY <1>3, <1>4, <1>6, <2>1, <3>1
  <2>2. CASE i = k
    BY <1>1, <1>2, <1>3, <1>4, <1>7, <2>2
  <2> QED BY <1>1, <2>1, <2>2
<1>11. ns[1][1] = 1
  <2>1. CASE k = 0
    BY <1>2, <1>4, <1>8, <2>1
  <2>2. CASE k # 0
    BY <1>1, <1>4, <1>6, <1>7, <2>2
  <2> QED BY <2>1, <2>2
<1>12. Len(p) - 1 = k
  BY <1>1, <1>3
<1> QED BY <1>3, <1>4, <1>9, <1>10, <1>11, <1>12 DEF OpenLie, p, ns, marks

(* A container is closed: the one around it has its item.                  *)
LEMMA OpenPopped ==
  ASSUME NEW w \in Worlds, NEW q \in Seq(OpenFrames), q # <<>>, NEW ms, OpenLie(q, ms, w)
  PROVE  /\ Front(q) \in Seq(OpenFrames) /\ OpenLie(Front(q), Front(ms), w)
         /\ TopWaits(Front(q), Front(ms), w) /\ Start(Front(q), Front(ms)) = Last(ms)[1]
<1> DEFINE k == Len(q)
           p == Front(q)
           ns == Front(ms)
<1>1. k \in Nat \ {0} /\ ms \in Seq(Seq(Nat)) /\ Len(ms) = k /\ ms # <<>> /\ Last(ms) = ms[k]
  BY TopFacts DEF OpenLie
<1>2. /\ p \in Seq(OpenFrames) /\ Len(p) = k - 1 /\ \A i \in 1..(k - 1) : p[i] = q[i]
  BY LastFront
<1>3. /\ ns \in Seq(Seq(Nat)) /\ Len(ns) = k - 1 /\ \A i \in 1..(k - 1) : ns[i] = ms[i]
  BY <1>1, LastFront
<1>4. /\ \A i \in 1..k : Marked(q[i].kind, q[i].items, ms[i], w)
      /\ \A i \in 1..(k - 1) : Waits(q[i], ms[i], w) /\ ms[i + 1][1] = ValueStart(q[i], ms[i])
      /\ ms[1][1] = 1
  BY DEF OpenLie
<1> HIDE DEF p, ns, k
<1>5. \A i \in 1..(k - 1) : Marked(p[i].kind, p[i].items, ns[i], w)
  <2> TAKE i \in 1..(k - 1)
  <2>1. i \in 1..k
    BY <1>1
  <2> QED BY <1>2, <1>3, <1>4, <2>1
<1>6. \A i \in 1..(k - 2) : Waits(p[i], ns[i], w) /\ ns[i + 1][1] = ValueStart(p[i], ns[i])
  <2> TAKE i \in 1..(k - 2)
  <2>1. i \in 1..(k - 1) /\ i + 1 \in 1..(k - 1)
    BY <1>1
  <2> QED BY <1>2, <1>3, <1>4, <2>1
<1>7. p # <<>> => k - 1 \in 1..(k - 1) /\ ns[1][1] = 1
  <2> SUFFICES ASSUME p # <<>> PROVE k - 1 \in 1..(k - 1) /\ ns[1][1] = 1
    OBVIOUS
  <2>1. k - 1 \in 1..(k - 1) /\ 1 \in 1..(k - 1)
    BY <1>1, <1>2, EmptySeq
  <2> QED BY <1>3, <1>4, <2>1
<1>8. OpenLie(p, ns, w)
  <2>1. Len(p) - 1 = k - 2
    BY <1>1, <1>2
  <2> QED BY <1>2, <1>3, <1>5, <1>6, <1>7, <2>1 DEF OpenLie
<1>9. TopWaits(p, ns, w) /\ Start(p, ns) = ms[k][1]
  <2>1. CASE p = <<>>
    <3>1. k = 1
      BY <1>1, <1>2, <2>1, EmptySeq
    <3> QED BY <1>4, <2>1, <3>1 DEF TopWaits, Start
  <2>2. CASE p # <<>>
    <3>1. Last(p) = q[k - 1] /\ Last(ns) = ms[k - 1]
      BY <1>2, <1>3, <1>7, <2>2 DEF Last
    <3>2. (k - 1) + 1 = k
      BY <1>1
    <3> QED BY <1>4, <1>7, <2>2, <3>1, <3>2 DEF TopWaits, Start
  <2> QED BY <2>1, <2>2
<1> QED BY <1>1, <1>2, <1>8, <1>9 DEF p, ns

(* A closed container lies in the tables.                                  *)
LEMMA Closed ==
  ASSUME NEW w \in Worlds, NEW kind \in Kinds, NEW items, Len(items) \in Nat,
         NEW marks \in Seq(Nat), Marked(kind, items, marks, w),
         EndOf(marks) \in 1..Len(w.text), w.text[EndOf(marks)].type = Bracket.close[kind]
  PROVE  SealedIn(kind, items, marks, w)
BY DEF SealedIn

(* Worlds of the parser's variables.                                       *)
LEMMA WorldFields ==
  ASSUME NEW t \in Seq(Tokens), NEW ss \in Seq(Texts),
         NEW sa \in Seq(Seq(Nat)), NEW so \in Seq(Seq(Nat)), NEW w,
         w = [text |-> t, strings |-> ss, arrays |-> sa, objects |-> so]
  PROVE  /\ w \in Worlds /\ w.text = t /\ w.strings = ss /\ w.arrays = sa /\ w.objects = so
BY DEF Worlds

(* A sequence begins what is appended to it.                               *)
LEMMA Appended ==
  ASSUME NEW S, NEW s \in Seq(S), NEW t, t = s \/ \E e \in S : t = Append(s, e)
  PROVE  Begins(s, t)
BY AppendFacts, LenProperties DEF Begins

(* A world goes on when its tables and its text only grow.                 *)
LEMMA WorldExtends ==
  ASSUME NEW w \in Worlds, NEW x,
         x.text = w.text \/ \E t \in Tokens : x.text = Append(w.text, t),
         x.strings = w.strings \/ \E t \in Texts : x.strings = Append(w.strings, t),
         x.arrays = w.arrays \/ \E a \in Seq(Nat) : x.arrays = Append(w.arrays, a),
         x.objects = w.objects \/ \E a \in Seq(Nat) : x.objects = Append(w.objects, a)
  PROVE  Extends(w, x)
<1>1. /\ w.text \in Seq(Tokens) /\ w.strings \in Seq(Texts)
      /\ w.arrays \in Seq(Seq(Nat)) /\ w.objects \in Seq(Seq(Nat))
  BY DEF Worlds
<1> QED BY <1>1, Appended DEF Extends

(* A pull appends one token.                                               *)
LEMMA AdvanceAppends ==
  ASSUME TypeOK, Advance
  PROVE  \E t \in Tokens : pulled' = Append(pulled, t)
BY SourceAssumption DEF Advance, NextTokens, EndOfFile, Tokens, Pull

(* Reading on appends one token.                                           *)
LEMMA PulledLonger ==
  ASSUME TypeOK, Advance
  PROVE  /\ Len(pulled) \in Nat \ {0} /\ Len(pulled') = Len(pulled) + 1
         /\ \A i \in 1..Len(pulled) : pulled'[i] = pulled[i]
<1>1. pulled \in Seq(Tokens) /\ pulled # <<>>
  BY DEF TypeOK
<1>2. PICK t \in Tokens : pulled' = Append(pulled, t)
  BY AdvanceAppends
<1>3. Len(pulled) \in Nat \ {0}
  BY <1>1, EmptySeq, LenProperties
<1> QED BY <1>1, <1>2, <1>3, AppendFacts

(* What a step leaves of the texts when it stores no container.            *)
LEMMA SameTables ==
  ASSUME TypeOK, TypeOK', StructureInv, ~has_error, ~has_error',
         NEW sa \in Seq(Seq(Nat)), NEW so \in Seq(Seq(Nat)), NEW ms, Lies(sa, so, ms),
         UNCHANGED <<arrays, objects>>,
         pulled' = pulled \/ Advance,
         strings' = strings \/ \E t \in Texts : strings' = Append(strings, t),
         NEW w, NEW x, w = World(sa, so), x = World(sa, so)'
  PROVE  /\ w \in Worlds /\ x \in Worlds /\ Extends(w, x)
         /\ w.text = pulled /\ x.text = pulled' /\ w.strings = strings /\ x.strings = strings'
         /\ TablesLie(arrays', objects', x) /\ OpenLie(OpenNow, ms, w) /\ OpenLie(OpenNow, ms, x)
         /\ OpenNow \in Seq(OpenFrames) /\ Progress(pc, ret, root, OpenNow, ms, w)
         /\ Len(pulled) \in Nat \ {0} /\ Current = w.text[Len(w.text)]
         /\ OpenNow = <<>> <=> calls = <<>>
<1>1. /\ pulled \in Seq(Tokens) /\ pulled # <<>> /\ pulled' \in Seq(Tokens)
      /\ strings \in Seq(Texts) /\ strings' \in Seq(Texts)
      /\ arrays \in Seq(Seq(JsonValues)) /\ objects \in Seq(Seq(Members))
  BY DEF TypeOK
<1>2. /\ w \in Worlds /\ w.text = pulled /\ w.strings = strings /\ w.arrays = sa /\ w.objects = so
  BY <1>1, WorldFields DEF World
<1>3. /\ x \in Worlds /\ x.text = pulled' /\ x.strings = strings' /\ x.arrays = sa /\ x.objects = so
  BY <1>1, WorldFields DEF World
<1>4. Extends(w, x)
  <2>1. x.text = w.text \/ \E t \in Tokens : x.text = Append(w.text, t)
    BY <1>2, <1>3, AdvanceAppends
  <2> QED BY <1>2, <1>3, <2>1, WorldExtends
<1>5. /\ TablesLie(arrays, objects, w) /\ OpenLie(OpenNow, ms, w)
      /\ Progress(pc, ret, root, OpenNow, ms, w)
  BY DEF Lies
<1>6. TablesLie(arrays', objects', x)
  BY <1>1, <1>2, <1>3, <1>4, <1>5, TablesKept
<1>7. OpenNow \in Seq(OpenFrames) /\ (OpenNow = <<>> <=> calls = <<>>)
  BY OpenFacts
<1>8. OpenLie(OpenNow, ms, x)
  BY <1>2, <1>3, <1>4, <1>5, <1>7, OpenKept
<1>9. Len(pulled) \in Nat \ {0} /\ Current = w.text[Len(w.text)]
  BY <1>1, <1>2, LastFront DEF Current
<1> QED BY <1>2, <1>3, <1>4, <1>5, <1>6, <1>7, <1>8, <1>9

(* The frame on top is that of the running function.                       *)
LEMMA TopKind ==
  ASSUME TypeOK, StructureInv, ~has_error, calls # <<>>
  PROVE  /\ Last(OpenNow).kind = Top.kind /\ Last(OpenNow).key = Top.key
         /\ InArray <=> Last(OpenNow).kind = "Array"
         /\ InObject <=> Last(OpenNow).kind = "Object"
         /\ ~InArray => InObject
<1>1. Top.kind \in Kinds
  BY TopFrame DEF Frames, Kinds
<1> QED BY <1>1, OpenFacts DEF InArray, InObject, Kinds

(* Steps between values.                                                   *)
LEMMA QuietLies ==
  ASSUME TypeOK, TypeOK', StructureInv, ~has_error, ~has_error',
         NEW sa \in Seq(Seq(Nat)), NEW so \in Seq(Seq(Nat)), NEW ms, Lies(sa, so, ms),
         BuildRoot \/ ReadColon \/ ReadComma \/ ReadClosing \/ AfterComma \/ EnterLoop
  PROVE  Lies(sa, so, ms)'
<1> DEFINE w == World(sa, so)
           x == World(sa, so)'
           q == OpenNow
           c == Len(pulled)
           marks == Last(ms)
<1>1. /\ UNCHANGED <<calls, array_stack, object_stack, strings, arrays, objects, root>>
      /\ pulled' = pulled \/ Advance
  BY DEF BuildRoot, ReadColon, ReadComma, ReadClosing, AfterComma, EnterLoop,
         EnterLoopWithLimit, Fail, Keep, has_error, stacks, storage
<1>2. OpenNow' = q
  BY <1>1 DEF OpenNow, Shared
<1>3. /\ w \in Worlds /\ x \in Worlds /\ Extends(w, x)
      /\ w.text = pulled /\ x.text = pulled'
      /\ TablesLie(arrays', objects', x) /\ OpenLie(q, ms, w) /\ OpenLie(q, ms, x)
      /\ q \in Seq(OpenFrames) /\ Progress(pc, ret, root, q, ms, w)
      /\ c \in Nat \ {0} /\ Current = w.text[Len(w.text)]
      /\ q = <<>> <=> calls = <<>>
  BY <1>1, SameTables
<1>4. q # <<>> => /\ Last(q).kind \in Kinds
                  /\ Marked(Last(q).kind, Last(q).items, marks, w) /\ Len(Last(q).items) \in Nat
                  /\ Last(marks) \in 1..Len(w.text) /\ Len(marks) \in Nat \ {0}
  BY <1>3, TopFacts
<1>5. q # <<>> => /\ InArray <=> Last(q).kind = "Array"
                  /\ InObject <=> Last(q).kind = "Object"
  BY <1>3, TopKind
<1> HIDE DEF w, x, q
<1> SUFFICES Progress(pc', ret', root', q, ms, x)
  BY <1>2, <1>3 DEF Lies, w, x
<1>6. CASE BuildRoot
  <2>1. pc = "parse" /\ pc' = "value" /\ calls = <<>> /\ pulled' = pulled
    BY <1>6 DEF BuildRoot, StructureInv, CallsFitPlace
  <2> QED BY <1>3, <2>1 DEF Progress, Start, TopWaits
<1>7. CASE EnterLoop
  <2>1. pc = "opened" /\ pc' = (IF InArray THEN "value" ELSE "key") /\ pulled' = pulled /\ q # <<>>
    BY <1>3, <1>7 DEF EnterLoop, EnterLoopWithLimit, Fail, has_error, StructureInv, CallsFitPlace
  <2>2. Len(marks) = 1 /\ Last(marks) = c - 1 /\ Separated(marks, x)
    <3>1. Len(marks) = 1 /\ Last(marks) = c - 1
      BY <1>3, <2>1 DEF Progress
    <3> HIDE DEF marks
    <3> QED BY <3>1 DEF Separated
  <2>3. CASE InArray
    <3>1. Waits(Last(q), marks, x) /\ ValueStart(Last(q), marks) = c
      BY <1>3, <1>5, <2>1, <2>2, <2>3 DEF Waits, ValueStart
    <3> QED BY <1>3, <2>1, <2>3, <3>1 DEF Progress, Start, TopWaits
  <2>4. CASE ~InArray
    BY <1>3, <2>1, <2>2, <2>4 DEF Progress
  <2> QED BY <2>3, <2>4
<1>8. CASE ReadColon
  <2>1. pc = "colon" /\ pc' = "value" /\ Is("Colon") /\ Advance /\ q # <<>> /\ Last(q).kind = "Object"
    BY <1>3, <1>5, <1>8 DEF ReadColon, Fail, has_error, StructureInv, CallsFitPlace, InObject
  <2>2. Len(pulled') = c + 1 /\ \A i \in 1..c : pulled'[i] = pulled[i]
    BY <2>1, PulledLonger
  <2>3. /\ Last(marks) = c - 2 /\ Separated(marks, w) /\ Names(w.text[c - 1], Last(q).key, w)
        /\ w.text[c].type = "Colon"
    BY <1>3, <2>1 DEF Progress, Is
  <2>4. Separated(marks, x) /\ Names(w.text[c - 1], Last(q).key, x)
    BY <1>3, <1>4, <2>1, <2>3, WaitsKept, NamesKept
  <2>5. x.text[c - 1] = w.text[c - 1] /\ x.text[c] = w.text[c]
    <3>1. c - 1 \in 1..c /\ c \in 1..c
      BY <1>3, <1>4, <2>1, <2>3
    <3> QED BY <1>3, <2>2, <3>1
  <2>6. Waits(Last(q), marks, x) /\ ValueStart(Last(q), marks) = c + 1
    BY <1>3, <2>1, <2>2, <2>3, <2>4, <2>5 DEF Waits, ValueStart
  <2> QED BY <1>3, <2>1, <2>2, <2>6 DEF Progress, Start, TopWaits
<1>9. CASE ReadComma
  <2>1. pc = "added" /\ pc' = "comma" /\ Is("Comma") /\ Advance /\ q # <<>>
    BY <1>3, <1>9 DEF ReadComma, StructureInv, CallsFitPlace
  <2>2. Len(pulled') = c + 1 /\ \A i \in 1..c : pulled'[i] = pulled[i]
    BY <2>1, PulledLonger
  <2>3. Len(marks) > 1 /\ Last(marks) = c /\ w.text[c].type = "Comma"
    BY <1>3, <2>1 DEF Progress, Is
  <2>4. Separated(marks, x)
    BY <1>3, <2>2, <2>3 DEF Separated
  <2> QED BY <1>3, <2>1, <2>2, <2>3, <2>4 DEF Progress
<1>10. CASE AfterComma
  <2>1. pc = "comma" /\ pc' = (IF InArray THEN "value" ELSE "key") /\ pulled' = pulled /\ q # <<>>
    BY <1>3, <1>10 DEF AfterComma, Fail, has_error, StructureInv, CallsFitPlace
  <2>2. Len(marks) > 1 /\ Last(marks) = c - 1 /\ Separated(marks, x)
    BY <1>3, <2>1 DEF Progress, Separated
  <2>3. CASE InArray
    <3>1. Waits(Last(q), marks, x) /\ ValueStart(Last(q), marks) = c
      BY <1>3, <1>5, <2>1, <2>2, <2>3 DEF Waits, ValueStart
    <3> QED BY <1>3, <2>1, <2>3, <3>1 DEF Progress, Start, TopWaits
  <2>4. CASE ~InArray
    BY <1>3, <2>1, <2>2, <2>4 DEF Progress
  <2> QED BY <2>3, <2>4
<1>11. CASE ReadClosing
  <2>1. /\ pc \in {"opened", "added"} /\ pc' = (IF pc = "opened" THEN "empty" ELSE "closed")
        /\ Closes /\ Advance /\ q # <<>>
    BY <1>3, <1>11 DEF ReadClosing, StructureInv, CallsFitPlace
  <2>2. Len(pulled') = c + 1 /\ \A i \in 1..c : pulled'[i] = pulled[i]
    BY <2>1, PulledLonger
  <2>3. w.text[c].type = Bracket.close[Last(q).kind]
    BY <1>3, <1>5, <2>1 DEF Closes, Is, Bracket
  <2>4. Len(x.text) = c + 1 /\ x.text[(c + 1) - 1].type = Bracket.close[Last(q).kind]
    <3>1. (c + 1) - 1 = c /\ c \in 1..c
      BY <1>3
    <3>2. x.text[c] = w.text[c] /\ Len(x.text) = c + 1
      BY <1>3, <2>2, <3>1
    <3> HIDE DEF c
    <3> QED BY <2>3, <3>1, <3>2
  <2>5. CASE pc = "opened"
    <3>1. Len(marks) = 1 /\ Last(marks) = c - 1
      BY <1>3, <2>5 DEF Progress
    <3> HIDE DEF marks
    <3> QED BY <1>3, <2>1, <2>4, <2>5, <3>1 DEF Progress, marks
  <2>6. CASE pc = "added"
    <3>1. Len(marks) > 1 /\ Last(marks) = c
      BY <1>3, <2>6 DEF Progress
    <3> HIDE DEF marks
    <3> QED BY <1>3, <2>1, <2>4, <2>6, <3>1 DEF Progress, marks
  <2> QED BY <2>1, <2>5, <2>6
<1> QED BY <1>6, <1>7, <1>8, <1>9, <1>10, <1>11

(* A scalar is read.                                                       *)
LEMMA LeafLies ==
  ASSUME TypeOK, TypeOK', StructureInv, ~has_error, ~has_error',
         NEW sa \in Seq(Seq(Nat)), NEW so \in Seq(Seq(Nat)), NEW ms, Lies(sa, so, ms),
         BuildNull \/ BuildBoolean \/ BuildInteger \/ BuildDouble \/ BuildString
  PROVE  Lies(sa, so, ms)'
<1> DEFINE w == World(sa, so)
           x == World(sa, so)'
           q == OpenNow
           c == Len(pulled)
<1>1. /\ UNCHANGED <<calls, array_stack, object_stack, arrays, objects, root>>
      /\ Advance /\ pc = "value" /\ pc' = "return"
  BY DEF BuildNull, BuildBoolean, BuildInteger, BuildDouble, BuildString, Fail, Return,
         has_error, stacks, storage
<1>2. strings' = strings \/ \E t \in Texts : strings' = Append(strings, t)
  <2>1. CASE ~BuildString
    BY <2>1 DEF BuildNull, BuildBoolean, BuildInteger, BuildDouble, storage
  <2>2. CASE BuildString
    <3>1. /\ strings' = Append(strings, Decoded(Current.value))
          /\ Decoded(Current.value) # Malformed /\ Is("String")
      BY <2>2 DEF BuildString, Fail, has_error
    <3> QED BY <3>1, CurrentType, TokenPayloads, DecodedType DEF Is
  <2> QED BY <2>1, <2>2
<1>3. OpenNow' = q
  BY <1>1 DEF OpenNow, Shared
<1>4. /\ w \in Worlds /\ x \in Worlds /\ Extends(w, x)
      /\ w.text = pulled /\ x.text = pulled' /\ x.strings = strings'
      /\ TablesLie(arrays', objects', x) /\ OpenLie(q, ms, w) /\ OpenLie(q, ms, x)
      /\ q \in Seq(OpenFrames) /\ Progress(pc, ret, root, q, ms, w)
      /\ c \in Nat \ {0} /\ Current = w.text[Len(w.text)]
      /\ q = <<>> <=> calls = <<>>
  BY <1>1, <1>2, SameTables
<1>5. Len(pulled') = c + 1 /\ \A i \in 1..c : pulled'[i] = pulled[i]
  BY <1>1, PulledLonger
<1>6. Denotes(Current, ret', x)
  <2>1. CASE BuildNull
    BY <2>1 DEF BuildNull, Denotes, Is, Return
  <2>2. CASE BuildBoolean
    BY <2>2 DEF BuildBoolean, Denotes, Is, Return
  <2>3. CASE BuildInteger
    BY <2>3 DEF BuildInteger, Denotes, Is, Return
  <2>4. CASE BuildDouble
    BY <2>4 DEF BuildDouble, Denotes, Is, Return, Fail, has_error
  <2>5. CASE BuildString
    <3>1. /\ strings' = Append(strings, Decoded(Current.value)) /\ ret' = Value("String", Len(strings))
          /\ Decoded(Current.value) # Malformed /\ Is("String")
      BY <2>5 DEF BuildString, Fail, Return, has_error
    <3>2. Decoded(Current.value) \in Texts
      BY <3>1, CurrentType, TokenPayloads, DecodedType DEF Is
    <3>3. /\ Len(strings) \in Nat /\ Len(strings') = Len(strings) + 1
          /\ strings'[Len(strings) + 1] = Decoded(Current.value)
      BY <3>1, <3>2, AppendFacts DEF TypeOK
    <3>4. ret'.type = "String" /\ ret'.payload = Len(strings)
      BY <3>1 DEF Value
    <3>5. ret'.payload + 1 \in 1..Len(x.strings) /\ x.strings[ret'.payload + 1] = Decoded(Current.value)
      BY <1>4, <3>3, <3>4
    <3> HIDE DEF x
    <3> QED BY <3>1, <3>4, <3>5 DEF Denotes, Is
  <2> QED BY <2>1, <2>2, <2>3, <2>4, <2>5
<1> HIDE DEF w, x, q
<1>7. Start(q, ms) = c /\ TopWaits(q, ms, w)
  BY <1>1, <1>4 DEF Progress
<1>8. TopWaits(q, ms, x)
  <2> SUFFICES ASSUME q # <<>> PROVE Waits(Last(q), Last(ms), x)
    BY DEF TopWaits
  <2>1. Marked(Last(q).kind, Last(q).items, Last(ms), w) /\ Len(Last(q).items) \in Nat
    BY <1>4, TopFacts
  <2> QED BY <1>4, <1>7, <2>1, WaitsKept DEF TopWaits
<1>9. Spans(ret', c, c, x)
  <2>1. x.text[c] = Current /\ c \in 1..Len(x.text) /\ c \in c..Len(x.text)
    BY <1>4, <1>5
  <2> QED BY <1>6, <2>1 DEF Spans
<1>10. Progress(pc', ret', root', q, ms, x)
  <2>1. Len(x.text) - 1 = c
    BY <1>4, <1>5
  <2> QED BY <1>1, <1>7, <1>8, <1>9, <2>1 DEF Progress
<1> QED BY <1>3, <1>4, <1>10 DEF Lies, w, x

(* An array or an object is entered: its first mark is its bracket.        *)
LEMMA OpenLies ==
  ASSUME TypeOK, TypeOK', StructureInv, ~has_error, ~has_error',
         NEW sa \in Seq(Seq(Nat)), NEW so \in Seq(Seq(Nat)), NEW ms \in Seq(Seq(Nat)),
         Lies(sa, so, ms), OpenArray \/ OpenObject
  PROVE  \E ns \in Seq(Seq(Nat)) : Lies(sa, so, ns)'
<1>0. PICK c \in Nat \ {0} : c = Len(pulled)
  BY LastFront DEF TypeOK
<1> DEFINE w == World(sa, so)
           x == World(sa, so)'
           q == OpenNow
           ns == Append(ms, <<c>>)
<1>1. /\ UNCHANGED <<strings, arrays, objects, root>> /\ Advance /\ pc = "value" /\ pc' = "opened"
  BY DEF OpenArray, OpenObject, Open, storage
<1>2. PICK kind \in Kinds : /\ OpenNow' = Append(q, [kind |-> kind, key |-> NoKey, items |-> <<>>])
                            /\ Current.type = Bracket.open[kind]
  BY OpenGrows
<1> DEFINE f == [kind |-> kind, key |-> NoKey, items |-> <<>>]
<1>3. /\ w \in Worlds /\ x \in Worlds /\ Extends(w, x) /\ w.text = pulled /\ x.text = pulled'
      /\ TablesLie(arrays', objects', x) /\ OpenLie(q, ms, w) /\ OpenLie(q, ms, x)
      /\ q \in Seq(OpenFrames) /\ Progress(pc, ret, root, q, ms, w)
      /\ Current = w.text[Len(w.text)]
  BY <1>1, SameTables
<1>4. Len(pulled') = c + 1 /\ \A i \in 1..c : pulled'[i] = pulled[i]
  BY <1>0, <1>1, PulledLonger
<1>5. f \in OpenFrames
  BY EmptySeq DEF OpenFrames
<1>6. Start(q, ms) = c /\ TopWaits(q, ms, w)
  BY <1>0, <1>1, <1>3 DEF Progress
<1> HIDE DEF w, x, q
<1>7. TopWaits(q, ms, x)
  <2> SUFFICES ASSUME q # <<>> PROVE Waits(Last(q), Last(ms), x)
    BY DEF TopWaits
  <2>1. Marked(Last(q).kind, Last(q).items, Last(ms), w) /\ Len(Last(q).items) \in Nat
    BY <1>3, TopFacts
  <2> QED BY <1>3, <1>6, <2>1, WaitsKept DEF TopWaits
<1>8. c \in 1..Len(x.text) /\ x.text[c].type = Bracket.open[kind] /\ Len(x.text) = c + 1
  <2>1. c \in 1..c /\ Len(w.text) = c
    BY <1>0, <1>3
  <2> QED BY <1>2, <1>3, <1>4, <2>1
<1>9. OpenLie(Append(q, f), ns, x)
  BY <1>3, <1>5, <1>6, <1>7, <1>8, OpenPushed
<1>10. /\ ns \in Seq(Seq(Nat)) /\ Last(ns) = <<c>>
  <2>1. <<c>> \in Seq(Nat)
    OBVIOUS
  <2> DEFINE e == <<c>>
  <2> HIDE DEF e
  <2>2. /\ Append(ms, e) \in Seq(Seq(Nat)) /\ Len(Append(ms, e)) = Len(ms) + 1 /\ Len(ms) \in Nat
        /\ Append(ms, e)[Len(ms) + 1] = e
    BY <2>1, AppendFacts DEF e
  <2> QED BY <2>2 DEF Last, e
<1>11. Progress("opened", ret', root', Append(q, f), ns, x)
  <2>1. Len(<<c>>) = 1 /\ Last(<<c>>) = c
    BY DEF Last
  <2>2. Len(x.text) - 1 = c
    BY <1>3, <1>8
  <2> QED BY <1>10, <2>1, <2>2 DEF Progress
<1>12. Lies(sa, so, ns)'
  BY <1>1, <1>2, <1>3, <1>9, <1>11 DEF Lies, w, x
<1> QED BY <1>10, <1>12

(* Giving the innermost container a key changes nothing else.              *)
LEMMA WithKeyTop ==
  ASSUME NEW q \in Seq(OpenFrames), q # <<>>, NEW key \in Keys
  PROVE  /\ WithKey(q, key) \in Seq(OpenFrames) /\ Len(WithKey(q, key)) = Len(q)
         /\ \A i \in 1..(Len(q) - 1) : WithKey(q, key)[i] = q[i]
         /\ Last(WithKey(q, key)).key = key /\ Last(WithKey(q, key)).kind = Last(q).kind
         /\ Last(WithKey(q, key)).items = Last(q).items
<1> DEFINE n == Len(q)
           keyed == WithKey(q, key)
           e == [q[n] EXCEPT !.key = key]
<1>1. n \in 1..Len(q) /\ n \in Nat /\ Last(q) = q[n]
  BY EmptySeq, LenProperties DEF Last
<1>2. q[n] \in OpenFrames
  BY <1>1, ElementOfSeq
<1>3. e \in OpenFrames /\ e.key = key /\ e.kind = q[n].kind /\ e.items = q[n].items
  BY <1>2 DEF OpenFrames
<1>4. keyed = [q EXCEPT ![n] = e]
  BY DEF WithKey
<1> HIDE DEF e, n, keyed
<1>5. /\ keyed \in Seq(OpenFrames) /\ Len(keyed) = Len(q) /\ keyed[n] = e
      /\ \A i \in 1..Len(q) : i # n => keyed[i] = q[i]
  BY <1>1, <1>3, <1>4, ExceptSeq
<1> QED
  BY <1>1, <1>3, <1>5 DEF Last, n, keyed

(* A key is read: the object waits for the value that goes with it.        *)
LEMMA KeyLies ==
  ASSUME TypeOK, TypeOK', StructureInv, ~has_error, ~has_error',
         NEW sa \in Seq(Seq(Nat)), NEW so \in Seq(Seq(Nat)), NEW ms, Lies(sa, so, ms), ReadKey
  PROVE  Lies(sa, so, ms)'
<1> DEFINE w == World(sa, so)
           x == World(sa, so)'
           q == OpenNow
           c == Len(pulled)
           marks == Last(ms)
           text == Decoded(Current.value)
           key == MemberKey(text)
           p == WithKey(q, key)
<1>1. /\ UNCHANGED <<arrays, objects, root>> /\ Advance /\ pc = "key" /\ pc' = "colon"
      /\ strings' = IF text \in LongTexts THEN Append(strings, text) ELSE strings
  BY DEF ReadKey
<1>2. /\ calls # <<>> /\ key \in Keys /\ text \in Texts /\ text # Malformed /\ Is("String")
      /\ OpenNow' = p
  BY KeyGrows
<1>3. /\ w \in Worlds /\ x \in Worlds /\ Extends(w, x)
      /\ w.text = pulled /\ x.text = pulled' /\ x.strings = strings'
      /\ TablesLie(arrays', objects', x) /\ OpenLie(q, ms, w) /\ OpenLie(q, ms, x)
      /\ q \in Seq(OpenFrames) /\ Progress(pc, ret, root, q, ms, w)
      /\ c \in Nat \ {0} /\ Current = w.text[Len(w.text)]
      /\ q = <<>> <=> calls = <<>>
  BY <1>1, <1>2, SameTables
<1>4. Len(pulled') = c + 1 /\ \A i \in 1..c : pulled'[i] = pulled[i]
  BY <1>1, PulledLonger
<1>5. Last(marks) = c - 1 /\ Separated(marks, w)
  BY <1>1, <1>3 DEF Progress
<1>6. Names(Current, key, x)
  <2>1. Len(strings) \in Nat /\ Len(strings') \in Nat
    BY LenProperties DEF TypeOK
  <2>2. CASE text \in LongTexts
    <3>1. strings' = Append(strings, text)
      BY <1>1, <2>2
    <3>2. strings \in Seq(Texts)
      BY DEF TypeOK
    <3> HIDE DEF text, x
    <3>3. Len(strings') = Len(strings) + 1 /\ strings'[Len(strings) + 1] = text
      BY <1>2, <3>1, <3>2, AppendFacts
    <3>4. key.tag = "ref" /\ key.index + 1 \in 1..Len(x.strings) /\ x.strings[key.index + 1] = text
      BY <1>3, <2>1, <2>2, <3>3 DEF MemberKey
    <3> HIDE DEF key
    <3> QED BY <1>2, <3>4 DEF Names, Is, text
  <2>3. CASE text \notin LongTexts
    <3> HIDE DEF text
    <3>1. key.tag = "sso" /\ key.text = text
      BY <2>3 DEF MemberKey
    <3> HIDE DEF key
    <3> QED BY <1>2, <3>1 DEF Names, Is, text
  <2> QED BY <2>2, <2>3
<1> HIDE DEF w, x, q, key, text
<1>7. /\ p \in Seq(OpenFrames) /\ Len(p) = Len(q) /\ \A i \in 1..(Len(q) - 1) : p[i] = q[i]
      /\ Last(p).key = key /\ Last(p).kind = Last(q).kind /\ Last(p).items = Last(q).items
  BY <1>2, <1>3, WithKeyTop
<1>8. /\ Marked(Last(q).kind, Last(q).items, marks, w) /\ Marked(Last(q).kind, Last(q).items, marks, x)
      /\ Len(Last(q).items) \in Nat /\ ms \in Seq(Seq(Nat)) /\ Len(ms) = Len(q)
  BY <1>2, <1>3, TopFacts DEF OpenLie
<1> HIDE DEF p
<1>9. OpenLie(p, ms, x)
  BY <1>2, <1>3, <1>7, <1>8, TopReplaced
<1>10. Separated(marks, x)
  BY <1>3, <1>5, <1>8, WaitsKept
<1>11. Progress("colon", ret', root', p, ms, x)
  <2>1. Len(x.text) = c + 1 /\ x.text[c] = Current
    <3>1. c \in 1..c
      BY <1>3
    <3> QED BY <1>3, <1>4, <3>1
  <2>2. Last(marks) = Len(x.text) - 2 /\ Names(x.text[Len(x.text) - 1], Last(p).key, x)
    BY <1>3, <1>5, <1>6, <1>7, <2>1
  <2> QED BY <1>10, <2>2 DEF Progress
<1> QED BY <1>1, <1>2, <1>3, <1>9, <1>11 DEF Lies, x

(* A finished item ends at the next mark.                                  *)
LEMMA MarkedGrows ==
  ASSUME NEW w \in Worlds, NEW kind \in Kinds, NEW items \in Seq(Item), NEW marks,
         Marked(kind, items, marks, w), Separated(marks, w), NEW item \in Item,
         NEW c \in 1..Len(w.text), ItemSpans(kind, item, Last(marks) + 1, c - 1, w)
  PROVE  Marked(kind, Append(items, item), Append(marks, c), w)
<1> DEFINE n == Len(items)
           more == Append(items, item)
           next == Append(marks, c)
<1>1. n \in Nat /\ Len(w.text) \in Nat
  BY LenProperties, WorldLens
<1>2. /\ marks \in Seq(Nat) /\ Len(marks) = n + 1 /\ Last(marks) = marks[n + 1]
      /\ \A j \in 1..(n + 1) : marks[j] \in 1..Len(w.text)
      /\ w.text[marks[1]].type = Bracket.open[kind]
      /\ \A j \in 1..n : ItemSpans(kind, items[j], marks[j] + 1, marks[j + 1] - 1, w)
      /\ \A j \in 2..n : w.text[marks[j]].type = "Comma"
  <2>1. Last(marks) = marks[Len(marks)]
    BY <1>1, LastMark
  <2>2. /\ marks \in Seq(Nat) /\ Len(marks) = n + 1
        /\ \A j \in 1..Len(marks) : marks[j] \in 1..Len(w.text)
        /\ w.text[marks[1]].type = Bracket.open[kind]
        /\ \A j \in 1..n : ItemSpans(kind, items[j], marks[j] + 1, marks[j + 1] - 1, w)
        /\ \A j \in 2..n : w.text[marks[j]].type = "Comma"
    BY DEF Marked
  <2> QED BY <2>1, <2>2
<1>3. /\ Len(more) = n + 1 /\ more[n + 1] = item /\ \A j \in 1..n : more[j] = items[j]
  BY AppendFacts
<1>4. /\ next \in Seq(Nat) /\ Len(next) = n + 2 /\ next[n + 2] = c
      /\ \A j \in 1..(n + 1) : next[j] = marks[j]
  <2>1. c \in Nat
    BY <1>1
  <2>2. (n + 1) + 1 = n + 2
    BY <1>1
  <2> QED BY <1>2, <2>1, <2>2, AppendFacts
<1>5. n + 1 > 1 => w.text[marks[n + 1]].type = "Comma"
  BY <1>2 DEF Separated
<1> HIDE DEF n, more, next
<1>6. \A j \in 1..(n + 2) : next[j] \in 1..Len(w.text)
  <2> TAKE j \in 1..(n + 2)
  <2>1. j \in 1..(n + 1) \/ j = n + 2
    BY <1>1
  <2> QED BY <1>2, <1>4, <2>1
<1>7. \A j \in 1..(n + 1) : ItemSpans(kind, more[j], next[j] + 1, next[j + 1] - 1, w)
  <2> TAKE j \in 1..(n + 1)
  <2>1. CASE j \in 1..n
    <3>1. j \in 1..(n + 1) /\ j + 1 \in 1..(n + 1)
      BY <1>1, <2>1
    <3> QED BY <1>2, <1>3, <1>4, <2>1, <3>1
  <2>2. CASE j = n + 1
    <3>1. next[j] = marks[n + 1] /\ next[j + 1] = c /\ more[j] = item
      BY <1>1, <1>3, <1>4, <2>2
    <3> QED BY <1>2, <3>1
  <2> QED BY <1>1, <2>1, <2>2
<1>8. \A j \in 2..(n + 1) : w.text[next[j]].type = "Comma"
  <2> TAKE j \in 2..(n + 1)
  <2>1. next[j] = marks[j]
    BY <1>1, <1>4
  <2>2. CASE j \in 2..n
    BY <1>2, <2>1, <2>2
  <2>3. CASE j = n + 1
    BY <1>1, <1>5, <2>1, <2>3
  <2> QED BY <1>1, <2>2, <2>3
<1>9. next[1] = marks[1]
  BY <1>1, <1>4
<1>10. Len(next) = Len(more) + 1
  BY <1>1, <1>3, <1>4
<1>11. Marked(kind, more, next, w)
  BY <1>1, <1>2, <1>3, <1>4, <1>6, <1>7, <1>8, <1>9, <1>10 DEF Marked
<1> QED BY <1>11 DEF more, next

(* Adding to the innermost container changes nothing else.                 *)
LEMMA WithItemTop ==
  ASSUME NEW q \in Seq(OpenFrames), q # <<>>, NEW item \in Item
  PROVE  /\ WithItem(q, item) \in Seq(OpenFrames) /\ Len(WithItem(q, item)) = Len(q)
         /\ \A i \in 1..(Len(q) - 1) : WithItem(q, item)[i] = q[i]
         /\ Last(WithItem(q, item)).kind = Last(q).kind
         /\ Last(WithItem(q, item)).items = Append(Last(q).items, item)
<1> DEFINE n == Len(q)
           p == WithItem(q, item)
           more == Append(q[n].items, item)
           e == [q[n] EXCEPT !.items = more]
<1>1. n \in 1..Len(q) /\ n \in Nat /\ Last(q) = q[n]
  BY EmptySeq, LenProperties DEF Last
<1>2. q[n] \in OpenFrames /\ q[n].items \in Seq(Item)
  BY <1>1, FrameFields
<1>3. more \in Seq(Item)
  BY <1>2, AppendFacts
<1>4. p = [q EXCEPT ![n] = e]
  BY DEF WithItem
<1> HIDE DEF more
<1>5. e \in OpenFrames /\ e.items = more /\ e.kind = q[n].kind
  BY <1>2, <1>3 DEF OpenFrames
<1> HIDE DEF e, n, p
<1>6. /\ p \in Seq(OpenFrames) /\ Len(p) = Len(q) /\ p[n] = e
      /\ \A i \in 1..Len(q) : i # n => p[i] = q[i]
  BY <1>1, <1>4, <1>5, ExceptSeq
<1> QED
  BY <1>1, <1>5, <1>6 DEF Last, n, p, more

(* An item is added to the innermost container.                            *)
LEMMA AddLies ==
  ASSUME TypeOK, TypeOK', StructureInv, ~has_error, ~has_error',
         NEW sa \in Seq(Seq(Nat)), NEW so \in Seq(Seq(Nat)), NEW ms \in Seq(Seq(Nat)),
         Lies(sa, so, ms), AddElement \/ AddMember
  PROVE  \E ns \in Seq(Seq(Nat)) : Lies(sa, so, ns)'
<1>0. PICK c \in Nat \ {0} : c = Len(pulled)
  BY LastFront DEF TypeOK
<1> DEFINE w == World(sa, so)
           q == OpenNow
           marks == Last(ms)
           next == Append(marks, c)
           ns == [ms EXCEPT ![Len(ms)] = next]
           item == IF Last(q).kind = "Array" THEN ret ELSE [key |-> Last(q).key, value |-> ret]
           p == WithItem(q, item)
<1>1. /\ UNCHANGED <<pulled, strings, arrays, objects, root>> /\ pc = "return" /\ pc' = "added"
      /\ calls # <<>>
  BY DEF AddElement, AddMember, InArray, InObject, storage
<1>2. World(sa, so)' = w
  BY <1>1 DEF World
<1>3. /\ w \in Worlds /\ w.text = pulled
      /\ TablesLie(arrays, objects, w) /\ OpenLie(q, ms, w)
      /\ q \in Seq(OpenFrames) /\ Progress(pc, ret, root, q, ms, w)
      /\ q # <<>>
  <2> DEFINE x == World(sa, so)'
  <2>1. /\ w \in Worlds /\ w.text = pulled
        /\ OpenLie(q, ms, w) /\ q \in Seq(OpenFrames) /\ Progress(pc, ret, root, q, ms, w)
        /\ q = <<>> <=> calls = <<>>
    BY <1>1, SameTables
  <2> QED BY <1>1, <2>1 DEF Lies
<1>4. /\ OpenNow' = p /\ item \in Item
  <2>1. Builder!AddItem
    BY AddBuilds
  <2>2. q # <<>> /\ q' = [q EXCEPT ![Len(q)].items = Append(@, item)]
    BY <1>1, <2>1, MappedOpen DEF Builder!AddItem, Builder!Building, Builder!Top, Builder!Last, Last, Unless
  <2>3. item \in Item
    <3>1. CASE Last(q).kind = "Array"
      BY <3>1 DEF TypeOK, Item
    <3>2. CASE Last(q).kind # "Array"
      <4>1. Last(q).key \in Keys
        BY <1>1, <3>2, TopKind, WaitingKey DEF InObject
      <4> QED BY <3>2, <4>1 DEF TypeOK, Item, Members
    <3> QED BY <3>1, <3>2
  <2> QED BY <2>2, <2>3 DEF WithItem
<1> HIDE DEF w, q
<1>5. /\ Len(q) \in Nat \ {0} /\ Last(q).kind \in Kinds /\ Last(q).items \in Seq(Item)
      /\ ms # <<>> /\ Len(ms) = Len(q) /\ marks = ms[Len(q)] /\ marks \in Seq(Nat)
      /\ Marked(Last(q).kind, Last(q).items, marks, w)
      /\ Last(marks) \in 1..Len(w.text) /\ Len(marks) \in Nat \ {0}
      /\ Last(marks) = marks[Len(marks)]
  BY <1>3, TopFacts
<1>6. /\ Spans(ret, ValueStart(Last(q), marks), c - 1, w) /\ Waits(Last(q), marks, w)
  BY <1>0, <1>1, <1>3 DEF Progress, Start, TopWaits
<1>7. ItemSpans(Last(q).kind, item, Last(marks) + 1, c - 1, w)
  <2>1. CASE Last(q).kind = "Array"
    BY <1>6, <2>1 DEF ItemSpans, ValueStart
  <2>2. CASE Last(q).kind = "Object"
    <3>1. item.value = ret /\ item.key = Last(q).key
      BY <2>2
    <3>2. ValueStart(Last(q), marks) = (Last(marks) + 1) + 2
      BY <1>5, <2>2 DEF ValueStart
    <3>3. /\ Last(marks) + 2 <= Len(w.text) /\ Names(w.text[Last(marks) + 1], Last(q).key, w)
          /\ w.text[Last(marks) + 2].type = "Colon"
      BY <1>6, <2>2 DEF Waits
    <3>4. Last(marks) + 1 \in 1..Len(w.text) /\ (Last(marks) + 1) + 1 = Last(marks) + 2
      <4> DEFINE l == Last(marks)
      <4>1. Len(w.text) \in Nat /\ l \in 1..Len(w.text) /\ l + 2 <= Len(w.text)
        BY <1>3, <1>5, <3>3, WorldLens
      <4> HIDE DEF l
      <4>2. l + 1 \in 1..Len(w.text) /\ (l + 1) + 1 = l + 2
        BY <4>1
      <4> QED BY <4>2 DEF l
    <3> HIDE DEF item
    <3> QED BY <1>6, <2>2, <3>1, <3>2, <3>3, <3>4 DEF ItemSpans
  <2> QED BY <1>5, <2>1, <2>2 DEF Kinds
<1>8. c \in 1..Len(w.text) /\ Separated(marks, w)
  BY <1>0, <1>3, <1>6 DEF Waits
<1> HIDE DEF item
<1>9. Marked(Last(q).kind, Append(Last(q).items, item), next, w)
  BY <1>3, <1>4, <1>5, <1>7, <1>8, MarkedGrows
<1>10. /\ p \in Seq(OpenFrames) /\ Len(p) = Len(q) /\ \A i \in 1..(Len(q) - 1) : p[i] = q[i]
       /\ Last(p).kind = Last(q).kind /\ Last(p).items = Append(Last(q).items, item)
  BY <1>3, <1>4, WithItemTop
<1>11. /\ next \in Seq(Nat) /\ Len(next) = Len(marks) + 1 /\ next[Len(marks) + 1] = c
       /\ next[1] = marks[1]
  <2> HIDE DEF marks
  <2>1. c \in Nat /\ 1 \in 1..Len(marks)
    BY <1>5
  <2> QED BY <1>5, <2>1, AppendFacts
<1> HIDE DEF p, next, marks
<1>12. /\ ns \in Seq(Seq(Nat)) /\ Len(ns) = Len(q) /\ Last(ns) = next
       /\ \A i \in 1..(Len(q) - 1) : ns[i] = ms[i]
  <2>1. Len(ms) \in 1..Len(ms)
    BY <1>5
  <2>2. /\ ns \in Seq(Seq(Nat)) /\ Len(ns) = Len(ms) /\ ns[Len(ms)] = next
        /\ \A i \in 1..Len(ms) : i # Len(ms) => ns[i] = ms[i]
    BY <1>11, <2>1, ExceptSeq
  <2> QED BY <1>5, <2>2 DEF Last
<1> HIDE DEF ns
<1>13. OpenLie(p, ns, w)
  BY <1>3, <1>5, <1>9, <1>10, <1>11, <1>12, TopReplaced DEF marks
<1>14. Progress("added", ret', root', p, ns, w)
  <2>1. Len(next) > 1 /\ Last(next) = Len(w.text)
    BY <1>0, <1>3, <1>5, <1>11 DEF Last
  <2> QED BY <1>12, <2>1 DEF Progress
<1>15. Lies(sa, so, ns)'
  BY <1>1, <1>2, <1>3, <1>4, <1>13, <1>14 DEF Lies
<1> QED BY <1>12, <1>15

(* An item takes up a token at least.                                      *)
LEMMA ItemOrder ==
  ASSUME NEW w \in Worlds, NEW kind \in Kinds, NEW item, NEW lo, NEW hi,
         ItemSpans(kind, item, lo, hi, w)
  PROVE  lo \in 1..Len(w.text) /\ hi \in lo..Len(w.text)
<1>0. Len(w.text) \in Nat
  BY WorldLens
<1>1. CASE kind = "Array"
  BY <1>1 DEF ItemSpans, Spans
<1>2. CASE kind = "Object"
  BY <1>0, <1>2 DEF ItemSpans, Spans
<1> QED BY <1>1, <1>2 DEF Kinds

(* The marks of a container follow one another.                            *)
LEMMA MarksGrow ==
  ASSUME NEW w \in Worlds, NEW kind \in Kinds, NEW items, Len(items) \in Nat, NEW marks,
         Marked(kind, items, marks, w)
  PROVE  \A j \in 1..Len(marks) : marks[1] <= marks[j]
<1> DEFINE n == Len(items)
           bad == {j \in 1..(n + 1) : ~(marks[1] <= marks[j])}
<1>1. /\ Len(marks) = n + 1 /\ n \in Nat
      /\ \A j \in 1..(n + 1) : marks[j] \in 1..Len(w.text)
      /\ \A j \in 1..n : ItemSpans(kind, items[j], marks[j] + 1, marks[j + 1] - 1, w)
  BY DEF Marked
<1>2. \A j \in 1..n : marks[j] < marks[j + 1]
  <2> TAKE j \in 1..n
  <2>1. j \in 1..(n + 1) /\ j + 1 \in 1..(n + 1)
    BY <1>1
  <2>2. marks[j + 1] - 1 \in (marks[j] + 1)..Len(w.text)
    BY <1>1, ItemOrder
  <2>3. marks[j] \in Int /\ marks[j + 1] \in Int /\ Len(w.text) \in Nat
    BY <1>1, <2>1, WorldLens
  <2> QED BY <2>2, <2>3
<1>3. \A j \in 1..(n + 1) : marks[j] \in Int
  BY <1>1, WorldLens
<1> HIDE DEF n
<1>4. bad = {}
  <2> SUFFICES ASSUME bad # {} PROVE FALSE
    OBVIOUS
  <2>1. n + 1 \in Nat /\ bad \in SUBSET (1..(n + 1))
    BY <1>1
  <2>2. PICK j \in bad : \A k \in bad : j <= k
    BY <2>1, LowestMember
  <2>3. j \in 1..(n + 1) /\ ~(marks[1] <= marks[j])
    OBVIOUS
  <2>4. j # 1 /\ 1 \in 1..(n + 1)
    BY <1>1, <1>3, <2>3
  <2>5. j - 1 \in 1..n /\ j - 1 \in 1..(n + 1) /\ (j - 1) + 1 = j
    BY <1>1, <2>3, <2>4
  <2>6. j - 1 \notin bad
    BY <2>2, <2>5
  <2>7. marks[1] <= marks[j - 1] /\ marks[j - 1] < marks[j]
    BY <1>2, <2>5, <2>6
  <2> QED BY <1>3, <2>3, <2>4, <2>5, <2>7
<1> QED BY <1>1, <1>4 DEF n

(* The container around a value waits for it in the next world too.        *)
LEMMA TopWaitsKept ==
  ASSUME NEW w \in Worlds, NEW x \in Worlds, Extends(w, x), NEW q \in Seq(OpenFrames), NEW ms,
         OpenLie(q, ms, w), TopWaits(q, ms, w)
  PROVE  TopWaits(q, ms, x)
<1> SUFFICES ASSUME q # <<>> PROVE Waits(Last(q), Last(ms), x)
  BY DEF TopWaits
<1>1. Marked(Last(q).kind, Last(q).items, Last(ms), w) /\ Len(Last(q).items) \in Nat
  BY TopFacts
<1> QED BY <1>1, WaitsKept DEF TopWaits

(* A table with one container more.                                        *)
LEMMA StoredLies ==
  ASSUME NEW w \in Worlds, NEW x \in Worlds, Extends(w, x), NEW kind,
         NEW T, NEW table \in Seq(Seq(T)), NEW sm \in Seq(Seq(Nat)), Len(sm) = Len(table),
         \A a \in 1..Len(table) : SealedIn(kind, table[a], sm[a], w),
         NEW items \in Seq(T), NEW marks \in Seq(Nat), SealedIn(kind, items, marks, x)
  PROVE  /\ Len(Append(sm, marks)) = Len(Append(table, items))
         /\ \A a \in 1..Len(Append(table, items)) :
              SealedIn(kind, Append(table, items)[a], Append(sm, marks)[a], x)
<1> DEFINE n == Len(table)
           more == Append(table, items)
           next == Append(sm, marks)
<1>1. /\ n \in Nat /\ Len(more) = n + 1 /\ more[n + 1] = items /\ \A a \in 1..n : more[a] = table[a]
  BY AppendFacts, LenProperties
<1>2. /\ Len(next) = n + 1 /\ next[n + 1] = marks /\ \A a \in 1..n : next[a] = sm[a]
  BY AppendFacts
<1>3. \A a \in 1..n : Len(table[a]) \in Nat
  BY ElementOfSeq, LenProperties
<1>4. \A a \in 1..n : SealedIn(kind, table[a], sm[a], x)
  BY <1>3, SealedKept
<1> HIDE DEF n, more, next
<1>5. \A a \in 1..(n + 1) : SealedIn(kind, more[a], next[a], x)
  <2> TAKE a \in 1..(n + 1)
  <2>1. CASE a \in 1..n
    BY <1>1, <1>2, <1>4, <2>1
  <2>2. CASE a = n + 1
    BY <1>1, <1>2, <2>2
  <2> QED BY <1>1, <2>1, <2>2
<1>6. Len(next) = Len(more) /\ \A a \in 1..Len(more) : SealedIn(kind, more[a], next[a], x)
  BY <1>1, <1>2, <1>5
<1> QED BY <1>6 DEF more, next

(* A container is sealed.                                                  *)
LEMMA SealGrows ==
  ASSUME TypeOK, TypeOK', StructureInv, ~has_error, ~has_error',
         EmptyArray \/ EmptyObject \/ CloseArray \/ CloseObject
  PROVE  /\ OpenNow' = Front(OpenNow) /\ OpenNow # <<>>
         /\ \/ /\ Last(OpenNow).kind = "Array" /\ arrays' = Append(arrays, Last(OpenNow).items)
               /\ ret' = Value("Array", Len(arrays)) /\ UNCHANGED objects
            \/ /\ Last(OpenNow).kind = "Object" /\ objects' = Append(objects, Last(OpenNow).items)
               /\ ret' = Value("Object", Len(objects)) /\ UNCHANGED arrays
<1>1. Builder!Seal /\ calls # <<>>
  BY SealBuilds DEF EmptyArray, EmptyObject, CloseArray, CloseObject, InArray, InObject
<1>2. OpenContainers = OpenNow /\ OpenContainers' = OpenNow'
  BY MappedOpen
<1>3. /\ OpenNow' = Front(OpenNow) /\ OpenNow # <<>>
      /\ \/ /\ Last(OpenNow).kind = "Array" /\ arrays' = Append(arrays, Last(OpenNow).items)
            /\ ret' = Value("Array", Len(arrays)) /\ UNCHANGED objects
         \/ /\ Last(OpenNow).kind = "Object" /\ objects' = Append(objects, Last(OpenNow).items)
            /\ ret' = Value("Object", Len(objects)) /\ UNCHANGED arrays
  <2>1. pc' = "return"
    BY DEF EmptyArray, EmptyObject, CloseArray, CloseObject, SealArray, SealObject, Return
  <2> QED
    BY <1>1, <1>2, <2>1
    DEF Builder!Seal, Builder!Top, Builder!Last, Last, Builder!Front, Front, Unless, Value
<1> QED BY <1>3

(* A container is sealed: it lies between its marks in the tables.         *)
LEMMA SealLies ==
  ASSUME TypeOK, TypeOK', StructureInv, ~has_error, ~has_error',
         NEW sa \in Seq(Seq(Nat)), NEW so \in Seq(Seq(Nat)), NEW ms \in Seq(Seq(Nat)),
         Lies(sa, so, ms), EmptyArray \/ EmptyObject \/ CloseArray \/ CloseObject
  PROVE  \E ta, to, ns \in Seq(Seq(Nat)) : Lies(ta, to, ns)'
<1>0. PICK n \in Nat \ {0} : n = Len(pulled)
  BY LastFront DEF TypeOK
<1>1. /\ UNCHANGED <<pulled, strings, root>> /\ pc' = "return"
      /\ pc \in {"empty", "closed"}
  BY DEF EmptyArray, EmptyObject, CloseArray, CloseObject, SealArray, SealObject, Return
<1> DEFINE q == OpenNow
           w == World(sa, so)
           marks == Last(ms)
           kind == Last(q).kind
           items == Last(q).items
<1>2. /\ OpenNow' = Front(q) /\ q # <<>>
      /\ \/ /\ kind = "Array" /\ arrays' = Append(arrays, items)
            /\ ret' = Value("Array", Len(arrays)) /\ UNCHANGED objects
         \/ /\ kind = "Object" /\ objects' = Append(objects, items)
            /\ ret' = Value("Object", Len(objects)) /\ UNCHANGED arrays
  BY SealGrows
<1>3. /\ pulled \in Seq(Tokens) /\ pulled # <<>> /\ pulled' \in Seq(Tokens)
      /\ strings \in Seq(Texts) /\ strings' \in Seq(Texts)
      /\ arrays \in Seq(Seq(JsonValues)) /\ objects \in Seq(Seq(Members))
      /\ arrays' \in Seq(Seq(JsonValues)) /\ objects' \in Seq(Seq(Members))
  BY DEF TypeOK
<1>4. /\ w \in Worlds /\ w.text = pulled /\ w.strings = strings /\ w.arrays = sa /\ w.objects = so
  BY <1>3, WorldFields DEF World
<1>5. /\ TablesLie(arrays, objects, w) /\ OpenLie(q, ms, w) /\ Progress(pc, ret, root, q, ms, w)
      /\ q \in Seq(OpenFrames)
  BY OpenFacts DEF Lies
<1> HIDE DEF w, q
<1>6. /\ Marked(kind, items, marks, w) /\ kind \in Kinds /\ Len(items) \in Nat /\ marks \in Seq(Nat)
      /\ Len(marks) \in Nat \ {0} /\ Last(marks) = marks[Len(marks)] /\ Last(marks) \in 1..Len(w.text)
      /\ items \in Seq(Item)
  BY <1>2, <1>4, <1>5, TopFacts
<1>7. w.text[n - 1].type = Bracket.close[kind]
  BY <1>0, <1>1, <1>4, <1>5 DEF Progress
<1>8. /\ n - 1 \in Nat \ {0} /\ EndOf(marks) = n - 1 /\ marks[1] <= n - 1
      /\ marks[1] \in 1..Len(w.text)
  <2>0. Len(w.text) = n
    BY <1>0, <1>4
  <2>1. CASE pc = "empty"
    <3>1. Len(marks) = 1 /\ Last(marks) = n - 2
      BY <2>0, <1>5, <2>1 DEF Progress
    <3> HIDE DEF marks
    <3>2. marks[1] = n - 2 /\ marks[1] \in 1..n
      BY <1>6, <2>0, <3>1
    <3>3. EndOf(marks) = marks[1] + 1
      BY <3>1 DEF EndOf
    <3>4. \A m \in 1..n : m = n - 2 => n - 1 \in Nat \ {0} /\ m + 1 = n - 1 /\ m <= n - 1
      OBVIOUS
    <3> QED BY <2>0, <3>2, <3>3, <3>4
  <2>2. CASE pc = "closed"
    <3>1. Len(marks) > 1 /\ Last(marks) = n - 1
      BY <2>0, <1>5, <2>2 DEF Progress
    <3> HIDE DEF marks
    <3>2. 1 \in 1..Len(marks) /\ Len(marks) \in 1..Len(marks) /\ Len(marks) # 1
      <4> DEFINE l == Len(marks)
      <4>1. l \in Nat \ {0} /\ l > 1
        BY <1>6, <3>1
      <4> HIDE DEF l
      <4>2. 1 \in 1..l /\ l \in 1..l /\ l # 1
        BY <4>1
      <4> QED BY <4>2 DEF l
    <3>3. marks[1] <= marks[Len(marks)]
      BY <1>4, <1>6, <3>2, MarksGrow
    <3>4. marks[1] \in 1..Len(w.text)
      BY <1>6, <3>2 DEF Marked
    <3>5. EndOf(marks) = n - 1
      BY <1>6, <3>1, <3>2 DEF EndOf
    <3>6. n - 1 \in 1..n
      BY <1>6, <2>0, <3>1
    <3>7. n - 1 \in Nat \ {0}
      BY <3>6
    <3> QED BY <1>6, <3>1, <3>3, <3>4, <3>5, <3>7
  <2> QED BY <1>1, <2>1, <2>2
<1>9. PICK c \in Nat \ {0} : c = n - 1 /\ n = c + 1
  <2>1. n = (n - 1) + 1
    OBVIOUS
  <2> QED BY <1>8, <2>1
<1> DEFINE ta == IF kind = "Array" THEN Append(sa, marks) ELSE sa
           to == IF kind = "Array" THEN so ELSE Append(so, marks)
           ns == Front(ms)
           x == [text |-> pulled', strings |-> strings', arrays |-> ta, objects |-> to]
<1> HIDE DEF marks, kind, items
<1>10. ta \in Seq(Seq(Nat)) /\ to \in Seq(Seq(Nat))
  BY <1>6, AppendFacts
<1>11. /\ x \in Worlds /\ x.text = pulled' /\ x.strings = strings' /\ x.arrays = ta /\ x.objects = to
  <2> HIDE DEF ta, to
  <2> QED BY <1>3, <1>10, WorldFields
<1> HIDE DEF x
<1>12. Extends(w, x)
  <2>1. x.text = w.text
    BY <1>1, <1>4, <1>11
  <2>2. /\ x.strings = w.strings
        /\ x.arrays = w.arrays \/ \E a \in Seq(Nat) : x.arrays = Append(w.arrays, a)
        /\ x.objects = w.objects \/ \E a \in Seq(Nat) : x.objects = Append(w.objects, a)
    BY <1>1, <1>4, <1>6, <1>11
  <2> QED BY <1>4, <2>1, <2>2, WorldExtends
<1>13. Len(w.text) = c + 1 /\ x.text = w.text
  <2>1. w.text = pulled /\ x.text = pulled' /\ pulled' = pulled
    BY <1>1, <1>4, <1>11
  <2> QED BY <1>0, <1>9, <2>1
<1>14. SealedIn(kind, items, marks, x)
  <2>1. EndOf(marks) \in 1..Len(w.text) /\ w.text[EndOf(marks)].type = Bracket.close[kind]
    BY <1>7, <1>8, <1>9, <1>13
  <2>2. SealedIn(kind, items, marks, w)
    BY <1>4, <1>6, <2>1, Closed
  <2> QED BY <1>4, <1>6, <1>11, <1>12, <2>2, SealedKept
<1>15. /\ Len(sa) = Len(arrays) /\ \A a \in 1..Len(arrays) : SealedIn("Array", arrays[a], sa[a], w)
       /\ Len(so) = Len(objects) /\ \A a \in 1..Len(objects) : SealedIn("Object", objects[a], so[a], w)
  BY <1>4, <1>5 DEF TablesLie
<1>16. \/ /\ kind = "Array" /\ ta = Append(sa, marks) /\ to = so
          /\ items \in Seq(JsonValues)
       \/ /\ kind = "Object" /\ to = Append(so, marks) /\ ta = sa
          /\ items \in Seq(Members)
  <2>1. CASE kind = "Array"
    <3>1. arrays' = Append(arrays, items) /\ Len(arrays) \in Nat
      BY <1>2, <1>3, <2>1, LenProperties DEF kind
    <3>2. arrays'[Len(arrays) + 1] = items /\ Len(arrays') = Len(arrays) + 1
      BY <1>3, <3>1
    <3>3. items \in Seq(JsonValues)
      <4>1. Len(arrays) + 1 \in 1..Len(arrays')
        BY <3>1, <3>2
      <4> QED BY <1>3, <3>2, <4>1, ElementOfSeq
    <3> QED BY <2>1, <3>3
  <2>2. CASE kind # "Array"
    <3>1. kind = "Object" /\ objects' = Append(objects, items) /\ Len(objects) \in Nat
      BY <1>2, <1>3, <2>2, LenProperties DEF kind
    <3>2. objects'[Len(objects) + 1] = items /\ Len(objects') = Len(objects) + 1
      BY <1>3, <3>1
    <3>3. items \in Seq(Members)
      <4>1. Len(objects) + 1 \in 1..Len(objects')
        BY <3>1, <3>2
      <4> QED BY <1>3, <3>2, <4>1, ElementOfSeq
    <3> QED BY <2>2, <3>1, <3>3
  <2> QED BY <2>1, <2>2
<1>17. /\ Len(x.arrays) = Len(arrays') /\ Len(x.objects) = Len(objects')
       /\ \A a \in 1..Len(arrays') : SealedIn("Array", arrays'[a], x.arrays[a], x)
       /\ \A a \in 1..Len(objects') : SealedIn("Object", objects'[a], x.objects[a], x)
       /\ \/ /\ ret' = Value("Array", Len(arrays)) /\ Len(arrays) + 1 \in 1..Len(x.arrays)
             /\ x.arrays[Len(arrays) + 1] = marks
          \/ /\ ret' = Value("Object", Len(objects)) /\ Len(objects) + 1 \in 1..Len(x.objects)
             /\ x.objects[Len(objects) + 1] = marks
  <2>0. /\ \A a \in 1..Len(arrays) : Len(arrays[a]) \in Nat
        /\ \A a \in 1..Len(objects) : Len(objects[a]) \in Nat
    BY <1>3, ElementOfSeq, LenProperties
  <2>1. CASE kind = "Array"
    <3>1. /\ arrays' = Append(arrays, items) /\ UNCHANGED objects
          /\ ret' = Value("Array", Len(arrays))
      BY <1>2, <2>1 DEF kind
    <3>2. x.arrays = Append(sa, marks) /\ x.objects = so /\ items \in Seq(JsonValues)
      BY <1>11, <1>16, <2>1
    <3>3. /\ Len(Append(sa, marks)) = Len(Append(arrays, items))
          /\ \A a \in 1..Len(Append(arrays, items)) :
               SealedIn("Array", Append(arrays, items)[a], Append(sa, marks)[a], x)
      <4>1. SealedIn("Array", items, marks, x)
        BY <1>14, <2>1
      <4>2. w \in Worlds /\ x \in Worlds /\ Extends(w, x) /\ marks \in Seq(Nat)
        BY <1>4, <1>6, <1>11, <1>12
      <4> HIDE DEF x, items
      <4> QED BY <1>3, <1>15, <3>2, <4>1, <4>2, StoredLies
    <3>4. \A a \in 1..Len(objects) : SealedIn("Object", objects[a], so[a], x)
      BY <1>4, <1>11, <1>12, <1>15, <2>0, SealedKept
    <3>5. Len(sa) + 1 \in 1..Len(Append(sa, marks)) /\ Append(sa, marks)[Len(sa) + 1] = marks
      BY <1>6, AppendFacts
    <3> QED BY <1>15, <3>1, <3>2, <3>3, <3>4, <3>5
  <2>2. CASE kind # "Array"
    <3>1. /\ objects' = Append(objects, items) /\ UNCHANGED arrays
          /\ ret' = Value("Object", Len(objects)) /\ kind = "Object"
      BY <1>2, <2>2 DEF kind
    <3>2. x.objects = Append(so, marks) /\ x.arrays = sa /\ items \in Seq(Members)
      BY <1>11, <1>16, <2>2
    <3>3. /\ Len(Append(so, marks)) = Len(Append(objects, items))
          /\ \A a \in 1..Len(Append(objects, items)) :
               SealedIn("Object", Append(objects, items)[a], Append(so, marks)[a], x)
      <4>1. SealedIn("Object", items, marks, x)
        BY <1>14, <3>1
      <4>2. w \in Worlds /\ x \in Worlds /\ Extends(w, x) /\ marks \in Seq(Nat)
        BY <1>4, <1>6, <1>11, <1>12
      <4> HIDE DEF x, items
      <4> QED BY <1>3, <1>15, <3>2, <4>1, <4>2, StoredLies
    <3>4. \A a \in 1..Len(arrays) : SealedIn("Array", arrays[a], sa[a], x)
      BY <1>4, <1>11, <1>12, <1>15, <2>0, SealedKept
    <3>5. Len(so) + 1 \in 1..Len(Append(so, marks)) /\ Append(so, marks)[Len(so) + 1] = marks
      BY <1>6, AppendFacts
    <3> QED BY <1>15, <3>1, <3>2, <3>3, <3>4, <3>5
  <2> QED BY <2>1, <2>2
<1>18. TablesLie(arrays', objects', x)
  BY <1>17 DEF TablesLie
<1>19. Spans(ret', marks[1], c, x)
  <2>1. marks[1] \in 1..Len(x.text) /\ c \in marks[1]..Len(x.text)
    BY <1>8, <1>9, <1>13
  <2> DEFINE k == Len(arrays)  m == Len(objects)
  <2>2. \/ /\ ret'.type = "Array" /\ ret'.payload = k /\ k + 1 \in 1..Len(x.arrays)
           /\ x.arrays[k + 1] = marks
        \/ /\ ret'.type = "Object" /\ ret'.payload = m /\ m + 1 \in 1..Len(x.objects)
           /\ x.objects[m + 1] = marks
    BY <1>17 DEF Value
  <2> HIDE DEF k, m
  <2> QED BY <1>8, <1>9, <2>1, <2>2 DEF Spans
<1>20. /\ Front(q) \in Seq(OpenFrames) /\ OpenLie(Front(q), ns, x)
       /\ TopWaits(Front(q), ns, x) /\ Start(Front(q), ns) = marks[1]
  <2>1. /\ Front(q) \in Seq(OpenFrames) /\ OpenLie(Front(q), ns, w)
        /\ TopWaits(Front(q), ns, w) /\ Start(Front(q), ns) = marks[1]
    BY <1>2, <1>4, <1>5, OpenPopped DEF marks
  <2> HIDE DEF ns
  <2> QED BY <1>4, <1>11, <1>12, <2>1, OpenKept, TopWaitsKept
<1>21. Progress(pc', ret', root', OpenNow', ns, x)
  <2>1. Len(x.text) - 1 = c
    BY <1>9, <1>13
  <2> HIDE DEF ns
  <2> QED BY <1>1, <1>2, <1>19, <1>20, <2>1 DEF Progress
<1>22. ns \in Seq(Seq(Nat))
  BY <1>20 DEF OpenLie
<1> HIDE DEF ta, to, ns
<1>23. PICK tb, tc, nb \in Seq(Seq(Nat)) : tb = ta /\ tc = to /\ nb = ns
  BY <1>22, <1>10
<1>24. World(tb, tc)' = x
  BY <1>23 DEF World, x
<1>25. Lies(tb, tc, nb)'
  BY <1>2, <1>18, <1>20, <1>21, <1>23, <1>24 DEF Lies
<1> QED BY <1>25

(* The document is delivered.                                              *)
LEMMA RootLies ==
  ASSUME TypeOK, TypeOK', StructureInv, ~has_error, ~has_error',
         NEW sa \in Seq(Seq(Nat)), NEW so \in Seq(Seq(Nat)), NEW ms \in Seq(Seq(Nat)),
         Lies(sa, so, ms), SetRoot
  PROVE  Lies(sa, so, ms)'
<1> DEFINE w == World(sa, so)
           q == OpenNow
<1>1. /\ UNCHANGED <<pulled, calls, array_stack, object_stack, strings, arrays, objects>>
      /\ pc = "return" /\ pc' = "done" /\ calls = <<>> /\ root' = ret /\ Is("EndOfFile")
  BY DEF SetRoot, stacks, storage, has_error
<1>2. World(sa, so)' = w /\ OpenNow' = q
  BY <1>1 DEF World, OpenNow, Shared
<1>3. /\ TablesLie(arrays, objects, w) /\ OpenLie(q, ms, w) /\ Progress(pc, ret, root, q, ms, w)
      /\ q = <<>>
  BY <1>1, OpenFacts DEF Lies
<1>4. w.text = pulled /\ Current = pulled[Len(pulled)]
  BY LastFront DEF World, Current, TypeOK
<1> HIDE DEF w, q
<1>5. Progress("done", ret', root', q, ms, w)
  <2>1. Spans(ret, 1, Len(w.text) - 1, w)
    BY <1>1, <1>3 DEF Progress, Start
  <2>2. w.text[Len(w.text)].type = "EndOfFile"
    BY <1>1, <1>4 DEF Is
  <2> QED BY <1>1, <2>1, <2>2 DEF Progress
<1> QED BY <1>1, <1>2, <1>3, <1>5 DEF Lies

(* At first nothing is stored and nothing is open.                         *)
LEMMA TextsLieInit == Init => TextsLie
<1> SUFFICES ASSUME Init PROVE TextsLie
  OBVIOUS
<1>1. /\ arrays = <<>> /\ objects = <<>> /\ calls = <<>> /\ pc = "parse" /\ Len(pulled) = 1
  <2>1. PICK t : pulled = <<t>>
    BY DEF Init
  <2> QED BY <2>1 DEF Init
<1>2. OpenNow = <<>>
  <2>1. DOMAIN calls = {}
    BY <1>1
  <2>2. OpenNow = [i \in {} |-> <<>>]
    BY <2>1 DEF OpenNow, Opened
  <2> QED BY <2>2
<1> DEFINE w == World(<<>>, <<>>)
<1>3. w.arrays = <<>> /\ w.objects = <<>> /\ w.text = pulled
  BY DEF World
<1> HIDE DEF w
<1>4. TablesLie(arrays, objects, w) /\ OpenLie(<<>>, <<>>, w)
  BY <1>1, <1>3, EmptySeq DEF TablesLie, OpenLie
<1>5. Progress(pc, ret, root, <<>>, <<>>, w)
  BY <1>1, <1>3 DEF Progress
<1>6. Lies(<<>>, <<>>, <<>>)
  BY <1>2, <1>4, <1>5 DEF Lies, w
<1>7. <<>> \in Seq(Seq(Nat))
  BY EmptySeq
<1> QED BY <1>6, <1>7 DEF TextsLie

(* Every step of the parser keeps the text and the tables together.        *)
LEMMA TextsLieStep ==
  TypeOK /\ TypeOK' /\ StructureInv /\ TextsLie /\ [Next]_vars => TextsLie'
<1> SUFFICES ASSUME TypeOK, TypeOK', StructureInv, TextsLie, [Next]_vars, ~has_error'
             PROVE  \E ta, to, ns \in Seq(Seq(Nat)) : Lies(ta, to, ns)'
  BY DEF TextsLie
<1>0. ~has_error
  BY ErrorKept
<1>1. PICK sa, so, ms \in Seq(Seq(Nat)) : Lies(sa, so, ms)
  BY <1>0 DEF TextsLie
<1>2. CASE UNCHANGED vars
  <2>1. Lies(sa, so, ms)'
    BY <1>1, <1>2 DEF Lies, World, OpenNow, Shared, vars, stacks, storage
  <2> QED BY <2>1
<1>3. CASE Next
  <2>1. CASE BuildRoot \/ ReadColon \/ ReadComma \/ ReadClosing \/ AfterComma \/ EnterLoop
    <3>1. Lies(sa, so, ms)'
      BY <1>0, <1>1, <2>1, QuietLies
    <3> QED BY <3>1
  <2>2. CASE BuildNull \/ BuildBoolean \/ BuildInteger \/ BuildDouble \/ BuildString
    <3>1. Lies(sa, so, ms)'
      BY <1>0, <1>1, <2>2, LeafLies
    <3> QED BY <3>1
  <2>3. CASE OpenArray \/ OpenObject
    <3>1. \E ns \in Seq(Seq(Nat)) : Lies(sa, so, ns)'
      BY <1>0, <1>1, <2>3, OpenLies
    <3> QED BY <3>1
  <2>4. CASE ReadKey
    <3>1. Lies(sa, so, ms)'
      BY <1>0, <1>1, <2>4, KeyLies
    <3> QED BY <3>1
  <2>5. CASE AddElement \/ AddMember
    <3>1. \E ns \in Seq(Seq(Nat)) : Lies(sa, so, ns)'
      BY <1>0, <1>1, <2>5, AddLies
    <3> QED BY <3>1
  <2>6. CASE EmptyArray \/ EmptyObject \/ CloseArray \/ CloseObject
    BY <1>0, <1>1, <2>6, SealLies
  <2>7. CASE SetRoot
    <3>1. Lies(sa, so, ms)'
      BY <1>0, <1>1, <2>7, RootLies
    <3> QED BY <3>1
  <2> QED
    BY <1>0, <1>2, <1>3, <2>1, <2>2, <2>3, <2>4, <2>5, <2>6, <2>7, BuildingSteps
<1> QED BY <1>2, <1>3

(* Until an error is found, every value the parser holds lies in the text  *)
(* it was made from: the items of every stored and every open container    *)
(* between its brackets and commas, in order, each key before its colon,   *)
(* and the root over the whole text, whatever was nested in it.            *)
THEOREM TextsLieSafe == Spec => []TextsLie
<1>1. TypeOK /\ TypeOK' /\ StructureInv /\ TextsLie /\ [Next]_vars => TextsLie'
  BY TextsLieStep
<1> QED BY <1>1, TextsLieInit, StructureSafe, PTL DEF Spec

=============================================================================

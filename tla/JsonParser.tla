----------------------------- MODULE JsonParser -----------------------------
(***************************************************************************)
(* The recursive-descent parser of zuu_json (ParserBase,                   *)
(* internal/parser/parser_base.hpp) as a state machine.  The C++ recursion *)
(* parse -> buildValue -> buildArray/buildObject -> ... is an explicit     *)
(* stack of activation records, `calls`; `pc` is the place in the running  *)
(* function, and a step is the code between two calls of the lexer, or     *)
(* between such a call and what is stored after it.                        *)
(*                                                                         *)
(* The lexer is its interface only: a pull returns any token, or an error  *)
(* that stays set (LexerBase::status_ is never cleared while parsing).     *)
(* Containers under construction keep their items in two stacks that all   *)
(* nesting levels share; a finished container is copied into the storage   *)
(* tables and its items are cut off the stack.                             *)
(***************************************************************************)
EXTENDS Integers, Sequences, SequencesExt

CONSTANTS
  Texts,          \* contents of string tokens and of decoded strings
  LongTexts,      \* those longer than constants::sso_max_len
  Unescape,       \* the texts with has_escape_, and what unescapeString makes
                  \* of each: another text, or Malformed
  Malformed,      \* the outcome of a rejected escape sequence
  IntegerLiterals, \* values the integer tokens denote
  IntegerModulus, \* 2^48: an integer payload keeps 48 bits
  DoubleLiterals, \* values the double tokens denote
  OutOfRange,     \* those utils::parse<double> rejects
  LexerErrors,    \* errors a lexer handler can leave in status_
  MaxDepth,       \* ParserBase::kMaxDepth
  SourceTokens,   \* bound: the tokens the source texts are made of
  MaxTokens       \* bound: after so many tokens the source text is at its end

ASSUME TextsAssumption ==
  /\ LongTexts \subseteq Texts
  /\ DOMAIN Unescape \subseteq Texts
  /\ \A t \in DOMAIN Unescape : Unescape[t] \in Texts \cup {Malformed}
  /\ Malformed \notin Texts

ASSUME NumbersAssumption ==
  /\ IntegerLiterals \subseteq Int
  /\ DoubleLiterals \subseteq Int
  /\ IntegerModulus \in Nat \ {0}
  /\ IntegerModulus % 2 = 0

ASSUME BoundsAssumption ==
  /\ MaxDepth \in Nat
  /\ MaxTokens \in Nat
  /\ "None" \notin LexerErrors

VARIABLES
  pulled,         \* every token pulled so far; the last is current_token_
  lexer_status,   \* LexerBase::status_
  status,         \* ParserBase::status_
  depth,          \* depth_
  array_stack,    \* array_stack_: elements of all the arrays being built
  object_stack,   \* object_stack_: members of all the objects being built
  strings,        \* Storage::strings_
  arrays,         \* Storage::arrays_, each with the elements it points to
  objects,        \* Storage::objects_, each with the members it points to
  root,           \* Storage::root_, NoRoot until setRoot
  calls,          \* the activation records of buildArray and buildObject
  ret,            \* the JsonValue the last finished build* returned
  pc

stacks  == <<array_stack, object_stack>>
storage == <<strings, arrays, objects>>
vars == <<pulled, lexer_status, status, depth, stacks, storage, root, calls, ret, pc>>

-----------------------------------------------------------------------------
(* Tokens.  `Unknown` carries the error the lexer set as it returned it.   *)

EndOfFile == [type |-> "EndOfFile"]

Tokens ==
  [type : {"LeftCurlyBracket", "RightCurlyBracket", "LeftSquareBracket",
           "RightSquareBracket", "Comma", "Colon", "Null", "EndOfFile"}]
  \cup [type : {"Boolean"}, value : BOOLEAN]
  \cup [type : {"Integer"}, value : IntegerLiterals]
  \cup [type : {"Double"}, value : DoubleLiterals]
  \cup [type : {"String"}, value : Texts]
  \cup [type : {"Unknown"}, error : LexerErrors]

ASSUME SourceAssumption == SourceTokens \subseteq Tokens

Current == Last(pulled)
Is(type) == Current.type = type

(* The tokens that start a value: the cases of the switches in buildValue, *)
(* buildArray and buildObject that call a build function.                  *)
ValueTokens == {"Null", "Boolean", "Integer", "Double", "String",
                "LeftSquareBracket", "LeftCurlyBracket"}

-----------------------------------------------------------------------------
(* JSON values: the NaN-boxed word as its type and its payload.            *)

Value(type, payload) == [type |-> type, payload |-> payload]
NoRoot == Value("Unset", 0)

JsonValues ==
  [type : {"Null", "Boolean", "Integer", "Double", "String", "Array", "Object"},
   payload : Int]

(* JsonValue::Integer masks the value to 48 bits, as_integer sign-extends. *)
Truncate48(n) ==
  LET half == IntegerModulus \div 2
  IN  ((n + half) % IntegerModulus) - half

(* A member's key: the characters themselves up to sso_max_len, otherwise  *)
(* an index into strings.                                                  *)
NoKey == [tag |-> "none"]
Keys == [tag : {"sso"}, text : Texts] \cup [tag : {"ref"}, index : Nat]
Members == [key : Keys, value : JsonValues]

(* What unescapeString returns for the string token with content t.        *)
Decoded(t) == IF t \in DOMAIN Unescape THEN Unescape[t] ELSE t

Frames == [kind : {"Array", "Object"}, start : Nat, key : Keys \cup {NoKey}]
Top == Last(calls)
InArray  == calls # <<>> /\ Top.kind = "Array"
InObject == calls # <<>> /\ Top.kind = "Object"

-----------------------------------------------------------------------------
has_error == status # "None"

NextTokens ==
  IF Is("EndOfFile") \/ Len(pulled) >= MaxTokens THEN {EndOfFile} ELSE SourceTokens

Pull(t) ==
  /\ pulled' = Append(pulled, t)
  /\ lexer_status' = IF t.type = "Unknown" THEN t.error ELSE lexer_status
  /\ status' = IF lexer_status' # "None" THEN lexer_status' ELSE status

Advance == \E t \in NextTokens : Pull(t)

Keep == UNCHANGED <<pulled, lexer_status>>

(* `status_ = error; return JsonValue::Null();`                            *)
Fail(error) ==
  /\ status' = error
  /\ pc' = "return"
  /\ Keep

Return(value) ==
  /\ ret' = value
  /\ pc' = "return"

(* The constructor pulls the first token before parse() runs.              *)
Init ==
  /\ \E t \in IF MaxTokens = 0 THEN {EndOfFile} ELSE SourceTokens :
       /\ pulled = <<t>>
       /\ lexer_status = IF t.type = "Unknown" THEN t.error ELSE "None"
       /\ status = lexer_status
  /\ depth = 0
  /\ array_stack = <<>> /\ object_stack = <<>>
  /\ strings = <<>> /\ arrays = <<>> /\ objects = <<>>
  /\ root = NoRoot
  /\ calls = <<>>
  /\ ret = Value("Null", 0)
  /\ pc = "parse"

-----------------------------------------------------------------------------
(* parse() up to its call of buildValue.                                   *)

RejectStart ==
  /\ pc = "parse"
  /\ Is("EndOfFile") \/ has_error
  /\ status' = IF has_error THEN status ELSE "EmptyValue"
  /\ pc' = "done"
  /\ UNCHANGED <<pulled, lexer_status, depth, stacks, storage, root, calls, ret>>

BuildRoot ==
  /\ pc = "parse"
  /\ ~Is("EndOfFile") /\ ~has_error
  /\ pc' = "value"
  /\ UNCHANGED <<pulled, lexer_status, status, depth, stacks, storage, root, calls, ret>>

-----------------------------------------------------------------------------
(* The switch on the current token: scalars, and the calls of buildArray   *)
(* and buildObject up to their first advance().                            *)

BuildNull ==
  /\ pc = "value" /\ Is("Null")
  /\ Advance
  /\ Return(Value("Null", 0))
  /\ UNCHANGED <<depth, stacks, storage, root, calls>>

BuildBoolean ==
  /\ pc = "value" /\ Is("Boolean")
  /\ Advance
  /\ Return(Value("Boolean", IF Current.value THEN 1 ELSE 0))
  /\ UNCHANGED <<depth, stacks, storage, root, calls>>

(* The lexer passes only integers on that utils::parse<long long> reads,   *)
(* so its failure is not a case here.                                      *)
BuildInteger ==
  /\ pc = "value" /\ Is("Integer")
  /\ Advance
  /\ Return(Value("Integer", Truncate48(Current.value)))
  /\ UNCHANGED <<depth, stacks, storage, root, calls>>

BuildDouble ==
  /\ pc = "value" /\ Is("Double")
  /\ IF Current.value \in OutOfRange
     THEN Fail("InvalidValue") /\ UNCHANGED ret
     ELSE Advance /\ Return(Value("Double", Current.value))
  /\ UNCHANGED <<depth, stacks, storage, root, calls>>

BuildString ==
  /\ pc = "value" /\ Is("String")
  /\ IF Decoded(Current.value) = Malformed
     THEN Fail("InvalidValue") /\ UNCHANGED <<strings, ret>>
     ELSE /\ strings' = Append(strings, Decoded(Current.value))
          /\ Advance
          /\ Return(Value("String", Len(strings)))
  /\ UNCHANGED <<depth, stacks, arrays, objects, root, calls>>

(* Fault: start_size not taken from the shared stack.                      *)
OpenAtZero(kind, stack) ==
  /\ Advance
  /\ calls' = Append(calls, [kind |-> kind, start |-> 0, key |-> NoKey])
  /\ pc' = "opened"
  /\ UNCHANGED <<depth, stacks, storage, root, ret>>

(* Entering buildArray/buildObject: the activation record is pushed.  The  *)
(* code computes start_size after the depth check; nothing changes the     *)
(* stacks between here and there.                                          *)
Open(kind, stack) ==
  /\ Advance
  /\ calls' = Append(calls, [kind |-> kind, start |-> Len(stack), key |-> NoKey])
  /\ pc' = "opened"
  /\ UNCHANGED <<depth, stacks, storage, root, ret>>

OpenArray  == pc = "value" /\ Is("LeftSquareBracket") /\ Open("Array", array_stack)
OpenObject == pc = "value" /\ Is("LeftCurlyBracket") /\ Open("Object", object_stack)

(* Fault: the default case leaves the switch without setting an error.     *)
RejectValueForgotten ==
  /\ pc = "value" /\ Current.type \notin ValueTokens
  /\ UNCHANGED vars

(* The default cases.  buildValue, which only parse() calls, tells an      *)
(* empty position from a bad one; inside a container both are the same.    *)
RejectValue ==
  /\ pc = "value" /\ Current.type \notin ValueTokens
  /\ Fail(IF calls = <<>> /\ ~Is("Unknown") THEN "EmptyValue" ELSE "InvalidValue")
  /\ UNCHANGED <<depth, stacks, storage, root, calls, ret>>

-----------------------------------------------------------------------------
(* After the opening bracket.                                              *)

(* The current token is the closing bracket of the innermost container.    *)
Closes == \/ InArray /\ Is("RightSquareBracket")
          \/ InObject /\ Is("RightCurlyBracket")

(* The advance() over a closing bracket, of an empty container and of      *)
(* another.  It may find an error; the container is sealed all the same,   *)
(* and the error seen by the caller.                                       *)
ReadClosing ==
  /\ pc \in {"opened", "added"} /\ Closes
  /\ Advance
  /\ pc' = IF pc = "opened" THEN "empty" ELSE "closed"
  /\ UNCHANGED <<depth, stacks, storage, root, calls, ret>>

SealArray(items) ==
  /\ arrays' = Append(arrays, items)
  /\ Return(Value("Array", Len(arrays)))
  /\ calls' = Front(calls)
  /\ UNCHANGED <<strings, objects>>

SealObject(items) ==
  /\ objects' = Append(objects, items)
  /\ Return(Value("Object", Len(objects)))
  /\ calls' = Front(calls)
  /\ UNCHANGED <<strings, arrays>>

(* Fault: an empty array undoes a depth it never counted.                  *)
EmptyArrayLeaves ==
  /\ pc = "empty" /\ InArray
  /\ SealArray(<<>>)
  /\ depth' = depth - 1
  /\ UNCHANGED <<pulled, lexer_status, status, stacks, root>>

EmptyArray ==
  /\ pc = "empty" /\ InArray
  /\ SealArray(<<>>)
  /\ UNCHANGED <<pulled, lexer_status, status, depth, stacks, root>>

EmptyObject ==
  /\ pc = "empty" /\ InObject
  /\ SealObject(<<>>)
  /\ UNCHANGED <<pulled, lexer_status, status, depth, stacks, root>>

(* `++depth_ > kMaxDepth`, then the loop.                                  *)
EnterLoopWithLimit(limit) ==
  /\ pc = "opened" /\ ~Closes
  /\ depth' = depth + 1
  /\ IF depth' > limit
     THEN Fail("DepthLimitExceeded")
     ELSE /\ pc' = IF InArray THEN "value" ELSE "key"
          /\ UNCHANGED <<pulled, lexer_status, status>>
  /\ UNCHANGED <<stacks, storage, root, calls, ret>>

(* Faults: the depth limit one too high, one too low.                      *)
EnterLoopTooDeep == EnterLoopWithLimit(MaxDepth + 1)
EnterLoopTooShallow == EnterLoopWithLimit(MaxDepth - 1)

EnterLoop == EnterLoopWithLimit(MaxDepth)

-----------------------------------------------------------------------------
(* The head of an object's loop: key and colon.                            *)

RejectKey ==
  /\ pc = "key"
  /\ \/ ~Is("String") /\ Fail("UnquotedKey")
     \/ Is("String") /\ Decoded(Current.value) = Malformed /\ Fail("InvalidValue")
  /\ UNCHANGED <<depth, stacks, storage, root, calls, ret>>

(* Fault: the index of a long key read after the push.                     *)
MemberKeyLate(text) ==
  IF text \in LongTexts THEN [tag |-> "ref", index |-> Len(strings) + 1]
                        ELSE [tag |-> "sso", text |-> text]

MemberKey(text) ==
  IF text \in LongTexts THEN [tag |-> "ref", index |-> Len(strings)]
                        ELSE [tag |-> "sso", text |-> text]

ReadKey ==
  /\ pc = "key" /\ Is("String")
  /\ LET text == Decoded(Current.value)
     IN  /\ text # Malformed
         /\ calls' = [calls EXCEPT ![Len(calls)].key = MemberKey(text)]
         /\ strings' = IF text \in LongTexts THEN Append(strings, text) ELSE strings
  /\ Advance
  /\ pc' = "colon"
  /\ UNCHANGED <<depth, stacks, arrays, objects, root, ret>>

ReadColon ==
  /\ pc = "colon"
  /\ IF Is("Colon") THEN Advance /\ pc' = "value" ELSE Fail("InvalidType")
  /\ UNCHANGED <<depth, stacks, storage, root, calls, ret>>

-----------------------------------------------------------------------------
(* A build function has returned to its caller.                            *)

(* `if (has_error()) return JsonValue::Null();` in every caller up to      *)
(* parse().  Neither depth_ nor the stacks are restored on this way.       *)
Unwind ==
  /\ pc = "return" /\ has_error
  /\ IF calls = <<>> THEN pc' = "done" /\ UNCHANGED calls
                     ELSE calls' = Front(calls) /\ UNCHANGED pc
  /\ UNCHANGED <<pulled, lexer_status, status, depth, stacks, storage, root, ret>>

SetRoot ==
  /\ pc = "return" /\ ~has_error /\ calls = <<>>
  /\ root' = ret
  /\ status' = IF Is("EndOfFile") THEN status ELSE "InvalidValue"
  /\ pc' = "done"
  /\ UNCHANGED <<pulled, lexer_status, depth, stacks, storage, calls, ret>>

(* Fault: buildArray does not check has_error after building an element.   *)
AddElementUnchecked ==
  /\ pc = "return" /\ InArray
  /\ array_stack' = Append(array_stack, ret)
  /\ pc' = "added"
  /\ UNCHANGED <<pulled, lexer_status, status, depth, object_stack, storage, root, calls, ret>>

AddElement ==
  /\ pc = "return" /\ ~has_error /\ InArray
  /\ array_stack' = Append(array_stack, ret)
  /\ pc' = "added"
  /\ UNCHANGED <<pulled, lexer_status, status, depth, object_stack, storage, root, calls, ret>>

AddMember ==
  /\ pc = "return" /\ ~has_error /\ InObject
  /\ object_stack' = Append(object_stack, [key |-> Top.key, value |-> ret])
  /\ pc' = "added"
  /\ UNCHANGED <<pulled, lexer_status, status, depth, array_stack, storage, root, calls, ret>>

ReadComma ==
  /\ pc = "added" /\ Is("Comma")
  /\ Advance
  /\ pc' = "comma"
  /\ UNCHANGED <<depth, stacks, storage, root, calls, ret>>

AfterComma ==
  /\ pc = "comma"
  /\ IF Closes
     THEN Fail("TrailingComma")
     ELSE /\ pc' = IF InArray THEN "value" ELSE "key"
          /\ UNCHANGED <<pulled, lexer_status, status>>
  /\ UNCHANGED <<depth, stacks, storage, root, calls, ret>>

(* Faults: the stack is not cut back, or is cleared.                       *)
NotCutBack(stack, start) == stack
Cleared(stack, start) == <<>>

(* Sealing copies the items above start_size and cuts them off.            *)
ItemsFrom(stack, start) == SubSeq(stack, start + 1, Len(stack))
CutBack(stack, start) == SubSeq(stack, 1, start)

CloseArray ==
  /\ pc = "closed" /\ InArray
  /\ SealArray(ItemsFrom(array_stack, Top.start))
  /\ array_stack' = CutBack(array_stack, Top.start)
  /\ depth' = depth - 1
  /\ UNCHANGED <<pulled, lexer_status, status, object_stack, root>>

(* Fault: a closed object keeps its level counted.                         *)
CloseObjectDeep ==
  /\ pc = "closed" /\ InObject
  /\ SealObject(ItemsFrom(object_stack, Top.start))
  /\ object_stack' = CutBack(object_stack, Top.start)
  /\ UNCHANGED <<pulled, lexer_status, status, depth, array_stack, root>>

CloseObject ==
  /\ pc = "closed" /\ InObject
  /\ SealObject(ItemsFrom(object_stack, Top.start))
  /\ object_stack' = CutBack(object_stack, Top.start)
  /\ depth' = depth - 1
  /\ UNCHANGED <<pulled, lexer_status, status, array_stack, root>>

MissingComma ==
  /\ pc = "added" /\ ~Is("Comma") /\ ~Closes
  /\ Fail("MissingComma")
  /\ UNCHANGED <<depth, stacks, storage, root, calls, ret>>

-----------------------------------------------------------------------------
(* parse() has returned; result() hands over the error or the storage.     *)
Done == pc = "done" /\ UNCHANGED vars

Next ==
  \/ RejectStart \/ BuildRoot
  \/ BuildNull \/ BuildBoolean \/ BuildInteger \/ BuildDouble \/ BuildString
  \/ OpenArray \/ OpenObject \/ RejectValue
  \/ ReadClosing \/ EmptyArray \/ EmptyObject \/ EnterLoop
  \/ RejectKey \/ ReadKey \/ ReadColon
  \/ Unwind \/ SetRoot \/ AddElement \/ AddMember
  \/ ReadComma \/ AfterComma \/ CloseArray \/ CloseObject \/ MissingComma
  \/ Done

Spec == Init /\ [][Next]_vars

-----------------------------------------------------------------------------
(* Correctness.                                                            *)

Places == {"parse", "value", "opened", "empty", "key", "colon", "added", "comma",
           "closed", "return", "done"}

ParserErrors == {"EmptyValue", "InvalidValue", "DepthLimitExceeded", "UnquotedKey",
                 "InvalidType", "TrailingComma", "MissingComma"}

TypeOK ==
  /\ pulled \in Seq(Tokens) /\ pulled # <<>>
  /\ lexer_status \in LexerErrors \cup {"None"}
  /\ status \in LexerErrors \cup ParserErrors \cup {"None"}
  /\ depth \in Nat
  /\ array_stack \in Seq(JsonValues)
  /\ object_stack \in Seq(Members)
  /\ strings \in Seq(Texts)
  /\ arrays \in Seq(Seq(JsonValues))
  /\ objects \in Seq(Seq(Members))
  /\ root \in JsonValues \cup {NoRoot}
  /\ calls \in Seq(Frames)
  /\ ret \in JsonValues
  /\ pc \in Places

Unwinding == has_error /\ pc \in {"return", "done"}

(* Where the running function is, and what is on the C++ stack then.       *)
CallsFitPlace ==
  /\ pc \in {"parse", "done"} => calls = <<>>
  /\ pc \in {"opened", "empty", "key", "colon", "added", "comma", "closed"} => calls # <<>>
  /\ pc \in {"key", "colon"} => InObject

(* An error the parser itself finds sends it back to parse() at once; only *)
(* a lexer error can be pending elsewhere, with Unknown as current token.  *)
PendingErrorIsLexers ==
  /\ lexer_status # "None" => has_error
  /\ has_error => pc \in {"parse", "return", "done"} \/ Is("Unknown")

(* The innermost record is not past the depth check, or will not get there.*)
Uncounted == pc \in {"opened", "empty"}

(* depth_ counts the activation records past the depth check.              *)
DepthCountsCalls ==
  ~Unwinding =>
    /\ depth = Len(calls) - (IF Uncounted THEN 1 ELSE 0)
    /\ depth <= MaxDepth

(* The segments of one kind lie on their shared stack, which holds size    *)
(* items, in nesting order from the bottom; a stack with no open container *)
(* of its kind is empty.                                                   *)
SegmentsNested(frames, kind, size) ==
  LET own == {i \in DOMAIN frames : frames[i].kind = kind}
  IN  /\ \A i \in own : frames[i].start <= size
      /\ \A i, j \in own : i < j => frames[i].start <= frames[j].start
      /\ \A i \in own : (\A j \in own : i <= j) => frames[i].start = 0
      /\ own = {} => size = 0

SharedStacksNested ==
  ~Unwinding =>
    /\ SegmentsNested(calls, "Array", Len(array_stack))
    /\ SegmentsNested(calls, "Object", Len(object_stack))
    /\ Uncounted /\ InArray => Top.start = Len(array_stack)
    /\ Uncounted /\ InObject => Top.start = Len(object_stack)

(* Every object that waits for a value knows the key the value belongs to. *)
KeysBeforeValues ==
  ~Unwinding =>
    \A i \in DOMAIN calls :
      calls[i].kind = "Object" =>
        calls[i].key # NoKey \/ (i = Len(calls) /\ (Uncounted \/ pc = "key"))

StructureInv ==
  /\ CallsFitPlace
  /\ PendingErrorIsLexers
  /\ DepthCountsCalls
  /\ SharedStacksNested
  /\ KeysBeforeValues

(* The recursion never goes deeper than kMaxDepth + 1 activation records,  *)
(* however the document nests: the parser's use of the C++ stack is        *)
(* bounded.                                                                *)
RecursionBounded == Len(calls) <= MaxDepth + 1

(* A successful parse leaves no item of any container on the shared stacks *)
(* and has undone every ++depth_.                                          *)
NothingLeftOver ==
  pc = "done" /\ ~has_error =>
    depth = 0 /\ array_stack = <<>> /\ object_stack = <<>>

(* Every value the parser holds, and every long key, is an index into the  *)
(* storage table of its type: Storage::string, array and object never      *)
(* index past the end, at any moment.                                      *)
Resolves(v) ==
  /\ v.type = "String" => v.payload \in 0..(Len(strings) - 1)
  /\ v.type = "Array"  => v.payload \in 0..(Len(arrays) - 1)
  /\ v.type = "Object" => v.payload \in 0..(Len(objects) - 1)
KeyResolves(k) == k.tag = "ref" => k.index < Len(strings)
MemberResolves(m) == KeyResolves(m.key) /\ Resolves(m.value)

IndicesResolve ==
  /\ Resolves(ret) /\ Resolves(root)
  /\ \A i \in DOMAIN array_stack : Resolves(array_stack[i])
  /\ \A i \in DOMAIN object_stack : MemberResolves(object_stack[i])
  /\ \A i \in DOMAIN calls : KeyResolves(calls[i].key)
  /\ \A a \in DOMAIN arrays : \A i \in DOMAIN arrays[a] : Resolves(arrays[a][i])
  /\ \A o \in DOMAIN objects : \A i \in DOMAIN objects[o] : MemberResolves(objects[o][i])

(* A container is about to be sealed: its closing bracket has been read.   *)
Sealing == pc \in {"empty", "closed"}

(* Once an error is set, by the lexer or by the parser, it stays set; no   *)
(* token is read, no string stored and no root set any more, and nothing   *)
(* is pushed or sealed.  With one exception: where the token after a       *)
(* closing bracket carries the error, as in `[1]x`, that one container is  *)
(* still sealed (advance() stands before sealArray and sealObject, and     *)
(* only the caller checks), and no other after it.                         *)
NothingAfterError ==
  [][has_error => /\ has_error' /\ ~Sealing'
                  /\ UNCHANGED <<pulled, strings, root>>
                  /\ ~Sealing => UNCHANGED <<stacks, arrays, objects>>]_vars

(* docs/ARCHITECTURE.md: an integer that 48 bits cannot represent is       *)
(* promoted to double.                                                     *)
WideIntegerPromoted ==
  pc = "done" /\ ~has_error /\ pulled[1].type = "Integer" =>
    root = Value("Integer", pulled[1].value) \/ root.type = "Double"

-----------------------------------------------------------------------------
(* Each container under construction seen on its own: the items of the     *)
(* i-th activation record are those between its start_size and the next    *)
(* record of its kind.                                                     *)

NextStart(i, stack) ==
  LET above == {j \in DOMAIN calls : j > i /\ calls[j].kind = calls[i].kind}
  IN  IF above = {} THEN Len(stack)
      ELSE calls[CHOOSE j \in above : \A k \in above : j <= k].start

ItemsOf(i) ==
  LET stack == IF calls[i].kind = "Array" THEN array_stack ELSE object_stack
  IN  SubSeq(stack, calls[i].start + 1, NextStart(i, stack))

OpenContainers ==
  [i \in DOMAIN calls |->
     [kind |-> calls[i].kind, key |-> calls[i].key, items |-> ItemsOf(i)]]

Unless(error_free, if_error) == IF has_error THEN if_error ELSE error_free

Builder == INSTANCE ContainerBuilder WITH
  strings <- Unless(strings, <<>>),
  arrays  <- Unless(arrays, <<>>),
  objects <- Unless(objects, <<>>),
  root    <- Unless(root, NoRoot),
  open    <- Unless(OpenContainers, <<>>),
  ret     <- IF has_error \/ pc # "return" THEN NoRoot ELSE ret,
  outcome <- IF has_error THEN "rejected" ELSE IF pc = "done" THEN "accepted" ELSE "building"

(* The parser implements the builder that gives every open container a     *)
(* list of its own: sharing two stacks among all levels is invisible.      *)
ImplementsBuilder == Builder!Spec
=============================================================================

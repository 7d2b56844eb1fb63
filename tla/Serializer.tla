----------------------------- MODULE Serializer -----------------------------
(***************************************************************************)
(* Value::dump of a parsed document (src/serializer/serializer.cpp,        *)
(* src/models/value.cpp): after parse() has returned a document, its root  *)
(* is written out again.  serializeValue, serializeArray and               *)
(* serializeObject call each other; their activation records are `visits`. *)
(* A step is the text up to the next turn of a loop.  What is written is a *)
(* sequence of tokens, with the layout between them; how a string and a    *)
(* number are spelt is left to StringCodec and std::to_chars, but for what *)
(* kind of token a double becomes.                                         *)
(***************************************************************************)
EXTENDS JsonParser, FiniteSets

CONSTANTS
  Indents,     \* the arguments of dump(): spaces per level, minified below 0
  WholeDoubles \* the doubles std::to_chars spells without point and exponent

ASSUME IndentsAssumption == Indents \subseteq Int
ASSUME WholeDoublesAssumption == WholeDoubles \subseteq DoubleLiterals

VARIABLES
  indent,          \* indent_
  current_indent,  \* current_indent_
  out,             \* out_
  visits,          \* the activation records of serializeArray and
                   \* serializeObject that are in their loop
  dumping          \* "idle", "running", "returned"

dump_vars == <<indent, current_indent, out, visits, dumping>>
all_vars == <<vars, dump_vars>>

DumpInit ==
  /\ Init
  /\ indent = 0 /\ current_indent = 0
  /\ out = <<>> /\ visits = <<>>
  /\ dumping = "idle"

-----------------------------------------------------------------------------
(* What is written.                                                        *)

Token(type) == [type |-> type]
Space == [type |-> "Space"]
Newline(spaces) == [type |-> "Newline", spaces |-> spaces]

(* writeIndent, when current_indent_ is n                                  *)
Line(n) == IF indent >= 0 THEN <<Newline(n)>> ELSE <<>>

IsContainer(v) == v.type \in {"Array", "Object"}
Items(v) == IF v.type = "Array" THEN arrays[v.payload + 1] ELSE objects[v.payload + 1]
Opening(v) == Token(IF v.type = "Array" THEN "LeftSquareBracket" ELSE "LeftCurlyBracket")
Closing(v) == Token(IF v.type = "Array" THEN "RightSquareBracket" ELSE "RightCurlyBracket")

(* serializeDouble: `1.0` is written as `1`, and is an integer from then   *)
(* on.                                                                     *)
DoubleText(d) ==
  [type |-> IF d \in WholeDoubles THEN "Integer" ELSE "Double", value |-> d]

Scalar(v) ==
  CASE v.type = "Null"    -> Token("Null")
    [] v.type = "Boolean" -> [type |-> "Boolean", value |-> v.payload # 0]
    [] v.type = "String"  -> [type |-> "String", value |-> strings[v.payload + 1]]
    [] v.type = "Double"  -> DoubleText(v.payload)
    [] OTHER              -> [type |-> v.type, value |-> v.payload]

resolveKey(key) == IF key.tag = "sso" THEN key.text ELSE strings[key.index + 1]

(* The key of a member and what separates it from the value.               *)
KeyText(m) ==
  <<[type |-> "String", value |-> resolveKey(m.key)], Token("Colon")>>
    \o (IF indent >= 0 THEN <<Space>> ELSE <<>>)

Step(width) == IF width >= 0 THEN width ELSE 0

(* Fault: the indentation is raised before empty containers are sent back. *)
VisitRaisingEmpty(text, v, stack, width) ==
  /\ out' = text \o (IF ~IsContainer(v) THEN <<Scalar(v)>>
                     ELSE IF Items(v) = <<>> THEN <<Opening(v), Closing(v)>>
                     ELSE <<Opening(v)>>)
  /\ IF IsContainer(v)
     THEN current_indent' = current_indent + Step(width)
     ELSE UNCHANGED current_indent
  /\ visits' = IF IsContainer(v) /\ Items(v) # <<>>
               THEN Append(stack, [value |-> v, next |-> 1]) ELSE stack

(* serializeValue(v), up to the loop when v has items; width is indent_.   *)
Visit(text, v, stack, width) ==
  /\ out' = text \o (IF ~IsContainer(v) THEN <<Scalar(v)>>
                     ELSE IF Items(v) = <<>> THEN <<Opening(v), Closing(v)>>
                     ELSE <<Opening(v)>>)
  /\ IF IsContainer(v) /\ Items(v) # <<>>
     THEN /\ current_indent' = current_indent + Step(width)
          /\ visits' = Append(stack, [value |-> v, next |-> 1])
     ELSE UNCHANGED current_indent /\ visits' = stack

-----------------------------------------------------------------------------
Dump ==
  /\ pc = "done" /\ ~has_error /\ dumping = "idle"
  /\ indent' \in Indents
  /\ dumping' = "running"
  /\ Visit(<<>>, root, <<>>, indent')

Visited == Last(visits)

(* Fault: a comma before the first item, too.                              *)
CommaAlways(next) == <<Token("Comma")>>

CommaBefore(next) == IF next = 1 THEN <<>> ELSE <<Token("Comma")>>

(* One turn of the loop.                                                   *)
SerializeItem ==
  /\ dumping = "running" /\ visits # <<>>
  /\ Visited.next <= Len(Items(Visited.value))
  /\ LET item  == Items(Visited.value)[Visited.next]
         head  == out \o CommaBefore(Visited.next) \o Line(current_indent)
         stack == [visits EXCEPT ![Len(visits)].next = @ + 1]
     IN  IF Visited.value.type = "Array"
         THEN Visit(head, item, stack, indent)
         ELSE Visit(head \o KeyText(item), item.value, stack, indent)
  /\ UNCHANGED <<indent, dumping>>

(* After the loop.                                                         *)
SerializeClose ==
  /\ dumping = "running" /\ visits # <<>>
  /\ Visited.next > Len(Items(Visited.value))
  /\ current_indent' = current_indent - Step(indent)
  /\ out' = out \o Line(current_indent') \o <<Closing(Visited.value)>>
  /\ visits' = Front(visits)
  /\ UNCHANGED <<indent, dumping>>

DumpReturns ==
  /\ dumping = "running" /\ visits = <<>>
  /\ dumping' = "returned"
  /\ UNCHANGED <<indent, current_indent, out, visits>>

DumpNext ==
  \/ Next /\ UNCHANGED dump_vars
  \/ (Dump \/ SerializeItem \/ SerializeClose \/ DumpReturns) /\ UNCHANGED vars

DumpSpec == DumpInit /\ [][DumpNext]_all_vars

(* Parser and serializer run on the caller's thread until they return.     *)
FairDumpSpec == DumpSpec /\ WF_all_vars(DumpNext)

-----------------------------------------------------------------------------
(* Correctness.                                                            *)

(* Every parse returns, for every source text, and so does the dump of     *)
(* every document, provided each pull of the lexer returns.  (Where one    *)
(* does not is Lexer's subject: EndsOrMeetsFormFeed.)                      *)
EveryCallReturns == <>(pc = "done" /\ (has_error \/ dumping = "returned"))

Layout == {"Newline", "Space"}

(* A text without its layout.                                              *)
Unlaid(text) ==
  LET upTo[n \in 0..Len(text)] ==
        IF n = 0 THEN <<>>
        ELSE IF text[n].type \in Layout THEN upTo[n - 1]
        ELSE Append(upTo[n - 1], text[n])
  IN  upTo[Len(text)]

Written == Unlaid(out)

(* What becomes of a token that is parsed and written again: a string is   *)
(* decoded, an integer keeps 48 bits, a whole double loses its point and   *)
(* with it its type.                                                       *)
Respelt(t) ==
  CASE t.type = "String"  -> [t EXCEPT !.value = Decoded(@)]
    [] t.type = "Integer" -> [t EXCEPT !.value = Truncate48(@)]
    [] t.type = "Double" /\ t.value \in WholeDoubles -> [t EXCEPT !.type = "Integer"]
    [] OTHER -> t

(* dump() writes the document back: apart from layout, one token for each  *)
(* token of the source, in the same order, whatever is nested in what      *)
(* (serializer.cpp over the tables parser_base.hpp filled).  Not each is   *)
(* the same: `1.0` comes back as the integer `1` (Respelt).                *)
DumpRepeatsTokens ==
  dumping = "returned" => Append(Written, EndOfFile) = [i \in DOMAIN pulled |-> Respelt(pulled[i])]

Opens(t)  == t.type \in {"LeftSquareBracket", "LeftCurlyBracket"}
Shuts(t) == t.type \in {"RightSquareBracket", "RightCurlyBracket"}

(* How many containers are open before position i of the output.           *)
Nesting(i) ==
  Cardinality({k \in 1..(i - 1) : Opens(out[k])}) - Cardinality({k \in 1..(i - 1) : Shuts(out[k])})

(* Every line is indented by the containers open around what it begins     *)
(* with; the indentation is back at 0 at the end; minified text has no     *)
(* layout at all.                                                          *)
LayoutNested ==
  dumping # "idle" =>
    /\ current_indent = Step(indent) * Len(visits)
    /\ \A i \in DOMAIN out :
         out[i].type \in Layout =>
           /\ indent >= 0 /\ i < Len(out)
           /\ out[i].type = "Newline" =>
                out[i].spaces = indent * (Nesting(i) - (IF Shuts(out[i + 1]) THEN 1 ELSE 0))

(* serializeValue has no depth limit of its own: that of the parser bounds *)
(* its recursion on every document there can be.                           *)
DumpRecursionBounded == Len(visits) <= MaxDepth
=============================================================================

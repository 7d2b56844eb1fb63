--------------------------- MODULE MCJsonGrammar ----------------------------
(* JsonParser, its dump and JsonGrammar on three kinds of texts: short     *)
(* ones with every kind of token (texts stored inline and by index,        *)
(* escapes that decode and one that does not, a whole double and another,  *)
(* a double that is rejected),                                             *)
(* longer ones of nested arrays and objects, and objects alone, long       *)
(* enough for a nested object between two members.                         *)
EXTENDS JsonGrammar, Serializer

MCUnescape == [esc |-> "long", bad |-> Malformed]
MCIndents == {-1, 0, 2}
MCAllTokens == Tokens

Containing(types) ==
  {t \in Tokens : t.type \in types \cup {"LeftCurlyBracket", "RightCurlyBracket", "Comma", "Colon"}}

MCSamples ==
  {[tokens |-> Tokens, length |-> 6],
   [tokens |-> {t \in Containing({"LeftSquareBracket", "RightSquareBracket", "Null", "String"}) :
                  t.type = "String" => t.value = "long"},
    length |-> 9],
   [tokens |-> {t \in Containing({"Boolean", "String"}) : t.type = "String" => t.value = "a"},
    length |-> 13]}
=============================================================================

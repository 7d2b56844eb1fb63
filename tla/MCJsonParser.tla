---------------------------- MODULE MCJsonParser ----------------------------
(* JsonParser alone, for what the documentation says of integers: one that *)
(* fits the payload and one that does not.                                 *)
EXTENDS JsonParser

MCUnescape == [esc |-> "long", bad |-> Malformed]
MCArrayTokens ==
  {t \in Tokens : t.type \in {"LeftSquareBracket", "RightSquareBracket", "Comma",
                              "Integer", "Unknown", "EndOfFile"}}
=============================================================================

----------------------------- MODULE MCDocument -----------------------------
(* Texts are numbers in lexicographic order: 1 is "a", 2 is "aa", 3 is "b" *)
(* and 4 is "bb"; keys of one letter are short.  Documents have one object *)
(* of up to three members, or two of up to two.                            *)
EXTENDS Document

MCText == 1..4
MCLength == <<1, 2, 1, 2>>
MCBefore == {p \in MCText \X MCText : p[1] < p[2]}

(* The values of an object count its members.                              *)
MCObjects(n) == UNION {
  {[i \in 1..k |-> [text |-> t[i], value |-> i, escaped |-> i = 1]] : t \in [1..k -> MCText]} :
    k \in 0..n}

MCDocuments == {<<o>> : o \in MCObjects(3)} \cup {<<o, p>> : o, p \in MCObjects(2)}
=============================================================================

------------------------------ MODULE Lexemes ------------------------------
(***************************************************************************)
(* What a token of JSON is, as predicates on a span of the text: the byte- *)
(* wise reference for the block-wise lexer.  A span is from its first byte *)
(* up to, and without, the byte at offset to; offsets count from 0.        *)
(***************************************************************************)
EXTENDS Integers, Sequences, FiniteSets

Ch(t, p) == t[p + 1]

(* A byte is escaped by an odd run of backslashes ending right before it.  *)
Escaped(t, from, q) ==
  Cardinality({k \in from..(q-1) : \A j \in k..(q-1) : Ch(t, j) = 92}) % 2 = 1

(* The body of a string: closed by the first quote that is not escaped,    *)
(* no control character before it unless escaped.                          *)
IsString(t, from, to) ==
  /\ to < Len(t) /\ Ch(t, to) = 34 /\ ~Escaped(t, from, to)
  /\ \A q \in from..(to-1) : Ch(t, q) = 34 \/ Ch(t, q) < 32 => Escaped(t, from, q)

AllDigits(t, from, to) == from < to /\ \A q \in from..(to-1) : Ch(t, q) \in 48..57

IsInteger(t, from, to) ==
  from < to /\ \E s \in {from, from + 1} :
    /\ s = from + 1 => Ch(t, from) = 45
    /\ AllDigits(t, s, to)
    /\ Ch(t, s) = 48 => to = s + 1

IsFraction(t, from, to) == from < to /\ Ch(t, from) = 46 /\ AllDigits(t, from + 1, to)

IsExponent(t, from, to) ==
  /\ from < to /\ Ch(t, from) \in {69, 101}
  /\ \E s \in {from + 1, from + 2} :
       /\ s = from + 2 => from + 1 < to /\ Ch(t, from + 1) \in {43, 45}
       /\ AllDigits(t, s, to)

IsNumber(t, from, to) ==
  \E i, f \in from..to :
    /\ IsInteger(t, from, i)
    /\ f = i \/ IsFraction(t, i, f)
    /\ to = f \/ IsExponent(t, f, to)

IsWord(t, from, to, word) == to <= Len(t) /\ SubSeq(t, from + 1, to) = word
=============================================================================

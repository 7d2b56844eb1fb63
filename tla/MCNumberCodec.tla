--------------------------- MODULE MCNumberCodec ---------------------------
(* Integers that are short, that fill blocks, that wrap the word or that   *)
(* are cut by another character; doubles with mantissas, decimals and      *)
(* exponents on both sides of every limit.                                 *)
EXTENDS NumberCodec

SeqsOf(bytes, n) == UNION {[1..k -> bytes] : k \in 0..n}
Sign == {<<>>, <<45>>}

Short   == {s \o d : s \in Sign, d \in SeqsOf({48, 49, 57}, 5)}
Wide    == {s \o <<d>> \o [i \in 1..k |-> e] : s \in Sign, k \in 4..7, d, e \in 49..57}
Garbled == SeqsOf({45, 49, 101, 47}, 4) \cup {<<49, 50, 51, 52>> \o s : s \in SeqsOf({49, 46, 176}, 4)}

(* 0 1 7 31 130 99999; .0 to .555; e1 e+2 e-3 e127 e256 e-257 e3002.       *)
Whole == {<<48>>, <<49>>, <<55>>, <<51, 49>>, <<49, 51, 48>>, <<57, 57, 57, 57, 57>>,
          <<54, 53, 53, 51, 55>>}
Decimal == {<<46>> \o s : s \in SeqsOf({48, 51, 53}, 3) \ {<<>>}}
Exponent == {<<101>> \o s \o e :
               s \in {<<>>, <<43>>, <<45>>},
               e \in {<<48>>, <<49>>, <<50>>, <<51>>, <<48, 50>>,
                      <<49, 50, 55>>, <<50, 53, 54>>, <<50, 53, 55>>, <<51, 48, 48, 50>>}}
MCDoubles == {w \o d \o e : w \in Whole \cup {<<45, 51>>}, d \in Decimal \cup {<<>>},
                            e \in Exponent \cup {<<>>}}

MCTexts == Short \cup Wide \cup Garbled \cup MCDoubles
MCInexact == {t \in MCDoubles : Len(t) <= 4}
=============================================================================

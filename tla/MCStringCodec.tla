--------------------------- MODULE MCStringCodec ---------------------------
(* Bodies put together from plain bytes and escapes of every kind, whole   *)
(* and cut short, so that each falls on every place of a block.            *)
EXTENDS StringCodec

MCBlockSize == [e \in {"Swar", "Avx2"} |-> IF e = "Swar" THEN 3 ELSE 5]

U(a, b, c, d) == <<Backslash, 117, a, b, c, d>>
Esc(b) == <<Backslash, b>>

(* Plain bytes; \n, \", \\, \/ and a letter that escapes nothing; units    *)
(* of one, two and three bytes; both halves of a pair; a digit that is     *)
(* none; units cut short.                                                  *)
Pieces ==
  {<<97>>, <<195, 169>>, Esc(110), Esc(Quote), Esc(Backslash), Esc(47), Esc(113),
   U(48, 48, 52, 49), U(48, 48, 48, 49), U(48, 48, 69, 57), U(50, 48, 97, 99),
   U(68, 56, 51, 68), U(68, 69, 48, 48), U(48, 120, 48, 48),
   <<Backslash, 117, 48, 48, 69>>, <<Backslash, 117, 68, 69, 48>>}

(* What surrogates are paired with, in fours.                              *)
PairPieces == {<<97>>, U(68, 56, 51, 68), U(68, 69, 48, 48), <<Backslash, 117, 68, 69, 48>>,
               <<Backslash, 117, 68>>}

(* The other escapes of one letter.                                        *)
Letters == {<<32>>, Esc(98), Esc(102), Esc(114), Esc(116)}

Flat(s) == LET f[i \in 0..Len(s)] == IF i = 0 THEN <<>> ELSE f[i - 1] \o s[i] IN f[Len(s)]

MCSources ==
  {Flat(s) : s \in UNION {[1..n -> Pieces] : n \in 0..3} \cup [1..4 -> PairPieces]
                     \cup [1..3 -> Letters]}
=============================================================================

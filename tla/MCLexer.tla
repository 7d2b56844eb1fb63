------------------------------ MODULE MCLexer ------------------------------
(* Both engines over texts made of the bytes that matter to one handler at *)
(* a time, all of them up to a length that spans more than one block.      *)
EXTENDS Lexer

SeqsOf(bytes, n) == UNION {[1..k -> bytes] : k \in 0..n}

MCBlockSize == [e \in {"Swar", "Avx2"} |-> IF e = "Swar" THEN 3 ELSE 4]

(* The body of a string: quotes, backslashes, a control character, a byte  *)
(* with the top bit set.                                                   *)
Strings == {<<Quote>> \o s : s \in SeqsOf({Quote, Backslash, 1, 160}, 6)}
(* Lanes one above what a mask looks for.                                  *)
Borrows == {<<Quote>> \o s : s \in SeqsOf({Quote, Quote + 1, Backslash + 1, 31}, 4)}
(* - 0 7 . e, then + 7 E and the comma.                                    *)
Numbers == SeqsOf({45, 55, 46, 101}, 6) \cup SeqsOf({45, 48, 55, 46, 101}, 4)
Signs   == SeqsOf({43, 55, 69, 44}, 5)
(* Whitespace around punctuation, a quote and bytes of the error class.    *)
Spaces  == SeqsOf({32, 9, 91, 58}, 6) \cup SeqsOf({32, 13, 123, 39, 161}, 4)
Words   == {w \o s : w \in {Null, True, False, <<102, 97, 108, 115>>, <<110, 117>>},
                     s \in SeqsOf({32, 93, 101}, 2)}

(* Form feeds and other control characters between tokens.                 *)
FormFeeds == SeqsOf({12, 32, 91}, 5)
Controls  == SeqsOf({1, 32, 91}, 5)

MCTexts == Strings \cup Borrows \cup Numbers \cup Signs \cup Spaces \cup Words
             \cup FormFeeds \cup Controls
=============================================================================

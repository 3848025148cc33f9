------------------------------ MODULE MCLexer -------------------------------
(* Every text over each of four alphabets: words and numbers, assignments   *)
(* and comparisons, the operators of comments and sums, and escapes.        *)
EXTENDS Lexer

MCAlphabets == {{"i", "f", "1", "_", ".", " "}, {"=", ">", "!", "-", "i", " "},
                {"/", "*", "&", "|", "nl"}, {Backslash, "nl", "i", "=", "?"}, {"bytes", "1", "i", ";"}}
=============================================================================

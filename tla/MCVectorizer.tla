---------------------------- MODULE MCVectorizer ----------------------------
(* Every short text of words, blanks and operators of one and two characters *)
EXTENDS Vectorizer

MCChars == {"V", "0", " ", "=", ">", ";"}
=============================================================================

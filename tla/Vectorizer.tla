----------------------------- MODULE Vectorizer -----------------------------
(***************************************************************************)
(* PatchVectorizer.tokenize_patch and tokenize, as add_patch and vectorize *)
(* use them on the text of a sample: the tokens are the vocabulary of      *)
(* word2vec and the rows of a sample's vectors.                            *)
(*                                                                         *)
(* Data.  A character is itself, "V" and "0" characters of words.  A text  *)
(* is a Python str: iterating over it yields its characters, each a str.   *)
(***************************************************************************)
EXTENDS Integers, Sequences, SequencesExt

CONSTANTS
    Chars,       \* the characters of texts
    MaxLength,   \* bound: characters of a text
    pad_size     \* rows of a sample's vectors

operators2 == {<<"=", "=">>, <<"=", ">">>, <<">", "=">>, <<">", ">">>}
operators1 == {"=", ">", "(", ".", ";"}

VARIABLES
    patch,       \* the sample's text
    line,        \* the element of the iteration, the next of which is at place n
    n,
    i, tmp, w,   \* tokenize's locals
    tokenized,   \* tokenize_patch's list
    rows         \* the tokens of the rows of vectors that are not zero

vars == <<patch, line, n, i, tmp, w, tokenized, rows>>

Init ==
    /\ patch \in UNION {[1..l -> Chars] : l \in 0..MaxLength}
    /\ line = <<>> /\ n = 1
    /\ i = 1 /\ tmp = <<>> /\ w = <<>>
    /\ tokenized = <<>> /\ rows = <<>>

InLine == n > 1 /\ i <= Len(line)
Flush(token) == tmp' = tmp \o <<w, token>> /\ w' = <<>>
Advance(by) == i' = i + by /\ UNCHANGED <<patch, line, n, tokenized, rows>>

Space == InLine /\ line[i] = " " /\ Flush(<<" ">>) /\ Advance(1)

Two == SubSeq(line, i, IF i < Len(line) THEN i + 1 ELSE i)
Operator2 == InLine /\ line[i] # " " /\ Two \in operators2 /\ Flush(Two) /\ Advance(2)
Operator1 == InLine /\ line[i] # " " /\ Two \notin operators2 /\ line[i] \in operators1 /\ Flush(<<line[i]>>) /\ Advance(1)
Collect ==
    /\ InLine /\ line[i] # " " /\ Two \notin operators2 /\ line[i] \notin operators1
    /\ w' = Append(w, line[i])
    /\ Advance(1) /\ UNCHANGED tmp

\* tokenize returns what was flushed; the loop of tokenize_patch takes the next element.
Returned == SelectSeq(tmp, LAMBDA token : token \notin {<<>>, <<" ">>})
NextLine ==
    /\ ~InLine /\ n <= Len(patch)
    /\ tokenized' = tokenized \o Returned
    /\ line' = <<patch[n]>> /\ n' = n + 1
    /\ i' = 1 /\ tmp' = <<>> /\ w' = <<>>
    /\ UNCHANGED <<patch, rows>>

\* vectorize cuts the tokens of a long text and leaves the other rows zero.
Vectorize ==
    /\ ~InLine /\ n = Len(patch) + 1
    /\ tokenized' = tokenized \o Returned
    /\ rows' = SubSeq(tokenized', 1, Min({Len(tokenized'), pad_size}))
    /\ n' = n + 1
    /\ UNCHANGED <<patch, line, i, tmp, w>>

Next == Space \/ Operator2 \/ Operator1 \/ Collect \/ NextLine \/ Vectorize

Spec == Init /\ [][Next]_vars

-----------------------------------------------------------------------------
(* Properties *)

\* "Ignore spaces and combine previously collected chars to form words"
\* (vectorize_patch.py:35): the tokens spell the text, spaces left out.
WordsFormed ==
    n > Len(patch) + 1 => FlattenSeq(tokenized) = SelectSeq(patch, LAMBDA c : c # " ")

=============================================================================

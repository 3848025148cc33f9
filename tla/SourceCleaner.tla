---------------------------- MODULE SourceCleaner ----------------------------
(***************************************************************************)
(* Compiler::CleanSourceCode, the passes of StringUtils that a source goes *)
(* through before it is compiled and again before it is injected into: the *)
(* tree's offsets point into the cleaned text.  The two passes that carry  *)
(* state from character to character are loops, one action per character.  *)
(*                                                                         *)
(* Data.  A character is one of the classes the passes tell apart: "nl" a  *)
(* newline, "quote" a quotation mark that begins or ends a string literal, *)
(* "url" the text http:// or https://, "tail" a byte whose top bits are 10 *)
(* and "x" any other character.                                            *)
(***************************************************************************)
EXTENDS Integers, Sequences, FiniteSets

CONSTANTS
    Alphabets,   \* sets of character classes: a source is written in one of them
    MaxLength    \* bound: characters of a source

Chars == {"/", "*", "{", "}", "(", ")", ";", " ", "nl", "quote", "url", "tail", "x"}

ASSUME AlphabetsAssumption == Alphabets \subseteq SUBSET Chars
ASSUME MaxLengthAssumption == MaxLength \in Nat

VARIABLES
    source,          \* the text of the file
    str,             \* source_code
    pass,            \* the pass to come
    i,               \* position in str
    insideComment,   \* RemoveBlockComments
    st,              \* ProcessEndOfLine: depth of parentheses
    result           \* result and output of the two loops

vars == <<source, str, pass, i, insideComment, st, result>>

Texts == UNION {[1..n -> alphabet] : n \in 0..MaxLength, alphabet \in Alphabets}

Init ==
    /\ source \in Texts /\ str = source
    /\ pass = "utf8" /\ i = 1 /\ insideComment = FALSE /\ st = 0 /\ result = <<>>

Is(p, c) == p \in 1..Len(str) /\ str[p] = c

\* What a pass leaves: the characters at the places P, or those that are not of C.
Keep(s, P) ==
    LET kept[n \in 0..Len(s)] ==
            IF n = 0 THEN <<>> ELSE IF n \in P THEN Append(kept[n - 1], s[n]) ELSE kept[n - 1]
    IN  kept[Len(s)]
Without(s, C) == Keep(s, {p \in 1..Len(s) : s[p] \notin C})

RemoveNonUTF8 ==
    /\ pass = "utf8"
    /\ str' = Without(str, {"tail"})
    /\ pass' = "line"
    /\ UNCHANGED <<source, i, insideComment, st, result>>

-----------------------------------------------------------------------------
(* RemoveCommentsInFile *)

\* What regex_replace of "//.*" leaves: in each line, what precedes the first "//".
InLineComment(s, p) ==
    \E q \in 1..p : /\ q < Len(s) /\ s[q] = "/" /\ s[q + 1] = "/"
                    /\ \A r \in q..p : s[r] # "nl"
WithoutLineComments(s) == Keep(s, {p \in 1..Len(s) : ~InLineComment(s, p)})

AfterUrlMutant(s) == s \* addresses stay and cut their line
AfterUrl(s) == Without(s, {"url"})

RemoveLineCommentsMutant == \* the addresses go last
    /\ pass = "line"
    /\ str' = AfterUrl(WithoutLineComments(str))
    /\ pass' = "block" /\ i' = 1 /\ insideComment' = FALSE /\ result' = <<>>
    /\ UNCHANGED <<source, st>>
RemoveLineComments ==
    /\ pass = "line"
    /\ str' = WithoutLineComments(AfterUrl(str))
    /\ pass' = "block" /\ i' = 1 /\ insideComment' = FALSE /\ result' = <<>>
    /\ UNCHANGED <<source, st>>

Step(n) == i' = i + n /\ UNCHANGED <<source, str, pass, st>>

OpenComment ==
    /\ pass = "block" /\ ~insideComment /\ Is(i, "/") /\ Is(i + 1, "*")
    /\ insideComment' = TRUE
    /\ Step(2) /\ UNCHANGED result

CloseComment ==
    /\ pass = "block" /\ insideComment /\ Is(i, "*") /\ Is(i + 1, "/")
    /\ insideComment' = FALSE
    /\ Step(2) /\ UNCHANGED result

SkipComment ==
    /\ pass = "block" /\ insideComment /\ i <= Len(str)
    /\ ~(Is(i, "*") /\ Is(i + 1, "/"))
    /\ Step(1) /\ UNCHANGED <<insideComment, result>>

CopyCode ==
    /\ pass = "block" /\ ~insideComment /\ i <= Len(str)
    /\ ~(Is(i, "/") /\ (Is(i + 1, "*") \/ Is(i + 1, "/")))
    /\ result' = Append(result, str[i])
    /\ Step(1) /\ UNCHANGED insideComment

\* The loop ends, or breaks at a "//" outside a comment and drops what follows.
CutsHere == ~insideComment /\ Is(i, "/") /\ Is(i + 1, "/")
EndBlockComments ==
    /\ pass = "block"
    /\ i > Len(str) \/ CutsHere
    /\ str' = result
    /\ pass' = "empty" /\ i' = 1 /\ result' = <<>>
    /\ UNCHANGED <<source, insideComment, st>>

-----------------------------------------------------------------------------

\* Of several newlines in a row the first is kept.
RemoveEmptyLine ==
    /\ pass = "empty"
    /\ str' = Keep(str, {p \in 1..Len(str) : ~(Is(p, "nl") /\ Is(p - 1, "nl"))})
    /\ pass' = "ends" /\ i' = 1 /\ st' = 0 /\ result' = <<>>
    /\ UNCHANGED <<source, insideComment>>

\* After position p there is more than spaces on the line.
MoreOnLine(s, p) ==
    \E q \in (p + 1)..Len(s) : /\ s[q] \notin {" ", "nl"}
                               /\ \A r \in (p + 1)..(q - 1) : s[r] = " "

EndsLine(c, depth) == c \in {"{", "}"} \/ (c = ";" /\ depth = 0)
Depth(c) == IF c = "(" THEN 1 ELSE IF c = ")" THEN -1 ELSE 0
ProcessCharacterMutant == \* looks at the next character only, a space included
    /\ pass = "ends" /\ i <= Len(str)
    /\ st' = st + Depth(str[i])
    /\ result' = IF EndsLine(str[i], st') /\ i < Len(str) /\ str[i + 1] \notin {" ", "nl"}
                   THEN result \o <<str[i], "nl">>
                   ELSE Append(result, str[i])
    /\ i' = i + 1
    /\ UNCHANGED <<source, str, pass, insideComment>>
ProcessCharacter ==
    /\ pass = "ends" /\ i <= Len(str)
    /\ st' = st + Depth(str[i])
    /\ result' = IF EndsLine(str[i], st') /\ MoreOnLine(str, i)
                   THEN result \o <<str[i], "nl">>
                   ELSE Append(result, str[i])
    /\ i' = i + 1
    /\ UNCHANGED <<source, str, pass, insideComment>>

\* The licence line goes before the text.
EndCleaning ==
    /\ pass = "ends" /\ i > Len(str)
    /\ str' = result
    /\ pass' = "cleaned"
    /\ UNCHANGED <<source, i, insideComment, st, result>>

CleanSourceCode ==
    \/ RemoveNonUTF8 \/ RemoveLineComments
    \/ OpenComment \/ CloseComment \/ SkipComment \/ CopyCode \/ EndBlockComments
    \/ RemoveEmptyLine \/ ProcessCharacter \/ EndCleaning

Spec == Init /\ [][CleanSourceCode]_vars

-----------------------------------------------------------------------------
(* What Solidity's lexer takes for comments and string literals: a reference *)
(* for the passes, which know neither state.                                 *)

Pair(s, p, a, b) == p < Len(s) /\ s[p] = a /\ s[p + 1] = b
NextMode(s, p, mode) ==
    IF mode = "code" THEN IF Pair(s, p, "/", "*") THEN "open"
                          ELSE IF Pair(s, p, "/", "/") THEN "line"
                          ELSE IF s[p] = "quote" THEN "string" ELSE "code"
    ELSE IF mode = "string" THEN IF s[p] \in {"quote", "nl"} THEN "code" ELSE "string"
    ELSE IF mode = "open" THEN "block"
    ELSE IF mode = "block" THEN IF Pair(s, p, "*", "/") THEN "close" ELSE "block"
    ELSE IF mode = "line" THEN IF s[p] = "nl" THEN "code" ELSE "line"
    ELSE "code"
\* The mode in which each character is read.
Mode(s) ==
    LET mode[p \in 1..Len(s)] == IF p = 1 THEN "code" ELSE NextMode(s, p - 1, mode[p - 1])
    IN  mode
Code(s) ==
    LET mode == Mode(s)
    IN  Keep(s, {p \in 1..Len(s) : \/ mode[p] = "line" /\ s[p] = "nl"
                                   \/ mode[p] = "code" /\ NextMode(s, p, "code") \in {"code", "string"}
                                   \/ mode[p] = "string"})

\* No "//" starts in a block comment or with its last character.
NoLineInBlock(s) ==
    \A p \in 1..Len(s) : Pair(s, p, "/", "/") => Mode(s)[p] \notin {"block", "close"}
\* No literal holds what would begin a comment elsewhere.
NoCommentInString(s) ==
    \A p \in 1..Len(s) : Pair(s, p, "/", "/") \/ Pair(s, p, "/", "*") => Mode(s)[p] # "string"
\* Every literal ends on its line, as the compiler asks.
LiteralsEnd(s) ==
    \A p \in 1..Len(s) : Mode(s)[p] = "string" =>
        \E q \in p..Len(s) : s[q] = "quote" /\ \A r \in p..q : s[r] # "nl"
\* No literal holds a character ProcessEndOfLine looks at.
NoEndInString(s) ==
    \A p \in 1..Len(s) : s[p] \in {"{", "}", "(", ")", ";"} => Mode(s)[p] # "string"

Read(s) == Without(s, {"tail", "url"})
Inline(s) == Without(s, {"nl"})
Count(s, p, c) == Cardinality({q \in 1..p : s[q] = c /\ Mode(s)[q] # "string"})
\* How many parentheses of the code are open after position p.
Opened(s, p) == Count(s, p, "(") - Count(s, p, ")")
Cleaned == pass = "cleaned"

-----------------------------------------------------------------------------

\* Cleaning drops the comments, the http:// and https:// of addresses, and nothing else,
\* unless a "//" stands in a block comment, or a "//" or "/*" in a string literal:
\* RemoveNonUTF8 and RemoveCommentsInFile, whose order decides what counts as a comment.
CodeKept ==
    (Cleaned /\ NoLineInBlock(Read(source)) /\ NoCommentInString(Read(source))) =>
        Inline(str) = Inline(Code(Read(source)))

\* The break of RemoveBlockComments at a "//", which would drop the rest of the file, is
\* never taken: the line pass left none, and no pass between them joins two slashes.
NeverCuts == (pass = "block" /\ i <= Len(str)) => ~CutsHere

\* A line holds one statement at most, so that a line the slice takes or leaves is one
\* statement: in a cleaned text nothing but spaces follows a brace on its line, nor a
\* semicolon that is in no parentheses.  Only the first line of the file may be empty, and
\* no function's text begins there: Eliminate asks every line for its last character.
EndsAt(p) == Mode(str)[p] # "string" /\ EndsLine(str[p], Opened(str, p))
StatementEndsLine ==
    Cleaned =>
        /\ NoEndInString(str) => \A p \in 1..Len(str) : EndsAt(p) => ~MoreOnLine(str, p)
        /\ \A p \in 1..Len(str) : ~(Is(p, "nl") /\ Is(p + 1, "nl"))

\* "Remove comments from the string." (string_utils.h:108), and nothing else but the
\* addresses of line 110.
CommentsRemoved ==
    (Cleaned /\ LiteralsEnd(Read(source))) => Inline(str) = Inline(Code(Read(source)))

=============================================================================

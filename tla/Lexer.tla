------------------------------- MODULE Lexer --------------------------------
(***************************************************************************)
(* Lexer and Parser on the text of one function.  Parser reads two tokens  *)
(* when it is made and one for each token ParseProgram passes; what the    *)
(* callers use is the list of all tokens the lexer ever made, and joined   *)
(* by spaces its literals are the text of a sample.                        *)
(*                                                                         *)
(* Data.  A character is itself, "nl" a newline, "i" and "f" letters, "1"  *)
(* a digit and "?" a character of no token; a tab behaves as the space.    *)
(* "bytes", "translation" and "character" are words taken as one letter,   *)
(* and the keyword if stands for every word of kKeywords.  The type of an  *)
(* operator is not told from that of another: no caller looks at it.       *)
(***************************************************************************)
EXTENDS Integers, Sequences, FiniteSets, SequencesExt

CONSTANTS
    Alphabets,   \* sets of characters: a text is written in one of them
    MaxLength    \* bound: characters of a text

White == {" ", "nl"}
Letters == {"i", "f", "bytes", "translation", "character"}
Digits == {"1"}
Pairs == {<<"=", "=">>, <<"=", ">">>, <<"+", "=">>, <<"%", "=">>, <<"-", "=">>, <<"!", "=">>, <<"<", "=">>,
          <<">", "=">>, <<"/", "/">>, <<"/", "*">>, <<"*", "/">>, <<"&", "&">>, <<"|", "|">>}
Singles == {pair[1] : pair \in Pairs} \cup
           {"(", ")", "[", "]", "{", "}", ".", ",", ";", "'", "quote"}
Backslash == "\\"
Chars == White \cup Letters \cup Digits \cup Singles \cup {Backslash, "_", "?"}

ASSUME AlphabetsAssumption == Alphabets \subseteq SUBSET Chars
ASSUME MaxLengthAssumption == MaxLength \in Nat

VARIABLES
    input,                    \* input_
    position,                 \* where ch_ stands, one past the end when it is 0
    line_num,
    token_flow,               \* the lexer's list: type, literal and line of each token
    cur_token, peek_token,    \* places in it, 0 for a null pointer
    program                   \* the literals ParseProgram collects

vars == <<input, position, line_num, token_flow, cur_token, peek_token, program>>

TranslationCharacter == <<"translation", " ", "character">>

Init ==
    /\ input \in UNION {[1..n -> alphabet] : n \in 0..MaxLength, alphabet \in Alphabets}
    /\ position = 1 /\ line_num = 1
    /\ token_flow = <<>> /\ cur_token = 0 /\ peek_token = 0 /\ program = <<>>

-----------------------------------------------------------------------------
(* Lexer *)

At(s, p) == IF p \in 1..Len(s) THEN s[p] ELSE "end"

\* Where a loop over the characters of C ends that begins at p.
Past(s, p, C) == Min({q \in p..(Len(s) + 1) : At(s, q) \notin C})
SkipWhitespace(s, p) == Past(s, p, White)
ReadIdentifier(s, p) == Past(s, p, Letters \cup Digits \cup {"_"})
ReadNumber(s, p) == Past(s, p, Letters \cup Digits \cup {"."})

IsName(c) == c \in Letters \cup {"_"}

\* Where the token ends that begins at p; a backslash takes any character with it.
TokenEndMutant(s, p) == \* break after ReadIdentifier
    IF At(s, p) = "end" THEN p
    ELSE IF <<At(s, p), At(s, p + 1)>> \in Pairs THEN p + 2
    ELSE IF At(s, p) = Backslash THEN Min({p + 2, Len(s) + 1})
    ELSE IF IsName(At(s, p)) THEN Min({ReadIdentifier(s, p) + 1, Len(s) + 1})
    ELSE IF At(s, p) \in Digits THEN ReadNumber(s, p)
    ELSE p + 1
TokenEnd(s, p) ==
    IF At(s, p) = "end" THEN p
    ELSE IF <<At(s, p), At(s, p + 1)>> \in Pairs THEN p + 2
    ELSE IF At(s, p) = Backslash THEN Min({p + 2, Len(s) + 1})
    ELSE IF IsName(At(s, p)) THEN ReadIdentifier(s, p)
    ELSE IF At(s, p) \in Digits THEN ReadNumber(s, p)
    ELSE p + 1

Literal(s, p) == IF At(s, p) = Backslash THEN TranslationCharacter ELSE SubSeq(s, p, TokenEnd(s, p) - 1)

\* bytes with any digits, and the words of kKeywords.
LookUpIdent(literal) ==
    IF \/ literal = <<"i", "f">>
       \/ literal[1] = "bytes" /\ (\A k \in 2..Len(literal) : literal[k] \in Digits)
    THEN "KEYWORD" ELSE "IDENT"

TypeAt(s, p) ==
    IF At(s, p) = "end" THEN "EOF"
    ELSE IF At(s, p) \in Singles THEN "OPERATOR"
    ELSE IF At(s, p) = Backslash THEN "RSPLASH"
    ELSE IF IsName(At(s, p)) THEN LookUpIdent(Literal(s, p))
    ELSE IF At(s, p) \in Digits THEN "NUMB"
    ELSE "ILLEGAL"

Newlines(s, p, q) == Cardinality({r \in p..(q - 1) : s[r] = "nl"})

-----------------------------------------------------------------------------
(* Parser *)

\* The lexer makes the next token; the parser moves on by one.
GetNextToken ==
    LET p == SkipWhitespace(input, position)
    IN  /\ line_num' = line_num + Newlines(input, position, p)
        /\ token_flow' = Append(token_flow, [type |-> TypeAt(input, p), literal |-> Literal(input, p), line |-> line_num'])
        /\ position' = TokenEnd(input, p)
        /\ cur_token' = peek_token /\ peek_token' = Len(token_flow')
        /\ UNCHANGED input

Constructed == cur_token # 0
Construct == ~Constructed /\ GetNextToken /\ UNCHANGED program

CurTokenIs(t) == token_flow[cur_token].type = t
PeekTokenIs(t) == token_flow[peek_token].type = t

GoesOnMutant == ~PeekTokenIs("EOF") \* one token too far
GoesOn == ~CurTokenIs("EOF")

ParseProgram ==
    /\ Constructed /\ GoesOn
    /\ program' = Append(program, token_flow[cur_token].literal)
    /\ GetNextToken

Next == Construct \/ ParseProgram

Spec == Init /\ [][Next]_vars

Parsed == Constructed /\ ~GoesOn

\* GenCodeSnippets writes a space after each literal.
SnippetMutant == FlattenSeq([k \in 1..Len(token_flow) |-> token_flow[k].literal]) \* no space
Snippet == FlattenSeq([k \in 1..Len(token_flow) |-> Append(token_flow[k].literal, " ")])

-----------------------------------------------------------------------------
(* Properties *)

Escapes(s) == \E k \in 1..Len(s) : s[k] = Backslash
Literals(flow) == FlattenSeq([k \in 1..Len(flow) |-> flow[k].literal])
NonWhite(s) == FlattenSeq([k \in 1..Len(s) |-> IF s[k] \in White THEN <<>> ELSE <<s[k]>>])

\* The lexer neither loses nor repeats a character: without backslashes the
\* literals made so far spell the text read so far, blanks left out, and line_num,
\* which tokens carry and no caller reads yet, is the row of the text.
Spelled ==
    ~Escapes(input) =>
        /\ Literals(token_flow) = NonWhite(SubSeq(input, 1, position - 1))
        /\ line_num = 1 + Newlines(input, 1, position)

\* The tokens of a text, read from front to end.
Tokens(s) ==
    LET From[p \in 1..(Len(s) + 1)] ==
            LET q == SkipWhitespace(s, p)
            IN  IF q > Len(s) THEN <<>>
                ELSE <<[type |-> TypeAt(s, q), literal |-> Literal(s, q)]>> \o From[TokenEnd(s, q)]
    IN  From[1]

\* The text of a sample read again gives the tokens it was made from, so that
\* two functions with the same text in token_flow_set_ have the same tokens.
SnippetTellsTokens ==
    Parsed /\ ~Escapes(input) =>
        Tokens(Snippet) = [k \in 1..Len(program) |-> [type |-> token_flow[k].type, literal |-> token_flow[k].literal]]

\* The list the callers take holds the tokens of the whole text, each of which
\* ParseProgram has passed, and two tokens for its end, however short it is; every token
\* takes a character or more, so that ParseProgram comes to the end.
TwoEnds ==
    /\ Len(program) <= Len(input)
    /\ Parsed =>
        /\ position = Len(input) + 1
        /\ Len(token_flow) = Len(program) + 2
        /\ \A k \in 1..Len(token_flow) : token_flow[k].type = "EOF" <=> k > Len(program)
        /\ \A k \in 1..Len(program) : program[k] = token_flow[k].literal

=============================================================================

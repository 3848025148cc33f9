---------------------------- MODULE LexerProofs ----------------------------
(***************************************************************************)
(* For texts of any length: the two tokens the parser reads ahead are in   *)
(* the lexer's list once each and the list ends where the text does; the   *)
(* tokens spell the text; and the text of a sample, which is the tokens    *)
(* with a space after each, is read again as those tokens.                 *)
(***************************************************************************)
EXTENDS Lexer, SequenceTheorems, FiniteSetTheorems, WellFoundedInduction, TLAPS

TokenTypes == {"EOF", "OPERATOR", "RSPLASH", "KEYWORD", "IDENT", "NUMB", "ILLEGAL"}
Token == [type : TokenTypes, literal : Seq(Chars), line : Nat]

TypeInv ==
    /\ input \in Seq(Chars)
    /\ position \in 1..(Len(input) + 1)
    /\ line_num \in Nat
    /\ token_flow \in Seq(Token)
    /\ program \in Seq(Seq(Chars))

\* The parser stands on the last two tokens made, ParseProgram has passed those before.
LookAhead ==
    /\ peek_token = Len(token_flow)
    /\ cur_token = IF token_flow = <<>> THEN 0 ELSE Len(token_flow) - 1
    /\ Len(program) = IF Len(token_flow) < 2 THEN 0 ELSE Len(token_flow) - 2
    /\ \A k \in 1..Len(program) : program[k] = token_flow[k].literal /\ token_flow[k].type # "EOF"

\* A token of the end stands at the end, and so do all after it.
EndsStay ==
    \A k \in 1..Len(token_flow) :
        token_flow[k].type = "EOF" =>
            /\ position = Len(input) + 1
            /\ \A m \in k..Len(token_flow) : token_flow[m].type = "EOF"

\* Every other token has taken a character.
Moves == \A k \in 1..Len(token_flow) : token_flow[k].type # "EOF" => k < position

IInv == TypeInv /\ LookAhead /\ EndsStay /\ Moves

-----------------------------------------------------------------------------
(* The lexer's operators *)

\* A set of naturals has a least member, which is its Min.
LEMMA MinIsLeast ==
    ASSUME NEW T \in SUBSET Nat, T # {}
    PROVE  Min(T) \in T /\ \A y \in T : Min(T) <= y
<1> DEFINE Less == {ss \in Nat \X Nat : ss[1] < ss[2]}
<1>1. IsWellFoundedOn(Less, Nat)
  BY NatLessThanWellFounded DEF OpToRel
<1>2. \A a, b \in Nat : a < b => <<a, b>> \in Less
  OBVIOUS
<1>. HIDE DEF Less
<1>3. PICK x \in T : \A y \in T : ~(<<y, x>> \in Less)
  BY <1>1, WFMin
<1>4. \A y \in T : x <= y
  <2>. SUFFICES ASSUME NEW y \in T PROVE x <= y
    OBVIOUS
  <2>1. x \in Nat /\ y \in Nat
    OBVIOUS
  <2>2. ~(<<y, x>> \in Less)
    BY <1>3
  <2>3. ~(y < x)
    BY <1>2, <2>1, <2>2
  <2>. QED
    BY <2>1, <2>3
<1>. QED
  BY <1>4 DEF Min

\* A loop over characters ends in the text or right after it.
LEMMA PastEnds ==
    ASSUME NEW s \in Seq(Chars), NEW p \in 1..(Len(s) + 1), NEW C, "end" \notin C
    PROVE  Past(s, p, C) \in p..(Len(s) + 1) /\ At(s, Past(s, p, C)) \notin C
<1> DEFINE T == {q \in p..(Len(s) + 1) : At(s, q) \notin C}
<1>1. Len(s) \in Nat
  OBVIOUS
<1>2. Len(s) + 1 \in T
  BY <1>1 DEF At
<1>3. T \in SUBSET Nat /\ T # {}
  BY <1>1, <1>2
<1>4. Past(s, p, C) = Min(T)
  BY DEF Past
<1>. HIDE DEF T
<1>5. Past(s, p, C) \in T
  BY <1>3, <1>4, MinIsLeast
<1>. QED
  BY <1>5 DEF T

\* No character is the end of the text.
LEMMA AtIsEnd ==
    ASSUME NEW s \in Seq(Chars), NEW p \in 1..(Len(s) + 1)
    PROVE  At(s, p) = "end" <=> p = Len(s) + 1
<1>1. "end" \notin Chars
  <2>1. "end" \notin White \cup Letters \cup Digits \cup {Backslash, "_", "?"}
    BY DEF White, Letters, Digits, Backslash
  <2>2. \A pair \in Pairs : pair[1] # "end"
    BY DEF Pairs
  <2>3. "end" \notin Singles
    BY <2>2 DEF Singles
  <2>. QED
    BY <2>1, <2>3 DEF Chars
<1>2. p \in 1..Len(s) => s[p] \in Chars
  OBVIOUS
<1>. QED
  BY <1>1, <1>2 DEF At

LEMMA SkipIsPast ==
    ASSUME NEW s \in Seq(Chars), NEW p \in 1..(Len(s) + 1)
    PROVE  SkipWhitespace(s, p) \in p..(Len(s) + 1)
<1>. QED
  BY PastEnds DEF SkipWhitespace, White

\* A token ends in the text or right after it; that of the end is where the text ends.
LEMMA TokenEndIsIn ==
    ASSUME NEW s \in Seq(Chars), NEW p \in 1..(Len(s) + 1)
    PROVE  /\ TokenEnd(s, p) \in p..(Len(s) + 1)
           /\ p <= Len(s) => TokenEnd(s, p) > p
<1>1. Len(s) \in Nat
  OBVIOUS
<1>2. CASE p = Len(s) + 1
  BY <1>1, <1>2, AtIsEnd DEF TokenEnd
<1>3. CASE p <= Len(s)
  <2>1. At(s, p) # "end" /\ p \in 1..Len(s)
    BY <1>1, <1>3, AtIsEnd
  <2>2. CASE <<At(s, p), At(s, p + 1)>> \in Pairs
    <3>1. At(s, p + 1) # "end"
      BY <2>2 DEF Pairs
    <3>2. p + 1 <= Len(s)
      BY <1>1, <2>1, <3>1, AtIsEnd
    <3>. QED
      BY <1>1, <2>1, <2>2, <3>2 DEF TokenEnd
  <2>3. CASE <<At(s, p), At(s, p + 1)>> \notin Pairs /\ At(s, p) = Backslash
    <3>1. {p + 2, Len(s) + 1} \in SUBSET Nat
      BY <1>1
    <3>2. Min({p + 2, Len(s) + 1}) \in {p + 2, Len(s) + 1} /\ Min({p + 2, Len(s) + 1}) <= Len(s) + 1
      BY <3>1, MinIsLeast
    <3>3. TokenEnd(s, p) = Min({p + 2, Len(s) + 1})
      BY <2>1, <2>3 DEF TokenEnd
    <3>. QED
      BY <1>1, <2>1, <3>2, <3>3
  <2>4. CASE <<At(s, p), At(s, p + 1)>> \notin Pairs /\ At(s, p) # Backslash /\ IsName(At(s, p))
    <3>1. TokenEnd(s, p) = Past(s, p, Letters \cup Digits \cup {"_"})
      BY <2>1, <2>4 DEF TokenEnd, ReadIdentifier
    <3>2. At(s, p) \in Letters \cup Digits \cup {"_"} /\ "end" \notin Letters \cup Digits \cup {"_"}
      BY <2>4 DEF IsName, Letters, Digits
    <3>3. TokenEnd(s, p) \in p..(Len(s) + 1) /\ TokenEnd(s, p) # p
      BY <3>1, <3>2, PastEnds
    <3>. QED
      BY <1>1, <3>3
  <2>5. CASE /\ <<At(s, p), At(s, p + 1)>> \notin Pairs /\ At(s, p) # Backslash
             /\ ~IsName(At(s, p)) /\ At(s, p) \in Digits
    <3>1. TokenEnd(s, p) = Past(s, p, Letters \cup Digits \cup {"."})
      BY <2>1, <2>5 DEF TokenEnd, ReadNumber
    <3>2. At(s, p) \in Letters \cup Digits \cup {"."} /\ "end" \notin Letters \cup Digits \cup {"."}
      BY <2>5 DEF Letters, Digits
    <3>3. TokenEnd(s, p) \in p..(Len(s) + 1) /\ TokenEnd(s, p) # p
      BY <3>1, <3>2, PastEnds
    <3>. QED
      BY <1>1, <3>3
  <2>6. CASE /\ <<At(s, p), At(s, p + 1)>> \notin Pairs /\ At(s, p) # Backslash
             /\ ~IsName(At(s, p)) /\ At(s, p) \notin Digits
    <3>1. TokenEnd(s, p) = p + 1
      BY <2>1, <2>6 DEF TokenEnd
    <3>. QED
      BY <1>1, <2>1, <3>1
  <2>. QED
    BY <2>2, <2>3, <2>4, <2>5, <2>6
<1>. QED
  BY <1>1, <1>2, <1>3

\* Only the end of the text has the type of the end.
LEMMA TypeIsEnd ==
    ASSUME NEW s \in Seq(Chars), NEW p \in 1..(Len(s) + 1)
    PROVE  /\ TypeAt(s, p) \in TokenTypes
           /\ TypeAt(s, p) = "EOF" <=> p = Len(s) + 1
<1>1. LookUpIdent(Literal(s, p)) \in {"KEYWORD", "IDENT"}
  BY DEF LookUpIdent
<1>2. TypeAt(s, p) = "EOF" <=> At(s, p) = "end"
  BY <1>1 DEF TypeAt
<1>3. TypeAt(s, p) \in TokenTypes
  BY <1>1 DEF TypeAt, TokenTypes
<1>. QED
  BY <1>2, <1>3, AtIsEnd

LEMMA ThreeInSeq ==
    ASSUME NEW S, NEW a \in S, NEW b \in S, NEW c \in S
    PROVE  <<a, b, c>> \in Seq(S)
<1>. QED
  OBVIOUS

LEMMA LiteralIsText ==
    ASSUME NEW s \in Seq(Chars), NEW p \in 1..(Len(s) + 1)
    PROVE  Literal(s, p) \in Seq(Chars)
<1>1. TranslationCharacter \in Seq(Chars)
  <2>1. {"translation", " ", "character"} \subseteq Chars
    BY DEF Chars, White, Letters
  <2>. QED
    BY <2>1, ThreeInSeq DEF TranslationCharacter
<1>2. TokenEnd(s, p) \in p..(Len(s) + 1)
  BY TokenEndIsIn
<1>3. \A n \in p..(TokenEnd(s, p) - 1) : s[n] \in Chars
  BY <1>2
<1>4. SubSeq(s, p, TokenEnd(s, p) - 1) \in Seq(Chars)
  BY <1>2, <1>3, SubSeqProperties
<1>. QED
  BY <1>1, <1>4 DEF Literal

LEMMA NewlinesNat ==
    ASSUME NEW s, NEW p \in Nat, NEW q \in Nat
    PROVE  Newlines(s, p, q) \in Nat
<1>1. IsFiniteSet(p..(q - 1))
  BY FS_Interval
<1>2. IsFiniteSet({r \in p..(q - 1) : s[r] = "nl"})
  BY <1>1, FS_Subset
<1>. QED
  BY <1>2, FS_CardinalityType DEF Newlines

-----------------------------------------------------------------------------
(* The invariant *)

\* The token made next, and what the lexer leaves.
LEMMA NextToken ==
    ASSUME TypeInv, GetNextToken
    PROVE  \E t \in Token :
               /\ token_flow' = Append(token_flow, t)
               /\ position' \in position..(Len(input) + 1)
               /\ line_num' \in Nat
               /\ t.type = "EOF" => position' = Len(input) + 1
               /\ position = Len(input) + 1 => t.type = "EOF" /\ position' = position
               /\ t.type # "EOF" => position' > position
<1> DEFINE p == SkipWhitespace(input, position)
           t == [type |-> TypeAt(input, p), literal |-> Literal(input, p), line |-> line_num']
<1>1. input \in Seq(Chars) /\ position \in 1..(Len(input) + 1) /\ Len(input) \in Nat /\ line_num \in Nat
  BY DEF TypeInv
<1>2. p \in position..(Len(input) + 1) /\ p \in 1..(Len(input) + 1)
  BY <1>1, SkipIsPast
<1>3. line_num' = line_num + Newlines(input, position, p) /\ token_flow' = Append(token_flow, t)
      /\ position' = TokenEnd(input, p)
  BY DEF GetNextToken
<1>. HIDE DEF p
<1>4. line_num' \in Nat
  BY <1>1, <1>2, <1>3, NewlinesNat
<1>5. t \in Token
  BY <1>1, <1>2, <1>4, TypeIsEnd, LiteralIsText DEF Token
<1>6. t.type = "EOF" <=> p = Len(input) + 1
  BY <1>1, <1>2, TypeIsEnd
<1>7. position' \in p..(Len(input) + 1) /\ (p <= Len(input) => position' > p)
  BY <1>1, <1>2, <1>3, TokenEndIsIn
<1>. HIDE DEF t
<1>. QED
  BY <1>1, <1>2, <1>3, <1>4, <1>5, <1>6, <1>7

LEMMA InitIInv == Init => IInv
<1>. SUFFICES ASSUME Init PROVE IInv
  OBVIOUS
<1>1. PICK n \in 0..MaxLength, alphabet \in Alphabets : input \in [1..n -> alphabet]
  BY DEF Init
<1>2. n \in Nat /\ alphabet \subseteq Chars
  BY <1>1, AlphabetsAssumption, MaxLengthAssumption
<1>3. input \in Seq(Chars) /\ Len(input) \in Nat
  BY <1>1, <1>2
<1>4. TypeInv
  BY <1>3 DEF Init, TypeInv
<1>. QED
  BY <1>4 DEF Init, IInv, LookAhead, EndsStay, Moves

\* One token more, at the end of the list.
LEMMA OneMore ==
    ASSUME IInv, GetNextToken
    PROVE  /\ input' = input /\ Len(token_flow') = Len(token_flow) + 1
           /\ \A k \in 1..Len(token_flow) : token_flow'[k] = token_flow[k]
           /\ peek_token' = Len(token_flow')
           /\ cur_token' = Len(token_flow)
           /\ TypeInv' \/ program' \notin Seq(Seq(Chars))
           /\ EndsStay' /\ Moves'
<1>1. TypeInv
  BY DEF IInv
<1>2. PICK t \in Token :
        /\ token_flow' = Append(token_flow, t)
        /\ position' \in position..(Len(input) + 1)
        /\ line_num' \in Nat
        /\ t.type = "EOF" => position' = Len(input) + 1
        /\ position = Len(input) + 1 => t.type = "EOF" /\ position' = position
        /\ t.type # "EOF" => position' > position
  BY <1>1, NextToken
<1>3. token_flow \in Seq(Token) /\ Len(token_flow) \in Nat
  BY <1>1 DEF TypeInv
<1>4. /\ token_flow' \in Seq(Token) /\ Len(token_flow') = Len(token_flow) + 1
      /\ \A k \in 1..Len(token_flow) : token_flow'[k] = token_flow[k]
      /\ token_flow'[Len(token_flow) + 1] = t
  BY <1>2, <1>3
<1>5. input' = input /\ peek_token' = Len(token_flow') /\ cur_token' = peek_token
  BY DEF GetNextToken
<1>6. cur_token' = Len(token_flow)
  BY <1>5 DEF IInv, LookAhead
<1>7. position' \in 1..(Len(input') + 1)
  BY <1>1, <1>2, <1>5 DEF TypeInv
<1>8. TypeInv' \/ program' \notin Seq(Seq(Chars))
  BY <1>1, <1>2, <1>4, <1>5, <1>7 DEF TypeInv
<1>9. EndsStay'
  <2>. SUFFICES ASSUME NEW k \in 1..Len(token_flow'), token_flow'[k].type = "EOF"
                PROVE  /\ position' = Len(input) + 1
                       /\ \A m \in k..Len(token_flow') : token_flow'[m].type = "EOF"
    BY <1>5 DEF EndsStay
  <2>1. CASE k = Len(token_flow) + 1
    BY <1>2, <1>3, <1>4, <2>1
  <2>2. CASE k \in 1..Len(token_flow)
    <3>1. /\ position = Len(input) + 1
          /\ \A m \in k..Len(token_flow) : token_flow[m].type = "EOF"
      BY <1>4, <2>2 DEF IInv, EndsStay
    <3>2. t.type = "EOF" /\ position' = Len(input) + 1
      BY <1>2, <3>1
    <3>. QED
      BY <1>3, <1>4, <2>2, <3>1, <3>2
  <2>. QED
    BY <1>3, <1>4, <2>1, <2>2
<1>10. Moves'
  <2>. SUFFICES ASSUME NEW k \in 1..Len(token_flow'), token_flow'[k].type # "EOF"
                PROVE  k < position'
    BY DEF Moves
  <2>1. position \in Nat /\ position >= 1 /\ position' \in Nat /\ position' >= position
    BY <1>1, <1>2 DEF TypeInv
  <2>2. CASE k \in 1..Len(token_flow)
    BY <1>3, <1>4, <2>1, <2>2 DEF IInv, Moves
  <2>3. CASE k = Len(token_flow) + 1
    <3>1. t.type # "EOF" /\ position' > position
      BY <1>2, <1>4, <2>3
    <3>2. ASSUME Len(token_flow) # 0 PROVE Len(token_flow) < position
      <4>1. Len(token_flow) \in 1..Len(token_flow)
        BY <1>3, <3>2
      <4>2. token_flow[Len(token_flow)].type # "EOF"
        BY <1>2, <3>1, <4>1 DEF IInv, EndsStay
      <4>. QED
        BY <4>1, <4>2 DEF IInv, Moves
    <3>. QED
      BY <1>3, <2>1, <2>3, <3>1, <3>2
  <2>. QED
    BY <1>3, <1>4, <2>2, <2>3
<1>. QED
  BY <1>4, <1>5, <1>6, <1>8, <1>9, <1>10

LEMMA NextIInv == IInv /\ [Next]_vars => IInv'
<1>. SUFFICES ASSUME IInv, [Next]_vars PROVE IInv'
  OBVIOUS
<1>1. token_flow \in Seq(Token) /\ Len(token_flow) \in Nat /\ program \in Seq(Seq(Chars)) /\ Len(program) \in Nat
  BY DEF IInv, TypeInv
<1>2. CASE Construct
  <2>1. GetNextToken /\ program' = program /\ cur_token = 0
    BY <1>2 DEF Construct, Constructed
  <2>2. Len(token_flow) < 2
    BY <1>1, <2>1 DEF IInv, LookAhead
  <2>3. TypeInv' /\ EndsStay' /\ Moves'
    BY <1>1, <2>1, OneMore
  <2>4. token_flow' # <<>>
    BY <1>1, <2>1, OneMore
  <2>5. LookAhead'
    BY <1>1, <2>1, <2>2, <2>4, OneMore DEF IInv, LookAhead
  <2>. QED
    BY <2>3, <2>5 DEF IInv
<1>3. CASE ParseProgram
  <2>1. /\ GetNextToken /\ cur_token # 0 /\ token_flow[cur_token].type # "EOF"
        /\ program' = Append(program, token_flow[cur_token].literal)
    BY <1>3 DEF ParseProgram, Constructed, GoesOn, CurTokenIs
  <2>2. /\ Len(token_flow) >= 2 /\ cur_token = Len(token_flow) - 1 /\ cur_token = Len(program) + 1
        /\ cur_token \in 1..Len(token_flow)
    BY <1>1, <2>1 DEF IInv, LookAhead
  <2>3. token_flow[cur_token].literal \in Seq(Chars)
    <3>1. token_flow[cur_token] \in Token
      BY <1>1, <2>2
    <3>. QED
      BY <3>1 DEF Token
  <2>4. /\ program' \in Seq(Seq(Chars)) /\ Len(program') = Len(program) + 1
        /\ \A k \in 1..Len(program) : program'[k] = program[k]
        /\ program'[Len(program) + 1] = token_flow[cur_token].literal
    BY <1>1, <2>1, <2>3
  <2>5. TypeInv' /\ EndsStay' /\ Moves'
    BY <2>1, <2>4, OneMore
  <2>6. \A k \in 1..Len(program') : program'[k] = token_flow'[k].literal /\ token_flow'[k].type # "EOF"
    <3>. SUFFICES ASSUME NEW k \in 1..Len(program')
                  PROVE  program'[k] = token_flow'[k].literal /\ token_flow'[k].type # "EOF"
      OBVIOUS
    <3>1. k \in 1..Len(token_flow) /\ token_flow'[k] = token_flow[k]
      BY <1>1, <2>1, <2>2, <2>4, OneMore
    <3>2. CASE k \in 1..Len(program)
      BY <2>4, <3>1, <3>2 DEF IInv, LookAhead
    <3>3. CASE k = Len(program) + 1
      BY <2>1, <2>2, <2>4, <3>1, <3>3
    <3>. QED
      BY <1>1, <2>4, <3>2, <3>3
  <2>7. LookAhead'
    <3>1. token_flow' # <<>> /\ Len(token_flow') >= 2 /\ Len(program') = Len(token_flow') - 2
      BY <1>1, <2>1, <2>2, <2>4, OneMore
    <3>. QED
      BY <1>1, <2>1, <2>6, <3>1, OneMore DEF LookAhead
  <2>. QED
    BY <2>5, <2>7 DEF IInv
<1>4. CASE UNCHANGED vars
  BY <1>4 DEF vars, IInv, TypeInv, LookAhead, EndsStay, Moves
<1>. QED
  BY <1>2, <1>3, <1>4 DEF Next

LEMMA AlwaysIInv == Spec => []IInv
<1>. QED
  BY InitIInv, NextIInv, PTL DEF Spec

LEMMA EndsAreTwo == IInv => TwoEnds
<1>. SUFFICES ASSUME IInv PROVE TwoEnds
  OBVIOUS
<1>1. token_flow \in Seq(Token) /\ Len(token_flow) \in Nat /\ Len(program) \in Nat
  BY DEF IInv, TypeInv
<1>2. \A k \in 1..Len(program) : program[k] = token_flow[k].literal /\ token_flow[k].type # "EOF"
  BY DEF IInv, LookAhead
<1>3. Len(program) <= Len(input)
  <2>1. ASSUME Len(program) # 0 PROVE Len(program) < position
    <3>1. Len(program) \in 1..Len(token_flow) /\ Len(program) \in 1..Len(program)
      BY <1>1, <2>1 DEF IInv, LookAhead
    <3>. QED
      BY <1>2, <3>1 DEF IInv, Moves
  <2>2. position \in 1..(Len(input) + 1) /\ Len(input) \in Nat
    BY DEF IInv, TypeInv
  <2>. QED
    BY <1>1, <2>1, <2>2
<1>4. ASSUME Parsed
      PROVE  /\ position = Len(input) + 1 /\ Len(token_flow) = Len(program) + 2
             /\ \A k \in 1..Len(token_flow) : token_flow[k].type = "EOF" <=> k > Len(program)
  <2>1. cur_token # 0 /\ token_flow[cur_token].type = "EOF"
    BY <1>4 DEF Parsed, Constructed, GoesOn, CurTokenIs
  <2>2. Len(token_flow) >= 2 /\ cur_token = Len(token_flow) - 1 /\ Len(token_flow) = Len(program) + 2
    BY <1>1, <2>1 DEF IInv, LookAhead
  <2>3. /\ position = Len(input) + 1
        /\ \A m \in cur_token..Len(token_flow) : token_flow[m].type = "EOF"
    BY <1>1, <2>1, <2>2 DEF IInv, EndsStay
  <2>4. \A k \in 1..Len(token_flow) : token_flow[k].type = "EOF" <=> k > Len(program)
    BY <1>1, <1>2, <2>2, <2>3
  <2>. QED
    BY <2>2, <2>3, <2>4
<1>. QED
  BY <1>2, <1>3, <1>4 DEF TwoEnds

\* Whatever the text, the list the callers take holds each token ParseProgram passed, in
\* order, then two for the end, and the whole text has been read; and ParseProgram passes
\* no more tokens than the text has characters.
THEOREM TwoEndsHolds == Spec => []TwoEnds
<1>. QED
  BY EndsAreTwo, AlwaysIInv, PTL

-----------------------------------------------------------------------------
(* Induction and recursion, stated with sets and functions *)

\* A set that holds 0 and with each number below N the next holds 0..N.
LEMMA UpTo ==
    ASSUME NEW N \in Nat, NEW T, 0 \in T, \A n \in 0..(N - 1) : n \in T => n + 1 \in T
    PROVE  \A n \in 0..N : n \in T
<1> DEFINE Missing == {n \in 0..N : n \notin T}
<1>1. SUFFICES ASSUME Missing # {} PROVE FALSE
  OBVIOUS
<1>2. Missing \in SUBSET Nat
  OBVIOUS
<1>3. PICK x \in Missing : \A y \in Missing : x <= y
  <2>. HIDE DEF Missing
  <2>. QED
    BY <1>1, <1>2, MinIsLeast
<1>4. x \in 1..N
  BY <1>3
<1>5. x - 1 \in 0..(N - 1) /\ (x - 1) + 1 = x
  BY <1>4
<1>6. x - 1 \in Missing
  BY <1>3, <1>5
<1>. QED
  BY <1>3, <1>4, <1>5, <1>6

\* A function can be given by its value at 0 and its steps.
Steps(N, S) == [1..N -> [S -> S]]
Follows(f, N, S, b, h) == f \in [0..N -> S] /\ f[0] = b /\ \A n \in 1..N : f[n] = h[n][f[n - 1]]
LEMMA Recursion ==
    ASSUME NEW N \in Nat, NEW S, NEW b \in S, NEW h \in Steps(N, S)
    PROVE  \E f : Follows(f, N, S, b, h)
<1> DEFINE Upto(n) == \E f \in [0..n -> S] : f[0] = b /\ \A m \in 1..n : f[m] = h[m][f[m - 1]]
           T == {n \in 0..N : Upto(n)}
<1>. USE DEF Steps
<1>1. Upto(0)
  <2>. DEFINE f == [m \in 0..0 |-> b]
  <2>1. f \in [0..0 -> S] /\ f[0] = b /\ \A m \in 1..0 : f[m] = h[m][f[m - 1]]
    OBVIOUS
  <2>. QED
    BY <2>1
<1>2. ASSUME NEW n \in 0..(N - 1), Upto(n) PROVE Upto(n + 1)
  <2>1. PICK f \in [0..n -> S] : f[0] = b /\ \A m \in 1..n : f[m] = h[m][f[m - 1]]
    BY <1>2
  <2>. DEFINE g == [m \in 0..(n + 1) |-> IF m = n + 1 THEN h[n + 1][f[n]] ELSE f[m]]
  <2>2. n + 1 \in 1..N /\ n \in 0..n
    OBVIOUS
  <2>3. h[n + 1][f[n]] \in S
    BY <2>2
  <2>4. \A m \in 0..(n + 1) : m # n + 1 => m \in 0..n
    OBVIOUS
  <2>5. g \in [0..(n + 1) -> S]
    BY <2>3, <2>4
  <2>6. g[0] = b
    BY <2>1
  <2>7. ASSUME NEW m \in 1..(n + 1) PROVE g[m] = h[m][g[m - 1]]
    <3>1. m - 1 \in 0..n /\ g[m - 1] = f[m - 1]
      OBVIOUS
    <3>2. CASE m = n + 1
      BY <3>1, <3>2
    <3>3. CASE m \in 1..n
      BY <2>1, <3>1, <3>3
    <3>. QED
      BY <3>2, <3>3
  <2>. HIDE DEF g
  <2>. QED
    BY <2>5, <2>6, <2>7
<1>. HIDE DEF Upto
<1>3. 0 \in T /\ \A n \in 0..(N - 1) : n \in T => n + 1 \in T
  BY <1>1, <1>2
<1>4. \A n \in 0..N : n \in T
  <2>. HIDE DEF T
  <2>. QED
    BY <1>3, UpTo
<1>. QED
  BY <1>4 DEF Upto, Follows

\* The texts put together up to each.
Flattens(f, S, ss) ==
    /\ f \in [0..Len(ss) -> Seq(S)]
    /\ f[0] = <<>>
    /\ \A n \in 1..Len(ss) : f[n] = f[n - 1] \o ss[n]
    /\ FlattenSeq(ss) = f[Len(ss)]

LEMMA FlattenIsFunction ==
    ASSUME NEW S, NEW ss \in Seq(Seq(S))
    PROVE  \E f : Flattens(f, S, ss)
<1> DEFINE N == Len(ss)
           h == [n \in 1..N |-> [t \in Seq(S) |-> t \o ss[n]]]
<1>1. N \in Nat /\ <<>> \in Seq(S) /\ \A n \in 1..N : ss[n] \in Seq(S)
  OBVIOUS
<1>. HIDE DEF N
<1>2. h \in Steps(N, Seq(S))
  <2>1. \A n \in 1..N : \A t \in Seq(S) : t \o ss[n] \in Seq(S)
    BY <1>1
  <2>2. \A n \in 1..N : [t \in Seq(S) |-> t \o ss[n]] \in [Seq(S) -> Seq(S)]
    BY <2>1
  <2>. QED
    BY <2>2 DEF Steps
<1>3. PICK f : Follows(f, N, Seq(S), <<>>, h)
  <2>. HIDE DEF h
  <2>. QED
    BY <1>1, <1>2, Recursion
<1>4. f \in [0..N -> Seq(S)] /\ f[0] = <<>>
  BY <1>3 DEF Follows
<1>5. ASSUME NEW n \in 1..N PROVE f[n] = f[n - 1] \o ss[n]
  <2>1. f[n] = h[n][f[n - 1]] /\ n - 1 \in 0..N
    <3>. HIDE DEF h
    <3>. QED
      BY <1>1, <1>3 DEF Follows
  <2>2. f[n - 1] \in Seq(S)
    BY <1>4, <2>1
  <2>. QED
    BY <2>1, <2>2
<1>. HIDE DEF h
<1>6. FlattenSeq(ss) = f[N]
  <2>1. CASE N = 0
    <3>1. ss = <<>>
      BY <2>1 DEF N
    <3>. QED
      BY <1>4, <2>1, <3>1 DEF FlattenSeq
  <2>2. CASE N # 0
    <3>. DEFINE IsIt(g) == g = [i \in 1..N |-> IF i = 1 THEN ss[i] ELSE g[i - 1] \o ss[i]]
                g == CHOOSE g : IsIt(g)
                k == [i \in 1..N |-> f[i]]
    <3>1. FlattenSeq(ss) = g[N]
      BY <2>2 DEF FlattenSeq, N
    <3>2. ASSUME 1 \in 1..N PROVE f[1] = ss[1]
      <4>1. PICK i \in 1..N : i = 1
        BY <3>2
      <4>2. f[i] = f[i - 1] \o ss[i] /\ i - 1 = 0 /\ ss[i] \in Seq(S)
        <5>1. f[i] = f[i - 1] \o ss[i]
          BY <1>5
        <5>2. i - 1 = 0
          BY <4>1
        <5>3. ss[i] \in Seq(S)
          BY <1>1
        <5>. QED
          BY <5>1, <5>2, <5>3
      <4>3. f[i] = <<>> \o ss[i]
        BY <1>4, <4>2
      <4>. QED
        BY <4>1, <4>2, <4>3
    <3>3. IsIt(k)
      <4>1. ASSUME NEW i \in 1..N PROVE k[i] = IF i = 1 THEN ss[i] ELSE k[i - 1] \o ss[i]
        <5>1. CASE i = 1
          BY <3>2, <5>1
        <5>2. CASE i # 1
          <6>1. i - 1 \in 1..N
            BY <1>1, <5>2
          <6>. QED
            BY <1>5, <5>2, <6>1
        <5>. QED
          BY <5>1, <5>2
      <4>. QED
        BY <4>1
    <3>. HIDE DEF k
    <3>4. IsIt(g)
      <4>. HIDE DEF IsIt
      <4>. QED
        BY <3>3
    <3>5. \A i \in 1..N : g[i] = IF i = 1 THEN ss[i] ELSE g[i - 1] \o ss[i]
      <4>. HIDE DEF g
      <4>. QED
        BY <3>4
    <3>. HIDE DEF g
    <3>. DEFINE Same == {n \in 0..N : n = 0 \/ g[n] = f[n]}
    <3>6. ASSUME NEW n \in 0..(N - 1), n \in Same PROVE n + 1 \in Same
      <4>1. PICK i \in 1..N : i = n + 1
        BY <1>1
      <4>2. g[i] = f[i]
        <5>1. CASE n = 0
          <6>1. i = 1
            BY <4>1, <5>1
          <6>. QED
            BY <3>2, <3>5, <6>1
        <5>2. CASE n # 0
          <6>1. i # 1 /\ i - 1 = n /\ g[n] = f[n]
            BY <1>1, <3>6, <4>1, <5>2
          <6>2. g[i] = g[n] \o ss[i] /\ f[i] = f[n] \o ss[i]
            BY <1>5, <3>5, <6>1
          <6>. QED
            BY <6>1, <6>2
        <5>. QED
          BY <5>1, <5>2
      <4>3. n + 1 \in 0..N
        BY <1>1
      <4>. QED
        BY <4>1, <4>2, <4>3
    <3>7. \A n \in 0..N : n \in Same
      <4>1. 0 \in Same
        BY <1>1
      <4>. HIDE DEF Same
      <4>. QED
        BY <1>1, <3>6, <4>1, UpTo
    <3>. QED
      BY <1>1, <2>2, <3>1, <3>7
  <2>. QED
    BY <2>1, <2>2
<1>. QED
  BY <1>4, <1>5, <1>6 DEF Flattens, N

LEMMA FlattenType == ASSUME NEW S, NEW ss \in Seq(Seq(S)) PROVE FlattenSeq(ss) \in Seq(S)
<1>1. PICK f : Flattens(f, S, ss)
  BY FlattenIsFunction
<1>2. Len(ss) \in 0..Len(ss)
  OBVIOUS
<1>. QED
  BY <1>1, <1>2 DEF Flattens

LEMMA FlattenNothing == FlattenSeq(<<>>) = <<>>
<1>. QED
  BY DEF FlattenSeq

\* One text more.
LEMMA FlattenAppend ==
    ASSUME NEW S, NEW ss \in Seq(Seq(S)), NEW x \in Seq(S)
    PROVE  FlattenSeq(Append(ss, x)) = FlattenSeq(ss) \o x
<1>. DEFINE tt == Append(ss, x)
<1>1. /\ tt \in Seq(Seq(S)) /\ Len(ss) \in Nat /\ Len(tt) = Len(ss) + 1
      /\ tt[Len(ss) + 1] = x /\ \A n \in 1..Len(ss) : tt[n] = ss[n]
  OBVIOUS
<1>. HIDE DEF tt
<1>2. PICK f : Flattens(f, S, tt)
  BY <1>1, FlattenIsFunction
<1>3. PICK g : Flattens(g, S, ss)
  BY FlattenIsFunction
<1>. DEFINE T == {n \in 0..Len(ss) : f[n] = g[n]}
<1>4. 0 \in T
  BY <1>1, <1>2, <1>3 DEF Flattens
<1>5. ASSUME NEW n \in 0..(Len(ss) - 1), n \in T PROVE n + 1 \in T
  <2>1. n + 1 \in 1..Len(ss) /\ n + 1 \in 1..Len(tt) /\ n + 1 \in 0..Len(ss) /\ (n + 1) - 1 = n
    BY <1>1
  <2>2. f[n + 1] = f[n] \o tt[n + 1]
    BY <1>2, <2>1 DEF Flattens
  <2>3. g[n + 1] = g[n] \o ss[n + 1]
    BY <1>3, <2>1 DEF Flattens
  <2>. QED
    BY <1>1, <1>5, <2>1, <2>2, <2>3
<1>6. \A n \in 0..Len(ss) : n \in T
  <2>. HIDE DEF T
  <2>. QED
    BY <1>1, <1>4, <1>5, UpTo
<1>7. f[Len(ss)] = FlattenSeq(ss)
  BY <1>1, <1>3, <1>6 DEF Flattens
<1>8. Len(ss) + 1 \in 1..Len(tt) /\ (Len(ss) + 1) - 1 = Len(ss)
  BY <1>1
<1>9. FlattenSeq(tt) = f[Len(ss)] \o tt[Len(ss) + 1]
  BY <1>1, <1>2, <1>8 DEF Flattens
<1>. QED
  BY <1>1, <1>7, <1>9 DEF tt

-----------------------------------------------------------------------------
(* What the lexer goes over *)

\* A loop over characters goes over those characters only.
LEMMA PastBefore ==
    ASSUME NEW s \in Seq(Chars), NEW p \in 1..(Len(s) + 1), NEW C, "end" \notin C
    PROVE  \A r \in p..(Past(s, p, C) - 1) : s[r] \in C /\ r \in 1..Len(s)
<1> DEFINE T == {q \in p..(Len(s) + 1) : At(s, q) \notin C}
<1>1. Len(s) \in Nat
  OBVIOUS
<1>2. Len(s) + 1 \in T
  BY <1>1 DEF At
<1>3. T \in SUBSET Nat /\ T # {}
  BY <1>1, <1>2
<1>4. Past(s, p, C) = Min(T)
  BY DEF Past
<1>5. Past(s, p, C) \in p..(Len(s) + 1)
  BY PastEnds
<1>6. \A y \in T : Past(s, p, C) <= y
  <2>. HIDE DEF T
  <2>. QED
    BY <1>3, <1>4, MinIsLeast
<1>7. ASSUME NEW r \in p..(Past(s, p, C) - 1) PROVE s[r] \in C /\ r \in 1..Len(s)
  <2>1. r \in 1..Len(s) /\ r \in p..(Len(s) + 1) /\ ~(Past(s, p, C) <= r)
    BY <1>1, <1>5
  <2>2. r \notin T
    BY <1>6, <2>1
  <2>3. At(s, r) \in C
    BY <2>1, <2>2
  <2>. QED
    BY <2>1, <2>3 DEF At
<1>. QED
  BY <1>7

\* Before a token there are blanks.
LEMMA SkipsWhite ==
    ASSUME NEW s \in Seq(Chars), NEW p \in 1..(Len(s) + 1)
    PROVE  /\ SkipWhitespace(s, p) \in p..(Len(s) + 1)
           /\ \A r \in p..(SkipWhitespace(s, p) - 1) : s[r] \in White /\ r \in 1..Len(s)
           /\ SkipWhitespace(s, p) <= Len(s) => s[SkipWhitespace(s, p)] \notin White
<1>1. "end" \notin White
  BY DEF White
<1>2. /\ Past(s, p, White) \in p..(Len(s) + 1) /\ At(s, Past(s, p, White)) \notin White
      /\ \A r \in p..(Past(s, p, White) - 1) : s[r] \in White /\ r \in 1..Len(s)
  BY <1>1, PastBefore, PastEnds
<1>3. PICK x \in p..(Len(s) + 1) : x = Past(s, p, White)
  BY <1>2
<1>4. Len(s) \in Nat
  OBVIOUS
<1>5. x <= Len(s) => s[x] \notin White
  BY <1>2, <1>3, <1>4 DEF At
<1>. QED
  BY <1>2, <1>3, <1>5 DEF SkipWhitespace

\* In a token there are none, a backslash taking any character with it.
LEMMA TokensAreDark ==
    ASSUME NEW s \in Seq(Chars), ~Escapes(s), NEW p \in 1..Len(s), s[p] \notin White
    PROVE  \A r \in p..(TokenEnd(s, p) - 1) : r \in 1..Len(s) /\ s[r] \notin White
<1>1. Len(s) \in Nat /\ p \in 1..(Len(s) + 1) /\ p \in Nat
  OBVIOUS
<1>2. At(s, p) = s[p] /\ At(s, p) # "end"
  BY <1>1, AtIsEnd DEF At
<1>3. At(s, p) # Backslash
  BY <1>2 DEF Escapes
<1>4. TokenEnd(s, p) \in p..(Len(s) + 1)
  BY <1>1, TokenEndIsIn
<1>5. \A r \in p..(TokenEnd(s, p) - 1) : r \in 1..Len(s)
  BY <1>1, <1>4
<1>6. CASE <<At(s, p), At(s, p + 1)>> \in Pairs
  <2>1. At(s, p + 1) \notin White /\ At(s, p + 1) # "end"
    BY <1>6 DEF Pairs, White
  <2>2. p + 1 \in 1..Len(s) /\ s[p + 1] \notin White
    BY <1>1, <2>1 DEF At
  <2>3. TokenEnd(s, p) = p + 2
    BY <1>2, <1>6 DEF TokenEnd
  <2>4. \A r \in p..((p + 2) - 1) : r = p \/ r = p + 1
    BY <1>1
  <2>. QED
    BY <1>5, <2>2, <2>3, <2>4
<1>7. CASE <<At(s, p), At(s, p + 1)>> \notin Pairs /\ IsName(At(s, p))
  <2>1. TokenEnd(s, p) = Past(s, p, Letters \cup Digits \cup {"_"})
    BY <1>2, <1>3, <1>7 DEF TokenEnd, ReadIdentifier
  <2>2. "end" \notin Letters \cup Digits \cup {"_"} /\ \A c \in Letters \cup Digits \cup {"_"} : c \notin White
    BY DEF Letters, Digits, White
  <2>3. \A r \in p..(TokenEnd(s, p) - 1) : s[r] \in Letters \cup Digits \cup {"_"}
    BY <1>1, <2>1, <2>2, PastBefore
  <2>. QED
    BY <1>5, <2>2, <2>3
<1>8. CASE <<At(s, p), At(s, p + 1)>> \notin Pairs /\ ~IsName(At(s, p)) /\ At(s, p) \in Digits
  <2>1. TokenEnd(s, p) = Past(s, p, Letters \cup Digits \cup {"."})
    BY <1>2, <1>3, <1>8 DEF TokenEnd, ReadNumber
  <2>2. "end" \notin Letters \cup Digits \cup {"."} /\ \A c \in Letters \cup Digits \cup {"."} : c \notin White
    BY DEF Letters, Digits, White
  <2>3. \A r \in p..(TokenEnd(s, p) - 1) : s[r] \in Letters \cup Digits \cup {"."}
    BY <1>1, <2>1, <2>2, PastBefore
  <2>. QED
    BY <1>5, <2>2, <2>3
<1>9. CASE <<At(s, p), At(s, p + 1)>> \notin Pairs /\ ~IsName(At(s, p)) /\ At(s, p) \notin Digits
  <2>1. TokenEnd(s, p) = p + 1
    BY <1>2, <1>3, <1>9 DEF TokenEnd
  <2>2. \A r \in p..((p + 1) - 1) : r = p
    BY <1>1
  <2>. QED
    BY <1>5, <2>1, <2>2
<1>. QED
  BY <1>6, <1>7, <1>8, <1>9

-----------------------------------------------------------------------------
(* Text without blanks *)

NoBlank(s) == [k \in 1..Len(s) |-> IF s[k] \in White THEN <<>> ELSE <<s[k]>>]

LEMMA NoBlankType == ASSUME NEW s \in Seq(Chars) PROVE NoBlank(s) \in Seq(Seq(Chars)) /\ Len(NoBlank(s)) = Len(s)
<1>1. Len(s) \in Nat
  OBVIOUS
<1>2. \A k \in 1..Len(s) : (IF s[k] \in White THEN <<>> ELSE <<s[k]>>) \in Seq(Chars)
  <2>. SUFFICES ASSUME NEW k \in 1..Len(s) PROVE (IF s[k] \in White THEN <<>> ELSE <<s[k]>>) \in Seq(Chars)
    OBVIOUS
  <2>1. s[k] \in Chars
    OBVIOUS
  <2>2. <<>> \in Seq(Chars) /\ <<s[k]>> \in Seq(Chars)
    BY <2>1
  <2>. QED
    BY <2>2
<1>3. NoBlank(s) \in [1..Len(s) -> Seq(Chars)]
  BY <1>2 DEF NoBlank
<1>. QED
  BY <1>1, <1>3

LEMMA NonWhiteType == ASSUME NEW s \in Seq(Chars) PROVE NonWhite(s) \in Seq(Chars)
<1>. QED
  BY NoBlankType, FlattenType DEF NonWhite, NoBlank

LEMMA NonWhiteAppend ==
    ASSUME NEW t \in Seq(Chars), NEW c \in Chars
    PROVE  /\ c \in White => NonWhite(Append(t, c)) = NonWhite(t)
           /\ c \notin White => NonWhite(Append(t, c)) = Append(NonWhite(t), c)
<1>. DEFINE a == Append(t, c)
            x == IF c \in White THEN <<>> ELSE <<c>>
<1>1. /\ a \in Seq(Chars) /\ Len(t) \in Nat /\ Len(a) = Len(t) + 1
      /\ a[Len(t) + 1] = c /\ \A n \in 1..Len(t) : a[n] = t[n]
  OBVIOUS
<1>2. x \in Seq(Chars)
  <2>1. <<>> \in Seq(Chars) /\ <<c>> \in Seq(Chars)
    OBVIOUS
  <2>. QED
    BY <2>1
<1>. HIDE DEF a, x
<1>3. NoBlank(t) \in Seq(Seq(Chars)) /\ Len(NoBlank(t)) = Len(t) /\ NoBlank(a) \in Seq(Seq(Chars)) /\ Len(NoBlank(a)) = Len(t) + 1
  BY <1>1, NoBlankType
<1>4. NoBlank(a)[Len(t) + 1] = x
  BY <1>1 DEF NoBlank, x
<1>5. ASSUME NEW n \in 1..Len(t) PROVE NoBlank(a)[n] = NoBlank(t)[n]
  <2>1. n \in 1..Len(a) /\ a[n] = t[n]
    BY <1>1
  <2>. QED
    BY <2>1 DEF NoBlank
<1>6. NoBlank(a) = Append(NoBlank(t), x)
  <2>. DEFINE u == NoBlank(a)
              v == NoBlank(t)
              w == Append(v, x)
  <2>1. u \in Seq(Seq(Chars)) /\ v \in Seq(Seq(Chars)) /\ Len(u) = Len(t) + 1 /\ Len(v) = Len(t)
    BY <1>3
  <2>2. u[Len(t) + 1] = x /\ \A n \in 1..Len(t) : u[n] = v[n]
    BY <1>4, <1>5
  <2>. HIDE DEF u, v
  <2>3. /\ w \in Seq(Seq(Chars)) /\ Len(w) = Len(t) + 1 /\ w[Len(t) + 1] = x
        /\ \A n \in 1..Len(t) : w[n] = v[n]
    BY <1>1, <1>2, <2>1
  <2>. HIDE DEF w
  <2>4. \A n \in 1..Len(u) : u[n] = w[n]
    <3>1. \A n \in 1..Len(u) : n \in 1..Len(t) \/ n = Len(t) + 1
      BY <1>1, <2>1
    <3>. QED
      BY <2>2, <2>3, <3>1
  <2>5. u = w
    BY <2>1, <2>3, <2>4, SeqEqual
  <2>. QED
    BY <2>5 DEF u, v, w
<1>7. FlattenSeq(NoBlank(a)) = FlattenSeq(NoBlank(t)) \o x
  BY <1>2, <1>3, <1>6, FlattenAppend
<1>8. NonWhite(a) = NonWhite(t) \o x
  BY <1>7 DEF NonWhite, NoBlank
<1>9. NonWhite(t) \in Seq(Chars)
  BY NonWhiteType
<1>10. CASE c \in White
  <2>1. x = <<>>
    BY <1>10 DEF x
  <2>. QED
    BY <1>8, <1>9, <1>10, <2>1 DEF a
<1>11. CASE c \notin White
  <2>1. x = <<c>>
    BY <1>11 DEF x
  <2>2. NonWhite(t) \o <<c>> = Append(NonWhite(t), c)
    BY <1>9
  <2>. QED
    BY <1>8, <1>11, <2>1, <2>2 DEF a
<1>. QED
  BY <1>10, <1>11

\* A stretch of blanks adds nothing, one without blanks itself.
LEMMA Stretch ==
    ASSUME NEW s \in Seq(Chars), NEW a \in 1..(Len(s) + 1), NEW b \in a..(Len(s) + 1)
    PROVE  /\ (\A r \in a..(b - 1) : s[r] \in White) =>
                  NonWhite(SubSeq(s, 1, b - 1)) = NonWhite(SubSeq(s, 1, a - 1))
           /\ (\A r \in a..(b - 1) : s[r] \notin White) =>
                  NonWhite(SubSeq(s, 1, b - 1)) = NonWhite(SubSeq(s, 1, a - 1)) \o SubSeq(s, a, b - 1)
<1>. DEFINE Dark(n) == NonWhite(SubSeq(s, 1, a - 1)) \o SubSeq(s, a, (a + n) - 1)
            From(n) == NonWhite(SubSeq(s, 1, (a + n) - 1))
            Blanks == {n \in 0..(b - a) : From(n) = From(0)}
            Darks == {n \in 0..(b - a) : From(n) = Dark(n)}
<1>1. Len(s) \in Nat /\ a \in Nat /\ b \in Nat /\ b - a \in Nat /\ a <= b /\ b <= Len(s) + 1
  OBVIOUS
<1>2. ASSUME NEW n \in 0..((b - a) - 1)
      PROVE  /\ s[a + n] \in Chars /\ a + n \in a..(b - 1) /\ n + 1 \in 0..(b - a) /\ n \in 0..(b - a)
             /\ s[a + n] \in White => From(n + 1) = From(n)
             /\ s[a + n] \notin White => From(n + 1) = Append(From(n), s[a + n])
             /\ Dark(n + 1) = Append(Dark(n), s[a + n])
  <2>1. PICK m \in 0..(Len(s) - 1) : a + n = m + 1
    <3>1. (a + n) - 1 \in 0..(Len(s) - 1) /\ a + n = ((a + n) - 1) + 1
      BY <1>1
    <3>. QED
      BY <3>1
  <2>2. (a + n) - 1 = m /\ (a + (n + 1)) - 1 = m + 1 /\ m + 1 \in 1..Len(s) /\ m + 1 \in a..(b - 1) /\ a <= m + 1
    BY <1>1, <2>1
  <2>3. /\ SubSeq(s, 1, m) \in Seq(Chars) /\ s[m + 1] \in Chars
        /\ SubSeq(s, 1, m + 1) = Append(SubSeq(s, 1, m), s[m + 1])
    BY <1>1, <2>2
  <2>4. From(n) = NonWhite(SubSeq(s, 1, m)) /\ From(n + 1) = NonWhite(SubSeq(s, 1, m + 1))
    BY <2>2
  <2>5. PICK t \in Seq(Chars), c \in Chars : t = SubSeq(s, 1, m) /\ c = s[m + 1]
    BY <2>3
  <2>6. (c \in White => From(n + 1) = From(n)) /\ (c \notin White => From(n + 1) = Append(From(n), c))
    <3>. HIDE DEF From
    <3>. QED
      BY <2>3, <2>4, <2>5, NonWhiteAppend
  <2>7. Dark(n + 1) = Append(Dark(n), c)
    <3>1. SubSeq(s, a, m) \in Seq(Chars)
      BY <1>1, <2>2
    <3>2. SubSeq(s, a, m + 1) = Append(SubSeq(s, a, m), s[m + 1])
      BY <1>1, <2>2
    <3>3. SubSeq(s, 1, a - 1) \in Seq(Chars)
      BY <1>1
    <3>4. NonWhite(SubSeq(s, 1, a - 1)) \in Seq(Chars)
      BY <3>3, NonWhiteType
    <3>5. PICK x \in Seq(Chars), y \in Seq(Chars) : x = NonWhite(SubSeq(s, 1, a - 1)) /\ y = SubSeq(s, a, m)
      BY <3>1, <3>4
    <3>6. x \o Append(y, c) = Append(x \o y, c)
      OBVIOUS
    <3>. QED
      BY <2>2, <2>5, <3>2, <3>5, <3>6
  <2>8. n + 1 \in 0..(b - a) /\ n \in 0..(b - a)
    BY <1>1
  <2>. QED
    BY <2>1, <2>2, <2>5, <2>6, <2>7, <2>8
<1>3. From(0) = Dark(0) /\ From(0) = NonWhite(SubSeq(s, 1, a - 1)) /\ 0 \in 0..(b - a)
  <2>1. (a + 0) - 1 = a - 1
    BY <1>1
  <2>2. SubSeq(s, a, a - 1) = <<>>
    BY <1>1
  <2>3. SubSeq(s, 1, a - 1) \in Seq(Chars)
    BY <1>1
  <2>4. NonWhite(SubSeq(s, 1, a - 1)) \in Seq(Chars)
    BY <2>3, NonWhiteType
  <2>5. NonWhite(SubSeq(s, 1, a - 1)) \o <<>> = NonWhite(SubSeq(s, 1, a - 1))
    BY <2>4
  <2>6. From(0) = NonWhite(SubSeq(s, 1, a - 1))
    BY <2>1
  <2>7. Dark(0) = NonWhite(SubSeq(s, 1, a - 1)) \o <<>>
    BY <2>1, <2>2
  <2>8. 0 \in 0..(b - a)
    BY <1>1
  <2>. HIDE DEF From, Dark
  <2>. QED
    BY <2>5, <2>6, <2>7, <2>8
<1>. HIDE DEF From, Dark
<1>4. ASSUME \A r \in a..(b - 1) : s[r] \in White PROVE From(b - a) = From(0)
  <2>1. \A n \in 0..((b - a) - 1) : n \in Blanks => n + 1 \in Blanks
    BY <1>2, <1>4
  <2>2. 0 \in Blanks
    BY <1>3
  <2>3. \A n \in 0..(b - a) : n \in Blanks
    <3>. HIDE DEF Blanks
    <3>1. PICK d \in Nat : d = b - a
      BY <1>1
    <3>. QED
      BY <2>1, <2>2, <3>1, UpTo
  <2>. QED
    BY <1>1, <2>3
<1>5. ASSUME \A r \in a..(b - 1) : s[r] \notin White PROVE From(b - a) = Dark(b - a)
  <2>1. \A n \in 0..((b - a) - 1) : n \in Darks => n + 1 \in Darks
    BY <1>2, <1>5
  <2>2. 0 \in Darks
    BY <1>3
  <2>3. \A n \in 0..(b - a) : n \in Darks
    <3>. HIDE DEF Darks
    <3>1. PICK d \in Nat : d = b - a
      BY <1>1
    <3>. QED
      BY <2>1, <2>2, <3>1, UpTo
  <2>. QED
    BY <1>1, <2>3
<1>6. (a + (b - a)) - 1 = b - 1
  BY <1>1
<1>7. From(b - a) = NonWhite(SubSeq(s, 1, b - 1)) /\ Dark(b - a) = NonWhite(SubSeq(s, 1, a - 1)) \o SubSeq(s, a, b - 1)
  BY <1>6 DEF From, Dark
<1>. QED
  BY <1>3, <1>4, <1>5, <1>7

\* Rows are counted on, and a token holds no newline.
LEMMA NewlinesOn ==
    ASSUME NEW s, NEW a \in Nat, NEW b \in Nat, NEW c \in Nat, a <= b, b <= c
    PROVE  /\ Newlines(s, a, c) = Newlines(s, a, b) + Newlines(s, b, c)
           /\ (\A r \in b..(c - 1) : s[r] # "nl") => Newlines(s, b, c) = 0
<1>. DEFINE A == {r \in a..(b - 1) : s[r] = "nl"}
            B == {r \in b..(c - 1) : s[r] = "nl"}
            C == {r \in a..(c - 1) : s[r] = "nl"}
<1>1. IsFiniteSet(a..(b - 1)) /\ IsFiniteSet(b..(c - 1))
  <2>1. \A m, n \in Int : IsFiniteSet(m..n)
    BY FS_Interval
  <2>. QED
    BY <2>1
<1>2. IsFiniteSet(A) /\ IsFiniteSet(B)
  <2>1. A \subseteq a..(b - 1) /\ B \subseteq b..(c - 1)
    OBVIOUS
  <2>. QED
    BY <1>1, <2>1, FS_Subset
<1>3. C = A \cup B /\ A \cap B = {}
  <2>1. \A r : r \in a..(c - 1) <=> r \in a..(b - 1) \/ r \in b..(c - 1)
    OBVIOUS
  <2>2. \A r : ~(r \in a..(b - 1) /\ r \in b..(c - 1))
    OBVIOUS
  <2>. QED
    BY <2>1, <2>2
<1>4. (\A r \in b..(c - 1) : s[r] # "nl") => B = {}
  OBVIOUS
<1>. HIDE DEF A, B, C
<1>5. Cardinality(A \cup B) = Cardinality(A) + Cardinality(B) - Cardinality(A \cap B)
  BY <1>2, FS_Union
<1>6. Cardinality({}) = 0 /\ Cardinality(A) \in Nat /\ Cardinality(B) \in Nat
  <2>1. Cardinality({}) = 0
    BY FS_EmptySet
  <2>. QED
    BY <1>2, <2>1, FS_CardinalityType
<1>7. Cardinality(C) = Cardinality(A) + Cardinality(B)
  <2>1. Cardinality(A \cap B) = 0
    BY <1>3, <1>6
  <2>2. Cardinality(C) = Cardinality(A \cup B)
    BY <1>3
  <2>3. Cardinality(C) = Cardinality(A) + Cardinality(B) - 0
    BY <1>5, <2>1, <2>2, Zenon
  <2>. QED
    BY <1>6, <2>3
<1>8. Newlines(s, a, b) = Cardinality(A) /\ Newlines(s, b, c) = Cardinality(B) /\ Newlines(s, a, c) = Cardinality(C)
  BY DEF Newlines, A, B, C
<1>. QED
  BY <1>4, <1>6, <1>7, <1>8

LEMMA LiteralsAppend ==
    ASSUME NEW flow \in Seq(Token), NEW t \in Token
    PROVE  Literals(Append(flow, t)) = Literals(flow) \o t.literal /\ Literals(flow) \in Seq(Chars)
<1>. DEFINE a == Append(flow, t)
            u == [k \in 1..Len(a) |-> a[k].literal]
            v == [k \in 1..Len(flow) |-> flow[k].literal]
            x == t.literal
            w == Append(v, x)
<1>1. /\ a \in Seq(Token) /\ Len(flow) \in Nat /\ Len(a) = Len(flow) + 1
      /\ a[Len(flow) + 1] = t /\ \A n \in 1..Len(flow) : a[n] = flow[n]
  OBVIOUS
<1>2. x \in Seq(Chars)
  BY DEF Token
<1>. HIDE DEF a, x
<1>3. \A k \in 1..Len(flow) : flow[k].literal \in Seq(Chars)
  <2>. SUFFICES ASSUME NEW k \in 1..Len(flow) PROVE flow[k].literal \in Seq(Chars)
    OBVIOUS
  <2>1. flow[k] \in Token
    OBVIOUS
  <2>. QED
    BY <2>1 DEF Token
<1>4. v \in Seq(Seq(Chars)) /\ Len(v) = Len(flow) /\ \A k \in 1..Len(flow) : v[k] = flow[k].literal
  <2>1. v \in [1..Len(flow) -> Seq(Chars)]
    BY <1>3
  <2>. QED
    BY <1>1, <2>1
<1>5. \A k \in 1..Len(a) : a[k].literal \in Seq(Chars)
  <2>. SUFFICES ASSUME NEW k \in 1..Len(a) PROVE a[k].literal \in Seq(Chars)
    OBVIOUS
  <2>1. a[k] \in Token
    BY <1>1
  <2>. QED
    BY <2>1 DEF Token
<1>6. u \in Seq(Seq(Chars)) /\ Len(u) = Len(a) /\ \A k \in 1..Len(a) : u[k] = a[k].literal
  <2>1. u \in [1..Len(a) -> Seq(Chars)]
    BY <1>5
  <2>. QED
    BY <1>1, <2>1
<1>. HIDE DEF u, v
<1>7. /\ w \in Seq(Seq(Chars)) /\ Len(w) = Len(v) + 1 /\ w[Len(v) + 1] = x
      /\ \A n \in 1..Len(v) : w[n] = v[n]
  BY <1>2, <1>4
<1>. HIDE DEF w
<1>8. \A n \in 1..Len(u) : u[n] = w[n]
  <2>. SUFFICES ASSUME NEW n \in 1..Len(u) PROVE u[n] = w[n]
    OBVIOUS
  <2>1. CASE n \in 1..Len(flow)
    BY <1>1, <1>4, <1>6, <1>7, <2>1
  <2>2. CASE n = Len(flow) + 1
    <3>1. u[n] = t.literal
      BY <1>1, <1>6, <2>2
    <3>. QED
      BY <1>1, <1>4, <1>7, <2>2, <3>1 DEF x
  <2>. QED
    BY <1>1, <1>6, <2>1, <2>2
<1>9. u = w
  BY <1>1, <1>4, <1>6, <1>7, <1>8, SeqEqual
<1>10. FlattenSeq(w) = FlattenSeq(v) \o x
  BY <1>2, <1>4, FlattenAppend DEF w
<1>11. FlattenSeq(v) \in Seq(Chars)
  BY <1>4, FlattenType
<1>. QED
  BY <1>9, <1>10, <1>11 DEF Literals, a, u, v, x

-----------------------------------------------------------------------------
(* The literals spell the text *)

\* Each token is one of the text, and begins with no blank.
FromText ==
    \A k \in 1..Len(token_flow) : \E p \in 1..(Len(input) + 1) :
        /\ p <= Len(input) => input[p] \notin White
        /\ token_flow[k].type = TypeAt(input, p) /\ token_flow[k].literal = Literal(input, p)

LEMMA GetNextSpelled ==
    ASSUME IInv, Spelled, FromText, GetNextToken
    PROVE  Spelled' /\ FromText'
<1> DEFINE p == SkipWhitespace(input, position)
           e == TokenEnd(input, p)
           t == [type |-> TypeAt(input, p), literal |-> Literal(input, p), line |-> line_num']
<1>1. /\ input \in Seq(Chars) /\ position \in 1..(Len(input) + 1) /\ Len(input) \in Nat /\ line_num \in Nat
      /\ token_flow \in Seq(Token) /\ Len(token_flow) \in Nat
  BY DEF IInv, TypeInv
<1>2. /\ p \in position..(Len(input) + 1) /\ p \in 1..(Len(input) + 1)
      /\ \A r \in position..(p - 1) : input[r] \in White /\ r \in 1..Len(input)
      /\ p <= Len(input) => input[p] \notin White
  BY <1>1, SkipsWhite
<1>3. line_num' = line_num + Newlines(input, position, p) /\ token_flow' = Append(token_flow, t)
      /\ position' = e /\ input' = input
  BY DEF GetNextToken
<1>. HIDE DEF p
<1>4. t \in Token /\ t.type = TypeAt(input, p) /\ t.literal = Literal(input, p)
  <2>1. line_num' \in Nat
    BY <1>1, <1>2, <1>3, NewlinesNat
  <2>. QED
    BY <1>1, <1>2, <2>1, TypeIsEnd, LiteralIsText DEF Token
<1>5. e \in p..(Len(input) + 1)
  BY <1>1, <1>2, TokenEndIsIn
<1>. HIDE DEF t, e
<1>6. FromText'
  <2>1. /\ token_flow' \in Seq(Token) /\ Len(token_flow') = Len(token_flow) + 1
        /\ \A k \in 1..Len(token_flow) : token_flow'[k] = token_flow[k]
        /\ token_flow'[Len(token_flow) + 1] = t
    BY <1>1, <1>3, <1>4
  <2>. SUFFICES ASSUME NEW k \in 1..Len(token_flow')
                PROVE  \E x \in 1..(Len(input) + 1) :
                         /\ x <= Len(input) => input[x] \notin White
                         /\ token_flow'[k].type = TypeAt(input, x) /\ token_flow'[k].literal = Literal(input, x)
    BY <1>3 DEF FromText
  <2>2. CASE k \in 1..Len(token_flow)
    BY <2>1, <2>2 DEF FromText
  <2>3. CASE k = Len(token_flow) + 1
    BY <1>2, <1>4, <2>1, <2>3
  <2>. QED
    BY <1>1, <2>1, <2>2, <2>3
<1>7. ASSUME ~Escapes(input)
      PROVE  /\ Literals(token_flow') = NonWhite(SubSeq(input, 1, position' - 1))
             /\ line_num' = 1 + Newlines(input, 1, position')
  <2>1. \A r \in p..(e - 1) : input[r] \notin White
    <3>1. CASE p <= Len(input)
      <4>1. p \in 1..Len(input) /\ input[p] \notin White
        BY <1>1, <1>2, <3>1
      <4>. QED
        BY <1>1, <1>7, <4>1, TokensAreDark DEF e
    <3>2. CASE ~(p <= Len(input))
      BY <1>1, <1>2, <1>5, <3>2
    <3>. QED
      BY <3>1, <3>2
  <2>2. Literal(input, p) = SubSeq(input, p, e - 1)
    <3>1. At(input, p) # Backslash
      <4>1. Backslash # "end"
        BY DEF Backslash
      <4>. QED
        BY <1>1, <1>2, <1>7, <4>1 DEF At, Escapes
    <3>. QED
      BY <3>1 DEF Literal, e
  <2>3. NonWhite(SubSeq(input, 1, p - 1)) = NonWhite(SubSeq(input, 1, position - 1))
    BY <1>1, <1>2, Stretch
  <2>4. NonWhite(SubSeq(input, 1, e - 1)) = NonWhite(SubSeq(input, 1, p - 1)) \o SubSeq(input, p, e - 1)
    BY <1>1, <1>2, <1>5, <2>1, Stretch
  <2>5. Literals(token_flow') = Literals(token_flow) \o t.literal
    BY <1>1, <1>3, <1>4, LiteralsAppend
  <2>6. Literals(token_flow) = NonWhite(SubSeq(input, 1, position - 1)) /\ line_num = 1 + Newlines(input, 1, position)
    BY <1>7 DEF Spelled
  <2>7. Literals(token_flow') = NonWhite(SubSeq(input, 1, position' - 1))
    BY <1>3, <1>4, <2>2, <2>3, <2>4, <2>5, <2>6
  <2>8. \A r \in p..(e - 1) : input[r] # "nl"
    BY <2>1 DEF White
  <2>9. /\ Newlines(input, 1, p) = Newlines(input, 1, position) + Newlines(input, position, p)
        /\ Newlines(input, 1, e) = Newlines(input, 1, p) + Newlines(input, p, e)
        /\ Newlines(input, p, e) = 0
    <3>1. 1 \in Nat /\ position \in Nat /\ p \in Nat /\ e \in Nat /\ 1 <= position /\ 1 <= p /\ position <= p /\ p <= e
      BY <1>1, <1>2, <1>5
    <3>. QED
      BY <2>8, <3>1, NewlinesOn
  <2>10. Newlines(input, 1, position) \in Nat /\ Newlines(input, position, p) \in Nat
    BY <1>1, <1>2, NewlinesNat
  <2>11. line_num' = 1 + Newlines(input, 1, e)
    BY <1>3, <2>6, <2>9, <2>10
  <2>. QED
    BY <1>3, <2>7, <2>11
<1>8. Spelled'
  BY <1>3, <1>7 DEF Spelled
<1>. QED
  BY <1>6, <1>8

LEMMA InitSpelled == Init => Spelled /\ FromText
<1>. SUFFICES ASSUME Init PROVE Spelled /\ FromText
  OBVIOUS
<1>1. position = 1 /\ line_num = 1 /\ token_flow = <<>>
  BY DEF Init
<1>2. Literals(<<>>) = <<>>
  <2>1. [k \in 1..Len(<<>>) |-> <<>>[k].literal] = <<>>
    OBVIOUS
  <2>. QED
    BY <2>1, FlattenNothing DEF Literals
<1>3. NonWhite(<<>>) = <<>>
  <2>1. [k \in 1..Len(<<>>) |-> IF <<>>[k] \in White THEN <<>> ELSE <<(<<>>[k])>>] = <<>>
    OBVIOUS
  <2>. QED
    BY <2>1, FlattenNothing DEF NonWhite
<1>4. SubSeq(input, 1, 1 - 1) = <<>>
  <2>1. SubSeq(input, 1, 0) = <<>> /\ 1 - 1 = 0
    BY SubSeqEmpty
  <2>. QED
    BY <2>1
<1>5. Newlines(input, 1, 1) = 0
  <2>1. 1 \in Nat /\ 1 <= 1 /\ \A r \in 1..(1 - 1) : input[r] # "nl"
    OBVIOUS
  <2>. QED
    BY <2>1, NewlinesOn
<1>6. Literals(token_flow) = NonWhite(SubSeq(input, 1, position - 1))
  BY <1>1, <1>2, <1>3, <1>4, Zenon
<1>7. line_num = 1 + Newlines(input, 1, position)
  BY <1>1, <1>5
<1>8. FromText
  BY <1>1 DEF FromText
<1>. QED
  BY <1>6, <1>7, <1>8 DEF Spelled

LEMMA NextSpelled == IInv /\ (Spelled /\ FromText) /\ [Next]_vars => (Spelled /\ FromText)'
<1>. SUFFICES ASSUME IInv, Spelled, FromText, [Next]_vars PROVE Spelled' /\ FromText'
  OBVIOUS
<1>1. CASE GetNextToken
  BY <1>1, GetNextSpelled
<1>2. CASE UNCHANGED vars
  BY <1>2 DEF vars, Spelled, FromText
<1>. QED
  BY <1>1, <1>2 DEF Next, Construct, ParseProgram

LEMMA AlwaysSpelled == Spec => [](IInv /\ Spelled /\ FromText)
<1>1. Init => IInv /\ Spelled /\ FromText
  BY InitIInv, InitSpelled
<1>2. (IInv /\ Spelled /\ FromText) /\ [Next]_vars => (IInv /\ Spelled /\ FromText)'
  BY NextIInv, NextSpelled
<1>. QED
  BY <1>1, <1>2, PTL DEF Spec

\* The lexer neither loses nor repeats a character of a text of any length and knows in
\* which row it is, as long as the text holds no backslash (lexer.h:198-221).
THEOREM SpelledHolds == Spec => []Spelled
<1>. QED
  BY AlwaysSpelled, PTL

-----------------------------------------------------------------------------
(* Tokens read again *)

Space == " "

LEMMA SpaceIsNoPart ==
    /\ Space \in White /\ Space \in Chars
    /\ Space \notin Letters \cup Digits \cup {"_"} /\ Space \notin Letters \cup Digits \cup {"."}
    /\ \A c : <<c, Space>> \notin Pairs
<1>1. Space \in White
  BY Zenon DEF Space, White
<1>2. Space \in Chars
  BY <1>1, Zenon DEF Chars
<1>3. Space \notin Letters /\ Space \notin Digits /\ Space \notin {"_"} /\ Space \notin {"."}
  BY Zenon DEF Space, Letters, Digits
<1>4. \A c : <<c, Space>> \notin Pairs
  <2>1. \A pair \in Pairs : pair[2] \in {"=", ">", "/", "*", "&", "|"}
    BY DEF Pairs
  <2>2. Space \notin {"=", ">", "/", "*", "&", "|"}
    BY Zenon DEF Space
  <2>3. \A c : <<c, Space>>[2] = Space
    OBVIOUS
  <2>. QED
    BY <2>1, <2>2, <2>3, Zenon
<1>. QED
  BY <1>1, <1>2, <1>3, <1>4

\* n characters of one text stand in another.
Same(t, r, s, p, n) == \A j \in 0..(n - 1) : t[r + j] = s[p + j]

LEMMA SameAt ==
    ASSUME NEW t, NEW r, NEW s, NEW p, NEW n, Same(t, r, s, p, n),
           NEW j \in 0..(n - 1), NEW x, x = r + j, NEW y, y = p + j
    PROVE  t[x] = s[y]
<1>. QED
  BY DEF Same

\* Where a loop over characters ends that goes over the same ones up to a space.
LEMMA PastAgain ==
    ASSUME NEW s \in Seq(Chars), NEW p \in 1..(Len(s) + 1), NEW C, "end" \notin C, Space \notin C,
           NEW t \in Seq(Chars), NEW r \in 1..Len(t), NEW n \in Nat, Past(s, p, C) = p + n,
           r + n \in 1..Len(t), t[r + n] = Space, Same(t, r, s, p, n)
    PROVE  Past(t, r, C) = r + n
<1>1. Len(t) \in Nat /\ Len(s) \in Nat /\ r \in 1..(Len(t) + 1) /\ r \in Nat /\ p \in Nat
  OBVIOUS
<1>2. PICK x \in r..(Len(t) + 1) : x = Past(t, r, C) /\ At(t, x) \notin C /\ \A q \in r..(x - 1) : t[q] \in C
  <2>1. Past(t, r, C) \in r..(Len(t) + 1) /\ At(t, Past(t, r, C)) \notin C
    BY <1>1, PastEnds
  <2>2. \A q \in r..(Past(t, r, C) - 1) : t[q] \in C
    BY <1>1, PastBefore
  <2>. QED
    BY <2>1, <2>2
<1>3. \A q \in p..((p + n) - 1) : s[q] \in C
  BY PastBefore
<1>4. ASSUME x < r + n PROVE FALSE
  <2>1. PICK j \in 0..(n - 1) : x = r + j
    <3>1. x - r \in 0..(n - 1) /\ x = r + (x - r)
      BY <1>1, <1>2, <1>4
    <3>. QED
      BY <3>1
  <2>4. PICK y \in p..((p + n) - 1) : y = p + j
    BY <1>1, <2>1
  <2>2. t[x] = s[y]
    <3>1. t[r + j] = s[p + j]
      BY <2>1, Zenon DEF Same
    <3>. QED
      BY <2>1, <2>4, <3>1, Zenon
  <2>3. At(t, x) = t[x]
    BY <1>1, <1>2, <1>4 DEF At
  <2>. QED
    BY <1>2, <1>3, <2>2, <2>3, <2>4
<1>5. ASSUME r + n < x PROVE FALSE
  <2>1. r + n \in r..(x - 1)
    BY <1>1, <1>5
  <2>. QED
    BY <1>2, <2>1
<1>. QED
  BY <1>1, <1>2, <1>4, <1>5

\* A token that stands in another text with a space after it is read as the same token.
LEMMA ReadAgain ==
    ASSUME NEW s \in Seq(Chars), ~Escapes(s), NEW p \in 1..Len(s), s[p] \notin White,
           NEW n \in Nat, TokenEnd(s, p) = p + n,
           NEW t \in Seq(Chars), NEW r \in 1..Len(t), r + n \in 1..Len(t), t[r + n] = Space,
           Same(t, r, s, p, n)
    PROVE  TokenEnd(t, r) = r + n /\ TypeAt(t, r) = TypeAt(s, p) /\ Literal(t, r) = Literal(s, p)
<1>1. Len(t) \in Nat /\ Len(s) \in Nat /\ r \in 1..(Len(t) + 1) /\ r \in Nat /\ p \in 1..(Len(s) + 1) /\ p \in Nat
  OBVIOUS
<1>2. n >= 1
  BY <1>1, TokenEndIsIn
<1>3. At(s, p) = s[p] /\ At(t, r) = s[p]
  <2>1. 0 \in 0..(n - 1) /\ r + 0 = r /\ p + 0 = p
    BY <1>1, <1>2
  <2>2. t[r] = s[p]
    <3>1. t[r + 0] = s[p + 0]
      BY <2>1, Zenon DEF Same
    <3>. QED
      BY <2>1, <3>1, Zenon
  <2>. QED
    BY <2>2 DEF At
<1>4. s[p] # "end" /\ s[p] # Backslash
  BY <1>1, <1>3, AtIsEnd DEF Escapes
<1>5. At(t, r + 1) = IF n = 1 THEN Space ELSE At(s, p + 1)
  <2>1. CASE n = 1
    BY <2>1 DEF At
  <2>2. CASE n # 1
    <3>1. 1 \in 0..(n - 1) /\ r + 1 \in 1..Len(t)
      BY <1>1, <1>2, <2>2
    <3>2. p + n \in p..(Len(s) + 1)
      BY <1>1, TokenEndIsIn
    <3>3. p + 1 \in 1..Len(s)
      BY <1>1, <1>2, <2>2, <3>2
    <3>4. t[r + 1] = s[p + 1]
      BY <3>1, SameAt
    <3>. QED
      BY <2>2, <3>1, <3>3, <3>4 DEF At
  <2>. QED
    BY <2>1, <2>2
<1>6. <<s[p], At(t, r + 1)>> \in Pairs <=> <<s[p], At(s, p + 1)>> \in Pairs
  <2>1. CASE n = 1
    <3>1. <<s[p], At(s, p + 1)>> \notin Pairs
      BY <1>1, <1>3, <1>4, <2>1 DEF TokenEnd
    <3>2. <<s[p], Space>> \notin Pairs
      BY SpaceIsNoPart
    <3>. QED
      BY <1>5, <2>1, <3>1, <3>2
  <2>2. CASE n # 1
    BY <1>5, <2>2
  <2>. QED
    BY <2>1, <2>2
<1>7. TokenEnd(t, r) = r + n
  <2>1. CASE <<s[p], At(s, p + 1)>> \in Pairs
    <3>1. TokenEnd(s, p) = p + 2 /\ TokenEnd(t, r) = r + 2
      BY <1>3, <1>4, <1>6, <2>1 DEF TokenEnd
    <3>. QED
      BY <1>1, <3>1
  <2>2. CASE <<s[p], At(s, p + 1)>> \notin Pairs /\ IsName(s[p])
    <3>. DEFINE C == Letters \cup Digits \cup {"_"}
    <3>1. TokenEnd(s, p) = Past(s, p, C) /\ TokenEnd(t, r) = Past(t, r, C)
      BY <1>3, <1>4, <1>6, <2>2 DEF TokenEnd, ReadIdentifier
    <3>2. "end" \notin C /\ Space \notin C
      <4>1. "end" \notin C
        BY DEF Letters, Digits
      <4>. QED
        BY <4>1, SpaceIsNoPart
    <3>. HIDE DEF C
    <3>3. Past(t, r, C) = r + n
      BY <1>1, <3>1, <3>2, PastAgain
    <3>. QED
      BY <3>1, <3>3
  <2>3. CASE <<s[p], At(s, p + 1)>> \notin Pairs /\ ~IsName(s[p]) /\ s[p] \in Digits
    <3>. DEFINE C == Letters \cup Digits \cup {"."}
    <3>1. TokenEnd(s, p) = Past(s, p, C) /\ TokenEnd(t, r) = Past(t, r, C)
      BY <1>3, <1>4, <1>6, <2>3 DEF TokenEnd, ReadNumber
    <3>2. "end" \notin C /\ Space \notin C
      <4>1. "end" \notin C
        BY DEF Letters, Digits
      <4>. QED
        BY <4>1, SpaceIsNoPart
    <3>. HIDE DEF C
    <3>3. Past(t, r, C) = r + n
      BY <1>1, <3>1, <3>2, PastAgain
    <3>. QED
      BY <3>1, <3>3
  <2>4. CASE <<s[p], At(s, p + 1)>> \notin Pairs /\ ~IsName(s[p]) /\ s[p] \notin Digits
    <3>1. TokenEnd(s, p) = p + 1 /\ TokenEnd(t, r) = r + 1
      BY <1>3, <1>4, <1>6, <2>4 DEF TokenEnd
    <3>. QED
      BY <1>1, <3>1
  <2>. QED
    BY <2>1, <2>2, <2>3, <2>4
<1>8. Literal(t, r) = Literal(s, p)
  <2>1. Literal(t, r) = SubSeq(t, r, (r + n) - 1) /\ Literal(s, p) = SubSeq(s, p, (p + n) - 1)
    BY <1>3, <1>4, <1>7 DEF Literal
  <2>2. p + n \in p..(Len(s) + 1)
    BY <1>1, TokenEndIsIn
  <2>. DEFINE x == SubSeq(t, r, (r + n) - 1)
              y == SubSeq(s, p, (p + n) - 1)
  <2>3. x \in Seq(Chars) /\ Len(x) = n /\ \A j \in 1..n : x[j] = t[(r + j) - 1]
    BY <1>1, <1>2
  <2>4. y \in Seq(Chars) /\ Len(y) = n /\ \A j \in 1..n : y[j] = s[(p + j) - 1]
    BY <1>1, <1>2, <2>2
  <2>. HIDE DEF x, y
  <2>5. ASSUME NEW j \in 1..n PROVE x[j] = y[j]
    <3>1. PICK i \in 0..(n - 1) : j = i + 1
      <4>1. j - 1 \in 0..(n - 1) /\ j = (j - 1) + 1
        OBVIOUS
      <4>. QED
        BY <4>1
    <3>2. PICK a, b : a = (r + j) - 1 /\ b = (p + j) - 1
      OBVIOUS
    <3>3. a = r + i /\ b = p + i
      BY <1>1, <3>1, <3>2
    <3>4. t[a] = s[b]
      <4>1. t[r + i] = s[p + i]
        BY <3>1, Zenon DEF Same
      <4>. QED
        BY <3>3, <4>1, Zenon
    <3>. QED
      BY <2>3, <2>4, <3>2, <3>4
  <2>6. x = y
    BY <2>3, <2>4, <2>5, SeqEqual
  <2>. QED
    BY <2>1, <2>6 DEF x, y
<1>9. TypeAt(t, r) = TypeAt(s, p)
  BY <1>3, <1>8 DEF TypeAt
<1>. QED
  BY <1>7, <1>8, <1>9

\* Blanks are skipped one by one, and nothing else is skipped.
LEMMA SkipDark ==
    ASSUME NEW t \in Seq(Chars), NEW p \in 1..Len(t), t[p] \notin White
    PROVE  SkipWhitespace(t, p) = p
<1>1. Len(t) \in Nat /\ p \in 1..(Len(t) + 1)
  OBVIOUS
<1>2. PICK x \in p..(Len(t) + 1) : x = SkipWhitespace(t, p) /\ \A r \in p..(x - 1) : t[r] \in White
  BY <1>1, SkipsWhite
<1>3. ASSUME p < x PROVE FALSE
  <2>1. p \in p..(x - 1)
    BY <1>1, <1>2, <1>3
  <2>. QED
    BY <1>2, <2>1
<1>. QED
  BY <1>1, <1>2, <1>3

LEMMA SkipBlank ==
    ASSUME NEW t \in Seq(Chars), NEW p \in 1..Len(t), t[p] \in White
    PROVE  SkipWhitespace(t, p) = SkipWhitespace(t, p + 1)
<1>1. Len(t) \in Nat /\ p \in 1..(Len(t) + 1) /\ p + 1 \in 1..(Len(t) + 1)
  OBVIOUS
<1>2. PICK x \in p..(Len(t) + 1) : /\ x = SkipWhitespace(t, p) /\ (x <= Len(t) => t[x] \notin White)
                                   /\ \A r \in p..(x - 1) : t[r] \in White /\ r \in 1..Len(t)
  BY <1>1, SkipsWhite
<1>3. PICK q \in 1..(Len(t) + 1) : q = p + 1
  BY <1>1
<1>4. PICK y \in q..(Len(t) + 1) : /\ y = SkipWhitespace(t, q) /\ (y <= Len(t) => t[y] \notin White)
                                   /\ \A r \in q..(y - 1) : t[r] \in White /\ r \in 1..Len(t)
  BY <1>1, SkipsWhite
<1>5. x # p
  BY <1>2
<1>6. ASSUME x < y PROVE FALSE
  <2>1. x \in q..(y - 1)
    BY <1>1, <1>3, <1>4, <1>5, <1>6
  <2>2. x <= Len(t)
    BY <1>1, <1>4, <1>6
  <2>. QED
    BY <1>2, <1>4, <2>1, <2>2
<1>7. ASSUME y < x PROVE FALSE
  <2>1. y \in p..(x - 1)
    BY <1>1, <1>2, <1>3, <1>4, <1>7
  <2>2. y <= Len(t)
    BY <1>1, <1>2, <1>7
  <2>. QED
    BY <1>2, <1>4, <2>1, <2>2
<1>8. x = y
  BY <1>1, <1>2, <1>3, <1>4, <1>6, <1>7
<1>. QED
  BY <1>2, <1>3, <1>4, <1>8

\* One element before a sequence.
LEMMA Before ==
    ASSUME NEW H, NEW h \in H, NEW x \in Seq(H)
    PROVE  /\ <<h>> \o x \in Seq(H) /\ Len(<<h>> \o x) = Len(x) + 1
           /\ (<<h>> \o x)[1] = h /\ \A j \in 1..Len(x) : (<<h>> \o x)[j + 1] = x[j]
<1>0. <<h>> \in Seq(H) /\ Len(<<h>>) = 1 /\ <<h>>[1] = h
  OBVIOUS
<1>. PICK y \in Seq(H) : y = <<h>> /\ Len(y) = 1 /\ y[1] = h
  BY <1>0
<1>1. Len(y) = 1 /\ y[1] = h /\ Len(x) \in Nat
  OBVIOUS
<1>2. y \o x \in Seq(H) /\ Len(y \o x) = Len(x) + 1
  BY <1>1, ConcatProperties
<1>3. \A i \in 1..(Len(y) + Len(x)) : (y \o x)[i] = IF i <= Len(y) THEN y[i] ELSE x[i - Len(y)]
  BY ConcatProperties
<1>4. (y \o x)[1] = h
  BY <1>1, <1>3
<1>5. ASSUME NEW j \in 1..Len(x) PROVE (y \o x)[j + 1] = x[j]
  <2>1. (j + 1) - 1 = j /\ j + 1 \in 1..(Len(y) + Len(x)) /\ ~(j + 1 <= Len(y))
    BY <1>1
  <2>. QED
    BY <1>1, <1>3, <2>1
<1>. QED
  BY <1>2, <1>4, <1>5

\* A list read from each place to the end: at a stop nothing, and else an element and
\* what is read from a later place.
ReadsOn(g, N, lo, H, stop, head, next) ==
    /\ g \in [lo..N -> Seq(H)]
    /\ \A p \in lo..N : /\ p \in stop => g[p] = <<>>
                        /\ p \notin stop => g[p] = <<(head[p])>> \o g[next[p]]

LEMMA ReadingExists ==
    ASSUME NEW N \in Nat, N > 0, NEW H, NEW stop, NEW head \in [1..N -> H], NEW next,
           \A p \in 1..N : p \notin stop => next[p] \in (p + 1)..N
    PROVE  \E g : ReadsOn(g, N, 1, H, stop, head, next)
<1> DEFINE Upto(lo) == \E g : ReadsOn(g, N, lo, H, stop, head, next)
           T == {n \in 0..(N - 1) : Upto(N - n)}
<1>1. Upto(N)
  <2>. DEFINE g == [p \in N..N |-> <<>>]
  <2>1. N \in stop
    OBVIOUS
  <2>2. g \in [N..N -> Seq(H)]
    OBVIOUS
  <2>3. \A p \in N..N : p \in stop /\ g[p] = <<>>
    BY <2>1
  <2>. HIDE DEF g
  <2>4. ReadsOn(g, N, N, H, stop, head, next)
    BY <2>2, <2>3 DEF ReadsOn
  <2>. QED
    BY <2>4, Zenon
<1>2. ASSUME NEW x \in 1..(N - 1), Upto(x + 1) PROVE Upto(x)
  <2>1. PICK g : ReadsOn(g, N, x + 1, H, stop, head, next)
    BY <1>2, Zenon
  <2>2. g \in [(x + 1)..N -> Seq(H)]
    BY <2>1 DEF ReadsOn
  <2>3. \A p \in (x + 1)..N : /\ p \in stop => g[p] = <<>>
                              /\ p \notin stop => g[p] = <<(head[p])>> \o g[next[p]]
    BY <2>1 DEF ReadsOn
  <2>. DEFINE h == [p \in x..N |-> IF p # x THEN g[p] ELSE IF x \in stop THEN <<>> ELSE <<(head[x])>> \o g[next[x]]]
  <2>4. x \notin stop => <<(head[x])>> \o g[next[x]] \in Seq(H)
    <3>1. SUFFICES ASSUME x \notin stop PROVE <<(head[x])>> \o g[next[x]] \in Seq(H)
      OBVIOUS
    <3>2. PICK y \in Seq(H) : y = g[next[x]]
      BY <2>2, <3>1
    <3>3. PICK z \in H : z = head[x]
      OBVIOUS
    <3>4. <<z>> \o y \in Seq(H)
      BY Before
    <3>. QED
      BY <3>2, <3>3, <3>4
  <2>5. \A p \in x..N : p # x => p \in (x + 1)..N
    OBVIOUS
  <2>6. h \in [x..N -> Seq(H)]
    BY <2>2, <2>4, <2>5
  <2>7. ASSUME NEW p \in x..N
        PROVE  /\ p \in stop => h[p] = <<>>
               /\ p \notin stop => h[p] = <<(head[p])>> \o h[next[p]]
    <3>1. p \notin stop => h[next[p]] = g[next[p]]
      <4>1. p \notin stop => next[p] \in x..N /\ next[p] # x
        OBVIOUS
      <4>. QED
        BY <4>1
    <3>2. CASE p = x
      BY <3>1, <3>2
    <3>3. CASE p # x
      <4>1. p \in (x + 1)..N /\ h[p] = g[p]
        BY <2>5, <3>3
      <4>. HIDE DEF h
      <4>. QED
        BY <2>3, <3>1, <4>1
    <3>. QED
      BY <3>2, <3>3
  <2>. HIDE DEF h
  <2>8. ReadsOn(h, N, x, H, stop, head, next)
    BY <2>6, <2>7 DEF ReadsOn
  <2>. QED
    BY <2>8, Zenon
<1>. HIDE DEF Upto
<1>3. 0 \in T
  BY <1>1
<1>4. ASSUME NEW n \in 0..((N - 1) - 1), n \in T PROVE n + 1 \in T
  <2>1. PICK x \in 1..(N - 1) : x = N - (n + 1)
    OBVIOUS
  <2>2. x + 1 = N - n
    BY <2>1
  <2>3. Upto(x + 1)
    BY <1>4, <2>2
  <2>4. Upto(x)
    BY <1>2, <2>3
  <2>. QED
    BY <2>1, <2>4
<1>5. \A n \in 0..(N - 1) : n \in T
  <2>1. N - 1 \in Nat
    OBVIOUS
  <2>. HIDE DEF T
  <2>. QED
    BY <1>3, <1>4, <2>1, UpTo
<1>6. Upto(1)
  <2>1. N - 1 \in 0..(N - 1) /\ N - (N - 1) = 1
    OBVIOUS
  <2>. QED
    BY <1>5, <2>1
<1>. QED
  BY <1>6 DEF Upto

\* What a token is to a reader: its type and its literal.
Heads == [type : TokenTypes, literal : Seq(Chars)]
HeadAt(s, q) == [type |-> TypeAt(s, q), literal |-> Literal(s, q)]

\* The tokens of a text read from each of its places.
Reading(g, s) ==
    /\ g[1] = Tokens(s)
    /\ \A p \in 1..(Len(s) + 1) :
        /\ SkipWhitespace(s, p) > Len(s) => g[p] = <<>>
        /\ SkipWhitespace(s, p) <= Len(s) =>
             g[p] = <<(HeadAt(s, SkipWhitespace(s, p)))>> \o g[TokenEnd(s, SkipWhitespace(s, p))]

LEMMA TokensAreRead ==
    ASSUME NEW s \in Seq(Chars)
    PROVE  \E g : Reading(g, s)
<1> DEFINE N == Len(s) + 1
           skip(p) == SkipWhitespace(s, p)
           stop == {p \in 1..N : skip(p) > Len(s)}
           head == [p \in 1..N |-> HeadAt(s, skip(p))]
           next == [p \in 1..N |-> TokenEnd(s, skip(p))]
           From(g) == g = [p \in 1..N |->
                             IF skip(p) > Len(s) THEN <<>>
                             ELSE <<[type |-> TypeAt(s, skip(p)), literal |-> Literal(s, skip(p))]>>
                                    \o g[TokenEnd(s, skip(p))]]
<1>1. Len(s) \in Nat /\ N \in Nat /\ N > 0
  OBVIOUS
<1>2. \A p \in 1..N : skip(p) \in p..N
  BY SkipsWhite
<1>3. ASSUME NEW p \in 1..N PROVE HeadAt(s, skip(p)) \in Heads
  <2>1. PICK q \in 1..N : q = skip(p)
    BY <1>1, <1>2
  <2>2. TypeAt(s, q) \in TokenTypes /\ Literal(s, q) \in Seq(Chars)
    BY TypeIsEnd, LiteralIsText
  <2>3. HeadAt(s, q) \in Heads
    BY <2>2 DEF HeadAt, Heads
  <2>. QED
    BY <2>1, <2>3
<1>4. head \in [1..N -> Heads]
  BY <1>3
<1>5. ASSUME NEW p \in 1..N, p \notin stop PROVE next[p] \in (p + 1)..N
  <2>1. PICK q \in p..N : q = skip(p)
    BY <1>2
  <2>2. q \in 1..(Len(s) + 1) /\ q <= Len(s)
    BY <1>1, <1>5, <2>1
  <2>3. TokenEnd(s, q) \in (q + 1)..N
    <3>1. TokenEnd(s, q) \in q..N /\ TokenEnd(s, q) > q
      BY <2>2, TokenEndIsIn
    <3>. QED
      BY <1>1, <2>2, <3>1
  <2>4. next[p] = TokenEnd(s, q)
    BY <2>1
  <2>. QED
    BY <1>1, <2>1, <2>3, <2>4
<1>. HIDE DEF head, next
<1>6. PICK g : ReadsOn(g, N, 1, Heads, stop, head, next)
  <2>. HIDE DEF stop, N
  <2>. QED
    BY <1>1, <1>4, <1>5, ReadingExists
<1>7. /\ g \in [1..N -> Seq(Heads)]
      /\ \A p \in 1..N : /\ p \in stop => g[p] = <<>>
                         /\ p \notin stop => g[p] = <<(head[p])>> \o g[next[p]]
  BY <1>6 DEF ReadsOn
<1>8. ASSUME NEW p \in 1..N
      PROVE  /\ skip(p) > Len(s) => g[p] = <<>>
             /\ ~(skip(p) > Len(s)) => g[p] = <<(HeadAt(s, skip(p)))>> \o g[TokenEnd(s, skip(p))]
  <2>1. p \in stop <=> skip(p) > Len(s)
    OBVIOUS
  <2>2. head[p] = HeadAt(s, skip(p)) /\ next[p] = TokenEnd(s, skip(p))
    BY DEF head, next
  <2>. HIDE DEF stop, skip
  <2>. QED
    BY <1>7, <2>1, <2>2
<1>9. From(g)
  <2>1. \A p \in 1..N : g[p] = IF skip(p) > Len(s) THEN <<>>
                               ELSE <<(HeadAt(s, skip(p)))>> \o g[TokenEnd(s, skip(p))]
    <3>. HIDE DEF skip, N
    <3>. QED
      BY <1>8
  <2>. HIDE DEF skip, N
  <2>2. \A p \in 1..N : g[p] = IF skip(p) > Len(s) THEN <<>>
                               ELSE <<[type |-> TypeAt(s, skip(p)), literal |-> Literal(s, skip(p))]>>
                                    \o g[TokenEnd(s, skip(p))]
    BY <2>1 DEF HeadAt
  <2>. QED
    BY <1>7, <2>2
<1>. DEFINE c == CHOOSE c : From(c)
<1>10. Tokens(s) = c[1]
  BY DEF Tokens
<1>11. From(c)
  <2>. HIDE DEF From
  <2>. QED
    BY <1>9
<1>. HIDE DEF c
<1>12. \A p \in 1..N : c[p] = IF skip(p) > Len(s) THEN <<>>
                             ELSE <<[type |-> TypeAt(s, skip(p)), literal |-> Literal(s, skip(p))]>>
                                    \o c[TokenEnd(s, skip(p))]
  <2>. HIDE DEF skip, N
  <2>. QED
    BY <1>11
<1>13. ASSUME NEW p \in 1..N
       PROVE  /\ skip(p) > Len(s) => c[p] = <<>>
              /\ skip(p) <= Len(s) => c[p] = <<(HeadAt(s, skip(p)))>> \o c[TokenEnd(s, skip(p))]
  <2>1. skip(p) \in Nat
    BY <1>1, <1>2
  <2>2. skip(p) <= Len(s) => ~(skip(p) > Len(s))
    BY <1>1, <2>1
  <2>. HIDE DEF skip, N
  <2>. QED
    BY <1>12, <2>2 DEF HeadAt
<1>14. Reading(c, s)
  BY <1>10, <1>13 DEF Reading
<1>. QED
  BY <1>14, Zenon

\* Each text stands in the whole after those before it.
StandsIn(f, ss, k) ==
    /\ Len(f[k - 1]) \in Nat /\ Len(ss[k]) \in Nat /\ Len(f[k]) = Len(f[k - 1]) + Len(ss[k])
    /\ Len(f[k]) <= Len(FlattenSeq(ss))
    /\ \A j \in 1..Len(ss[k]) : FlattenSeq(ss)[Len(f[k - 1]) + j] = ss[k][j]

LEMMA FlattenPlaces ==
    ASSUME NEW S, NEW ss \in Seq(Seq(S)), NEW f, Flattens(f, S, ss), NEW k \in 1..Len(ss)
    PROVE  StandsIn(f, ss, k)
<1> DEFINE N == Len(ss)
           len == [n \in 0..N |-> Len(f[n])]
           width == [n \in 1..N |-> Len(ss[n])]
           T == {n \in 0..N : n >= k => len[k] <= len[n] /\ \A i \in 1..len[k] : f[n][i] = f[k][i]}
<1>1. N \in Nat /\ k \in 1..N /\ k - 1 \in 0..N /\ k \in 0..N /\ \A n \in 1..N : ss[n] \in Seq(S)
  OBVIOUS
<1>2. f \in [0..N -> Seq(S)] /\ FlattenSeq(ss) = f[N]
  BY DEF Flattens
<1>3. \A n \in 1..N : f[n] = f[n - 1] \o ss[n]
  BY DEF Flattens
<1>. HIDE DEF N
<1>4. ASSUME NEW n \in 0..N PROVE f[n] \in Seq(S) /\ len[n] = Len(f[n]) /\ len[n] \in Nat
  <2>1. f[n] \in Seq(S)
    BY <1>2
  <2>2. Len(f[n]) \in Nat
    BY <2>1, LenProperties
  <2>. QED
    BY <2>1, <2>2
<1>5. ASSUME NEW n \in 1..N PROVE width[n] = Len(ss[n]) /\ width[n] \in Nat
  <2>1. ss[n] \in Seq(S)
    BY <1>1
  <2>2. Len(ss[n]) \in Nat
    BY <2>1, LenProperties
  <2>. QED
    BY <2>1, <2>2
<1>. HIDE DEF len, width
<1>6. ASSUME NEW n \in 1..N
      PROVE  /\ len[n] = len[n - 1] + width[n]
             /\ \A i \in 1..(len[n - 1] + width[n]) :
                  f[n][i] = IF i <= len[n - 1] THEN f[n - 1][i] ELSE ss[n][i - len[n - 1]]
  <2>1. n - 1 \in 0..N /\ n \in 0..N
    BY <1>1
  <2>2. PICK x \in Seq(S) : x = f[n - 1] /\ Len(x) = len[n - 1]
    BY <1>4, <2>1
  <2>3. PICK y \in Seq(S) : y = ss[n] /\ Len(y) = width[n]
    BY <1>1, <1>5
  <2>4. f[n] = x \o y /\ len[n] = Len(x \o y)
    BY <1>3, <1>4, <2>1, <2>2, <2>3, Zenon
  <2>5. Len(x \o y) = Len(x) + Len(y) /\ \A i \in 1..(Len(x) + Len(y)) :
          (x \o y)[i] = IF i <= Len(x) THEN x[i] ELSE y[i - Len(x)]
    BY ConcatProperties
  <2>. QED
    BY <2>2, <2>3, <2>4, <2>5, Zenon
<1>7. 0 \in T
  BY <1>1
<1>8. ASSUME NEW n \in 0..(N - 1), n \in T PROVE n + 1 \in T
  <2>1. n + 1 \in 1..N /\ n + 1 \in 0..N /\ (n + 1) - 1 = n /\ n \in 0..N
    BY <1>1
  <2>2. PICK m \in 1..N : m = n + 1 /\ m - 1 = n
    BY <2>1
  <2>3. CASE m < k
    BY <1>1, <2>1, <2>2, <2>3
  <2>4. CASE m = k
    <3>1. len[k] <= len[m] /\ \A i \in 1..len[k] : f[m][i] = f[k][i]
      BY <1>1, <1>4, <2>4
    <3>. QED
      BY <2>1, <2>2, <3>1
  <2>5. CASE m > k
    <3>1. len[k] <= len[n] /\ \A i \in 1..len[k] : f[n][i] = f[k][i]
      BY <1>1, <1>8, <2>1, <2>2, <2>5
    <3>2. len[m] = len[n] + width[m] /\ \A i \in 1..(len[n] + width[m]) :
            f[m][i] = IF i <= len[n] THEN f[n][i] ELSE ss[m][i - len[n]]
      BY <1>6, <2>2
    <3>3. width[m] \in Nat /\ len[n] \in Nat /\ len[k] \in Nat
      BY <1>1, <1>4, <1>5, <2>1
    <3>4. len[k] <= len[m]
      BY <3>1, <3>2, <3>3
    <3>5. ASSUME NEW i \in 1..len[k] PROVE f[m][i] = f[k][i]
      <4>1. i \in 1..(len[n] + width[m]) /\ i <= len[n]
        BY <3>1, <3>3
      <4>. QED
        BY <3>1, <3>2, <4>1
    <3>. QED
      BY <2>1, <2>2, <3>4, <3>5
  <2>. QED
    BY <1>1, <2>2, <2>3, <2>4, <2>5
<1>9. len[k] <= len[N] /\ \A i \in 1..len[k] : f[N][i] = f[k][i]
  <2>1. \A n \in 0..N : n \in T
    <3>. HIDE DEF T
    <3>. QED
      BY <1>1, <1>7, <1>8, UpTo
  <2>2. N \in 0..N /\ N >= k
    BY <1>1
  <2>. QED
    BY <2>1, <2>2
<1>10. len[k] = len[k - 1] + width[k] /\ len[k - 1] \in Nat /\ width[k] \in Nat
  BY <1>1, <1>4, <1>5, <1>6
<1>11. /\ len[k] = Len(f[k]) /\ len[k - 1] = Len(f[k - 1]) /\ width[k] = Len(ss[k]) /\ len[N] = Len(f[N])
  <2>1. N \in 0..N
    BY <1>1
  <2>. QED
    BY <1>1, <1>4, <1>5, <1>6, <2>1
<1>12. ASSUME NEW j \in 1..width[k] PROVE f[N][len[k - 1] + j] = ss[k][j]
  <2>1. PICK i \in 1..(len[k - 1] + width[k]) : i = len[k - 1] + j
    BY <1>10
  <2>2. ~(i <= len[k - 1]) /\ i - len[k - 1] = j /\ i \in 1..len[k]
    BY <1>10, <2>1
  <2>3. f[k][i] = ss[k][i - len[k - 1]]
    BY <1>1, <1>6, <2>2
  <2>4. f[N][i] = f[k][i]
    BY <1>9, <2>2
  <2>. QED
    BY <2>1, <2>2, <2>3, <2>4
<1>13. \A j \in 1..Len(ss[k]) : f[N][Len(f[k - 1]) + j] = ss[k][j]
  BY <1>11, <1>12, Zenon
<1>14. Len(f[k]) <= Len(f[N])
  BY <1>9, <1>11, Zenon
<1>15. Len(f[k - 1]) \in Nat /\ Len(ss[k]) \in Nat /\ Len(f[k]) = Len(f[k - 1]) + Len(ss[k])
  BY <1>10, <1>11, Zenon
<1>. QED
  BY <1>2, <1>13, <1>14, <1>15, Zenon DEF StandsIn

\* A blank is passed over by a reader.
LEMMA ReadBlank ==
    ASSUME NEW t \in Seq(Chars), NEW g, Reading(g, t), NEW p \in 1..Len(t), t[p] = Space
    PROVE  g[p] = g[p + 1]
<1>0. t[p] \in White
  BY SpaceIsNoPart, Zenon
<1>1. Len(t) \in Nat /\ p \in 1..(Len(t) + 1) /\ t[p] \in White
  BY <1>0
<1>2. PICK q \in 1..(Len(t) + 1) : q = p + 1
  BY <1>1
<1>3. SkipWhitespace(t, p) = SkipWhitespace(t, q)
  BY <1>1, <1>2, SkipBlank
<1>4. PICK x \in 1..(Len(t) + 1) : x = SkipWhitespace(t, p)
  BY <1>1, SkipsWhite
<1>5. CASE x > Len(t)
  <2>1. g[p] = <<>> /\ g[q] = <<>>
    BY <1>1, <1>3, <1>4, <1>5 DEF Reading
  <2>. QED
    BY <1>2, <2>1
<1>6. CASE x <= Len(t)
  <2>1. g[p] = <<(HeadAt(t, x))>> \o g[TokenEnd(t, x)]
    BY <1>1, <1>4, <1>6 DEF Reading
  <2>2. g[q] = <<(HeadAt(t, x))>> \o g[TokenEnd(t, x)]
    BY <1>3, <1>4, <1>6 DEF Reading
  <2>. QED
    BY <1>2, <2>1, <2>2, Zenon
<1>. QED
  BY <1>1, <1>4, <1>5, <1>6

\* A reader of another text takes a token that stands there with a space after it.
Lies(x, n, t, o) ==
    /\ Len(x) = n /\ (o + n) + 1 <= Len(t) /\ t[(o + n) + 1] = Space
    /\ \A j \in 1..n : t[o + j] = x[j]

LEMMA ReadOne ==
    ASSUME NEW s \in Seq(Chars), ~Escapes(s), NEW p \in 1..Len(s), s[p] \notin White,
           NEW n \in Nat, NEW t \in Seq(Chars), NEW o \in Nat, NEW x, x = Literal(s, p), Lies(x, n, t, o),
           NEW h, h = HeadAt(s, p), NEW g, Reading(g, t)
    PROVE  g[o + 1] = <<h>> \o g[((o + n) + 1) + 1]
<1>0. /\ Len(Literal(s, p)) = n /\ (o + n) + 1 <= Len(t) /\ t[(o + n) + 1] = Space
      /\ \A j \in 1..n : t[o + j] = Literal(s, p)[j]
  BY Zenon DEF Lies
<1>1. Len(s) \in Nat /\ Len(t) \in Nat /\ p \in 1..(Len(s) + 1) /\ p \in Nat
  OBVIOUS
<1>2. PICK e \in (p + 1)..(Len(s) + 1) : e = TokenEnd(s, p)
  <2>1. TokenEnd(s, p) \in p..(Len(s) + 1) /\ TokenEnd(s, p) > p
    BY <1>1, TokenEndIsIn
  <2>. QED
    BY <1>1, <2>1
<1>3. Literal(s, p) = SubSeq(s, p, e - 1)
  <2>1. At(s, p) # Backslash
    BY DEF At, Escapes
  <2>. QED
    BY <1>2, <2>1 DEF Literal
<1>4. n = e - p
  <2>1. \A i \in p..(e - 1) : s[i] \in Chars
    BY <1>1, <1>2
  <2>2. Len(SubSeq(s, p, e - 1)) = e - p
    BY <1>1, <1>2
  <2>. QED
    BY <1>0, <1>3, <2>2
<1>5. n >= 1 /\ e = p + n
  BY <1>1, <1>2, <1>4
<1>6. PICK r \in 1..Len(t) : r = o + 1
  BY <1>0, <1>1, <1>5
<1>7. ASSUME NEW j \in 0..(n - 1) PROVE t[r + j] = s[p + j]
  <2>1. PICK i \in 1..n : i = j + 1
    OBVIOUS
  <2>2. PICK l \in p..(e - 1) : l = p + j
    BY <1>1, <1>5
  <2>3. SubSeq(s, p, e - 1)[i] = s[l]
    <3>1. PICK m \in p..Len(s) : m = e - 1
      BY <1>1, <1>2
    <3>2. \A q \in p..m : s[q] \in Chars
      BY <1>1, <3>1
    <3>3. p + (i - 1) = l /\ m - p + 1 = n /\ m <= Len(s)
      BY <1>1, <1>5, <2>1, <2>2, <3>1
    <3>4. SubSeq(s, p, m)[i] = s[p + i - 1]
      BY <1>1, <3>1, <3>3
    <3>. QED
      BY <3>1, <3>3, <3>4
  <2>4. t[o + i] = s[l]
    BY <1>0, <1>3, <2>3, Zenon
  <2>5. o + i = r + j
    BY <1>6, <2>1
  <2>. QED
    BY <2>2, <2>4, <2>5, Zenon
<1>8. Same(t, r, s, p, n)
  BY <1>7 DEF Same
<1>9. r + n = (o + n) + 1 /\ r + n \in 1..Len(t)
  BY <1>0, <1>1, <1>6
<1>10. t[r + n] = Space
  BY <1>0, <1>9
<1>11. TokenEnd(t, r) = r + n /\ TypeAt(t, r) = TypeAt(s, p) /\ Literal(t, r) = Literal(s, p)
  <2>1. TokenEnd(s, p) = p + n
    BY <1>2, <1>5
  <2>. QED
    BY <1>8, <1>9, <1>10, <2>1, ReadAgain
<1>12. t[r] \notin White
  <2>1. 0 \in 0..(n - 1) /\ r + 0 = r /\ p + 0 = p
    BY <1>1, <1>5
  <2>2. t[r + 0] = s[p + 0]
    BY <1>7, <2>1
  <2>. QED
    BY <2>1, <2>2
<1>13. SkipWhitespace(t, r) = r
  BY <1>12, SkipDark
<1>14. g[r] = <<(HeadAt(t, r))>> \o g[TokenEnd(t, r)]
  <2>1. SkipWhitespace(t, r) <= Len(t) /\ r \in 1..(Len(t) + 1)
    BY <1>1, <1>13
  <2>2. g[r] = <<(HeadAt(t, SkipWhitespace(t, r)))>> \o g[TokenEnd(t, SkipWhitespace(t, r))]
    BY <2>1 DEF Reading
  <2>. QED
    BY <1>13, <2>2, Zenon
<1>15. HeadAt(t, r) = HeadAt(s, p)
  BY <1>11 DEF HeadAt
<1>16. g[r + n] = g[(r + n) + 1]
  <2>1. PICK l \in 1..Len(t) : l = r + n
    BY <1>9
  <2>2. g[l] = g[l + 1]
    BY <1>10, <2>1, ReadBlank
  <2>. QED
    BY <2>1, <2>2
<1>. QED
  BY <1>6, <1>9, <1>11, <1>14, <1>15, <1>16, Zenon

\* The literal of each token stands in the text of a sample, with a space after it.
Lays(off, t) ==
    /\ t \in Seq(Chars) /\ off[0] = 0 /\ off[Len(token_flow)] = Len(t)
    /\ \A k \in 1..Len(token_flow) :
        /\ off[k - 1] \in Nat /\ Len(token_flow[k].literal) \in Nat
        /\ off[k] = (off[k - 1] + Len(token_flow[k].literal)) + 1
        /\ off[k] <= Len(t)
        /\ t[(off[k - 1] + Len(token_flow[k].literal)) + 1] = Space
        /\ \A j \in 1..Len(token_flow[k].literal) : t[off[k - 1] + j] = token_flow[k].literal[j]

LEMMA SnippetLays ==
    ASSUME token_flow \in Seq(Token)
    PROVE  \E off : Lays(off, Snippet)
<1> DEFINE N == Len(token_flow)
           lit(k) == token_flow[k].literal
           ss == [k \in 1..N |-> Append(lit(k), Space)]
<1>1. N \in Nat /\ \A k \in 1..N : lit(k) \in Seq(Chars)
  <2>1. N \in Nat /\ \A k \in 1..N : token_flow[k] \in Token
    OBVIOUS
  <2>2. \A x \in Token : x.literal \in Seq(Chars)
    BY DEF Token
  <2>. QED
    BY <2>1, <2>2
<1>2. Snippet = FlattenSeq(ss)
  BY Zenon DEF Snippet, Space
<1>. HIDE DEF lit, N
<1>3. ASSUME NEW k \in 1..N
      PROVE  /\ ss[k] \in Seq(Chars) /\ Len(lit(k)) \in Nat /\ Len(ss[k]) = Len(lit(k)) + 1
             /\ ss[k][Len(lit(k)) + 1] = Space /\ \A j \in 1..Len(lit(k)) : ss[k][j] = lit(k)[j]
  <2>1. PICK x \in Seq(Chars) : x = lit(k)
    BY <1>1
  <2>2. PICK c \in Chars : c = Space
    BY SpaceIsNoPart, Zenon
  <2>3. ss[k] = Append(x, c)
    BY <2>1, <2>2
  <2>4. Len(x) \in Nat
    BY LenProperties
  <2>5. /\ Append(x, c) \in Seq(Chars) /\ Len(Append(x, c)) = Len(x) + 1
        /\ Append(x, c)[Len(x) + 1] = c /\ \A j \in 1..Len(x) : Append(x, c)[j] = x[j]
    BY AppendProperties
  <2>. HIDE DEF ss
  <2>. QED
    BY <2>1, <2>2, <2>3, <2>4, <2>5, Zenon
<1>4. ss \in Seq(Seq(Chars)) /\ Len(ss) = N
  <2>1. ss \in [1..N -> Seq(Chars)]
    BY <1>3
  <2>. HIDE DEF ss
  <2>. QED
    BY <1>1, <2>1
<1>. HIDE DEF ss
<1>5. PICK f : Flattens(f, Chars, ss)
  BY <1>4, FlattenIsFunction
<1>. DEFINE off == [n \in 0..N |-> Len(f[n])]
            t == FlattenSeq(ss)
<1>6. t \in Seq(Chars)
  BY <1>4, FlattenType
<1>7. off[0] = 0 /\ off[N] = Len(t)
  <2>1. f[0] = <<>> /\ t = f[N]
    BY <1>4, <1>5, Zenon DEF Flattens
  <2>2. 0 \in 0..N /\ N \in 0..N
    BY <1>1
  <2>3. Len(f[0]) = 0
    BY <2>1
  <2>. QED
    BY <2>1, <2>2, <2>3
<1>8. ASSUME NEW k \in 1..N
      PROVE  /\ off[k - 1] \in Nat /\ Len(lit(k)) \in Nat
             /\ off[k] = (off[k - 1] + Len(lit(k))) + 1 /\ off[k] <= Len(t)
             /\ t[(off[k - 1] + Len(lit(k))) + 1] = Space
             /\ \A j \in 1..Len(lit(k)) : t[off[k - 1] + j] = lit(k)[j]
  <2>1. k \in 1..Len(ss)
    BY <1>4
  <2>. HIDE DEF off, t
  <2>2. /\ Len(f[k - 1]) \in Nat /\ Len(ss[k]) \in Nat /\ Len(f[k]) = Len(f[k - 1]) + Len(ss[k])
        /\ Len(f[k]) <= Len(t)
        /\ \A j \in 1..Len(ss[k]) : t[Len(f[k - 1]) + j] = ss[k][j]
    <3>1. StandsIn(f, ss, k)
      BY <1>4, <1>5, <2>1, FlattenPlaces
    <3>. QED
      BY <3>1, Zenon DEF StandsIn, t
  <2>3. k \in 0..N /\ k - 1 \in 0..N
    BY <1>1
  <2>4. off[k] = Len(f[k]) /\ off[k - 1] = Len(f[k - 1])
    BY <2>3 DEF off
  <2>5. PICK a \in Nat : a = Len(lit(k))
    BY <1>3
  <2>6. PICK b \in Nat : b = off[k - 1]
    BY <2>2, <2>4
  <2>7. Len(ss[k]) = a + 1
    BY <1>3, <2>5
  <2>8. off[k] = b + (a + 1) /\ off[k] <= Len(t)
    BY <2>2, <2>4, <2>6, <2>7, Zenon
  <2>9. \A j \in 1..(a + 1) : t[b + j] = ss[k][j]
    BY <2>2, <2>4, <2>6, <2>7, Zenon
  <2>10. t[(b + a) + 1] = Space
    <3>1. a + 1 \in 1..(a + 1) /\ b + (a + 1) = (b + a) + 1
      OBVIOUS
    <3>2. ss[k][a + 1] = Space
      BY <1>3, <2>5, Zenon
    <3>. QED
      BY <2>9, <3>1, <3>2
  <2>11. ASSUME NEW j \in 1..a PROVE t[b + j] = lit(k)[j]
    <3>1. j \in 1..(a + 1)
      OBVIOUS
    <3>2. ss[k][j] = lit(k)[j]
      BY <1>3, <2>5, Zenon
    <3>. QED
      BY <2>9, <3>1, <3>2, Zenon
  <2>12. off[k] = (b + a) + 1
    BY <2>8
  <2>. QED
    BY <2>5, <2>6, <2>8, <2>10, <2>11, <2>12, Zenon
<1>. HIDE DEF off, t
<1>9. Lays(off, t)
  BY <1>6, <1>7, <1>8, Zenon DEF Lays, lit, N
<1>. QED
  BY <1>2, <1>9, Zenon DEF t

\* A list made from its end, element by element.
LEMMA Listed ==
    ASSUME NEW H, NEW M \in Nat, NEW e \in [1..M -> H], NEW G, G[M] = <<>>,
           \A k \in 1..M : G[k - 1] = <<(e[k])>> \o G[k]
    PROVE  G[0] = e
<1> DEFINE Rest(k) == G[k] \in Seq(H) /\ Len(G[k]) = M - k /\ \A j \in 1..(M - k) : G[k][j] = e[k + j]
           T == {n \in 0..M : Rest(M - n)}
<1>1. Rest(M)
  <2>1. <<>> \in Seq(H) /\ Len(<<>>) = M - M /\ \A j \in 1..(M - M) : FALSE
    OBVIOUS
  <2>. QED
    BY <2>1, Zenon
<1>2. ASSUME NEW k \in 1..M, Rest(k) PROVE Rest(k - 1)
  <2>1. PICK x \in Seq(H) : x = G[k]
    BY <1>2, Zenon
  <2>2. PICK h \in H : h = e[k]
    OBVIOUS
  <2>3. Len(x) = M - k /\ \A j \in 1..(M - k) : x[j] = e[k + j]
    BY <1>2, <2>1, Zenon
  <2>. DEFINE y == <<h>> \o x
  <2>4. y \in Seq(H) /\ Len(y) = Len(x) + 1 /\ y[1] = h /\ \A j \in 1..Len(x) : y[j + 1] = x[j]
    BY Before
  <2>5. G[k - 1] = y
    BY <2>1, <2>2, Zenon
  <2>. HIDE DEF y
  <2>6. Len(y) = M - (k - 1)
    BY <2>3, <2>4
  <2>7. ASSUME NEW j \in 1..(M - (k - 1)) PROVE y[j] = e[(k - 1) + j]
    <3>1. CASE j = 1
      <4>1. (k - 1) + j = k
        BY <3>1
      <4>. QED
        BY <2>2, <2>4, <3>1, <4>1
    <3>2. CASE j # 1
      <4>1. PICK i \in 1..(M - k) : j = i + 1
        <5>1. j - 1 \in 1..(M - k) /\ j = (j - 1) + 1
          BY <3>2
        <5>. QED
          BY <5>1
      <4>2. (k - 1) + j = k + i
        BY <4>1
      <4>. QED
        BY <2>3, <2>4, <4>1, <4>2
    <3>. QED
      BY <3>1, <3>2
  <2>. QED
    BY <2>4, <2>5, <2>6, <2>7, Zenon
<1>. HIDE DEF Rest
<1>3. 0 \in T
  BY <1>1
<1>4. ASSUME NEW n \in 0..(M - 1), n \in T PROVE n + 1 \in T
  <2>1. PICK k \in 1..M : k = M - n
    OBVIOUS
  <2>2. k - 1 = M - (n + 1) /\ n + 1 \in 0..M
    BY <2>1
  <2>3. Rest(k - 1)
    BY <1>2, <1>4, <2>1
  <2>. QED
    BY <2>2, <2>3
<1>5. M \in T
  <2>1. \A n \in 0..M : n \in T
    <3>. HIDE DEF T
    <3>. QED
      BY <1>3, <1>4, UpTo
  <2>. QED
    BY <2>1
<1>6. Rest(0)
  <2>1. M - M = 0
    OBVIOUS
  <2>. QED
    BY <1>5, <2>1
<1>7. G[0] \in Seq(H) /\ Len(G[0]) = M - 0 /\ \A j \in 1..(M - 0) : G[0][j] = e[0 + j]
  BY <1>6, Zenon DEF Rest
<1>8. PICK x \in Seq(H) : x = G[0] /\ Len(x) = M - 0 /\ \A j \in 1..(M - 0) : x[j] = e[0 + j]
  BY <1>7, Zenon
<1>9. Len(x) = M /\ \A j \in 1..M : x[j] = e[j]
  BY <1>8
<1>10. x \in [1..M -> H]
  BY <1>9
<1>11. x = e
  BY <1>9, <1>10
<1>. QED
  BY <1>8, <1>11

\* What SnippetTellsTokens says of a text that was read to its end.
LEMMA SnippetRead ==
    ASSUME IInv, FromText, Parsed, ~Escapes(input)
    PROVE  Tokens(Snippet) = [k \in 1..Len(program) |-> [type |-> token_flow[k].type, literal |-> token_flow[k].literal]]
<1> DEFINE M == Len(program)
           lit(k) == token_flow[k].literal
           toks == [k \in 1..M |-> [type |-> token_flow[k].type, literal |-> lit(k)]]
           t == Snippet
<1>1. /\ input \in Seq(Chars) /\ token_flow \in Seq(Token) /\ M \in Nat
  BY DEF IInv, TypeInv
<1>2. Len(token_flow) = M + 2 /\ \A k \in 1..Len(token_flow) : token_flow[k].type = "EOF" <=> k > M
  BY EndsAreTwo DEF TwoEnds
<1>3. PICK off : Lays(off, t)
  BY <1>1, SnippetLays
<1>4. t \in Seq(Chars)
  BY <1>3 DEF Lays
<1>. HIDE DEF t
<1>5. PICK g : Reading(g, t)
  BY <1>4, TokensAreRead
<1>. HIDE DEF M
<1>6. ASSUME NEW k \in 1..(M + 2)
      PROVE  \E p \in 1..(Len(input) + 1) :
               /\ p <= Len(input) => input[p] \notin White
               /\ token_flow[k].type = TypeAt(input, p) /\ lit(k) = Literal(input, p)
  BY <1>2 DEF FromText
<1>. HIDE DEF lit
<1>7. ASSUME NEW k \in 1..(M + 2)
      PROVE  /\ off[k - 1] \in Nat /\ Len(lit(k)) \in Nat /\ off[k] = (off[k - 1] + Len(lit(k))) + 1
             /\ off[k] <= Len(t) /\ t[(off[k - 1] + Len(lit(k))) + 1] = Space
             /\ \A j \in 1..Len(lit(k)) : t[off[k - 1] + j] = lit(k)[j]
  BY <1>2, <1>3, Zenon DEF Lays, lit
<1>8. off[0] = 0 /\ off[M + 2] = Len(t) /\ Len(t) \in Nat
  BY <1>2, <1>3, <1>4 DEF Lays
<1>9. ASSUME NEW k \in 1..M
      PROVE  /\ toks[k] \in Heads
             /\ g[off[k - 1] + 1] = <<(toks[k])>> \o g[off[k] + 1]
  <2>1. k \in 1..(M + 2) /\ k \in 1..Len(token_flow) /\ ~(k > M)
    BY <1>1, <1>2
  <2>2. PICK p \in 1..(Len(input) + 1) :
          /\ p <= Len(input) => input[p] \notin White
          /\ token_flow[k].type = TypeAt(input, p) /\ lit(k) = Literal(input, p)
    BY <1>6, <2>1
  <2>3. TypeAt(input, p) # "EOF" /\ TypeAt(input, p) \in TokenTypes /\ Literal(input, p) \in Seq(Chars)
    BY <1>1, <1>2, <2>1, <2>2, TypeIsEnd, LiteralIsText
  <2>4. p \in 1..Len(input) /\ input[p] \notin White
    <3>1. p # Len(input) + 1
      BY <1>1, <2>3, TypeIsEnd
    <3>2. Len(input) \in Nat
      BY <1>1
    <3>. QED
      BY <2>2, <3>1, <3>2
  <2>5. toks[k] = HeadAt(input, p)
    BY <2>2 DEF HeadAt
  <2>6. HeadAt(input, p) \in Heads
    BY <2>3 DEF HeadAt, Heads
  <2>. HIDE DEF toks
  <2>7. PICK n \in Nat : n = Len(lit(k))
    BY <1>7, <2>1
  <2>8. PICK o \in Nat : o = off[k - 1]
    BY <1>7, <2>1
  <2>9. off[k] = (o + n) + 1 /\ off[k] <= Len(t) /\ t[(o + n) + 1] = Space
        /\ \A j \in 1..n : t[o + j] = lit(k)[j]
    BY <1>7, <2>1, <2>7, <2>8, Zenon
  <2>10. Lies(lit(k), n, t, o)
    BY <2>7, <2>9, Zenon DEF Lies
  <2>11. PICK x, h : x = lit(k) /\ h = HeadAt(input, p)
    OBVIOUS
  <2>12. x = Literal(input, p) /\ Lies(x, n, t, o) /\ h = HeadAt(input, p)
    BY <2>2, <2>10, <2>11
  <2>13. g[o + 1] = <<h>> \o g[((o + n) + 1) + 1]
    BY <1>1, <1>4, <1>5, <2>4, <2>12, ReadOne
  <2>. QED
    BY <2>5, <2>6, <2>8, <2>9, <2>12, <2>13, Zenon
<1>10. g[off[M] + 1] = <<>>
  <2>1. M + 1 \in 1..(M + 2) /\ M + 2 \in 1..(M + 2) /\ (M + 1) - 1 = M /\ (M + 2) - 1 = M + 1
        /\ M + 1 > M /\ M + 2 > M
    BY <1>1
  <2>2. ASSUME NEW k \in 1..(M + 2), k > M PROVE Len(lit(k)) = 0
    <3>1. PICK p \in 1..(Len(input) + 1) : token_flow[k].type = TypeAt(input, p) /\ lit(k) = Literal(input, p)
      BY <1>6
    <3>2. p = Len(input) + 1
      BY <1>1, <1>2, <2>2, <3>1, TypeIsEnd
    <3>3. At(input, p) = "end"
      BY <1>1, <3>2, AtIsEnd
    <3>4. Literal(input, p) = SubSeq(input, p, p - 1)
      <4>1. "end" # Backslash
        BY DEF Backslash
      <4>. QED
        BY <3>3, <4>1 DEF Literal, TokenEnd
    <3>5. SubSeq(input, p, p - 1) = <<>>
      BY SubSeqEmpty
    <3>6. Len(<<>>) = 0
      OBVIOUS
    <3>. QED
      BY <3>1, <3>4, <3>5, <3>6, Zenon
  <2>3. Len(lit(M + 1)) = 0 /\ Len(lit(M + 2)) = 0
    BY <2>1, <2>2
  <2>4. PICK o \in Nat : o = off[M]
    BY <1>7, <2>1
  <2>5. off[M + 1] = (o + 0) + 1 /\ t[(o + 0) + 1] = Space
    BY <1>7, <2>1, <2>3, <2>4, Zenon
  <2>6. PICK q \in Nat : q = off[M + 1]
    BY <1>7, <2>1
  <2>7. off[M + 2] = (q + 0) + 1 /\ t[(q + 0) + 1] = Space
    BY <1>7, <2>1, <2>3, <2>6, Zenon
  <2>8. q = o + 1 /\ Len(t) = q + 1 /\ t[q] = Space /\ t[q + 1] = Space
    BY <1>8, <2>5, <2>6, <2>7
  <2>9. PICK r \in 1..Len(t) : r = q + 1
    BY <2>8
  <2>10. g[q] = g[r] /\ g[r] = g[r + 1]
    <3>1. q \in 1..Len(t)
      BY <2>8
    <3>2. g[q] = g[q + 1]
      BY <1>4, <1>5, <2>8, <3>1, ReadBlank
    <3>3. t[r] = Space
      BY <2>8, <2>9
    <3>4. g[r] = g[r + 1]
      BY <1>4, <1>5, <3>3, ReadBlank
    <3>. QED
      BY <2>9, <3>2, <3>4
  <2>11. PICK x \in 1..(Len(t) + 1) : x = r + 1 /\ x > Len(t)
    BY <1>8, <2>8, <2>9
  <2>12. g[x] = <<>>
    <3>1. SkipWhitespace(t, x) \in x..(Len(t) + 1)
      BY <1>4, SkipsWhite
    <3>2. SkipWhitespace(t, x) > Len(t)
      BY <1>8, <2>11, <3>1
    <3>. QED
      BY <1>5, <3>2 DEF Reading
  <2>. QED
    BY <2>4, <2>8, <2>10, <2>11, <2>12
<1>. HIDE DEF toks
<1>. DEFINE G == [k \in 0..M |-> g[off[k] + 1]]
<1>11. G[M] = <<>> /\ G[0] = g[1]
  <2>1. M \in 0..M /\ 0 \in 0..M /\ off[0] + 1 = 1
    BY <1>1, <1>8
  <2>. QED
    BY <1>10, <2>1
<1>12. ASSUME NEW k \in 1..M PROVE G[k - 1] = <<(toks[k])>> \o G[k]
  <2>1. k \in 0..M /\ k - 1 \in 0..M
    BY <1>1
  <2>. QED
    BY <1>9, <2>1
<1>13. toks \in [1..M -> Heads]
  <2>1. \A k \in 1..M : toks[k] \in Heads
    BY <1>9
  <2>. QED
    BY <2>1 DEF toks
<1>. HIDE DEF G
<1>14. G[0] = toks
  BY <1>1, <1>11, <1>12, <1>13, Listed
<1>15. g[1] = Tokens(t)
  BY <1>5 DEF Reading
<1>. QED
  BY <1>11, <1>14, <1>15, Zenon DEF toks, t, M, lit

LEMMA NextTells == IInv /\ FromText => SnippetTellsTokens
<1>. QED
  BY SnippetRead DEF SnippetTellsTokens

\* The text of a sample, which GenCodeSnippets writes from the literals of a function's
\* tokens with a space after each, is read again as those very tokens, whatever the
\* function, as long as it holds no backslash (processor.h:318-321): functions that share a
\* text in token_flow_set_ (processor.h:345) share their tokens.
THEOREM SnippetTellsTokensHolds == Spec => []SnippetTellsTokens
<1>. QED
  BY AlwaysSpelled, NextTells, PTL

=============================================================================

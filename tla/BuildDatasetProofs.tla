------------------------- MODULE BuildDatasetProofs -------------------------
(***************************************************************************)
(* The two steps BuildDataset takes with a function.  GenCodeSnippets's    *)
(* renaming merges and splits no names, for every set of words, every pair *)
(* of definition maps and functions of any length.  What Inject makes of   *)
(* the text of a function differs in the one line it meant to edit, keeps  *)
(* or breaks the braces as that line tells, and calls out before it        *)
(* updates, for every set of functions with a body.                        *)
(***************************************************************************)
EXTENDS GenCodeSnippets, Injectors, SequenceTheorems, FiniteSetTheorems, WellFoundedInduction, TLAPS

-----------------------------------------------------------------------------
(* GenCodeSnippets *)

ProtectedWords == {W("tx"), W("origin"), W("add"), W("sub")}

\* The tokens not reached are as the lexer left them.
Untouched == \A p \in Tokens : p >= i => token_flow[p] = words[p]

\* What the loop leaves at a position it has passed.
Kept(p) == token_flow[p] = words[p] /\ (words[p] = W("value") \/ words[p] \in ProtectedWords)
Undefined(p) ==
    /\ words[p] \notin ProtectedWords /\ TypeOf(words[p]) = "UNKNOWN"
    /\ token_flow[p] = IF words[p] \in Numbers THEN NUM ELSE words[p]
Renamed(p) ==
    /\ words[p] \notin ProtectedWords
    /\ \E t \in DefTypes : /\ TypeOf(words[p]) = t /\ words[p] \in DOMAIN replace_map[t]
                           /\ token_flow[p] = <<t, replace_map[t][words[p]]>>
Outcomes == \A p \in Done : Kept(p) \/ Undefined(p) \/ Renamed(p)

\* The numbers of a type are at most as many as its words, so the next is new.
Numbered == \A t \in DefTypes : \A w \in DOMAIN replace_map[t] :
                replace_map[t][w] <= Cardinality(DOMAIN replace_map[t])
Injective == \A t \in DefTypes : \A v, w \in DOMAIN replace_map[t] :
                replace_map[t][v] = replace_map[t][w] => v = w

IInv == TypeOK /\ Untouched /\ Outcomes /\ Numbered /\ Injective

-----------------------------------------------------------------------------

LEMMA InitIInv == Init => IInv
<1>. SUFFICES ASSUME Init PROVE IInv
  OBVIOUS
<1>1. PICK n \in 0..MaxTokens : words \in [1..n -> Words]
  BY DEF Init
<1>2. n \in Nat /\ words \in Seq(Words) /\ Len(words) = n
  BY <1>1, MaxTokensAssumption
<1>3. \A t \in DefTypes : replace_map[t] = [w \in {} |-> 0]
  BY DEF Init
<1>4. TypeOK
  <2>1. func_def_map \in DefMap /\ all_def_map \in DefMap
    BY MapsAssumption DEF Init
  <2>2. token_flow \in Seq(Words \cup {NUM} \cup NewNames) /\ Len(token_flow) = Len(words)
    BY <1>1, <1>2 DEF Init
  <2>3. i \in 1..(Len(words) + 1)
    BY <1>2 DEF Init
  <2>4. DOMAIN replace_map = DefTypes
    BY DEF Init
  <2>5. \A t \in DefTypes : /\ IsFiniteSet(DOMAIN replace_map[t]) /\ DOMAIN replace_map[t] \subseteq Words
                            /\ replace_map[t] \in [DOMAIN replace_map[t] -> Nat \ {0}]
    BY <1>3, FS_EmptySet
  <2>. QED
    BY <1>2, <2>1, <2>2, <2>3, <2>4, <2>5 DEF TypeOK
<1>5. Untouched
  BY DEF Init, Untouched
<1>6. Outcomes
  <2>0. i = 1
    BY DEF Init
  <2>1. Done = {}
    BY <1>2, <2>0 DEF Done, Tokens
  <2>. QED
    BY <2>1 DEF Outcomes
<1>7. Numbered /\ Injective
  BY <1>3 DEF Numbered, Injective
<1>. QED
  BY <1>4, <1>5, <1>6, <1>7 DEF IInv

-----------------------------------------------------------------------------

\* A pass that gives position i the literal l leaves the tokens typed, those
\* before i as they were, and those after it untouched.
LEMMA OneToken ==
  ASSUME IInv, i \in Tokens, NEW l \in Words \cup {NUM} \cup NewNames,
         token_flow' = [token_flow EXCEPT ![i] = l], NextToken
  PROVE  /\ token_flow' \in Seq(Words \cup {NUM} \cup NewNames) /\ Len(token_flow') = Len(words)
         /\ i' \in 1..(Len(words) + 1)
         /\ \A p \in Tokens : p # i => token_flow'[p] = token_flow[p]
         /\ token_flow'[i] = l
         /\ Untouched'
         /\ Done' = Done \cup {i} /\ i \notin Done
<1>. USE DEF NextToken, Tokens
<1>1. /\ words \in Seq(Words) /\ Len(words) \in Nat /\ i \in 1..Len(words) /\ i \in Int
      /\ token_flow \in Seq(Words \cup {NUM} \cup NewNames) /\ Len(token_flow) = Len(words)
  BY DEF IInv, TypeOK
<1>2. token_flow' \in Seq(Words \cup {NUM} \cup NewNames) /\ Len(token_flow') = Len(words)
  BY <1>1
<1>3. \A p \in Tokens : p # i => token_flow'[p] = token_flow[p]
  BY <1>1
<1>4. token_flow'[i] = l
  BY <1>1
<1>5. Untouched'
  <2>. SUFFICES ASSUME NEW p \in 1..Len(words), p >= i + 1 PROVE token_flow'[p] = words[p]
    BY DEF Untouched
  <2>1. p # i /\ p >= i
    BY <1>1
  <2>. QED
    BY <1>3, <2>1 DEF IInv, Untouched
<1>6. Done' = Done \cup {i} /\ i \notin Done
  BY <1>1 DEF Done
<1>. QED
  BY <1>1, <1>2, <1>3, <1>4, <1>5, <1>6

-----------------------------------------------------------------------------

\* What holds at the positions before i goes on holding while names are only added.
LEMMA EarlierOutcomes ==
  ASSUME IInv, i \in Tokens, NEW l \in Words \cup {NUM} \cup NewNames,
         token_flow' = [token_flow EXCEPT ![i] = l], NextToken,
         \A t \in DefTypes : \A w \in DOMAIN replace_map[t] :
            w \in DOMAIN replace_map'[t] /\ replace_map'[t][w] = replace_map[t][w],
         NEW j, j = i, (Kept(j) \/ Undefined(j) \/ Renamed(j))'
  PROVE  Outcomes'
<1>1. /\ \A p \in Tokens : p # j => token_flow'[p] = token_flow[p]
      /\ Done' = Done \cup {j} /\ j \notin Done /\ Done \subseteq Tokens
  BY OneToken DEF Done
<1>2. words' = words /\ func_def_map' = func_def_map /\ all_def_map' = all_def_map
  BY DEF NextToken
<1>3. ASSUME NEW p \in Done PROVE (Kept(p) \/ Undefined(p) \/ Renamed(p))'
  <2>1. token_flow'[p] = token_flow[p] /\ (Kept(p) \/ Undefined(p) \/ Renamed(p))
    BY <1>1, <1>3 DEF IInv, Outcomes
  <2>2. CASE Kept(p)
    BY <1>2, <2>1, <2>2 DEF Kept
  <2>3. CASE Undefined(p)
    BY <1>2, <2>1, <2>3 DEF Undefined, TypeOf
  <2>4. CASE Renamed(p)
    BY <1>2, <2>1, <2>4 DEF Renamed, TypeOf
  <2>. QED
    BY <2>1, <2>2, <2>3, <2>4
<1>4. \A p \in Done \cup {j} : (Kept(p) \/ Undefined(p) \/ Renamed(p))'
  BY <1>3
<1>. QED
  BY <1>1, <1>4 DEF Outcomes

LEMMA SameNames ==
  ASSUME IInv, i \in Tokens, NEW l \in Words \cup {NUM} \cup NewNames,
         token_flow' = [token_flow EXCEPT ![i] = l], NextToken, replace_map' = replace_map,
         NEW j, j = i, (Kept(j) \/ Undefined(j) \/ Renamed(j))'
  PROVE  IInv'
<1>1. Outcomes'
  BY EarlierOutcomes
<1>2. TypeOK'
  BY OneToken DEF IInv, TypeOK, NextToken
<1>3. (Numbered /\ Injective)'
  BY DEF IInv, Numbered, Injective
<1>. QED
  BY <1>1, <1>2, <1>3, OneToken DEF IInv

LEMMA NextIInv == IInv /\ [Next]_vars => IInv'
<1>. SUFFICES ASSUME IInv, [Next]_vars PROVE IInv'
  OBVIOUS
<1>0. /\ words \in Seq(Words) /\ token_flow \in Seq(Words \cup {NUM} \cup NewNames)
      /\ Len(token_flow) = Len(words) /\ Len(words) \in Nat
  BY DEF IInv, TypeOK
<1>1. ASSUME i \in Tokens PROVE Word \in Words /\ token_flow[i] = Word
  BY <1>0, <1>1 DEF Word, Tokens, IInv, Untouched
<1>. PICK j : j = i
  OBVIOUS
<1>2. CASE KeepProtected
  <2>1. i \in Tokens /\ NextToken /\ replace_map' = replace_map /\ token_flow' = token_flow
    BY <1>2 DEF KeepProtected
  <2>2. token_flow' = [token_flow EXCEPT ![i] = Word]
    BY <1>0, <1>1, <2>1 DEF Tokens
  <2>3. token_flow'[j] = Word /\ words' = words /\ words[j] = Word
    BY <1>1, <2>1 DEF NextToken, Word
  <2>4. Word = W("value") \/ Word \in ProtectedWords
    BY <1>2 DEF KeepProtected, Protected, ProtectedWords
  <2>5. Kept(j)'
    BY <2>3, <2>4 DEF Kept, ProtectedWords
  <2>. QED
    BY <1>1, <2>1, <2>2, <2>5, SameNames
<1>3. CASE KeepUndefined
  <2>1. i \in Tokens /\ NextToken /\ replace_map' = replace_map
    BY <1>3 DEF KeepUndefined
  <2>2. Word \notin ProtectedWords /\ TypeOf(Word) = "UNKNOWN"
    BY <1>3 DEF KeepUndefined, Protected, ProtectedWords
  <2> DEFINE l == IF Word \in Numbers THEN NUM ELSE Word
  <2>3. l \in Words \cup {NUM} \cup NewNames /\ token_flow' = [token_flow EXCEPT ![i] = l]
    BY <1>1, <1>3, <2>1 DEF KeepUndefined, ReplaceLiteral
  <2>4. token_flow'[j] = l /\ words[j] = Word
    BY <2>1, <2>3, OneToken DEF Word
  <2>5. words' = words /\ func_def_map' = func_def_map /\ all_def_map' = all_def_map
    BY <2>1 DEF NextToken
  <2>6. Undefined(j)'
    BY <2>2, <2>4, <2>5 DEF Undefined, TypeOf, ProtectedWords
  <2> HIDE DEF l
  <2>. QED
    BY <2>1, <2>3, <2>6, SameNames
<1>4. CASE NameAgain
  <2>1. i \in Tokens /\ NextToken /\ replace_map' = replace_map /\ Word \notin ProtectedWords
    BY <1>4 DEF NameAgain, Protected, ProtectedWords
  <2>2. PICK t \in DefTypes : /\ TypeOf(Word) = t /\ Word \in DOMAIN replace_map[t]
                              /\ token_flow' = [token_flow EXCEPT ![i] = <<t, replace_map[t][Word]>>]
    BY <1>4 DEF NameAgain, ReplaceLiteral
  <2> DEFINE l == <<t, replace_map[t][Word]>>
  <2>3. l \in Words \cup {NUM} \cup NewNames
    BY <2>2 DEF IInv, TypeOK, NewNames
  <2>4. token_flow'[j] = l /\ words[j] = Word
    BY <2>1, <2>2, <2>3, OneToken DEF Word
  <2>5. words' = words /\ func_def_map' = func_def_map /\ all_def_map' = all_def_map
    BY <2>1 DEF NextToken
  <2>6. Renamed(j)'
    <3>1. TypeOf(words[j])' = t /\ words'[j] = Word
      BY <2>2, <2>4, <2>5 DEF TypeOf
    <3>. QED
      BY <2>1, <2>2, <2>4, <3>1 DEF Renamed, ProtectedWords
  <2> HIDE DEF l
  <2>7. token_flow' = [token_flow EXCEPT ![i] = l]
    BY <2>2 DEF l
  <2>. QED
    BY <2>1, <2>3, <2>6, <2>7, SameNames
<1>5. CASE NameFirst
  <2>1. i \in Tokens /\ NextToken /\ Word \notin ProtectedWords
    BY <1>5 DEF NameFirst, Protected, ProtectedWords
  <2>2. PICK t \in DefTypes :
          /\ TypeOf(Word) = t /\ Word \notin DOMAIN replace_map[t]
          /\ replace_map' = [replace_map EXCEPT ![t] = WithName(replace_map[t], Word, NextNumber(t))]
          /\ token_flow' = [token_flow EXCEPT ![i] = <<t, NextNumber(t)>>]
    BY <1>5 DEF NameFirst, ReplaceLiteral
  <2> DEFINE D == DOMAIN replace_map[t]
             n == NextNumber(t)
             l == <<t, n>>
  <2>3. /\ IsFiniteSet(D) /\ D \subseteq Words /\ replace_map[t] \in [D -> Nat \ {0}]
        /\ DOMAIN replace_map = DefTypes
    BY DEF IInv, TypeOK
  <2>4. Cardinality(D) \in Nat /\ n = Cardinality(D) + 1 /\ n \in Nat \ {0}
    BY <2>3, FS_CardinalityType DEF NextNumber
  <2>5. IsFiniteSet(D \cup {Word}) /\ Cardinality(D \cup {Word}) = n
    <3> HIDE DEF D
    <3>. QED
      BY <2>2, <2>3, <2>4, FS_AddElement DEF D
  <2>6. /\ DOMAIN replace_map' = DefTypes
        /\ \A u \in DefTypes \ {t} : replace_map'[u] = replace_map[u]
        /\ replace_map'[t] = [v \in D \cup {Word} |-> IF v = Word THEN n ELSE replace_map[t][v]]
    BY <2>2, <2>3 DEF WithName
  <2>7. l \in Words \cup {NUM} \cup NewNames
    BY <2>4 DEF NewNames
  <2>8. token_flow'[j] = l /\ words[j] = Word
    BY <2>1, <2>2, <2>7, OneToken DEF Word
  <2>9. words' = words /\ func_def_map' = func_def_map /\ all_def_map' = all_def_map
    BY <2>1 DEF NextToken
  <2> HIDE DEF D, n
  <2>10. DOMAIN replace_map'[t] = D \cup {Word} /\ replace_map'[t][Word] = n /\ D = DOMAIN replace_map[t]
    BY <2>6 DEF D
  <2>11. \A v \in D : replace_map'[t][v] = replace_map[t][v]
    BY <2>2, <2>6 DEF D
  <2>12. Renamed(j)'
    <3>1. TypeOf(words[j])' = t /\ words'[j] = Word
      BY <2>2, <2>8, <2>9 DEF TypeOf
    <3>2. token_flow'[j] = <<t, replace_map'[t][Word]>> /\ Word \in DOMAIN replace_map'[t]
      BY <2>8, <2>10
    <3>. QED
      BY <2>1, <3>1, <3>2 DEF Renamed, ProtectedWords
  <2> HIDE DEF l
  <2>13. token_flow' = [token_flow EXCEPT ![i] = l]
    BY <2>2 DEF l, n
  <2>14. Outcomes'
    <3>1. \A u \in DefTypes : \A w \in DOMAIN replace_map[u] :
            w \in DOMAIN replace_map'[u] /\ replace_map'[u][w] = replace_map[u][w]
      BY <2>6, <2>10, <2>11
    <3>. QED
      BY <2>1, <2>7, <2>12, <2>13, <3>1, EarlierOutcomes
  <2>15. \A u \in DefTypes : /\ IsFiniteSet(DOMAIN replace_map'[u]) /\ DOMAIN replace_map'[u] \subseteq Words
                             /\ replace_map'[u] \in [DOMAIN replace_map'[u] -> Nat \ {0}]
    <3>1. \A u \in DefTypes \ {t} : /\ IsFiniteSet(DOMAIN replace_map'[u]) /\ DOMAIN replace_map'[u] \subseteq Words
                                    /\ replace_map'[u] \in [DOMAIN replace_map'[u] -> Nat \ {0}]
      BY <2>6 DEF IInv, TypeOK
    <3>2. IsFiniteSet(DOMAIN replace_map'[t]) /\ DOMAIN replace_map'[t] \subseteq Words
      BY <1>1, <2>1, <2>3, <2>5, <2>10
    <3>3. replace_map'[t] \in [D \cup {Word} -> Nat \ {0}]
      BY <2>3, <2>4, <2>6, <2>10
    <3>. QED
      BY <2>10, <3>1, <3>2, <3>3
  <2>16. TypeOK'
    BY <2>1, <2>6, <2>7, <2>9, <2>13, <2>15, OneToken DEF IInv, TypeOK
  <2>17. Numbered'
    <3>1. \A u \in DefTypes \ {t} : \A w \in DOMAIN replace_map'[u] : replace_map'[u][w] <= Cardinality(DOMAIN replace_map'[u])
      BY <2>6 DEF IInv, Numbered
    <3>2. \A w \in D : replace_map'[t][w] <= n
      BY <2>3, <2>4, <2>10, <2>11 DEF IInv, Numbered
    <3>3. Cardinality(DOMAIN replace_map'[t]) = n /\ n <= n
      BY <2>4, <2>5, <2>10
    <3>4. \A w \in DOMAIN replace_map'[t] : replace_map'[t][w] <= n
      BY <2>10, <3>2, <3>3
    <3>. QED
      BY <3>1, <3>3, <3>4 DEF Numbered
  <2>18. Injective'
    <3>1. \A u \in DefTypes \ {t} : \A v, w \in DOMAIN replace_map'[u] : replace_map'[u][v] = replace_map'[u][w] => v = w
      BY <2>6 DEF IInv, Injective
    <3>2. \A v, w \in D : replace_map'[t][v] = replace_map'[t][w] => v = w
      BY <2>10, <2>11 DEF IInv, Injective
    <3>3. \A v \in D : replace_map'[t][v] # n
      BY <2>3, <2>4, <2>10, <2>11 DEF IInv, Numbered
    <3>. QED
      BY <2>10, <3>1, <3>2, <3>3 DEF Injective
  <2>19. Untouched'
    BY <2>1, <2>7, <2>13, OneToken
  <2>. QED
    BY <2>14, <2>16, <2>17, <2>18, <2>19 DEF IInv
<1>6. CASE UNCHANGED vars
  BY <1>6 DEF vars, IInv, TypeOK, Untouched, Outcomes, Numbered, Injective, Done, Tokens,
              Kept, Undefined, Renamed, TypeOf
<1>. QED
  BY <1>2, <1>3, <1>4, <1>5, <1>6 DEF Next

LEMMA AlwaysIInv == Spec => []IInv
<1>. QED
  BY InitIInv, NextIInv, PTL DEF Spec

-----------------------------------------------------------------------------

\* The maps, tokens and numbers keep their types: numbers from 1, for words of the source.
THEOREM NamesTypeCorrect == Spec => []TypeOK
<1>1. IInv => TypeOK
  BY DEF IInv
<1>. QED
  BY <1>1, AlwaysIInv, PTL

\* Renaming gives two words of a function the same text only if they are the same word,
\* the values of literals that are no defined names, the value of call.value and words spelled
\* like a new name aside.
THEOREM NamesDistinctHolds == Spec => []NamesDistinct
<1>1. IInv => NamesDistinct
  <2>. SUFFICES ASSUME IInv, NEW p \in Done, NEW q \in Done,
                       words[p] \notin Merged \cup NewNames \cup Ambiguous,
                       words[q] \notin Merged \cup NewNames \cup Ambiguous
                PROVE  token_flow[p] = token_flow[q] <=> words[p] = words[q]
    BY DEF NamesDistinct
  <2> DEFINE Stays(x) == /\ token_flow[x] = words[x]
                         /\ words[x] \in ProtectedWords \/ TypeOf(words[x]) = "UNKNOWN"
             Goes(x) == /\ words[x] \notin ProtectedWords
                        /\ \E t \in DefTypes : /\ TypeOf(words[x]) = t /\ words[x] \in DOMAIN replace_map[t]
                                               /\ token_flow[x] = <<t, replace_map[t][words[x]]>>
  <2>1. ASSUME NEW x \in Done, words[x] \notin Merged \cup NewNames \cup Ambiguous PROVE Stays(x) \/ Goes(x)
    <3>1. ASSUME Undefined(x) PROVE words[x] \notin Numbers
      <4>1. words[x] \in Words
        BY DEF IInv, TypeOK, Done, Tokens
      <4>2. Type(words[x]) = TypeOf(words[x])
        BY <4>1 DEF IInv, TypeOK, DefMap, DefTypes, Type, TypeOf
      <4>. QED
        BY <2>1, <3>1, <4>2 DEF Undefined, Merged
    <3>. QED
      BY <2>1, <3>1 DEF IInv, Outcomes, Kept, Undefined, Renamed, Ambiguous
  <2>2. ASSUME NEW x \in Done, NEW y \in Done, Stays(x), Goes(y), words[x] \notin NewNames
        PROVE  token_flow[x] # token_flow[y] /\ words[x] # words[y]
    <3>1. PICK t \in DefTypes : /\ TypeOf(words[y]) = t /\ words[y] \in DOMAIN replace_map[t]
                                /\ token_flow[y] = <<t, replace_map[t][words[y]]>>
      BY <2>2
    <3>2. token_flow[y] \in NewNames
      BY <3>1 DEF IInv, TypeOK, NewNames
    <3>3. t # "UNKNOWN"
      BY DEF DefTypes
    <3>. QED
      BY <2>2, <3>1, <3>2, <3>3
  <2>3. CASE Stays(p) /\ Stays(q)
    BY <2>3
  <2>4. CASE Stays(p) /\ Goes(q)
    BY <2>2, <2>4
  <2>5. CASE Goes(p) /\ Stays(q)
    BY <2>2, <2>5
  <2>6. CASE Goes(p) /\ Goes(q)
    <3>1. PICK t \in DefTypes : /\ TypeOf(words[p]) = t /\ words[p] \in DOMAIN replace_map[t]
                                /\ token_flow[p] = <<t, replace_map[t][words[p]]>>
      BY <2>6
    <3>2. PICK u \in DefTypes : /\ TypeOf(words[q]) = u /\ words[q] \in DOMAIN replace_map[u]
                                /\ token_flow[q] = <<u, replace_map[u][words[q]]>>
      BY <2>6
    <3>3. ASSUME words[p] = words[q] PROVE token_flow[p] = token_flow[q]
      BY <3>1, <3>2, <3>3
    <3>4. ASSUME token_flow[p] = token_flow[q] PROVE words[p] = words[q]
      <4>1. t = u /\ replace_map[t][words[p]] = replace_map[u][words[q]]
        BY <3>1, <3>2, <3>4
      <4>. QED
        BY <3>1, <3>2, <4>1 DEF IInv, Injective
    <3>. QED
      BY <3>3, <3>4
  <2> HIDE DEF Stays, Goes
  <2>. QED
    BY <2>1, <2>3, <2>4, <2>5, <2>6
<1>. QED
  BY <1>1, AlwaysIInv, PTL

\* No variable of the function is renamed to the VAR0 an injection writes.
THEOREM InjectedNameFreshHolds == Spec => []InjectedNameFresh
<1>1. IInv => InjectedNameFresh
  <2>. SUFFICES ASSUME IInv, NEW p \in Done, token_flow[p] = <<"VAR", 0>> PROVE words[p] = <<"VAR", 0>>
    BY DEF InjectedNameFresh
  <2>1. CASE Kept(p)
    BY <2>1 DEF Kept
  <2>2. CASE Undefined(p)
    BY <2>2 DEF Undefined, NUM
  <2>3. CASE Renamed(p)
    <3>1. PICK t \in DefTypes : words[p] \in DOMAIN replace_map[t] /\ token_flow[p] = <<t, replace_map[t][words[p]]>>
      BY <2>3 DEF Renamed
    <3>2. replace_map[t][words[p]] \in Nat \ {0}
      BY <3>1 DEF IInv, TypeOK
    <3>. QED
      BY <3>1, <3>2
  <2>. QED
    BY <2>1, <2>2, <2>3 DEF IInv, Outcomes
<1>. QED
  BY <1>1, AlwaysIInv, PTL

-----------------------------------------------------------------------------
(* The order of the numbers *)

\* The words of a type that have a number are those renamed so far.
Ordered == \A t \in DefTypes : DOMAIN replace_map[t] = Named(t, i - 1)

\* A pass changes what has been renamed up to its own position only.
LEMMA NamedAfter ==
  ASSUME IInv, i \in Tokens, NEW l \in Words \cup {NUM} \cup NewNames,
         token_flow' = [token_flow EXCEPT ![i] = l], NextToken, NEW j \in Int, j = i, NEW t
  PROVE  /\ \A p \in Int : p < j => Named(t, p)' = Named(t, p)
         /\ Named(t, j)' = Named(t, j - 1) \cup (IF l \in NewNames /\ Type(Word) = t THEN {Word} ELSE {})
<1>1. /\ \A p \in Tokens : p # j => token_flow'[p] = token_flow[p]
      /\ token_flow'[j] = l
      /\ Done' = Done \cup {j} /\ j \notin Done /\ Done \subseteq Tokens
  BY OneToken DEF Done
<1>2. words' = words /\ words[j] = Word /\ \A w : Type(w)' = Type(w)
  BY DEF NextToken, Type, Word
<1>3. \A r \in Done : r \in Int /\ r < j /\ r <= j - 1 /\ r <= j /\ r # j
  BY <1>1 DEF Done, Tokens
<1> DEFINE Was(r) == Type(words[r]) = t /\ token_flow[r] \in NewNames
           Is(r) == Type(words[r])' = t /\ token_flow'[r] \in NewNames
<1>4. \A r \in Done : Is(r) <=> Was(r)
  BY <1>1, <1>2, <1>3
<1>5. Is(j) <=> l \in NewNames /\ Type(Word) = t
  BY <1>1, <1>2
<1>6. \A p : Named(t, p) = {words[q] : q \in {r \in Done : r <= p /\ Was(r)}}
  BY DEF Named
<1>7. ASSUME NEW p \in Int PROVE Named(t, p)' = {words[q] : q \in {r \in Done \cup {j} : r <= p /\ Is(r)}}
  BY <1>1, <1>2 DEF Named
<1>. HIDE DEF Was, Is
<1>8. ASSUME NEW p \in Int, p < j PROVE Named(t, p)' = Named(t, p)
  <2>1. {r \in Done \cup {j} : r <= p /\ Is(r)} = {r \in Done : r <= p /\ Was(r)}
    BY <1>4, <1>8
  <2>. QED
    BY <1>6, <1>7, <2>1
<1>9. Named(t, j)' = Named(t, j - 1) \cup (IF l \in NewNames /\ Type(Word) = t THEN {Word} ELSE {})
  <2>1. {r \in Done \cup {j} : r <= j /\ Is(r)} =
            {r \in Done : r <= j - 1 /\ Was(r)} \cup (IF Is(j) THEN {j} ELSE {})
    BY <1>3, <1>4
  <2> DEFINE S == {r \in Done : r <= j - 1 /\ Was(r)}
             S2 == {r \in Done \cup {j} : r <= j /\ Is(r)}
  <2>2. S2 = S \cup (IF Is(j) THEN {j} ELSE {})
    BY <2>1
  <2>3. Named(t, j)' = {words[q] : q \in S2} /\ Named(t, j - 1) = {words[q] : q \in S}
    BY <1>6, <1>7
  <2>. HIDE DEF S, S2
  <2>. QED
    BY <1>2, <1>5, <2>2, <2>3
<1>. QED
  BY <1>8, <1>9

\* What holds at the positions before i goes on holding; position i is left to show.
LEMMA CanonicalAfter ==
  ASSUME IInv, Ordered, NamesCanonical, i \in Tokens, NEW l \in Words \cup {NUM} \cup NewNames,
         token_flow' = [token_flow EXCEPT ![i] = l], NextToken,
         (Type(Word) \in DefTypes /\ l \in NewNames /\ Word \notin DOMAIN replace_map[Type(Word)])
            => l = <<Type(Word), Cardinality(DOMAIN replace_map[Type(Word)] \cup {Word})>>
  PROVE  NamesCanonical'
<1>. PICK j : j = i
  OBVIOUS
<1>1. j \in Int /\ Done \subseteq Tokens /\ (\A p \in Done : p \in Int /\ p < j /\ p - 1 < j)
  BY DEF IInv, TypeOK, Done, Tokens
<1>2. /\ \A p \in Tokens : p # j => token_flow'[p] = token_flow[p]
      /\ token_flow'[j] = l /\ Done' = Done \cup {j}
  BY OneToken
<1>3. words' = words /\ words[j] = Word /\ \A w : Type(w)' = Type(w)
  BY DEF NextToken, Type, Word
<1>4. \A t : /\ \A p \in Int : p < j => Named(t, p)' = Named(t, p)
             /\ Named(t, j)' = Named(t, j - 1) \cup (IF l \in NewNames /\ Type(Word) = t THEN {Word} ELSE {})
  BY <1>1, NamedAfter
<1>5. ASSUME NEW p \in Done, NEW t \in DefTypes, Type(words[p])' = t, token_flow'[p] \in NewNames,
             words'[p] \notin Named(t, p - 1)'
      PROVE  token_flow'[p] = <<t, Cardinality(Named(t, p)')>>
  <2>1. p \in Int /\ p < j /\ p - 1 \in Int /\ p - 1 < j /\ p \in Tokens /\ p # j
    BY <1>1
  <2>2. token_flow'[p] = token_flow[p] /\ Type(words[p]) = t
    BY <1>2, <1>3, <1>5, <2>1
  <2>3. Named(t, p - 1)' = Named(t, p - 1) /\ Named(t, p)' = Named(t, p)
    BY <1>4, <2>1
  <2>. QED
    BY <1>3, <1>5, <2>2, <2>3 DEF NamesCanonical
<1>6. ASSUME NEW t \in DefTypes, Type(words[j])' = t, token_flow'[j] \in NewNames,
             words'[j] \notin Named(t, j - 1)'
      PROVE  token_flow'[j] = <<t, Cardinality(Named(t, j)')>>
  <2>1. Type(Word) = t /\ l \in NewNames
    BY <1>2, <1>3, <1>6
  <2>2. Named(t, j - 1)' = Named(t, j - 1) /\ Named(t, j)' = Named(t, j - 1) \cup {Word}
    BY <1>1, <1>4, <2>1
  <2>3. Named(t, j - 1) = DOMAIN replace_map[t]
    BY DEF Ordered
  <2>. QED
    BY <1>2, <1>3, <1>6, <2>1, <2>2, <2>3
<1>7. \A p \in Done \cup {j} : \A t \in DefTypes :
        (Type(words[p])' = t /\ token_flow'[p] \in NewNames /\ words'[p] \notin Named(t, p - 1)')
            => token_flow'[p] = <<t, Cardinality(Named(t, p)')>>
  BY <1>5, <1>6
<1>. QED
  BY <1>2, <1>7 DEF NamesCanonical, Named

LEMMA CanonicalInv == Spec => [](Ordered /\ NamesCanonical)
<1>1. Init => Ordered /\ NamesCanonical
  <2>. SUFFICES ASSUME Init PROVE Ordered /\ NamesCanonical
    OBVIOUS
  <2>1. Done = {}
    BY InitIInv DEF Init, IInv, TypeOK, Done, Tokens
  <2>. QED
    BY <2>1 DEF Init, Ordered, NamesCanonical, Named
<1>2. IInv /\ Ordered /\ NamesCanonical /\ [Next]_vars => (Ordered /\ NamesCanonical)'
  <2>. SUFFICES ASSUME IInv, Ordered, NamesCanonical, [Next]_vars PROVE (Ordered /\ NamesCanonical)'
    OBVIOUS
  <2>0. /\ words \in Seq(Words) /\ token_flow \in Seq(Words \cup {NUM} \cup NewNames)
        /\ Len(token_flow) = Len(words) /\ Len(words) \in Nat /\ i \in Nat
    BY DEF IInv, TypeOK
  <2>1. ASSUME i \in Tokens PROVE Word \in Words /\ token_flow[i] = Word /\ TypeOf(Word) = Type(Word)
    <3>1. Word \in Words /\ token_flow[i] = Word
      BY <2>0, <2>1 DEF Word, Tokens, IInv, Untouched
    <3>. QED
      BY <3>1 DEF IInv, TypeOK, DefMap, DefTypes, Type, TypeOf
  <2>. PICK j : j = i
    OBVIOUS
  <2>. j \in Nat /\ j \in Int
    BY <2>0
  <2>2. ASSUME NextToken, replace_map' = replace_map, i \in Tokens, NEW l \in Words \cup {NUM} \cup NewNames,
               token_flow' = [token_flow EXCEPT ![i] = l],
               (l \in NewNames /\ Type(Word) \in DefTypes) => Word \in DOMAIN replace_map[Type(Word)]
        PROVE  (Ordered /\ NamesCanonical)'
    <3>1. NamesCanonical'
      BY <2>2, CanonicalAfter
    <3>2. \A t \in DefTypes : Named(t, j)' = DOMAIN replace_map[t]
      <4>. SUFFICES ASSUME NEW t \in DefTypes PROVE Named(t, j)' = DOMAIN replace_map[t]
        OBVIOUS
      <4>1. Named(t, j)' = Named(t, j - 1) \cup (IF l \in NewNames /\ Type(Word) = t THEN {Word} ELSE {})
        BY <2>2, NamedAfter
      <4>2. Named(t, j - 1) = DOMAIN replace_map[t]
        BY DEF Ordered
      <4>. QED
        BY <2>2, <4>1, <4>2
    <3>3. i' - 1 = j /\ replace_map' = replace_map
      BY <2>0, <2>2 DEF NextToken
    <3>4. Ordered'
      BY <3>2, <3>3 DEF Ordered
    <3>. QED
      BY <3>1, <3>4
  <2>3. CASE KeepProtected
    <3>1. i \in Tokens /\ NextToken /\ replace_map' = replace_map /\ token_flow' = token_flow
      BY <2>3 DEF KeepProtected
    <3>2. token_flow' = [token_flow EXCEPT ![i] = Word] /\ Word \in Words
      BY <2>0, <2>1, <3>1 DEF Tokens
    <3>3. Word \notin NewNames
      BY <2>3 DEF KeepProtected, Protected, W, NewNames, DefTypes
    <3>. QED
      BY <2>2, <3>1, <3>2, <3>3
  <2>4. CASE KeepUndefined
    <3>1. i \in Tokens /\ NextToken /\ replace_map' = replace_map /\ TypeOf(Word) = "UNKNOWN"
      BY <2>4 DEF KeepUndefined
    <3>2. PICK l \in Words \cup {NUM} \cup NewNames : token_flow' = [token_flow EXCEPT ![i] = l]
      BY <2>1, <2>4, <3>1 DEF KeepUndefined, ReplaceLiteral
    <3>3. Type(Word) \notin DefTypes
      BY <2>1, <3>1 DEF DefTypes
    <3>. QED
      BY <2>2, <3>1, <3>2, <3>3
  <2>5. CASE NameAgain
    <3>1. i \in Tokens /\ NextToken /\ replace_map' = replace_map
      BY <2>5 DEF NameAgain
    <3>2. PICK t \in DefTypes : /\ TypeOf(Word) = t /\ Word \in DOMAIN replace_map[t]
                                /\ token_flow' = [token_flow EXCEPT ![i] = <<t, replace_map[t][Word]>>]
      BY <2>5 DEF NameAgain, ReplaceLiteral
    <3>3. <<t, replace_map[t][Word]>> \in Words \cup {NUM} \cup NewNames
      BY <3>2 DEF IInv, TypeOK, NewNames
    <3>4. Word \in DOMAIN replace_map[Type(Word)]
      BY <2>1, <3>1, <3>2
    <3>. QED
      BY <2>2, <3>1, <3>2, <3>3, <3>4
  <2>6. CASE NameFirst
    <3>1. i \in Tokens /\ NextToken
      BY <2>6 DEF NameFirst
    <3>2. PICK t \in DefTypes :
            /\ TypeOf(Word) = t /\ Word \notin DOMAIN replace_map[t]
            /\ replace_map' = [replace_map EXCEPT ![t] = WithName(replace_map[t], Word, NextNumber(t))]
            /\ token_flow' = [token_flow EXCEPT ![i] = <<t, NextNumber(t)>>]
      BY <2>6 DEF NameFirst, ReplaceLiteral
    <3> DEFINE D == DOMAIN replace_map[t]
               n == NextNumber(t)
    <3>3. IsFiniteSet(D) /\ DOMAIN replace_map = DefTypes
      BY DEF IInv, TypeOK
    <3>4. Cardinality(D) \in Nat /\ n = Cardinality(D) + 1 /\ n \in Nat \ {0} /\ Cardinality(D \cup {Word}) = n
      BY <3>2, <3>3, FS_CardinalityType, FS_AddElement DEF NextNumber
    <3>5. <<t, n>> \in Words \cup {NUM} \cup NewNames /\ <<t, n>> \in NewNames
      BY <3>4 DEF NewNames
    <3>6. Type(Word) = t
      BY <2>1, <3>1, <3>2
    <3>7. NamesCanonical'
      <4>1. <<t, n>> = <<Type(Word), Cardinality(DOMAIN replace_map[Type(Word)] \cup {Word})>>
        BY <3>4, <3>6
      <4>. HIDE DEF n, D
      <4>2. token_flow' = [token_flow EXCEPT ![i] = <<t, n>>]
        BY <3>2 DEF n
      <4>. QED
        BY <3>1, <3>5, <4>1, <4>2, CanonicalAfter
    <3>8. \A u \in DefTypes : DOMAIN replace_map'[u] = DOMAIN replace_map[u] \cup (IF u = t THEN {Word} ELSE {})
      BY <3>2, <3>3 DEF WithName
    <3>9. \A u \in DefTypes : Named(u, j)' = Named(u, j - 1) \cup (IF u = t THEN {Word} ELSE {})
      <4>. SUFFICES ASSUME NEW u \in DefTypes
                    PROVE  Named(u, j)' = Named(u, j - 1) \cup (IF u = t THEN {Word} ELSE {})
        OBVIOUS
      <4>. HIDE DEF n, D
      <4>1. token_flow' = [token_flow EXCEPT ![i] = <<t, n>>]
        BY <3>2 DEF n
      <4>2. Named(u, j)' = Named(u, j - 1) \cup (IF <<t, n>> \in NewNames /\ Type(Word) = u THEN {Word} ELSE {})
        BY <3>1, <3>5, <4>1, NamedAfter
      <4>. QED
        BY <3>5, <3>6, <4>2
    <3>10. i' - 1 = j
      BY <2>0, <3>1 DEF NextToken
    <3>11. Ordered'
      BY <3>8, <3>9, <3>10 DEF Ordered
    <3>. QED
      BY <3>7, <3>11
  <2>7. CASE UNCHANGED vars
    <3>1. /\ words' = words /\ token_flow' = token_flow /\ replace_map' = replace_map /\ i' = i
          /\ func_def_map' = func_def_map /\ all_def_map' = all_def_map
      BY <2>7 DEF vars
    <3>2. Done' = Done /\ \A w : Type(w)' = Type(w)
      BY <3>1 DEF Done, Tokens, Type
    <3>3. \A t, p : Named(t, p)' = Named(t, p)
      BY <3>1, <3>2 DEF Named
    <3>4. Ordered'
      <4>1. \A t \in DefTypes : Named(t, j - 1)' = DOMAIN replace_map[t]
        BY <3>3 DEF Ordered
      <4>. QED
        BY <3>1, <4>1 DEF Ordered
    <3>5. \A p \in Done : \A t \in DefTypes :
            (Type(words[p])' = t /\ token_flow'[p] \in NewNames /\ words'[p] \notin Named(t, p - 1)')
                => token_flow'[p] = <<t, Cardinality(Named(t, p)')>>
      <4>. SUFFICES ASSUME NEW p \in Done, NEW t \in DefTypes, Type(words[p])' = t,
                           token_flow'[p] \in NewNames, words'[p] \notin Named(t, p - 1)'
                    PROVE  token_flow'[p] = <<t, Cardinality(Named(t, p)')>>
        OBVIOUS
      <4>1. Type(words[p]) = t
        BY <3>1, <3>2 DEF Type
      <4>2. Named(t, p - 1)' = Named(t, p - 1) /\ Named(t, p)' = Named(t, p)
        BY <3>3
      <4>. QED
        BY <3>1, <4>1, <4>2 DEF NamesCanonical
    <3>6. NamesCanonical'
      BY <3>2, <3>5 DEF NamesCanonical, Named
    <3>. QED
      BY <3>4, <3>6
  <2>. QED
    BY <2>3, <2>4, <2>5, <2>6, <2>7 DEF Next
<1>. QED
  BY <1>1, <1>2, AlwaysIInv, PTL DEF Spec

\* The names of each type are numbered from 1 in the order of their first occurrence, for
\* functions of any length: the flow does not depend on the names the author chose.
THEOREM NamesCanonicalHolds == Spec => []NamesCanonical
<1>. QED
  BY CanonicalInv, PTL

\* A set of naturals has a least member, which Min finds.
LEMMA MinIsLeast ==
    ASSUME NEW T \in SUBSET Nat, T # {}
    PROVE  Min(T) \in T /\ \A y \in T : Min(T) <= y
<1>. DEFINE Less == {ss \in Nat \X Nat : ss[1] < ss[2]}
<1>1. IsWellFoundedOn(Less, Nat)
  BY NatLessThanWellFounded DEF OpToRel
<1>2. \A a, b \in Nat : a < b => <<a, b>> \in Less
  OBVIOUS
<1>. HIDE DEF Less
<1>3. PICK x \in T : \A y \in T : ~(<<y, x>> \in Less)
  BY <1>1, WFMin
<1>4. \A y \in T : x <= y
  <2>. SUFFICES ASSUME NEW y \in T PROVE x <= y
    OBVIOUS
  <2>1. x \in Nat /\ y \in Nat /\ ~(<<y, x>> \in Less)
    BY <1>3
  <2>2. ~(y < x)
    BY <1>2, <2>1
  <2>. QED
    BY <2>1, <2>2
<1>. QED
  BY <1>4 DEF Min

-----------------------------------------------------------------------------
(* The order of a finite set of numbers *)

Upto(S, n) == {m \in S : m <= n}

\* Those up to a number are finitely many.
LEMMA UptoFinite ==
    ASSUME NEW S \in SUBSET Nat, IsFiniteSet(S), NEW n \in Nat
    PROVE  /\ IsFiniteSet(Upto(S, n)) /\ Cardinality(Upto(S, n)) \in Nat
           /\ Cardinality(Upto(S, n)) <= Cardinality(S)
           /\ Cardinality(S) \in Nat
BY FS_Subset, FS_CardinalityType DEF Upto

\* One more member, one more in number.
LEMMA UptoMore ==
    ASSUME NEW S \in SUBSET Nat, IsFiniteSet(S), NEW n \in Nat, NEW m \in S, n < m
    PROVE  Cardinality(Upto(S, n)) < Cardinality(Upto(S, m))
<1>0. m \in Nat /\ \A x \in S : x \in Nat
  OBVIOUS
<1>1. Upto(S, n) \in SUBSET Upto(S, m) /\ m \in Upto(S, m) /\ m \notin Upto(S, n) /\ m \in Nat
  <2>1. \A x \in S : x <= n => x <= m
    BY <1>0
  <2>2. Upto(S, n) \in SUBSET Upto(S, m)
    BY <2>1 DEF Upto
  <2>3. m \in Upto(S, m)
    BY <1>0 DEF Upto
  <2>4. m \notin Upto(S, n)
    BY <1>0 DEF Upto
  <2>. QED
    BY <1>0, <2>2, <2>3, <2>4
<1>2. IsFiniteSet(Upto(S, m)) /\ Cardinality(Upto(S, m)) \in Nat /\ Cardinality(Upto(S, n)) \in Nat
  BY <1>1, UptoFinite
<1>3. Upto(S, n) # Upto(S, m)
  BY <1>1
<1>4. Cardinality(Upto(S, n)) <= Cardinality(Upto(S, m)) /\ Cardinality(Upto(S, n)) # Cardinality(Upto(S, m))
  <2>. DEFINE A == Upto(S, m)
             B == Upto(S, n)
  <2>1. B \in SUBSET A /\ IsFiniteSet(A) /\ A # B
    BY <1>1, <1>2, <1>3
  <2>. HIDE DEF A, B
  <2>2. Cardinality(B) <= Cardinality(A) /\ (Cardinality(A) = Cardinality(B) => A = B)
    BY <2>1, FS_Subset
  <2>. QED
    BY <2>1, <2>2 DEF A, B
<1>. QED
  BY <1>2, <1>4

\* The number of a member tells which it is.
LEMMA NthOf ==
    ASSUME NEW S \in SUBSET Nat, IsFiniteSet(S), NEW n \in S
    PROVE  Nth(S, Cardinality(Upto(S, n))) = n
<1>1. ASSUME NEW m \in S, Cardinality(Upto(S, m)) = Cardinality(Upto(S, n)) PROVE m = n
  <2>1. m \in Nat /\ n \in Nat /\ Cardinality(Upto(S, m)) \in Nat
    BY UptoFinite
  <2>2. ~(m < n) /\ ~(n < m)
    BY <1>1, <2>1, UptoMore
  <2>. QED
    BY <2>1, <2>2
<1>. QED
  BY <1>1 DEF Nth, Upto

\* Every number up to the size of the set is that of a member.
LEMMA NthIn ==
    ASSUME NEW S \in SUBSET Nat, IsFiniteSet(S), NEW e \in 1..Cardinality(S)
    PROVE  Nth(S, e) \in S /\ Cardinality(Upto(S, Nth(S, e))) = e
<1>. DEFINE N == Cardinality(S)
           f == [n \in S |-> Cardinality(Upto(S, n))]
<1>1. N \in Nat
  BY FS_CardinalityType
<1>2. \A n \in S : f[n] \in 1..N
  <2>. TAKE n \in S
  <2>1. n \in Nat /\ n \in Upto(S, n)
    BY DEF Upto
  <2>2. IsFiniteSet(Upto(S, n)) /\ Cardinality(Upto(S, n)) \in Nat /\ Cardinality(Upto(S, n)) <= N
    BY <2>1, UptoFinite
  <2>3. Cardinality(Upto(S, n)) # 0
    BY <2>1, <2>2, FS_EmptySet
  <2>. QED
    BY <1>1, <2>2, <2>3
<1>3. f \in [S -> 1..N]
  BY <1>2
<1>4. \A n, m \in S : f[n] = f[m] => n = m
  BY NthOf
<1>5. IsFiniteSet(1..N) /\ Cardinality(1..N) = N
  <2>. HIDE DEF N
  <2>. QED
    BY <1>1, FS_Interval
<1>. HIDE DEF f, N
<1>6. f \in Injection(S, 1..N)
  BY <1>3, <1>4 DEF Injection, IsInjective
<1>7. f \in Surjection(S, 1..N)
  <2>1. Cardinality(S) = Cardinality(1..N)
    BY <1>5 DEF N
  <2>. QED
    BY <1>5, <1>6, <2>1, FS_Injection
<1>8. PICK n \in S : f[n] = e
  BY <1>7 DEF Surjection, N
<1>9. Cardinality(Upto(S, n)) = e
  BY <1>8 DEF f
<1>. QED
  BY <1>9, NthOf

\* The members come in their order.
LEMMA NthGrows ==
    ASSUME NEW S \in SUBSET Nat, IsFiniteSet(S), NEW e \in 1..Cardinality(S), NEW f \in 1..Cardinality(S), e < f
    PROVE  Nth(S, e) < Nth(S, f)
<1>1. /\ Nth(S, e) \in S /\ Cardinality(Upto(S, Nth(S, e))) = e
      /\ Nth(S, f) \in S /\ Cardinality(Upto(S, Nth(S, f))) = f
  BY NthIn
<1>0. Cardinality(S) \in Nat
  BY FS_CardinalityType
<1>2. Nth(S, e) \in Nat /\ Nth(S, f) \in Nat /\ e \in Nat /\ f \in Nat
  <2>. HIDE DEF Nth
  <2>1. \A x \in S : x \in Nat
    OBVIOUS
  <2>2. Nth(S, e) \in Nat /\ Nth(S, f) \in Nat
    BY <1>1, <2>1
  <2>3. e \in Nat /\ f \in Nat
    BY <1>0
  <2>. QED
    BY <2>2, <2>3
<1>3. Nth(S, e) # Nth(S, f)
  BY <1>1, <1>2
<1>4. ~(Nth(S, f) < Nth(S, e))
  BY <1>1, <1>2, UptoMore
<1>. QED
  BY <1>2, <1>3, <1>4

\* InOrder lists the values of its function.
LEMMA InOrderOf ==
    ASSUME NEW V, NEW S \in SUBSET Nat, IsFiniteSet(S), NEW f \in [S -> V]
    PROVE  /\ InOrder(f) \in Seq(V) /\ Len(InOrder(f)) = Cardinality(S)
           /\ \A e \in 1..Len(InOrder(f)) : \E n \in S : InOrder(f)[e] = f[n]
<1>1. Cardinality(S) \in Nat /\ DOMAIN f = S
  BY FS_CardinalityType
<1>2. \A e \in 1..Cardinality(S) : Nth(S, e) \in S
  BY NthIn
<1>3. \A e \in 1..Cardinality(S) : f[Nth(S, e)] \in V
  BY <1>2
<1>4. InOrder(f) = [e \in 1..Cardinality(S) |-> f[Nth(S, e)]]
  BY <1>1 DEF InOrder
<1>5. InOrder(f) \in [1..Cardinality(S) -> V]
  BY <1>3, <1>4
<1>6. InOrder(f) \in Seq(V) /\ Len(InOrder(f)) = Cardinality(S)
  BY <1>1, <1>5
<1>. QED
  BY <1>2, <1>4, <1>6

-----------------------------------------------------------------------------
(* The parts SplitString makes of a text *)

\* A word stands in finitely many places of a text.
LEMMA MarksFinite ==
    ASSUME NEW V, NEW s \in Seq(V), NEW d
    PROVE  /\ Len(s) \in Nat /\ Marks(s, d) \in SUBSET Nat /\ Marks(s, d) \in SUBSET (1..Len(s))
           /\ IsFiniteSet(Marks(s, d)) /\ Count(s, d) \in Nat
<1>1. Len(s) \in Nat /\ Marks(s, d) \in SUBSET (1..Len(s)) /\ IsFiniteSet(1..Len(s))
  BY FS_Interval DEF Marks
<1>2. IsFiniteSet(Marks(s, d))
  BY <1>1, FS_Subset
<1>3. Cardinality(Marks(s, d)) \in Nat
  BY <1>2, FS_CardinalityType
<1>. QED
  BY <1>1, <1>2, <1>3 DEF Count

Rank(s, d, n) == Cardinality(Upto(Marks(s, d), n))

\* How many delimiters there are up to a place.
LEMMA RankType ==
    ASSUME NEW V, NEW s \in Seq(V), NEW d, NEW n \in Nat
    PROVE  Rank(s, d, n) \in 0..Count(s, d)
<1>1. Marks(s, d) \in SUBSET Nat /\ IsFiniteSet(Marks(s, d)) /\ Count(s, d) \in Nat
  BY MarksFinite
<1>2. Cardinality(Upto(Marks(s, d), n)) \in Nat /\ Cardinality(Upto(Marks(s, d), n)) <= Cardinality(Marks(s, d))
  BY <1>1, UptoFinite
<1>. QED
  BY <1>1, <1>2 DEF Rank, Count

\* A delimiter further on has more before it.
LEMMA RankMore ==
    ASSUME NEW V, NEW s \in Seq(V), NEW d, NEW n \in Nat, NEW m \in Marks(s, d), n < m
    PROVE  Rank(s, d, n) < Rank(s, d, m)
<1>1. Marks(s, d) \in SUBSET Nat /\ IsFiniteSet(Marks(s, d))
  BY MarksFinite
<1>. QED
  BY <1>1, UptoMore DEF Rank

\* A place further on has no fewer before it.
LEMMA RankLess ==
    ASSUME NEW V, NEW s \in Seq(V), NEW d, NEW n \in Nat, NEW m \in Nat, n <= m
    PROVE  Rank(s, d, n) <= Rank(s, d, m)
<1>1. Marks(s, d) \in SUBSET Nat /\ IsFiniteSet(Marks(s, d))
  BY MarksFinite
<1>2. Upto(Marks(s, d), n) \in SUBSET Upto(Marks(s, d), m)
  <2>1. \A x \in Marks(s, d) : x \in Nat
    BY <1>1
  <2>2. \A x \in Marks(s, d) : x <= n => x <= m
    BY <2>1
  <2>. QED
    BY <2>2 DEF Upto
<1>3. IsFiniteSet(Upto(Marks(s, d), m))
  BY <1>1, UptoFinite
<1>. QED
  BY <1>2, <1>3, FS_Subset DEF Rank

\* The cuts: at 0, at each delimiter in turn, past the end.
LEMMA CutFirst == ASSUME NEW s, NEW d PROVE Cut(s, d, 0) = 0
BY DEF Cut

\* A cut is a delimiter, the e-th.
LEMMA CutIn ==
    ASSUME NEW V, NEW s \in Seq(V), NEW d, NEW e \in 1..Count(s, d)
    PROVE  Cut(s, d, e) \in Marks(s, d) /\ Rank(s, d, Cut(s, d, e)) = e
<1>1. Marks(s, d) \in SUBSET Nat /\ IsFiniteSet(Marks(s, d)) /\ Count(s, d) \in Nat
  BY MarksFinite
<1>2. Cut(s, d, e) = Nth(Marks(s, d), e)
  BY <1>1 DEF Cut
<1>. QED
  BY <1>1, <1>2, NthIn DEF Rank, Count

\* Past the last delimiter the cut is past the end.
LEMMA CutLast ==
    ASSUME NEW V, NEW s \in Seq(V), NEW d, NEW e \in Nat, e > Count(s, d)
    PROVE  Cut(s, d, e) = Len(s) + 1
<1>1. Count(s, d) \in Nat
  BY MarksFinite
<1>2. e # 0 /\ e \notin 1..Count(s, d)
  BY <1>1
<1>. QED
  BY <1>2 DEF Cut

\* A delimiter is the cut of its rank.
LEMMA CutIs ==
    ASSUME NEW V, NEW s \in Seq(V), NEW d, NEW n \in Marks(s, d)
    PROVE  Rank(s, d, n) \in 1..Count(s, d) /\ Cut(s, d, Rank(s, d, n)) = n
<1>1. Marks(s, d) \in SUBSET Nat /\ IsFiniteSet(Marks(s, d)) /\ Count(s, d) \in Nat /\ n \in Nat
  BY MarksFinite
<1>2. n \in Upto(Marks(s, d), n) /\ IsFiniteSet(Upto(Marks(s, d), n))
  BY <1>1, UptoFinite DEF Upto
<1>3. Rank(s, d, n) # 0
  BY <1>2, FS_EmptySet DEF Rank
<1>4. Rank(s, d, n) \in 1..Count(s, d)
  BY <1>1, <1>3, RankType
<1>5. Nth(Marks(s, d), Rank(s, d, n)) = n
  BY <1>1, NthOf DEF Rank
<1>. QED
  BY <1>1, <1>4, <1>5 DEF Cut

\* A position that is no delimiter lies between two cuts, and only there.
LEMMA CutAround ==
    ASSUME NEW V, NEW s \in Seq(V), NEW d, NEW n \in 1..Len(s), s[n] # d
    PROVE  Cut(s, d, Rank(s, d, n)) < n /\ n < Cut(s, d, Rank(s, d, n) + 1)
<1>. DEFINE r == Rank(s, d, n)
<1>1. Len(s) \in Nat /\ Count(s, d) \in Nat /\ Marks(s, d) \in SUBSET Nat /\ n \in Nat /\ n \notin Marks(s, d)
  BY MarksFinite DEF Marks
<1>2. r \in 0..Count(s, d)
  BY <1>1, RankType
<1>3. Cut(s, d, r) < n
  <2>1. CASE r = 0
    BY <1>1, <2>1, CutFirst
  <2>2. CASE r # 0
    <3>1. r \in 1..Count(s, d)
      BY <1>1, <1>2, <2>2
    <3>2. Cut(s, d, r) \in Marks(s, d) /\ Rank(s, d, Cut(s, d, r)) = r
      <4>. HIDE DEF r
      <4>. QED
        BY <3>1, CutIn
    <3>3. ~(n < Cut(s, d, r))
      BY <1>1, <1>2, <3>2, RankMore
    <3>. QED
      BY <1>1, <3>2, <3>3
  <2>. QED
    BY <2>1, <2>2
<1>4. n < Cut(s, d, r + 1)
  <2>1. CASE r + 1 > Count(s, d)
    BY <1>1, <1>2, <2>1, CutLast
  <2>2. CASE ~(r + 1 > Count(s, d))
    <3>1. r + 1 \in 1..Count(s, d)
      BY <1>1, <1>2, <2>2
    <3>2. Cut(s, d, r + 1) \in Marks(s, d) /\ Rank(s, d, Cut(s, d, r + 1)) = r + 1
      <4>. HIDE DEF r
      <4>. QED
        BY <3>1, CutIn
    <3>3. Cut(s, d, r + 1) \in Nat
      BY <1>1, <3>2
    <3>4. ~(Cut(s, d, r + 1) <= n)
      BY <1>1, <1>2, <3>2, <3>3, RankLess
    <3>. QED
      BY <1>1, <3>3, <3>4
  <2>. QED
    BY <2>1, <2>2
<1>. QED
  BY <1>3, <1>4

\* What lies between two cuts holds no delimiter.
LEMMA CutBetween ==
    ASSUME NEW V, NEW s \in Seq(V), NEW d, NEW e \in 0..Count(s, d), NEW n \in 1..Len(s),
           Cut(s, d, e) < n, n < Cut(s, d, e + 1)
    PROVE  s[n] # d /\ Rank(s, d, n) = e
<1>1. Len(s) \in Nat /\ Count(s, d) \in Nat /\ Marks(s, d) \in SUBSET Nat /\ n \in Nat /\ e \in Nat
  BY MarksFinite
<1>2. Rank(s, d, n) \in 0..Count(s, d)
  BY <1>1, RankType
<1>3. Rank(s, d, n) >= e
  <2>1. CASE e = 0
    BY <1>1, <1>2, <2>1
  <2>2. CASE e # 0
    <3>1. e \in 1..Count(s, d)
      BY <1>1, <2>2
    <3>2. Cut(s, d, e) \in Marks(s, d) /\ Rank(s, d, Cut(s, d, e)) = e
      BY <3>1, CutIn
    <3>3. Cut(s, d, e) \in Nat /\ Cut(s, d, e) <= n
      BY <1>1, <3>2
    <3>. QED
      BY <1>1, <1>2, <3>2, <3>3, RankLess
  <2>. QED
    BY <2>1, <2>2
<1>4. Rank(s, d, n) <= e
  <2>1. CASE e = Count(s, d)
    BY <1>1, <1>2, <2>1
  <2>2. CASE e # Count(s, d)
    <3>1. e + 1 \in 1..Count(s, d)
      BY <1>1, <2>2
    <3>2. Cut(s, d, e + 1) \in Marks(s, d) /\ Rank(s, d, Cut(s, d, e + 1)) = e + 1
      BY <3>1, CutIn
    <3>3. Rank(s, d, n) < e + 1
      BY <1>1, <3>2, RankMore
    <3>. QED
      BY <1>1, <1>2, <3>3
  <2>. QED
    BY <2>1, <2>2
<1>5. Rank(s, d, n) = e
  BY <1>1, <1>2, <1>3, <1>4
<1>6. s[n] # d
  <2>. SUFFICES ASSUME s[n] = d PROVE FALSE
    OBVIOUS
  <2>1. n \in Marks(s, d)
    BY DEF Marks
  <2>2. Cut(s, d, e) = n
    BY <1>5, <2>1, CutIs
  <2>. QED
    BY <1>1, <2>2
<1>. QED
  BY <1>5, <1>6

From(s, d, p) == Cut(s, d, p - 1) + 1
To(s, d, p) == Cut(s, d, p) - 1

\* The cuts come in order.
LEMMA CutGrows ==
    ASSUME NEW V, NEW s \in Seq(V), NEW d, NEW e \in 0..Count(s, d), NEW f \in Nat, e < f
    PROVE  Cut(s, d, e) \in 0..Len(s) /\ Cut(s, d, f) \in 1..(Len(s) + 1) /\ Cut(s, d, e) < Cut(s, d, f)
<1>1. Len(s) \in Nat /\ Count(s, d) \in Nat /\ Marks(s, d) \in SUBSET Nat /\ Marks(s, d) \in SUBSET (1..Len(s))
  BY MarksFinite
<1>2. Cut(s, d, e) \in 0..Len(s)
  <2>1. CASE e = 0
    BY <1>1, <2>1, CutFirst
  <2>2. CASE e # 0
    <3>1. e \in 1..Count(s, d)
      BY <1>1, <2>2
    <3>2. Cut(s, d, e) \in Marks(s, d)
      BY <3>1, CutIn
    <3>. QED
      BY <1>1, <3>2
  <2>. QED
    BY <2>1, <2>2
<1>3. CASE f > Count(s, d)
  BY <1>1, <1>2, <1>3, CutLast
<1>4. CASE ~(f > Count(s, d))
  <2>1. f \in 1..Count(s, d)
    BY <1>1, <1>4
  <2>2. Cut(s, d, f) \in Marks(s, d) /\ Rank(s, d, Cut(s, d, f)) = f
    BY <2>1, CutIn
  <2>3. Cut(s, d, f) \in 1..Len(s)
    BY <1>1, <2>2
  <2>4. CASE e = 0
    BY <1>1, <2>3, <2>4, CutFirst
  <2>5. CASE e # 0
    <3>1. e \in 1..Count(s, d)
      BY <1>1, <2>5
    <3>2. Cut(s, d, e) \in Marks(s, d) /\ Rank(s, d, Cut(s, d, e)) = e
      BY <3>1, CutIn
    <3>3. Cut(s, d, e) \in Nat /\ Cut(s, d, f) \in Nat
      BY <1>1, <1>2, <2>3
    <3>4. ~(Cut(s, d, f) <= Cut(s, d, e))
      <4>. SUFFICES ASSUME Cut(s, d, f) <= Cut(s, d, e) PROVE FALSE
        OBVIOUS
      <4>1. Rank(s, d, Cut(s, d, f)) <= Rank(s, d, Cut(s, d, e))
        BY <3>3, RankLess
      <4>. QED
        BY <1>1, <2>1, <2>2, <3>2, <4>1
    <3>. QED
      BY <1>2, <2>3, <3>3, <3>4
  <2>. QED
    BY <2>3, <1>2, <2>4, <2>5
<1>. QED
  BY <1>3, <1>4

\* A part for each delimiter, and one more when the text does not end in one.
LEMMA PartsType ==
    ASSUME NEW V, NEW s \in Seq(V), NEW d
    PROVE  /\ Parts(s, d) \in Nat /\ Count(s, d) \in Nat /\ Parts(s, d) \in {Count(s, d), Count(s, d) + 1}
           /\ Len(SplitString(s, d)) = Parts(s, d) /\ DOMAIN SplitString(s, d) = 1..Parts(s, d)
<1>1. Count(s, d) \in Nat
  BY MarksFinite
<1>2. Parts(s, d) \in Nat /\ Parts(s, d) \in {Count(s, d), Count(s, d) + 1}
  BY <1>1 DEF Parts
<1>. QED
  BY <1>1, <1>2 DEF SplitString

\* A part is what lies between two delimiters or ends of the text.
LEMMA PartIs ==
    ASSUME NEW V, NEW s \in Seq(V), NEW d, NEW p \in 1..Parts(s, d)
    PROVE  /\ From(s, d, p) \in 1..(Len(s) + 1) /\ To(s, d, p) \in 0..Len(s) /\ From(s, d, p) <= To(s, d, p) + 1
           /\ SplitString(s, d)[p] = SubSeq(s, From(s, d, p), To(s, d, p))
           /\ SplitString(s, d)[p] \in Seq(V)
           /\ Len(SplitString(s, d)[p]) = To(s, d, p) - From(s, d, p) + 1
           /\ \A x \in 1..Len(SplitString(s, d)[p]) : SplitString(s, d)[p][x] = s[From(s, d, p) + x - 1]
           /\ \A n \in From(s, d, p)..To(s, d, p) : s[n] # d
<1>1. Len(s) \in Nat /\ Count(s, d) \in Nat /\ Marks(s, d) \in SUBSET (1..Len(s))
  BY MarksFinite
<1>2. p \in Nat /\ p - 1 \in 0..Count(s, d) /\ (p - 1) + 1 = p /\ p - 1 < p
  BY <1>1, PartsType
<1>3. Cut(s, d, p - 1) \in 0..Len(s) /\ Cut(s, d, p) \in 1..(Len(s) + 1) /\ Cut(s, d, p - 1) < Cut(s, d, p)
  BY <1>2, CutGrows
<1>4. From(s, d, p) \in 1..(Len(s) + 1) /\ To(s, d, p) \in 0..Len(s) /\ From(s, d, p) <= To(s, d, p) + 1
  BY <1>1, <1>3 DEF From, To
<1>5. SplitString(s, d)[p] = SubSeq(s, From(s, d, p), To(s, d, p))
  BY DEF SplitString, From, To
<1>6. \A n \in From(s, d, p)..To(s, d, p) : s[n] \in V
  BY <1>1, <1>4
<1>7. /\ SubSeq(s, From(s, d, p), To(s, d, p)) \in Seq(V)
      /\ Len(SubSeq(s, From(s, d, p), To(s, d, p))) = To(s, d, p) - From(s, d, p) + 1
      /\ \A x \in 1..(To(s, d, p) - From(s, d, p) + 1) :
            SubSeq(s, From(s, d, p), To(s, d, p))[x] = s[From(s, d, p) + x - 1]
  <2>. DEFINE a == From(s, d, p)
             b == To(s, d, p)
  <2>1. a \in Int /\ b \in Int /\ a <= b + 1 /\ \A n \in a..b : s[n] \in V
    BY <1>1, <1>4, <1>6
  <2>. HIDE DEF a, b
  <2>2. /\ SubSeq(s, a, b) \in Seq(V)
        /\ Len(SubSeq(s, a, b)) = IF a <= b THEN b - a + 1 ELSE 0
        /\ \A x \in 1..(b - a + 1) : SubSeq(s, a, b)[x] = s[a + x - 1]
    BY <2>1, SubSeqProperties
  <2>3. Len(SubSeq(s, a, b)) = b - a + 1
    BY <2>1, <2>2
  <2>. QED
    BY <2>2, <2>3 DEF a, b
<1>8. \A n \in From(s, d, p)..To(s, d, p) : s[n] # d
  <2>. TAKE n \in From(s, d, p)..To(s, d, p)
  <2>1. n \in 1..Len(s) /\ Cut(s, d, p - 1) < n /\ n < Cut(s, d, (p - 1) + 1)
    BY <1>1, <1>2, <1>3 DEF From, To
  <2>. QED
    BY <1>2, <2>1, CutBetween
<1>. QED
  BY <1>4, <1>5, <1>7, <1>8

\* What stands before a part and behind it.
LEMMA PartEnds ==
    ASSUME NEW V, NEW s \in Seq(V), NEW d, NEW p \in 1..Parts(s, d)
    PROVE  /\ From(s, d, p) = 1 \/ (From(s, d, p) - 1 \in 1..Len(s) /\ s[From(s, d, p) - 1] = d)
           /\ To(s, d, p) = Len(s) \/ (To(s, d, p) + 1 \in 1..Len(s) /\ s[To(s, d, p) + 1] = d)
<1>1. Len(s) \in Nat /\ Count(s, d) \in Nat /\ Marks(s, d) \in SUBSET (1..Len(s))
  BY MarksFinite
<1>2. p \in Nat /\ p - 1 \in 0..Count(s, d) /\ p \in 1..(Count(s, d) + 1)
  BY <1>1, PartsType
<1>3. From(s, d, p) = 1 \/ (From(s, d, p) - 1 \in 1..Len(s) /\ s[From(s, d, p) - 1] = d)
  <2>1. CASE p = 1
    BY <2>1, CutFirst DEF From
  <2>2. CASE p # 1
    <3>1. p - 1 \in 1..Count(s, d)
      BY <1>1, <1>2, <2>2
    <3>2. Cut(s, d, p - 1) \in Marks(s, d)
      BY <3>1, CutIn
    <3>. QED
      BY <1>1, <3>2 DEF From, Marks
  <2>. QED
    BY <2>1, <2>2
<1>4. To(s, d, p) = Len(s) \/ (To(s, d, p) + 1 \in 1..Len(s) /\ s[To(s, d, p) + 1] = d)
  <2>1. CASE p > Count(s, d)
    BY <1>1, <1>2, <2>1, CutLast DEF To
  <2>2. CASE ~(p > Count(s, d))
    <3>1. p \in 1..Count(s, d)
      BY <1>1, <1>2, <2>2
    <3>2. Cut(s, d, p) \in Marks(s, d)
      BY <3>1, CutIn
    <3>. QED
      BY <1>1, <3>2 DEF To, Marks
  <2>. QED
    BY <2>1, <2>2
<1>. QED
  BY <1>3, <1>4

\* The part a position is in.
PartOf(s, d, n) == Rank(s, d, n) + 1

\* It is one of the parts, and holds the position.
LEMMA PartOfIs ==
    ASSUME NEW V, NEW s \in Seq(V), NEW d, NEW n \in 1..Len(s), s[n] # d
    PROVE  /\ PartOf(s, d, n) \in 1..Parts(s, d)
           /\ From(s, d, PartOf(s, d, n)) <= n /\ n <= To(s, d, PartOf(s, d, n))
<1>. DEFINE r == Rank(s, d, n)
<1>1. Len(s) \in Nat /\ Count(s, d) \in Nat /\ Marks(s, d) \in SUBSET Nat /\ Marks(s, d) \in SUBSET (1..Len(s)) /\ n \in Nat
  BY MarksFinite
<1>2. r \in 0..Count(s, d)
  BY <1>1, RankType
<1>3. Cut(s, d, r) < n /\ n < Cut(s, d, r + 1)
  BY CutAround
<1>4. r + 1 \in 1..Parts(s, d)
  <2>1. CASE Parts(s, d) = Count(s, d) + 1
    BY <1>1, <1>2, <2>1
  <2>2. CASE Parts(s, d) # Count(s, d) + 1
    <3>1. Parts(s, d) = Count(s, d) /\ s # <<>> /\ s[Len(s)] = d
      BY <1>1, <2>2, PartsType DEF Parts
    <3>2. Len(s) \in Marks(s, d) /\ n < Len(s)
      BY <1>1, <3>1 DEF Marks
    <3>3. r < Rank(s, d, Len(s))
      BY <1>1, <3>2, RankMore
    <3>4. Rank(s, d, Len(s)) \in 0..Count(s, d)
      BY <1>1, RankType
    <3>. QED
      BY <1>1, <1>2, <3>1, <3>3, <3>4
  <2>. QED
    BY <2>1, <2>2
<1>5. (r + 1) - 1 = r
  BY <1>1, <1>2
<1>6. Cut(s, d, r) \in 0..Len(s) /\ Cut(s, d, r + 1) \in 1..(Len(s) + 1)
  <2>1. r + 1 \in Nat /\ r < r + 1
    BY <1>1, <1>2
  <2>. HIDE DEF r
  <2>. QED
    BY <1>2, <2>1, CutGrows
<1>. QED
  BY <1>1, <1>3, <1>4, <1>5, <1>6 DEF PartOf, From, To

\* Positions in order are in parts in order.
LEMMA PartsApart ==
    ASSUME NEW V, NEW s \in Seq(V), NEW d, NEW p \in 1..Parts(s, d), NEW q \in 1..Parts(s, d), p < q
    PROVE  To(s, d, p) + 1 < From(s, d, q)
<1>1. Len(s) \in Nat /\ Count(s, d) \in Nat
  BY MarksFinite
<1>2. p \in Nat /\ q - 1 \in Nat /\ p \in 0..Count(s, d) /\ q - 1 \in 0..Count(s, d)
  BY <1>1, PartsType
<1>3. Cut(s, d, p) \in 0..Len(s) /\ Cut(s, d, q - 1) \in 0..Len(s)
  <2>1. p + 1 \in Nat /\ p < p + 1 /\ q \in Nat /\ q - 1 < q
    BY <1>2
  <2>. QED
    BY <1>2, <2>1, CutGrows
<1>4. Cut(s, d, p) <= Cut(s, d, q - 1)
  <2>1. CASE p = q - 1
    BY <1>3, <2>1
  <2>2. CASE p # q - 1
    <3>1. p < q - 1
      BY <1>2, <2>2
    <3>2. Cut(s, d, p) < Cut(s, d, q - 1)
      BY <1>2, <3>1, CutGrows
    <3>. QED
      BY <1>3, <3>2
  <2>. QED
    BY <2>1, <2>2
<1>. QED
  BY <1>1, <1>3, <1>4 DEF From, To

\* What holds no delimiter stays within a part.
LEMMA WithinPart ==
    ASSUME NEW V, NEW s \in Seq(V), NEW d, NEW a \in 1..Len(s), NEW b \in a..Len(s), \A n \in a..b : s[n] # d
    PROVE  /\ PartOf(s, d, a) \in 1..Parts(s, d)
           /\ From(s, d, PartOf(s, d, a)) <= a /\ b <= To(s, d, PartOf(s, d, a))
<1>. DEFINE p == PartOf(s, d, a)
           e == To(s, d, p)
<1>1. Len(s) \in Nat /\ a \in Nat /\ b \in Nat /\ a \in a..b /\ a <= b
  OBVIOUS
<1>2. p \in 1..Parts(s, d) /\ From(s, d, p) <= a /\ a <= e
  BY <1>1, PartOfIs
<1>3. e \in 0..Len(s) /\ (e = Len(s) \/ (e + 1 \in 1..Len(s) /\ s[e + 1] = d))
  <2>. HIDE DEF p
  <2>. QED
    BY <1>2, PartIs, PartEnds
<1>4. b <= e
  <2>. HIDE DEF e
  <2>. SUFFICES ASSUME ~(b <= e) PROVE FALSE
    OBVIOUS
  <2>1. e + 1 \in a..b
    BY <1>1, <1>2, <1>3
  <2>2. s[e + 1] = d
    BY <1>1, <1>2, <1>3, <2>1
  <2>. QED
    BY <2>1, <2>2
<1>. QED
  BY <1>2, <1>4

-----------------------------------------------------------------------------
(* Counting words *)

\* The places of a word in a text that is moved.
LEMMA ShiftedCount ==
    ASSUME NEW S \in SUBSET Int, IsFiniteSet(S), NEW c \in Int
    PROVE  /\ IsFiniteSet({n + c : n \in S}) /\ Cardinality({n + c : n \in S}) = Cardinality(S)
<1>. DEFINE T == {n + c : n \in S}
           f == [n \in S |-> n + c]
<1>1. f \in [S -> T]
  OBVIOUS
<1>2. \A a, b \in S : f[a] = f[b] => a = b
  <2>. SUFFICES ASSUME NEW a \in S, NEW b \in S, a + c = b + c PROVE a = b
    OBVIOUS
  <2>1. a \in Int /\ b \in Int
    OBVIOUS
  <2>. QED
    BY <2>1
<1>3. \A y \in T : \E x \in S : f[x] = y
  OBVIOUS
<1>. HIDE DEF f, T
<1>4. f \in Bijection(S, T)
  BY <1>1, <1>2, <1>3 DEF Bijection, Injection, Surjection, IsInjective
<1>5. ExistsBijection(S, T)
  BY <1>4 DEF ExistsBijection
<1>6. IsFiniteSet(T) /\ Cardinality(T) = Cardinality(S)
  BY <1>5, FS_Bijection
<1>. QED
  BY <1>6 DEF T

\* The words of two texts together.
LEMMA CountConcat ==
    ASSUME NEW V, NEW s \in Seq(V), NEW t \in Seq(V), NEW d
    PROVE  Count(s \o t, d) = Count(s, d) + Count(t, d)
<1>. DEFINE A == Marks(s, d)
           B == Marks(t, d)
           C == {n + Len(s) : n \in B}
<1>1. /\ Len(s) \in Nat /\ A \in SUBSET (1..Len(s)) /\ IsFiniteSet(A) /\ Cardinality(A) \in Nat
      /\ Len(t) \in Nat /\ B \in SUBSET (1..Len(t)) /\ IsFiniteSet(B) /\ Cardinality(B) \in Nat
  BY MarksFinite DEF Count
<1>2. IsFiniteSet(C) /\ Cardinality(C) = Cardinality(B)
  <2>1. B \in SUBSET Int /\ Len(s) \in Int
    BY <1>1
  <2>. HIDE DEF B
  <2>. QED
    BY <1>1, <2>1, ShiftedCount
<1>3. A \cap C = {}
  BY <1>1
<1>4. Marks(s \o t, d) = A \cup C
  <2>1. /\ Len(s \o t) = Len(s) + Len(t)
        /\ \A x \in 1..(Len(s) + Len(t)) : (s \o t)[x] = IF x <= Len(s) THEN s[x] ELSE t[x - Len(s)]
    BY ConcatProperties
  <2>2. ASSUME NEW x \in Marks(s \o t, d) PROVE x \in A \cup C
    <3>1. x \in 1..(Len(s) + Len(t)) /\ (s \o t)[x] = d
      BY <2>1, <2>2 DEF Marks
    <3>2. CASE x <= Len(s)
      BY <1>1, <2>1, <3>1, <3>2 DEF Marks
    <3>3. CASE ~(x <= Len(s))
      <4>1. x - Len(s) \in 1..Len(t) /\ t[x - Len(s)] = d /\ (x - Len(s)) + Len(s) = x
        BY <1>1, <2>1, <3>1, <3>3
      <4>2. x - Len(s) \in B
        BY <4>1 DEF Marks
      <4>. QED
        BY <4>1, <4>2
    <3>. QED
      BY <3>2, <3>3
  <2>3. ASSUME NEW x \in A PROVE x \in Marks(s \o t, d)
    BY <1>1, <2>1 DEF Marks
  <2>4. ASSUME NEW n \in B PROVE n + Len(s) \in Marks(s \o t, d)
    <3>1. n \in 1..Len(t) /\ t[n] = d
      BY DEF Marks
    <3>2. n + Len(s) \in 1..(Len(s) + Len(t)) /\ ~(n + Len(s) <= Len(s)) /\ (n + Len(s)) - Len(s) = n
      BY <1>1, <3>1
    <3>. QED
      BY <2>1, <3>1, <3>2 DEF Marks
  <2>. QED
    BY <2>2, <2>3, <2>4
<1>. HIDE DEF A, B, C
<1>5. Cardinality(A \cup C) = Cardinality(A) + Cardinality(C) - Cardinality({})
  BY <1>1, <1>2, <1>3, FS_Union
<1>. QED
  BY <1>1, <1>2, <1>4, <1>5, FS_EmptySet DEF Count, A, B

\* A word that is not there counts nothing.
LEMMA CountNone ==
    ASSUME NEW V, NEW s \in Seq(V), NEW d, \A n \in 1..Len(s) : s[n] # d
    PROVE  Count(s, d) = 0
<1>1. Marks(s, d) = {}
  BY DEF Marks
<1>. QED
  BY <1>1, FS_EmptySet DEF Count

\* The delimiters up to a place are those of the text up to it.
LEMMA RankIsCount ==
    ASSUME NEW V, NEW s \in Seq(V), NEW d, NEW n \in 0..Len(s)
    PROVE  Rank(s, d, n) = Count(SubSeq(s, 1, n), d)
<1>1. Len(s) \in Nat /\ Len(SubSeq(s, 1, n)) = n /\ \A x \in 1..n : SubSeq(s, 1, n)[x] = s[x]
  OBVIOUS
<1>2. Upto(Marks(s, d), n) = Marks(SubSeq(s, 1, n), d)
  BY <1>1 DEF Upto, Marks
<1>. QED
  BY <1>2 DEF Rank, Count

-----------------------------------------------------------------------------
(* One piece of a text replaced by another *)

Splice(s, u, v, r) == SubSeq(s, 1, u - 1) \o r \o SubSeq(s, v, Len(s))

\* The words of a text with a piece replaced.
LEMMA SpliceIs ==
    ASSUME NEW V, NEW s \in Seq(V), NEW u \in 1..(Len(s) + 1), NEW v \in u..(Len(s) + 1), NEW r \in Seq(V)
    PROVE  /\ Splice(s, u, v, r) \in Seq(V)
           /\ Len(Splice(s, u, v, r)) = Len(s) - (v - u) + Len(r)
           /\ \A x \in 1..(u - 1) : Splice(s, u, v, r)[x] = s[x]
           /\ \A x \in 1..Len(r) : Splice(s, u, v, r)[u - 1 + x] = r[x]
           /\ \A x \in v..Len(s) : Splice(s, u, v, r)[x - (v - u) + Len(r)] = s[x]
<1>. DEFINE a == SubSeq(s, 1, u - 1)
           b == SubSeq(s, v, Len(s))
<1>1. Len(s) \in Nat /\ Len(r) \in Nat /\ u \in Nat /\ v \in Nat
  OBVIOUS
<1>2. a \in Seq(V) /\ Len(a) = u - 1 /\ \A x \in 1..(u - 1) : a[x] = s[x]
  <2>1. \A x \in 1..(u - 1) : s[x] \in V
    OBVIOUS
  <2>2. u - 1 \in Int /\ 1 \in Int /\ (1 <= u - 1 \/ u - 1 = 0)
    BY <1>1
  <2>3. /\ a \in Seq(V) /\ Len(a) = IF 1 <= u - 1 THEN (u - 1) - 1 + 1 ELSE 0
        /\ \A x \in 1..((u - 1) - 1 + 1) : a[x] = s[1 + x - 1]
    BY <2>1, <2>2, SubSeqProperties
  <2>. QED
    BY <1>1, <2>2, <2>3
<1>3. b \in Seq(V) /\ Len(b) = Len(s) - v + 1 /\ \A x \in 1..(Len(s) - v + 1) : b[x] = s[v + x - 1]
  <2>1. \A x \in v..Len(s) : s[x] \in V
    BY <1>1
  <2>2. v \in Int /\ Len(s) \in Int /\ (v <= Len(s) \/ Len(s) - v + 1 = 0)
    BY <1>1
  <2>3. /\ b \in Seq(V) /\ Len(b) = IF v <= Len(s) THEN Len(s) - v + 1 ELSE 0
        /\ \A x \in 1..(Len(s) - v + 1) : b[x] = s[v + x - 1]
    BY <2>1, <2>2, SubSeqProperties
  <2>. QED
    BY <1>1, <2>2, <2>3
<1>. HIDE DEF a, b
<1>4. /\ a \o r \in Seq(V) /\ Len(a \o r) = Len(a) + Len(r)
      /\ \A x \in 1..(Len(a) + Len(r)) : (a \o r)[x] = IF x <= Len(a) THEN a[x] ELSE r[x - Len(a)]
  BY <1>2, ConcatProperties
<1>5. /\ (a \o r) \o b \in Seq(V) /\ Len((a \o r) \o b) = Len(a \o r) + Len(b)
      /\ \A x \in 1..(Len(a \o r) + Len(b)) :
            ((a \o r) \o b)[x] = IF x <= Len(a \o r) THEN (a \o r)[x] ELSE b[x - Len(a \o r)]
  <2>. DEFINE c == a \o r
  <2>1. c \in Seq(V)
    BY <1>4
  <2>. HIDE DEF c
  <2>2. /\ c \o b \in Seq(V) /\ Len(c \o b) = Len(c) + Len(b)
        /\ \A x \in 1..(Len(c) + Len(b)) : (c \o b)[x] = IF x <= Len(c) THEN c[x] ELSE b[x - Len(c)]
    BY <1>3, <2>1, ConcatProperties
  <2>. QED
    BY <2>2 DEF c
<1>6. Splice(s, u, v, r) = (a \o r) \o b
  BY DEF Splice, a, b
<1>7. ASSUME NEW x \in 1..(u - 1) PROVE ((a \o r) \o b)[x] = s[x]
  <2>1. x \in 1..(Len(a) + Len(r)) /\ x <= Len(a) /\ x \in 1..(Len(a \o r) + Len(b)) /\ x <= Len(a \o r)
    BY <1>1, <1>2, <1>3, <1>4
  <2>. QED
    BY <1>2, <1>4, <1>5, <2>1
<1>8. ASSUME NEW x \in 1..Len(r) PROVE ((a \o r) \o b)[u - 1 + x] = r[x]
  <2>. DEFINE y == u - 1 + x
  <2>1. /\ y \in 1..(Len(a) + Len(r)) /\ ~(y <= Len(a)) /\ y - Len(a) = x
        /\ y \in 1..(Len(a \o r) + Len(b)) /\ y <= Len(a \o r)
    BY <1>1, <1>2, <1>3, <1>4
  <2>. HIDE DEF y
  <2>2. ((a \o r) \o b)[y] = r[x]
    BY <1>4, <1>5, <2>1
  <2>. QED
    BY <2>2 DEF y
<1>9. ASSUME NEW x \in v..Len(s) PROVE ((a \o r) \o b)[x - (v - u) + Len(r)] = s[x]
  <2>. DEFINE y == x - (v - u) + Len(r)
             z == x - v + 1
  <2>1. /\ y \in 1..(Len(a \o r) + Len(b)) /\ ~(y <= Len(a \o r)) /\ y - Len(a \o r) = z
        /\ z \in 1..(Len(s) - v + 1) /\ v + z - 1 = x
    BY <1>1, <1>2, <1>3, <1>4
  <2>. HIDE DEF y, z
  <2>2. ((a \o r) \o b)[y] = s[x]
    BY <1>3, <1>5, <2>1
  <2>. QED
    BY <2>2 DEF y
<1>10. Len((a \o r) \o b) = Len(s) - (v - u) + Len(r)
  BY <1>1, <1>2, <1>3, <1>4, <1>5
<1>. QED
  BY <1>5, <1>6, <1>7, <1>8, <1>9, <1>10

\* What a text loses and gains.
LEMMA SpliceCount ==
    ASSUME NEW V, NEW s \in Seq(V), NEW u \in 1..(Len(s) + 1), NEW v \in u..(Len(s) + 1), NEW r \in Seq(V), NEW d
    PROVE  /\ Count(Splice(s, u, v, r), d) = Count(s, d) - Count(SubSeq(s, u, v - 1), d) + Count(r, d)
           /\ Count(SubSeq(s, u, v - 1), d) \in Nat /\ SubSeq(s, u, v - 1) \in Seq(V)
           /\ Len(SubSeq(s, u, v - 1)) = v - u
<1>. DEFINE a == SubSeq(s, 1, u - 1)
           m == SubSeq(s, u, v - 1)
           b == SubSeq(s, v, Len(s))
<1>1. Len(s) \in Nat /\ Len(r) \in Nat /\ u \in Nat /\ v \in Nat
  OBVIOUS
<1>2. a \in Seq(V) /\ b \in Seq(V) /\ m \in Seq(V) /\ Len(m) = v - u
  <2>1. /\ \A x \in 1..(u - 1) : s[x] \in V
        /\ \A x \in v..Len(s) : s[x] \in V
        /\ \A x \in u..(v - 1) : s[x] \in V
    BY <1>1
  <2>2. u - 1 \in Int /\ v - 1 \in Int /\ v \in Int /\ u \in Int /\ Len(s) \in Int
    BY <1>1
  <2>3. a \in Seq(V)
    BY <2>1, <2>2, SubSeqProperties
  <2>4. b \in Seq(V)
    BY <2>1, <2>2, SubSeqProperties
  <2>5. m \in Seq(V) /\ Len(m) = IF u <= v - 1 THEN (v - 1) - u + 1 ELSE 0
    BY <2>1, <2>2, SubSeqProperties
  <2>. QED
    BY <1>1, <2>3, <2>4, <2>5
<1>3. s = a \o m \o b
  <2>1. a \o m = SubSeq(s, 1, v - 1)
    <3>1. 1 \in 1..(Len(s) + 1) /\ u - 1 \in (1 - 1)..Len(s) /\ v - 1 \in (u - 1)..Len(s) /\ (u - 1) + 1 = u
      BY <1>1
    <3>. QED
      BY <3>1, ConcatAdjacentSubSeq
  <2>2. SubSeq(s, 1, v - 1) \o b = SubSeq(s, 1, Len(s))
    <3>1. 1 \in 1..(Len(s) + 1) /\ v - 1 \in (1 - 1)..Len(s) /\ Len(s) \in (v - 1)..Len(s) /\ (v - 1) + 1 = v
      BY <1>1
    <3>. QED
      BY <3>1, ConcatAdjacentSubSeq
  <2>. QED
    BY <2>1, <2>2, SubSeqFull
<1>4. Splice(s, u, v, r) = a \o r \o b
  BY DEF Splice
<1>. HIDE DEF a, b, m
<1>5. Count(a \o m \o b, d) = Count(a, d) + Count(m, d) + Count(b, d)
  <2>. DEFINE c == a \o m
  <2>1. c \in Seq(V) /\ Count(c, d) = Count(a, d) + Count(m, d)
    BY <1>2, CountConcat
  <2>. HIDE DEF c
  <2>2. Count(c \o b, d) = Count(c, d) + Count(b, d)
    BY <1>2, <2>1, CountConcat
  <2>. QED
    BY <2>1, <2>2 DEF c
<1>6. Count(a \o r \o b, d) = Count(a, d) + Count(r, d) + Count(b, d)
  <2>. DEFINE c == a \o r
  <2>1. c \in Seq(V) /\ Count(c, d) = Count(a, d) + Count(r, d)
    BY <1>2, CountConcat
  <2>. HIDE DEF c
  <2>2. Count(c \o b, d) = Count(c, d) + Count(b, d)
    BY <1>2, <2>1, CountConcat
  <2>. QED
    BY <2>1, <2>2 DEF c
<1>7. Count(a, d) \in Nat /\ Count(m, d) \in Nat /\ Count(b, d) \in Nat /\ Count(r, d) \in Nat
  BY <1>2, MarksFinite
<1>8. Count(s, d) = Count(a, d) + Count(m, d) + Count(b, d)
  BY <1>3, <1>5
<1>9. Count(Splice(s, u, v, r), d) = Count(s, d) - Count(m, d) + Count(r, d)
  BY <1>4, <1>6, <1>7, <1>8
<1>. QED
  BY <1>2, <1>7, <1>9 DEF m

\* What a piece of a text is.
LEMMA Piece ==
    ASSUME NEW V, NEW s \in Seq(V), NEW a \in 1..(Len(s) + 1), NEW b \in (a - 1)..Len(s)
    PROVE  /\ SubSeq(s, a, b) \in Seq(V) /\ Len(SubSeq(s, a, b)) = b - a + 1
           /\ \A x \in 1..(b - a + 1) : SubSeq(s, a, b)[x] = s[a + x - 1]
<1>1. Len(s) \in Nat /\ a \in Int /\ b \in Int /\ (a <= b \/ b - a + 1 = 0)
  OBVIOUS
<1>2. \A x \in a..b : s[x] \in V
  BY <1>1
<1>3. /\ SubSeq(s, a, b) \in Seq(V) /\ Len(SubSeq(s, a, b)) = IF a <= b THEN b - a + 1 ELSE 0
      /\ \A x \in 1..(b - a + 1) : SubSeq(s, a, b)[x] = s[a + x - 1]
  BY <1>1, <1>2, SubSeqProperties
<1>. QED
  BY <1>1, <1>3

-----------------------------------------------------------------------------
(* SplitString and concatenation *)

\* The parts of a text that ends in a delimiter, or is empty.
Closed(s, d) == s = <<>> \/ s[Len(s)] = d

\* They are as many as its delimiters.
LEMMA ClosedParts ==
    ASSUME NEW V, NEW s \in Seq(V), NEW d, Closed(s, d)
    PROVE  Parts(s, d) = Count(s, d) /\ Cut(s, d, Count(s, d)) = Len(s) /\ Rank(s, d, Len(s)) = Count(s, d)
<1>1. Len(s) \in Nat /\ Count(s, d) \in Nat /\ Marks(s, d) \in SUBSET (1..Len(s))
  BY MarksFinite
<1>2. Parts(s, d) = Count(s, d)
  BY <1>1 DEF Parts, Closed
<1>3. Rank(s, d, Len(s)) = Count(s, d)
  <2>1. SubSeq(s, 1, Len(s)) = s
    BY SubSeqFull
  <2>. QED
    <3>1. Len(s) \in 0..Len(s)
      BY <1>1
    <3>2. Rank(s, d, Len(s)) = Count(SubSeq(s, 1, Len(s)), d)
      BY <3>1, RankIsCount
    <3>. QED
      BY <2>1, <3>2
<1>4. CASE s = <<>>
  <2>1. Len(s) = 0 /\ Marks(s, d) = {}
    BY <1>1, <1>4 DEF Marks
  <2>2. Count(s, d) = 0
    BY <2>1, FS_EmptySet DEF Count
  <2>. QED
    BY <1>2, <1>3, <2>1, <2>2, CutFirst
<1>5. CASE s # <<>>
  <2>1. Len(s) \in Marks(s, d)
    BY <1>1, <1>5 DEF Marks, Closed
  <2>2. Cut(s, d, Rank(s, d, Len(s))) = Len(s)
    BY <2>1, CutIs
  <2>. QED
    BY <1>2, <1>3, <2>2
<1>. QED
  BY <1>4, <1>5

\* The cuts of two texts joined after a delimiter.
LEMMA JoinedCuts ==
    ASSUME NEW V, NEW s \in Seq(V), NEW t \in Seq(V), NEW d, Closed(s, d)
    PROVE  /\ \A e \in 0..Count(s, d) : Cut(s \o t, d, e) = Cut(s, d, e)
           /\ \A e \in Nat : Cut(s \o t, d, Count(s, d) + e) = Len(s) + Cut(t, d, e)
<1>. DEFINE c == s \o t
<1>1. /\ Len(s) \in Nat /\ Count(s, d) \in Nat /\ Marks(s, d) \in SUBSET (1..Len(s))
      /\ Len(t) \in Nat /\ Count(t, d) \in Nat /\ Marks(t, d) \in SUBSET (1..Len(t))
  BY MarksFinite
<1>2. /\ c \in Seq(V) /\ Len(c) = Len(s) + Len(t)
      /\ \A x \in 1..(Len(s) + Len(t)) : c[x] = IF x <= Len(s) THEN s[x] ELSE t[x - Len(s)]
  BY ConcatProperties
<1>3. Count(c, d) = Count(s, d) + Count(t, d)
  BY CountConcat
<1>4. ASSUME NEW e \in 1..Count(s, d) PROVE Cut(c, d, e) = Cut(s, d, e)
  <2>. DEFINE n == Cut(s, d, e)
  <2>1. n \in Marks(s, d) /\ Rank(s, d, n) = e
    BY CutIn
  <2>2. n \in 1..Len(s) /\ s[n] = d
    BY <2>1 DEF Marks
  <2>. HIDE DEF n, c
  <2>3. n \in 1..Len(c) /\ c[n] = d /\ n \in Marks(c, d)
    BY <1>1, <1>2, <2>2 DEF Marks
  <2>4. SubSeq(c, 1, n) = SubSeq(s, 1, n)
    BY <1>1, <2>2, SubSeqOfConcat1 DEF c
  <2>5. Rank(c, d, n) = e
    <3>1. Rank(c, d, n) = Count(SubSeq(c, 1, n), d)
      BY <1>1, <1>2, <2>3, RankIsCount
    <3>2. Rank(s, d, n) = Count(SubSeq(s, 1, n), d)
      BY <1>1, <2>2, RankIsCount
    <3>. QED
      BY <2>1, <2>4, <3>1, <3>2
  <2>6. Cut(c, d, Rank(c, d, n)) = n
    BY <1>2, <2>3, CutIs
  <2>. QED
    BY <2>5, <2>6 DEF n
<1>5. \A e \in 0..Count(s, d) : Cut(c, d, e) = Cut(s, d, e)
  BY <1>1, <1>4, CutFirst
<1>6. ASSUME NEW e \in 1..Count(t, d) PROVE Cut(c, d, Count(s, d) + e) = Len(s) + Cut(t, d, e)
  <2>. DEFINE m == Cut(t, d, e)
             n == Len(s) + m
  <2>1. m \in Marks(t, d) /\ Rank(t, d, m) = e
    BY CutIn
  <2>2. m \in 1..Len(t) /\ t[m] = d
    BY <2>1 DEF Marks
  <2>. HIDE DEF m
  <2>3. n \in 1..Len(c) /\ ~(n <= Len(s)) /\ n - Len(s) = m /\ n \in 1..(Len(s) + Len(t))
    BY <1>1, <1>2, <2>2
  <2>. HIDE DEF n, c
  <2>4. n \in Marks(c, d)
    BY <1>1, <1>2, <2>2, <2>3 DEF Marks
  <2>5. SubSeq(c, 1, n) = s \o SubSeq(t, 1, m)
    <3>. DEFINE b == SubSeq(t, 1, m)
    <3>1. b \in Seq(V) /\ Len(b) = m /\ \A x \in 1..m : b[x] = t[x]
      <4>1. 1 \in 1..(Len(t) + 1) /\ m \in (1 - 1)..Len(t)
        BY <1>1, <2>2
      <4>2. b \in Seq(V) /\ Len(b) = m - 1 + 1 /\ \A x \in 1..(m - 1 + 1) : b[x] = t[1 + x - 1]
        BY <4>1, Piece
      <4>. QED
        BY <1>1, <2>2, <4>2
    <3>. HIDE DEF b
    <3>2. /\ SubSeq(c, 1, n) \in Seq(V) /\ Len(SubSeq(c, 1, n)) = n
          /\ \A x \in 1..n : SubSeq(c, 1, n)[x] = c[x]
      BY <1>1, <1>2, <2>3
    <3>3. /\ s \o b \in Seq(V) /\ Len(s \o b) = Len(s) + m
          /\ \A x \in 1..(Len(s) + m) : (s \o b)[x] = IF x <= Len(s) THEN s[x] ELSE b[x - Len(s)]
      BY <3>1, ConcatProperties
    <3>4. n = Len(s) + m
      BY DEF n
    <3>5. \A x \in 1..n : SubSeq(c, 1, n)[x] = (s \o b)[x]
      <4>. TAKE x \in 1..n
      <4>1. x \in 1..(Len(s) + Len(t)) /\ x \in 1..(Len(s) + m) /\ (x <= Len(s) \/ x - Len(s) \in 1..m)
        BY <1>1, <2>2, <3>4
      <4>. QED
        BY <1>2, <3>1, <3>2, <3>3, <4>1
    <3>6. SubSeq(c, 1, n) = s \o b
      BY <3>2, <3>3, <3>4, <3>5, SeqEqual
    <3>. QED
      BY <3>6 DEF b
  <2>6. Rank(c, d, n) = Count(s, d) + e
    <3>1. Rank(c, d, n) = Count(SubSeq(c, 1, n), d)
      BY <1>1, <1>2, <2>3, RankIsCount
    <3>2. Rank(t, d, m) = Count(SubSeq(t, 1, m), d)
      BY <1>1, <2>2, RankIsCount
    <3>3. SubSeq(t, 1, m) \in Seq(V)
      <4>1. 1 \in 1..(Len(t) + 1) /\ m \in (1 - 1)..Len(t)
        BY <1>1, <2>2
      <4>. QED
        BY <4>1, Piece
    <3>4. Count(s \o SubSeq(t, 1, m), d) = Count(s, d) + Count(SubSeq(t, 1, m), d)
      BY <3>3, CountConcat
    <3>. QED
      BY <2>1, <2>5, <3>1, <3>2, <3>4
  <2>7. Cut(c, d, Rank(c, d, n)) = n
    BY <1>2, <2>4, CutIs
  <2>. QED
    BY <2>6, <2>7 DEF n, m
<1>7. ASSUME NEW e \in Nat PROVE Cut(c, d, Count(s, d) + e) = Len(s) + Cut(t, d, e)
  <2>1. CASE e = 0
    <3>1. Cut(s, d, Count(s, d)) = Len(s)
      BY ClosedParts
    <3>2. Cut(c, d, Count(s, d)) = Len(s)
      BY <1>1, <1>5, <3>1
    <3>. QED
      BY <1>1, <2>1, <3>2, CutFirst
  <2>2. CASE e \in 1..Count(t, d)
    BY <1>6, <2>2
  <2>3. CASE e > Count(t, d)
    <3>. DEFINE f == Count(s, d) + e
    <3>1. f \in Nat /\ f > Count(c, d)
      BY <1>1, <1>3, <2>3
    <3>. HIDE DEF c, f
    <3>2. Cut(c, d, f) = Len(c) + 1
      BY <1>2, <3>1, CutLast
    <3>3. Cut(t, d, e) = Len(t) + 1
      BY <2>3, CutLast
    <3>. QED
      BY <1>1, <1>2, <3>2, <3>3 DEF f, c
  <2>. QED
    BY <1>1, <2>1, <2>2, <2>3
<1>. QED
  BY <1>5, <1>7

\* The pieces of joined texts are those of the one or the other.
LEMMA JoinedPieces ==
    ASSUME NEW V, NEW s \in Seq(V), NEW t \in Seq(V)
    PROVE  /\ \A a \in 1..(Len(s) + 1) : \A b \in (a - 1)..Len(s) : SubSeq(s \o t, a, b) = SubSeq(s, a, b)
           /\ \A a \in 1..(Len(t) + 1) : \A b \in (a - 1)..Len(t) :
                 SubSeq(s \o t, Len(s) + a, Len(s) + b) = SubSeq(t, a, b)
<1>. DEFINE c == s \o t
<1>1. Len(s) \in Nat /\ Len(t) \in Nat
  OBVIOUS
<1>2. /\ c \in Seq(V) /\ Len(c) = Len(s) + Len(t)
      /\ \A x \in 1..(Len(s) + Len(t)) : c[x] = IF x <= Len(s) THEN s[x] ELSE t[x - Len(s)]
  BY ConcatProperties
<1>. HIDE DEF c
<1>3. ASSUME NEW a \in 1..(Len(s) + 1), NEW b \in (a - 1)..Len(s) PROVE SubSeq(c, a, b) = SubSeq(s, a, b)
  <2>1. /\ SubSeq(s, a, b) \in Seq(V) /\ Len(SubSeq(s, a, b)) = b - a + 1
        /\ \A x \in 1..(b - a + 1) : SubSeq(s, a, b)[x] = s[a + x - 1]
    BY Piece
  <2>2. a \in 1..(Len(c) + 1) /\ b \in (a - 1)..Len(c)
    BY <1>1, <1>2
  <2>3. /\ SubSeq(c, a, b) \in Seq(V) /\ Len(SubSeq(c, a, b)) = b - a + 1
        /\ \A x \in 1..(b - a + 1) : SubSeq(c, a, b)[x] = c[a + x - 1]
    BY <1>2, <2>2, Piece
  <2>4. \A x \in 1..(b - a + 1) : c[a + x - 1] = s[a + x - 1]
    <3>. TAKE x \in 1..(b - a + 1)
    <3>1. a + x - 1 \in 1..(Len(s) + Len(t)) /\ a + x - 1 <= Len(s)
      BY <1>1
    <3>. QED
      BY <1>2, <3>1
  <2>. QED
    BY <2>1, <2>3, <2>4, SeqEqual
<1>4. ASSUME NEW a \in 1..(Len(t) + 1), NEW b \in (a - 1)..Len(t)
      PROVE  SubSeq(c, Len(s) + a, Len(s) + b) = SubSeq(t, a, b)
  <2>. DEFINE e == Len(s) + a
             f == Len(s) + b
  <2>1. /\ SubSeq(t, a, b) \in Seq(V) /\ Len(SubSeq(t, a, b)) = b - a + 1
        /\ \A x \in 1..(b - a + 1) : SubSeq(t, a, b)[x] = t[a + x - 1]
    BY Piece
  <2>2. e \in 1..(Len(c) + 1) /\ f \in (e - 1)..Len(c) /\ f - e + 1 = b - a + 1
    BY <1>1, <1>2
  <2>. HIDE DEF e, f
  <2>3. /\ SubSeq(c, e, f) \in Seq(V) /\ Len(SubSeq(c, e, f)) = f - e + 1
        /\ \A x \in 1..(f - e + 1) : SubSeq(c, e, f)[x] = c[e + x - 1]
    BY <1>2, <2>2, Piece
  <2>4. \A x \in 1..(b - a + 1) : c[e + x - 1] = t[a + x - 1]
    <3>. TAKE x \in 1..(b - a + 1)
    <3>. DEFINE y == e + x - 1
    <3>1. y \in 1..(Len(s) + Len(t)) /\ ~(y <= Len(s)) /\ y - Len(s) = a + x - 1
      BY <1>1 DEF e
    <3>. HIDE DEF y
    <3>2. c[y] = t[a + x - 1]
      BY <1>2, <3>1
    <3>. QED
      BY <3>2 DEF y
  <2>5. SubSeq(c, e, f) = SubSeq(t, a, b)
    <3>1. Len(SubSeq(c, e, f)) = b - a + 1 /\ \A x \in 1..(b - a + 1) : SubSeq(c, e, f)[x] = t[a + x - 1]
      BY <2>2, <2>3, <2>4
    <3>2. \A x \in 1..Len(SubSeq(c, e, f)) : SubSeq(c, e, f)[x] = SubSeq(t, a, b)[x]
      BY <2>1, <3>1
    <3>. QED
      BY <2>1, <2>3, <3>1, <3>2, SeqEqual
  <2>. QED
    BY <2>5 DEF e, f
<1>. QED
  BY <1>3, <1>4 DEF c

\* The parts are texts of the same words.
LEMMA SplitType ==
    ASSUME NEW V, NEW s \in Seq(V), NEW d
    PROVE  SplitString(s, d) \in Seq(Seq(V))
<1>1. Parts(s, d) \in Nat /\ Len(SplitString(s, d)) = Parts(s, d)
  BY PartsType
<1>2. \A p \in 1..Parts(s, d) : SplitString(s, d)[p] \in Seq(V)
  BY PartIs
<1>3. SplitString(s, d) = [p \in 1..Parts(s, d) |-> SplitString(s, d)[p]]
  BY DEF SplitString
<1>4. [p \in 1..Parts(s, d) |-> SplitString(s, d)[p]] \in [1..Parts(s, d) -> Seq(V)]
  BY <1>2
<1>. QED
  BY <1>1, <1>3, <1>4

\* Texts joined after a delimiter have the parts of both.
LEMMA SplitJoined ==
    ASSUME NEW V, NEW s \in Seq(V), NEW t \in Seq(V), NEW d, Closed(s, d)
    PROVE  /\ SplitString(s \o t, d) = SplitString(s, d) \o SplitString(t, d)
           /\ Parts(s \o t, d) = Parts(s, d) + Parts(t, d)
<1>. DEFINE c == s \o t
           P == Parts(s, d)
           Q == Parts(t, d)
<1>1. /\ Len(s) \in Nat /\ Count(s, d) \in Nat /\ Len(t) \in Nat /\ Count(t, d) \in Nat
      /\ P \in Nat /\ Q \in Nat /\ P = Count(s, d) /\ Q <= Count(t, d) + 1
  BY MarksFinite, PartsType, ClosedParts
<1>2. /\ c \in Seq(V) /\ Len(c) = Len(s) + Len(t)
      /\ \A x \in 1..(Len(s) + Len(t)) : c[x] = IF x <= Len(s) THEN s[x] ELSE t[x - Len(s)]
  BY ConcatProperties
<1>3. Count(c, d) = Count(s, d) + Count(t, d)
  BY CountConcat
<1>4. Parts(c, d) = P + Q
  <2>1. CASE t = <<>>
    <3>1. c = s
      BY <2>1, ConcatEmptySeq
    <3>2. Parts(t, d) = 0
      <4>1. Marks(t, d) = {}
        BY <2>1 DEF Marks
      <4>2. Count(t, d) = 0
        BY <4>1, FS_EmptySet DEF Count
      <4>. QED
        BY <2>1, <4>2 DEF Parts
    <3>. QED
      BY <1>1, <3>1, <3>2
  <2>2. CASE t # <<>>
    <3>1. Len(c) \in 1..(Len(s) + Len(t)) /\ ~(Len(c) <= Len(s)) /\ Len(c) - Len(s) = Len(t) /\ Len(c) # 0
      BY <1>1, <1>2, <2>2
    <3>2. c # <<>> /\ c[Len(c)] = t[Len(t)]
      BY <1>2, <3>1
    <3>3. Parts(c, d) = Count(c, d) + (IF t[Len(t)] = d THEN 0 ELSE 1)
      BY <3>2 DEF Parts
    <3>4. Parts(t, d) = Count(t, d) + (IF t[Len(t)] = d THEN 0 ELSE 1)
      BY <2>2 DEF Parts
    <3>. DEFINE more == IF t[Len(t)] = d THEN 0 ELSE 1
    <3>5. more \in 0..1 /\ Parts(c, d) = Count(s, d) + Count(t, d) + more /\ Q = Count(t, d) + more
      BY <1>3, <3>3, <3>4
    <3>. HIDE DEF more, P, Q
    <3>. QED
      BY <1>1, <3>5
  <2>. QED
    BY <2>1, <2>2
<1>5. /\ SplitString(c, d) \in Seq(Seq(V)) /\ SplitString(s, d) \in Seq(Seq(V)) /\ SplitString(t, d) \in Seq(Seq(V))
      /\ Len(SplitString(c, d)) = P + Q /\ Len(SplitString(s, d)) = P /\ Len(SplitString(t, d)) = Q
  <2>1. SplitString(c, d) \in Seq(Seq(V)) /\ Len(SplitString(c, d)) = Parts(c, d)
    <3>. HIDE DEF c
    <3>. QED
      BY <1>2, SplitType, PartsType
  <2>2. /\ SplitString(s, d) \in Seq(Seq(V)) /\ SplitString(t, d) \in Seq(Seq(V))
        /\ Len(SplitString(s, d)) = P /\ Len(SplitString(t, d)) = Q
    BY SplitType, PartsType
  <2>. QED
    BY <1>4, <2>1, <2>2
<1>6. /\ \A e \in 0..Count(s, d) : Cut(c, d, e) = Cut(s, d, e)
      /\ \A e \in Nat : Cut(c, d, Count(s, d) + e) = Len(s) + Cut(t, d, e)
  BY JoinedCuts
<1>7. /\ \A a \in 1..(Len(s) + 1) : \A b \in (a - 1)..Len(s) : SubSeq(c, a, b) = SubSeq(s, a, b)
      /\ \A a \in 1..(Len(t) + 1) : \A b \in (a - 1)..Len(t) : SubSeq(c, Len(s) + a, Len(s) + b) = SubSeq(t, a, b)
  BY JoinedPieces
<1>8. ASSUME NEW p \in 1..P PROVE SplitString(c, d)[p] = SplitString(s, d)[p]
  <2>1. p \in 1..Parts(c, d) /\ p \in 0..Count(s, d) /\ p - 1 \in 0..Count(s, d)
    BY <1>1, <1>4
  <2>2. From(c, d, p) = From(s, d, p) /\ To(c, d, p) = To(s, d, p)
    BY <1>6, <2>1 DEF From, To
  <2>3. /\ From(s, d, p) \in 1..(Len(s) + 1) /\ To(s, d, p) \in 0..Len(s) /\ From(s, d, p) <= To(s, d, p) + 1
        /\ SplitString(s, d)[p] = SubSeq(s, From(s, d, p), To(s, d, p))
    BY PartIs
  <2>4. SplitString(c, d)[p] = SubSeq(c, From(c, d, p), To(c, d, p))
    BY <2>1 DEF SplitString, From, To
  <2>5. SubSeq(c, From(s, d, p), To(s, d, p)) = SubSeq(s, From(s, d, p), To(s, d, p))
    <3>. DEFINE a == From(s, d, p)
               b == To(s, d, p)
    <3>1. a \in 1..(Len(s) + 1) /\ b \in (a - 1)..Len(s)
      BY <1>1, <2>3
    <3>. HIDE DEF a, b
    <3>2. SubSeq(c, a, b) = SubSeq(s, a, b)
      BY <1>7, <3>1
    <3>. QED
      BY <3>2 DEF a, b
  <2>. QED
    BY <2>2, <2>3, <2>4, <2>5
<1>9. ASSUME NEW q \in 1..Q PROVE SplitString(c, d)[P + q] = SplitString(t, d)[q]
  <2>. DEFINE p == P + q
  <2>1. p \in 1..Parts(c, d) /\ q \in Nat /\ q - 1 \in Nat /\ p = Count(s, d) + q /\ p - 1 = Count(s, d) + (q - 1)
    BY <1>1, <1>4
  <2>. HIDE DEF p
  <2>2. Cut(c, d, p) = Len(s) + Cut(t, d, q) /\ Cut(c, d, p - 1) = Len(s) + Cut(t, d, q - 1)
    BY <1>6, <2>1
  <2>3. /\ From(t, d, q) \in 1..(Len(t) + 1) /\ To(t, d, q) \in 0..Len(t) /\ From(t, d, q) <= To(t, d, q) + 1
        /\ SplitString(t, d)[q] = SubSeq(t, From(t, d, q), To(t, d, q))
    BY PartIs
  <2>4. SplitString(c, d)[p] = SubSeq(c, From(c, d, p), To(c, d, p))
    BY <2>1 DEF SplitString, From, To
  <2>5. Cut(t, d, q) \in Int /\ Cut(t, d, q - 1) \in Int
    <3>1. q - 1 \in 0..Count(t, d) /\ q \in Nat /\ q - 1 < q
      BY <1>1, <2>1
    <3>. QED
      BY <1>1, <3>1, CutGrows
  <2>6. From(c, d, p) = Len(s) + From(t, d, q) /\ To(c, d, p) = Len(s) + To(t, d, q)
    BY <1>1, <2>2, <2>5 DEF From, To
  <2>7. SubSeq(c, Len(s) + From(t, d, q), Len(s) + To(t, d, q)) = SubSeq(t, From(t, d, q), To(t, d, q))
    <3>. DEFINE a == From(t, d, q)
               b == To(t, d, q)
    <3>1. a \in 1..(Len(t) + 1) /\ b \in (a - 1)..Len(t)
      BY <1>1, <2>3
    <3>. HIDE DEF a, b
    <3>2. SubSeq(c, Len(s) + a, Len(s) + b) = SubSeq(t, a, b)
      BY <1>7, <3>1
    <3>. QED
      BY <3>2 DEF a, b
  <2>. QED
    BY <2>3, <2>4, <2>6, <2>7 DEF p
<1>. HIDE DEF c, P, Q
<1>10. SplitString(c, d) = SplitString(s, d) \o SplitString(t, d)
  <2>. DEFINE A == SplitString(s, d)
             B == SplitString(t, d)
             C == SplitString(c, d)
  <2>1. A \in Seq(Seq(V)) /\ B \in Seq(Seq(V)) /\ C \in Seq(Seq(V)) /\ Len(A) = P /\ Len(B) = Q /\ Len(C) = P + Q
    BY <1>5
  <2>2. (\A p \in 1..P : C[p] = A[p]) /\ \A q \in 1..Q : C[P + q] = B[q]
    BY <1>8, <1>9
  <2>. HIDE DEF A, B, C
  <2>3. /\ A \o B \in Seq(Seq(V)) /\ Len(A \o B) = P + Q
        /\ \A x \in 1..(P + Q) : (A \o B)[x] = IF x <= P THEN A[x] ELSE B[x - P]
    BY <2>1, ConcatProperties
  <2>4. \A x \in 1..(P + Q) : C[x] = (A \o B)[x]
    <3>. TAKE x \in 1..(P + Q)
    <3>1. x <= P => C[x] = A[x]
      BY <1>1, <2>2
    <3>2. ~(x <= P) => x - P \in 1..Q /\ P + (x - P) = x
      BY <1>1
    <3>3. ~(x <= P) => C[x] = B[x - P]
      BY <2>2, <3>2
    <3>. QED
      BY <2>3, <3>1, <3>3
  <2>5. C = A \o B
    BY <2>1, <2>3, <2>4, SeqEqual
  <2>. QED
    BY <2>5 DEF A, B, C
<1>. QED
  BY <1>4, <1>10 DEF c, P, Q

\* A delimiter more at the end ends no part more.
LEMMA SplitEnd ==
    ASSUME NEW V, NEW s \in Seq(V), NEW d \in V, s # <<>>, s[Len(s)] # d
    PROVE  SplitString(s \o <<d>>, d) = SplitString(s, d)
<1>. DEFINE c == s \o <<d>>
<1>0. <<d>> \in Seq(V) /\ Len(<<d>>) = 1 /\ <<d>>[1] = d
  OBVIOUS
<1>1. Len(s) \in Nat /\ Count(s, d) \in Nat /\ Marks(s, d) \in SUBSET (1..Len(s))
  BY MarksFinite
<1>2. /\ c \in Seq(V) /\ Len(c) = Len(s) + 1
      /\ \A x \in 1..(Len(s) + 1) : c[x] = IF x <= Len(s) THEN s[x] ELSE <<d>>[x - Len(s)]
  BY <1>0, ConcatProperties
<1>3. Len(c) \in 1..(Len(s) + 1) /\ c[Len(c)] = d /\ c # <<>>
  BY <1>0, <1>1, <1>2
<1>4. Count(<<d>>, d) = 1
  <2>1. Marks(<<d>>, d) = {1}
    BY <1>0 DEF Marks
  <2>. QED
    BY <2>1, FS_Singleton DEF Count
<1>5. Count(c, d) = Count(s, d) + 1
  <2>1. Count(c, d) = Count(s, d) + Count(<<d>>, d)
    BY <1>0, CountConcat, ZenonT(60)
  <2>. QED
    BY <1>4, <2>1
<1>6. Parts(c, d) = Count(s, d) + 1 /\ Parts(s, d) = Count(s, d) + 1
  BY <1>1, <1>3, <1>5 DEF Parts
<1>7. ASSUME NEW e \in 0..(Count(s, d) + 1) PROVE Cut(c, d, e) = Cut(s, d, e)
  <2>1. CASE e = 0
    BY <2>1, CutFirst
  <2>2. CASE e \in 1..Count(s, d)
    <3>. DEFINE n == Cut(s, d, e)
    <3>1. n \in Marks(s, d) /\ Rank(s, d, n) = e
      BY <2>2, CutIn
    <3>2. n \in 1..Len(s) /\ s[n] = d
      BY <3>1 DEF Marks
    <3>. HIDE DEF n, c
    <3>3. n \in 1..Len(c) /\ c[n] = d /\ n \in Marks(c, d)
      BY <1>1, <1>2, <3>2 DEF Marks
    <3>4. SubSeq(c, 1, n) = SubSeq(s, 1, n)
      <4>1. 1 \in 1..Len(s) /\ n \in 1..Len(s)
        BY <1>1, <3>2
      <4>. DEFINE t == <<d>>
      <4>2. t \in Seq(V)
        BY <1>0
      <4>. HIDE DEF t
      <4>3. SubSeq(s \o t, 1, n) = SubSeq(s, 1, n)
        BY <4>1, <4>2, SubSeqOfConcat1
      <4>. QED
        BY <4>3 DEF c, t
    <3>5. Rank(c, d, n) = Count(SubSeq(c, 1, n), d)
      BY <1>1, <1>2, <3>3, RankIsCount
    <3>6. Rank(s, d, n) = Count(SubSeq(s, 1, n), d)
      BY <1>1, <3>2, RankIsCount
    <3>7. Cut(c, d, Rank(c, d, n)) = n
      BY <1>2, <3>3, CutIs
    <3>. QED
      BY <3>1, <3>4, <3>5, <3>6, <3>7 DEF n
  <2>3. CASE e = Count(s, d) + 1
    <3>1. Cut(s, d, e) = Len(s) + 1
      BY <1>1, <2>3, CutLast
    <3>. HIDE DEF c
    <3>2. Len(c) \in Marks(c, d)
      BY <1>1, <1>2, <1>3 DEF Marks
    <3>3. Rank(c, d, Len(c)) = Count(c, d)
      BY <1>2, <1>3, ClosedParts DEF Closed
    <3>4. Cut(c, d, Rank(c, d, Len(c))) = Len(c)
      BY <1>2, <3>2, CutIs
    <3>. QED
      BY <1>2, <1>5, <2>3, <3>1, <3>3, <3>4
  <2>. QED
    BY <1>1, <2>1, <2>2, <2>3
<1>8. ASSUME NEW p \in 1..Parts(s, d) PROVE SplitString(c, d)[p] = SplitString(s, d)[p]
  <2>1. p \in 1..Parts(c, d) /\ p \in 0..(Count(s, d) + 1) /\ p - 1 \in 0..(Count(s, d) + 1)
    BY <1>1, <1>6
  <2>2. From(c, d, p) = From(s, d, p) /\ To(c, d, p) = To(s, d, p)
    BY <1>7, <2>1 DEF From, To
  <2>3. /\ From(s, d, p) \in 1..(Len(s) + 1) /\ To(s, d, p) \in 0..Len(s) /\ From(s, d, p) <= To(s, d, p) + 1
        /\ SplitString(s, d)[p] = SubSeq(s, From(s, d, p), To(s, d, p))
    BY PartIs
  <2>4. SplitString(c, d)[p] = SubSeq(c, From(c, d, p), To(c, d, p))
    BY <2>1 DEF SplitString, From, To
  <2>5. SubSeq(c, From(s, d, p), To(s, d, p)) = SubSeq(s, From(s, d, p), To(s, d, p))
    <3>1. \A a \in 1..(Len(s) + 1) : \A b \in (a - 1)..Len(s) : SubSeq(c, a, b) = SubSeq(s, a, b)
      BY <1>0, JoinedPieces
    <3>. DEFINE a == From(s, d, p)
               b == To(s, d, p)
    <3>2. a \in 1..(Len(s) + 1) /\ b \in (a - 1)..Len(s)
      BY <1>1, <2>3
    <3>. HIDE DEF a, b
    <3>3. SubSeq(c, a, b) = SubSeq(s, a, b)
      BY <3>1, <3>2
    <3>. QED
      BY <3>3 DEF a, b
  <2>. QED
    BY <2>2, <2>3, <2>4, <2>5
<1>. HIDE DEF c
<1>9. SplitString(c, d) \in Seq(Seq(V)) /\ SplitString(s, d) \in Seq(Seq(V)) /\ Len(SplitString(c, d)) = Parts(c, d) /\ Len(SplitString(s, d)) = Parts(s, d)
  BY <1>2, SplitType, PartsType
<1>10. SplitString(c, d) = SplitString(s, d)
  <2>. DEFINE A == SplitString(c, d)
             B == SplitString(s, d)
  <2>1. A \in Seq(Seq(V)) /\ B \in Seq(Seq(V)) /\ Len(A) = Len(B) /\ \A x \in 1..Len(A) : A[x] = B[x]
    BY <1>6, <1>8, <1>9
  <2>. HIDE DEF A, B
  <2>2. A = B
    BY <2>1, SeqEqual
  <2>. QED
    BY <2>2 DEF A, B
<1>. QED
  BY <1>10 DEF c

\* A part starts the text or comes behind a delimiter.
LEMMA StartsJoined ==
    ASSUME NEW V, NEW s \in Seq(V), NEW t \in Seq(V)
    PROVE  IsPrefix(s, s \o t) /\ SubSeq(s \o t, 1, Len(s)) = s
<1>. DEFINE c == s \o t
<1>1. /\ c \in Seq(V) /\ Len(c) = Len(s) + Len(t) /\ Len(s) \in Nat /\ Len(t) \in Nat
  BY ConcatProperties
<1>2. SubSeq(c, 1, Len(s)) = SubSeq(s, 1, Len(s))
  <2>1. 1 \in 1..(Len(s) + 1) /\ Len(s) \in (1 - 1)..Len(s)
    BY <1>1
  <2>. QED
    BY <2>1, JoinedPieces
<1>3. SubSeq(s, 1, Len(s)) = s
  BY SubSeqFull
<1>. HIDE DEF c
<1>4. IsPrefix(s, c) /\ SubSeq(c, 1, Len(s)) = s
  BY <1>1, <1>2, <1>3 DEF IsPrefix
<1>. QED
  BY <1>4 DEF c

\* A part ends the text or comes before a delimiter.
LEMMA EndsJoined ==
    ASSUME NEW V, NEW s \in Seq(V), NEW t \in Seq(V)
    PROVE  IsSuffix(t, s \o t) /\ SubSeq(s \o t, Len(s) + 1, Len(s \o t)) = t
<1>. DEFINE c == s \o t
<1>1. /\ c \in Seq(V) /\ Len(c) = Len(s) + Len(t) /\ Len(s) \in Nat /\ Len(t) \in Nat
      /\ \A x \in 1..(Len(s) + Len(t)) : c[x] = IF x <= Len(s) THEN s[x] ELSE t[x - Len(s)]
  BY ConcatProperties
<1>2. SubSeq(c, Len(s) + 1, Len(s) + Len(t)) = SubSeq(t, 1, Len(t))
  <2>1. 1 \in 1..(Len(t) + 1) /\ Len(t) \in (1 - 1)..Len(t)
    BY <1>1
  <2>. QED
    BY <2>1, JoinedPieces
<1>3. SubSeq(t, 1, Len(t)) = t
  BY SubSeqFull
<1>. HIDE DEF c
<1>4. /\ Reverse(c) \in Seq(V) /\ Len(Reverse(c)) = Len(c) /\ \A x \in 1..Len(c) : Reverse(c)[x] = c[Len(c) - x + 1]
  <2>1. \A x \in 1..Len(c) : c[Len(c) - x + 1] \in V
    <3>. TAKE x \in 1..Len(c)
    <3>1. Len(c) - x + 1 \in 1..Len(c)
      BY <1>1
    <3>. QED
      BY <1>1, <3>1
  <2>. QED
    BY <1>1, <2>1 DEF Reverse
<1>5. /\ Reverse(t) \in Seq(V) /\ Len(Reverse(t)) = Len(t) /\ \A x \in 1..Len(t) : Reverse(t)[x] = t[Len(t) - x + 1]
  <2>1. \A x \in 1..Len(t) : t[Len(t) - x + 1] \in V
    <3>. TAKE x \in 1..Len(t)
    <3>1. Len(t) - x + 1 \in 1..Len(t)
      BY <1>1
    <3>. QED
      BY <3>1
  <2>. QED
    BY <1>1, <2>1 DEF Reverse
<1>6. IsPrefix(Reverse(t), Reverse(c))
  <2>. DEFINE A == Reverse(t)
             B == Reverse(c)
  <2>1. \A x \in 1..Len(t) : A[x] = B[x]
    <3>. TAKE x \in 1..Len(t)
    <3>. DEFINE y == Len(c) - x + 1
    <3>1. y \in 1..(Len(s) + Len(t)) /\ ~(y <= Len(s)) /\ y - Len(s) = Len(t) - x + 1 /\ x \in 1..Len(c)
      BY <1>1
    <3>. HIDE DEF y
    <3>2. c[y] = t[Len(t) - x + 1]
      BY <1>1, <3>1
    <3>. QED
      BY <1>4, <1>5, <3>1, <3>2 DEF y
  <2>2. A \in Seq(V) /\ B \in Seq(V) /\ Len(A) = Len(t) /\ Len(B) = Len(c) /\ Len(A) <= Len(B)
    BY <1>1, <1>4, <1>5
  <2>. HIDE DEF A, B
  <2>3. SubSeq(A, 1, Len(A)) = A
    BY <2>2, SubSeqFull
  <2>4. SubSeq(B, 1, Len(A)) = A
    <3>1. 1 \in 1..(Len(B) + 1) /\ Len(A) \in (1 - 1)..Len(B)
      BY <1>1, <2>2
    <3>2. /\ SubSeq(B, 1, Len(A)) \in Seq(V) /\ Len(SubSeq(B, 1, Len(A))) = Len(A) - 1 + 1
          /\ \A x \in 1..(Len(A) - 1 + 1) : SubSeq(B, 1, Len(A))[x] = B[1 + x - 1]
      BY <2>2, <3>1, Piece
    <3>3. Len(SubSeq(B, 1, Len(A))) = Len(A) /\ \A x \in 1..Len(A) : SubSeq(B, 1, Len(A))[x] = A[x]
      BY <1>1, <2>1, <2>2, <3>2
    <3>. QED
      BY <2>2, <3>2, <3>3, SeqEqual
  <2>. QED
    BY <2>2, <2>3, <2>4 DEF IsPrefix, A, B
<1>. QED
  BY <1>1, <1>2, <1>3, <1>6 DEF IsSuffix, c

\* The number of parts up to a cut.
LEMMA PartsUpto ==
    ASSUME NEW V, NEW s \in Seq(V), NEW d, NEW e \in 0..Count(s, d)
    PROVE  /\ Cut(s, d, e) \in 0..Len(s)
           /\ Closed(SubSeq(s, 1, Cut(s, d, e)), d)
           /\ Parts(SubSeq(s, 1, Cut(s, d, e)), d) = e
<1>. DEFINE n == Cut(s, d, e)
           a == SubSeq(s, 1, n)
<1>1. Len(s) \in Nat /\ Count(s, d) \in Nat /\ Marks(s, d) \in SUBSET (1..Len(s))
  BY MarksFinite
<1>2. n \in 0..Len(s)
  <2>1. e + 1 \in Nat /\ e < e + 1
    BY <1>1
  <2>. QED
    BY <2>1, CutGrows
<1>3. n = 0 \/ s[n] = d
  <2>1. e = 0 => n = 0
    BY CutFirst
  <2>2. e # 0 => e \in 1..Count(s, d)
    BY <1>1
  <2>3. e # 0 => n \in Marks(s, d)
    BY <2>2, CutIn
  <2>. QED
    BY <2>1, <2>3 DEF Marks
<1>4. Rank(s, d, n) = e
  <2>1. CASE e = 0
    <3>1. n = 0
      BY <2>1, CutFirst
    <3>2. Upto(Marks(s, d), 0) = {}
      BY <1>1 DEF Upto
    <3>. QED
      BY <2>1, <3>1, <3>2, FS_EmptySet DEF Rank
  <2>2. CASE e # 0
    <3>1. e \in 1..Count(s, d)
      BY <1>1, <2>2
    <3>. QED
      BY <3>1, CutIn
  <2>. QED
    BY <2>1, <2>2
<1>. HIDE DEF n
<1>5. a \in Seq(V) /\ Len(a) = n /\ \A x \in 1..n : a[x] = s[x]
  <2>1. 1 \in 1..(Len(s) + 1) /\ n \in (1 - 1)..Len(s)
    BY <1>1, <1>2
  <2>2. a \in Seq(V) /\ Len(a) = n - 1 + 1 /\ \A x \in 1..(n - 1 + 1) : a[x] = s[1 + x - 1]
    BY <2>1, Piece
  <2>. QED
    BY <1>1, <1>2, <2>2
<1>6. Count(a, d) = e
  <2>1. Rank(s, d, n) = Count(a, d)
    BY <1>2, RankIsCount
  <2>. QED
    BY <1>4, <2>1
<1>. HIDE DEF a
<1>7. Closed(a, d)
  <2>1. CASE n = 0
    BY <1>5, <2>1, EmptySeq DEF Closed
  <2>2. CASE n # 0
    BY <1>2, <1>1, <1>3, <1>5, <2>2 DEF Closed
  <2>. QED
    BY <2>1, <2>2
<1>8. Parts(a, d) = e
  BY <1>5, <1>6, <1>7, ClosedParts, SMTT(60)
<1>. QED
  BY <1>2, <1>7, <1>8 DEF a, n

\* A text is its words up to a place and those after it.
LEMMA Halves ==
    ASSUME NEW V, NEW s \in Seq(V), NEW n \in 0..Len(s)
    PROVE  /\ s = SubSeq(s, 1, n) \o SubSeq(s, n + 1, Len(s))
           /\ SubSeq(s, 1, n) \in Seq(V) /\ Len(SubSeq(s, 1, n)) = n /\ \A x \in 1..n : SubSeq(s, 1, n)[x] = s[x]
           /\ SubSeq(s, n + 1, Len(s)) \in Seq(V) /\ Len(SubSeq(s, n + 1, Len(s))) = Len(s) - n
           /\ \A x \in 1..(Len(s) - n) : SubSeq(s, n + 1, Len(s))[x] = s[n + x]
<1>1. Len(s) \in Nat /\ 1 \in 1..(Len(s) + 1) /\ n \in (1 - 1)..Len(s) /\ Len(s) \in n..Len(s)
  OBVIOUS
<1>2. SubSeq(s, 1, n) \o SubSeq(s, n + 1, Len(s)) = SubSeq(s, 1, Len(s))
  BY <1>1, ConcatAdjacentSubSeq
<1>3. SubSeq(s, 1, Len(s)) = s
  BY SubSeqFull
<1>4. /\ SubSeq(s, 1, n) \in Seq(V) /\ Len(SubSeq(s, 1, n)) = n - 1 + 1
      /\ \A x \in 1..(n - 1 + 1) : SubSeq(s, 1, n)[x] = s[1 + x - 1]
  BY <1>1, Piece
<1>5. /\ SubSeq(s, n + 1, Len(s)) \in Seq(V) /\ Len(SubSeq(s, n + 1, Len(s))) = Len(s) - n
      /\ \A x \in 1..(Len(s) - n) : SubSeq(s, n + 1, Len(s))[x] = s[n + x]
  <2>. DEFINE a == n + 1
  <2>1. a \in 1..(Len(s) + 1) /\ Len(s) \in (a - 1)..Len(s)
    BY <1>1
  <2>. HIDE DEF a
  <2>2. /\ SubSeq(s, a, Len(s)) \in Seq(V) /\ Len(SubSeq(s, a, Len(s))) = Len(s) - a + 1
        /\ \A x \in 1..(Len(s) - a + 1) : SubSeq(s, a, Len(s))[x] = s[a + x - 1]
    BY <2>1, Piece
  <2>3. Len(s) - a + 1 = Len(s) - n /\ \A x \in 1..(Len(s) - n) : a + x - 1 = n + x
    BY <1>1 DEF a
  <2>. QED
    BY <2>2, <2>3 DEF a
<1>6. Len(SubSeq(s, 1, n)) = n /\ \A x \in 1..n : SubSeq(s, 1, n)[x] = s[x]
  <2>1. n - 1 + 1 = n /\ \A x \in 1..n : 1 + x - 1 = x
    BY <1>1
  <2>. QED
    BY <1>4, <2>1
<1>. QED
  BY <1>2, <1>3, <1>4, <1>5, <1>6

\* Where a part begins and ends.
LEMMA PartCuts ==
    ASSUME NEW V, NEW s \in Seq(V), NEW d, NEW p \in 1..Parts(s, d)
    PROVE  /\ p - 1 \in 0..Count(s, d) /\ Cut(s, d, p - 1) = From(s, d, p) - 1
           /\ (To(s, d, p) = Len(s) /\ p = Parts(s, d)) \/ (p \in 1..Count(s, d) /\ Cut(s, d, p) = To(s, d, p) + 1 /\ To(s, d, p) + 1 <= Len(s))
<1>1. Len(s) \in Nat /\ Count(s, d) \in Nat /\ Parts(s, d) \in Nat /\ Marks(s, d) \in SUBSET (1..Len(s))
  BY MarksFinite, PartsType
<1>2. p \in Nat /\ p - 1 \in 0..Count(s, d) /\ p \in 1..(Count(s, d) + 1)
  BY <1>1, PartsType
<1>3. Cut(s, d, p - 1) \in Int /\ Cut(s, d, p) \in Int
  <2>1. p - 1 < p
    BY <1>2
  <2>. QED
    BY <1>1, <1>2, <2>1, CutGrows
<1>4. CASE p > Count(s, d)
  <2>1. To(s, d, p) = Len(s)
    BY <1>1, <1>2, <1>4, CutLast DEF To
  <2>2. p = Parts(s, d)
    BY <1>1, <1>2, <1>4, PartsType
  <2>. QED
    BY <1>1, <1>2, <1>3, <2>1, <2>2 DEF From
<1>5. CASE ~(p > Count(s, d))
  <2>1. p \in 1..Count(s, d)
    BY <1>1, <1>2, <1>5
  <2>2. Cut(s, d, p) \in Marks(s, d)
    BY <2>1, CutIn
  <2>. QED
    BY <1>1, <1>2, <1>3, <2>1, <2>2 DEF From, To
<1>. QED
  BY <1>4, <1>5

\* Three texts put together.
LEMMA ThreeTexts ==
    ASSUME NEW V, NEW e \in Seq(V), NEW f \in Seq(V), NEW g \in Seq(V)
    PROVE  (e \o f) \o g = e \o (f \o g)
BY ConcatAssociative

\* What is replaced inside a part leaves the others as they are.
LEMMA EditedPart ==
    ASSUME NEW V, NEW s \in Seq(V), NEW d, NEW p \in 1..Parts(s, d), NEW r \in Seq(V),
           NEW u \in From(s, d, p)..(To(s, d, p) + 1), NEW v \in u..(To(s, d, p) + 1)
    PROVE  LET lines == SplitString(s, d)
               new == SplitString(Splice(s, u, v, r), d)
           IN  IsPrefix(SubSeq(lines, 1, p - 1), new) /\ IsSuffix(SubSeq(lines, p + 1, Len(lines)), new)
<1>0. ASSUME NEW e \in Seq(V), NEW f \in Seq(V), NEW g \in Seq(V) PROVE (e \o f) \o g = e \o (f \o g)
  BY ThreeTexts, SMTT(60)
<1>. DEFINE t == Splice(s, u, v, r)
           m == From(s, d, p) - 1
           n == To(s, d, p) + 1
           Sp(x) == SplitString(x, d)
<1>1. /\ Len(s) \in Nat /\ Count(s, d) \in Nat /\ Parts(s, d) \in Nat /\ p \in Nat
      /\ m \in 0..Len(s) /\ n \in 1..(Len(s) + 1) /\ m <= n - 1 /\ u \in (m + 1)..n /\ v \in u..n
      /\ Len(Sp(s)) = Parts(s, d)
  <2>1. From(s, d, p) \in 1..(Len(s) + 1) /\ To(s, d, p) \in 0..Len(s) /\ From(s, d, p) <= To(s, d, p) + 1
    BY PartIs
  <2>. QED
    BY <2>1, MarksFinite, PartsType
<1>2. /\ p - 1 \in 0..Count(s, d) /\ Cut(s, d, p - 1) = m
      /\ (n = Len(s) + 1 /\ p = Parts(s, d)) \/ (p \in 1..Count(s, d) /\ Cut(s, d, p) = n /\ n <= Len(s))
  <2>1. To(s, d, p) \in Int
    BY PartIs
  <2>. QED
    BY <1>1, <2>1, PartCuts
<1>. HIDE DEF m, n
<1>3. IsPrefix(SubSeq(Sp(s), 1, p - 1), Sp(t))
  <2>. DEFINE a == SubSeq(s, 1, m)
             b == SubSeq(s, m + 1, Len(s))
             x == SubSeq(s, m + 1, u - 1)
             y == SubSeq(s, v, Len(s))
  <2>1. Closed(a, d) /\ Parts(a, d) = p - 1
    BY <1>2, PartsUpto
  <2>2. s = a \o b /\ a \in Seq(V) /\ b \in Seq(V)
    BY <1>1, Halves
  <2>3. x \in Seq(V) /\ y \in Seq(V)
    <3>1. m + 1 \in 1..(Len(s) + 1) /\ u - 1 \in ((m + 1) - 1)..Len(s) /\ v \in 1..(Len(s) + 1) /\ Len(s) \in (v - 1)..Len(s)
      BY <1>1
    <3>. QED
      BY <3>1, Piece
  <2>4. a \o x = SubSeq(s, 1, u - 1)
    <3>1. 1 \in 1..(Len(s) + 1) /\ m \in (1 - 1)..Len(s) /\ u - 1 \in m..Len(s)
      BY <1>1
    <3>. QED
      BY <3>1, ConcatAdjacentSubSeq
  <2>5. t = (a \o x) \o r \o y
    BY <2>4 DEF Splice
  <2>. HIDE DEF a, b, x, y, t
  <2>6. r \o y \in Seq(V) /\ x \o (r \o y) \in Seq(V) /\ t = a \o (x \o (r \o y))
    <3>1. a \in Seq(V) /\ x \in Seq(V) /\ y \in Seq(V)
      BY <2>2, <2>3
    <3>2. r \o y \in Seq(V)
      BY <3>1, ConcatProperties
    <3>3. a \o x \in Seq(V)
      BY <3>1, ConcatProperties
    <3>4. ((a \o x) \o r) \o y = (a \o x) \o (r \o y)
      BY <1>0, <3>1, <3>3, ZenonT(60)
    <3>5. (a \o x) \o (r \o y) = a \o (x \o (r \o y))
      <4>. DEFINE e == r \o y
      <4>1. e \in Seq(V) /\ a \in Seq(V) /\ x \in Seq(V)
        BY <3>1, <3>2
      <4>. HIDE DEF e
      <4>2. (a \o x) \o e = a \o (x \o e)
        BY <1>0, <4>1, ZenonT(60)
      <4>. QED
        BY <4>2 DEF e
    <3>6. x \o (r \o y) \in Seq(V)
      <4>. DEFINE e == r \o y
      <4>1. e \in Seq(V)
        BY <3>2
      <4>. HIDE DEF e
      <4>2. x \o e \in Seq(V)
        BY <3>1, <4>1, ConcatProperties
      <4>. QED
        BY <4>2 DEF e
    <3>7. t = a \o (x \o (r \o y))
      BY <2>5, <3>4, <3>5, Zenon
    <3>. QED
      BY <3>2, <3>6, <3>7
  <2>. DEFINE z == x \o (r \o y)
  <2>7. z \in Seq(V) /\ t = a \o z
    BY <2>6
  <2>. HIDE DEF z
  <2>8. Sp(s) = Sp(a) \o Sp(b) /\ Sp(t) = Sp(a) \o Sp(z)
    <3>1. SplitString(a \o b, d) = SplitString(a, d) \o SplitString(b, d)
      BY <2>1, <2>2, SplitJoined
    <3>2. SplitString(a \o z, d) = SplitString(a, d) \o SplitString(z, d)
      BY <2>1, <2>2, <2>7, SplitJoined
    <3>. QED
      BY <2>2, <2>7, <3>1, <3>2
  <2>9. Sp(a) \in Seq(Seq(V)) /\ Sp(b) \in Seq(Seq(V)) /\ Sp(z) \in Seq(Seq(V)) /\ Len(Sp(a)) = p - 1
    BY <2>1, <2>2, <2>7, SplitType, PartsType
  <2>. HIDE DEF Sp
  <2>10. SubSeq(Sp(s), 1, p - 1) = Sp(a)
    BY <2>8, <2>9, StartsJoined
  <2>11. IsPrefix(Sp(a), Sp(t))
    BY <2>8, <2>9, StartsJoined
  <2>. QED
    BY <2>10, <2>11
<1>4. IsSuffix(SubSeq(Sp(s), p + 1, Len(Sp(s))), Sp(t))
  <2>1. t \in Seq(V)
    <3>1. u \in 1..(Len(s) + 1) /\ v \in u..(Len(s) + 1)
      BY <1>1
    <3>. QED
      BY <3>1, SpliceIs
  <2>2. CASE p = Parts(s, d)
    <3>1. SubSeq(Sp(s), p + 1, Len(Sp(s))) = <<>>
      BY <1>1, <2>2, SubSeqEmpty
    <3>2. IsSuffix(<<>>, Sp(t))
      <4>. DEFINE A == Sp(t)
      <4>1. A \in Seq(Seq(V))
        BY <2>1, SplitType
      <4>. HIDE DEF A
      <4>2. <<>> \in Seq(Seq(V)) /\ A \o <<>> = A
        BY <4>1, ConcatEmptySeq, EmptySeq
      <4>3. IsSuffix(<<>>, A \o <<>>)
        <5>. DEFINE E == <<>>
        <5>1. E \in Seq(Seq(V))
          BY <4>2
        <5>. HIDE DEF E
        <5>2. IsSuffix(E, A \o E)
          BY <4>1, <5>1, EndsJoined
        <5>. QED
          BY <5>2 DEF E
      <4>. QED
        BY <4>2, <4>3 DEF A
    <3>. QED
      BY <3>1, <3>2
  <2>3. CASE p # Parts(s, d)
    <3>. DEFINE a == SubSeq(s, 1, n)
               b == SubSeq(s, n + 1, Len(s))
               x == SubSeq(s, 1, u - 1)
               y == SubSeq(s, v, n)
               h == (x \o r) \o y
    <3>0. p \in 0..Count(s, d) /\ Cut(s, d, p) = n /\ n \in 1..Len(s)
      BY <1>1, <1>2, <2>3
    <3>1. Closed(a, d) /\ Parts(a, d) = p
      BY <3>0, PartsUpto
    <3>2. s = a \o b /\ a \in Seq(V) /\ b \in Seq(V) /\ Len(a) = n /\ \A e \in 1..n : a[e] = s[e]
      BY <1>1, <3>0, Halves
    <3>3. x \in Seq(V) /\ y \in Seq(V) /\ Len(y) = n - v + 1 /\ \A e \in 1..(n - v + 1) : y[e] = s[v + e - 1]
      <4>1. 1 \in 1..(Len(s) + 1) /\ u - 1 \in (1 - 1)..Len(s) /\ v \in 1..(Len(s) + 1) /\ n \in (v - 1)..Len(s)
        BY <1>1, <3>0
      <4>. QED
        BY <4>1, Piece
    <3>4. y \o b = SubSeq(s, v, Len(s))
      <4>1. v \in 1..(Len(s) + 1) /\ n \in (v - 1)..Len(s) /\ Len(s) \in n..Len(s)
        BY <1>1, <3>0
      <4>. QED
        BY <4>1, ConcatAdjacentSubSeq
    <3>5. t = (x \o r) \o (y \o b)
      BY <3>4 DEF Splice
    <3>6. s[n] = d
      <4>1. a # <<>>
        <5>1. Len(a) # 0 /\ Len(<<>>) = 0
          BY <3>0, <3>2
        <5>. QED
          BY <5>1
      <4>2. a[Len(a)] = d
        BY <3>1, <4>1 DEF Closed
      <4>. QED
        BY <3>0, <3>2, <4>2
    <3>. HIDE DEF a, b, x, y, t
    <3>7. h \in Seq(V) /\ t = h \o b /\ Closed(h, d)
      <4>. DEFINE z == x \o r
      <4>1. z \in Seq(V) /\ Len(z) \in Nat
        BY <3>3, ConcatProperties
      <4>. HIDE DEF z
      <4>2. /\ z \o y \in Seq(V) /\ Len(z \o y) = Len(z) + Len(y)
            /\ \A e \in 1..(Len(z) + Len(y)) : (z \o y)[e] = IF e <= Len(z) THEN z[e] ELSE y[e - Len(z)]
        BY <3>3, <4>1, ConcatProperties
      <4>3. z \o (y \o b) = (z \o y) \o b
        <5>1. z \in Seq(V)
          BY <4>1
        <5>2. y \in Seq(V)
          BY <3>3
        <5>3. b \in Seq(V)
          BY <3>2
        <5>. QED
          BY <5>1, <5>2, <5>3, <1>0, ZenonT(60)
      <4>4. Len(y) \in 1..(n - v + 1) /\ v + Len(y) - 1 = n /\ Len(y) >= 1
        BY <1>1, <3>0, <3>3
      <4>5. y[Len(y)] = d
        BY <3>3, <3>6, <4>4
      <4>6. (z \o y)[Len(z \o y)] = d
        <5>1. Len(z \o y) \in 1..(Len(z) + Len(y)) /\ ~(Len(z \o y) <= Len(z)) /\ Len(z \o y) - Len(z) = Len(y)
          BY <1>1, <4>1, <4>2, <4>4
        <5>. QED
          BY <4>2, <4>5, <5>1
      <4>. QED
        BY <3>5, <4>2, <4>3, <4>6 DEF z, Closed
    <3>. HIDE DEF h
    <3>8. Sp(s) = Sp(a) \o Sp(b) /\ Sp(t) = Sp(h) \o Sp(b)
      <4>1. SplitString(a \o b, d) = SplitString(a, d) \o SplitString(b, d)
        BY <3>1, <3>2, SplitJoined
      <4>2. SplitString(h \o b, d) = SplitString(h, d) \o SplitString(b, d)
        BY <3>2, <3>7, SplitJoined
      <4>. QED
        BY <3>2, <3>7, <4>1, <4>2
    <3>9. Sp(a) \in Seq(Seq(V)) /\ Sp(b) \in Seq(Seq(V)) /\ Sp(h) \in Seq(Seq(V)) /\ Len(Sp(a)) = p
      BY <3>1, <3>2, <3>7, SplitType, PartsType
    <3>. HIDE DEF Sp
    <3>10. SubSeq(Sp(s), p + 1, Len(Sp(s))) = Sp(b)
      BY <3>8, <3>9, EndsJoined, SMTT(60)
    <3>11. IsSuffix(Sp(b), Sp(t))
      BY <3>8, <3>9, EndsJoined
    <3>. QED
      BY <3>10, <3>11
  <2>. QED
    BY <2>2, <2>3
<1>. QED
  BY <1>3, <1>4

-----------------------------------------------------------------------------
(* Searching a text *)

\* Where a text is found.
LEMMA OccursIs ==
    ASSUME NEW V, NEW s \in Seq(V), NEW t \in Seq(V), NEW n
    PROVE  n \in Occurrences(s, t) <=>
              n \in 1..(Len(s) - Len(t) + 1) /\ \A x \in 1..Len(t) : s[n + x - 1] = t[x]
<1>1. Len(s) \in Nat /\ Len(t) \in Nat
  OBVIOUS
<1>2. ASSUME n \in 1..(Len(s) - Len(t) + 1)
      PROVE  SubSeq(s, n, n + Len(t) - 1) = t <=> \A x \in 1..Len(t) : s[n + x - 1] = t[x]
  <2>. DEFINE b == n + Len(t) - 1
             c == SubSeq(s, n, b)
  <2>1. n \in 1..(Len(s) + 1) /\ b \in (n - 1)..Len(s) /\ b - n + 1 = Len(t)
    BY <1>1, <1>2
  <2>. HIDE DEF b
  <2>2. c \in Seq(V) /\ Len(c) = b - n + 1 /\ \A x \in 1..(b - n + 1) : c[x] = s[n + x - 1]
    BY <2>1, Piece
  <2>. HIDE DEF c
  <2>3. Len(c) = Len(t) /\ \A x \in 1..Len(t) : c[x] = s[n + x - 1]
    BY <2>1, <2>2
  <2>4. ASSUME \A x \in 1..Len(t) : s[n + x - 1] = t[x] PROVE c = t
    <3>1. \A x \in 1..Len(c) : c[x] = t[x]
      BY <2>3, <2>4
    <3>. QED
      BY <2>2, <2>3, <3>1, SeqEqual
  <2>5. ASSUME c = t PROVE \A x \in 1..Len(t) : s[n + x - 1] = t[x]
    BY <2>3, <2>5
  <2>. QED
    BY <2>4, <2>5 DEF b, c
<1>. QED
  BY <1>2 DEF Occurrences

\* Find finds the first.
LEMMA FindIs ==
    ASSUME NEW V, NEW s \in Seq(V), NEW t \in Seq(V), Occurrences(s, t) # {}
    PROVE  /\ Find(s, t) \in Occurrences(s, t) /\ Find(s, t) \in 1..(Len(s) - Len(t) + 1)
           /\ \A n \in Occurrences(s, t) : Find(s, t) <= n
<1>1. Occurrences(s, t) \in SUBSET Nat /\ Len(s) \in Nat /\ Len(t) \in Nat
  <2>1. Len(s) \in Nat /\ Len(t) \in Nat
    OBVIOUS
  <2>. QED
    BY <2>1 DEF Occurrences
<1>2. Find(s, t) \in Occurrences(s, t) /\ \A n \in Occurrences(s, t) : Find(s, t) <= n
  BY <1>1, MinIsLeast DEF Find
<1>. QED
  BY <1>2 DEF Occurrences

\* ReplaceFirst replaces the piece that Find finds.
LEMMA ReplaceIs ==
    ASSUME NEW V, NEW s \in Seq(V), NEW t \in Seq(V), NEW r \in Seq(V), Occurrences(s, t) # {}
    PROVE  /\ Find(s, t) \in 1..(Len(s) + 1) /\ Find(s, t) + Len(t) \in Find(s, t)..(Len(s) + 1)
           /\ ReplaceFirst(s, t, r) = Splice(s, Find(s, t), Find(s, t) + Len(t), r)
           /\ ReplaceFirst(s, t, r) \in Seq(V)
<1>1. Find(s, t) \in 1..(Len(s) - Len(t) + 1) /\ Len(s) \in Nat /\ Len(t) \in Nat
  BY FindIs
<1>2. Find(s, t) \in 1..(Len(s) + 1) /\ Find(s, t) + Len(t) \in Find(s, t)..(Len(s) + 1)
  BY <1>1
<1>3. ReplaceFirst(s, t, r) = Splice(s, Find(s, t), Find(s, t) + Len(t), r)
  BY DEF ReplaceFirst, ReplaceSubSeqAt, Splice
<1>4. Splice(s, Find(s, t), Find(s, t) + Len(t), r) \in Seq(V)
  <2>. DEFINE u == Find(s, t)
             v == Find(s, t) + Len(t)
  <2>1. u \in 1..(Len(s) + 1) /\ v \in u..(Len(s) + 1)
    BY <1>2
  <2>. HIDE DEF u, v
  <2>2. Splice(s, u, v, r) \in Seq(V)
    BY <2>1, SpliceIs
  <2>. QED
    BY <2>2 DEF u, v
<1>. QED
  BY <1>2, <1>3, <1>4

\* What is replaced is what was searched for: the words change in number by the difference.
LEMMA ReplaceCount ==
    ASSUME NEW V, NEW s \in Seq(V), NEW t \in Seq(V), NEW r \in Seq(V), NEW d, Occurrences(s, t) # {}
    PROVE  Count(ReplaceFirst(s, t, r), d) = Count(s, d) - Count(t, d) + Count(r, d)
<1>. DEFINE u == Find(s, t)
           v == Find(s, t) + Len(t)
<1>1. u \in 1..(Len(s) + 1) /\ v \in u..(Len(s) + 1) /\ ReplaceFirst(s, t, r) = Splice(s, u, v, r)
  BY ReplaceIs
<1>2. SubSeq(s, u, v - 1) = t
  <2>1. u \in Occurrences(s, t)
    BY FindIs
  <2>2. u + Len(t) - 1 = v - 1
    BY <1>1
  <2>. HIDE DEF u, v
  <2>3. SubSeq(s, u, u + Len(t) - 1) = t
    BY <2>1 DEF Occurrences
  <2>. QED
    BY <2>2, <2>3
<1>. HIDE DEF u, v
<1>3. Count(Splice(s, u, v, r), d) = Count(s, d) - Count(SubSeq(s, u, v - 1), d) + Count(r, d)
  BY <1>1, SpliceCount
<1>. QED
  BY <1>1, <1>2, <1>3

\* The text of one part, found in a part, is found in the whole, and conversely.
Within(t, d) == Len(t) > 0 /\ \A x \in 1..Len(t) : t[x] # d

\* What is found in a part is found in the whole.
LEMMA PartOccurs ==
    ASSUME NEW V, NEW s \in Seq(V), NEW t \in Seq(V), NEW d, NEW p \in 1..Parts(s, d),
           NEW n \in Occurrences(SplitString(s, d)[p], t)
    PROVE  From(s, d, p) + n - 1 \in Occurrences(s, t)
<1>. DEFINE c == SplitString(s, d)[p]
           f == From(s, d, p)
           y == f + n - 1
<1>1. /\ f \in 1..(Len(s) + 1) /\ To(s, d, p) \in 0..Len(s) /\ f <= To(s, d, p) + 1 /\ c \in Seq(V)
      /\ Len(c) = To(s, d, p) - f + 1 /\ \A x \in 1..Len(c) : c[x] = s[f + x - 1]
  BY PartIs
<1>. HIDE DEF c, f
<1>2. n \in 1..(Len(c) - Len(t) + 1) /\ \A x \in 1..Len(t) : c[n + x - 1] = t[x]
  <2>1. n \in Occurrences(c, t)
    BY DEF c
  <2>2. c \in Seq(V)
    BY <1>1
  <2>. QED
    BY <2>1, <2>2, OccursIs
<1>3. Len(s) \in Nat /\ Len(t) \in Nat /\ Len(c) \in Nat
  BY <1>1
<1>4. y \in 1..(Len(s) - Len(t) + 1)
  BY <1>1, <1>2, <1>3
<1>5. ASSUME NEW x \in 1..Len(t) PROVE s[y + x - 1] = t[x]
  <2>1. n + x - 1 \in 1..Len(c) /\ f + (n + x - 1) - 1 = y + x - 1
    BY <1>1, <1>2, <1>3
  <2>. QED
    BY <1>1, <1>2, <2>1
<1>. HIDE DEF y
<1>6. y \in Occurrences(s, t)
  BY <1>4, <1>5, OccursIs
<1>. QED
  BY <1>6 DEF y, f

\* What is found in a text and holds no delimiter is found in one part.
LEMMA OccursWithin ==
    ASSUME NEW V, NEW s \in Seq(V), NEW t \in Seq(V), NEW d, NEW n \in Occurrences(s, t), Within(t, d)
    PROVE  LET p == PartOf(s, d, n)
           IN  /\ n \in 1..Len(s) /\ s[n] # d /\ p \in 1..Parts(s, d)
               /\ From(s, d, p) <= n /\ n + Len(t) - 1 <= To(s, d, p)
               /\ n - From(s, d, p) + 1 \in Occurrences(SplitString(s, d)[p], t)
<1>. DEFINE p == PartOf(s, d, n)
           f == From(s, d, p)
           c == SplitString(s, d)[p]
           b == n + Len(t) - 1
           y == n - f + 1
<1>0. n \in 1..(Len(s) - Len(t) + 1) /\ \A x \in 1..Len(t) : s[n + x - 1] = t[x]
  BY OccursIs
<1>1. Len(s) \in Nat /\ Len(t) \in Nat /\ Len(t) > 0 /\ n \in 1..Len(s) /\ b \in n..Len(s)
  BY <1>0 DEF Within
<1>2. \A m \in n..b : s[m] # d
  <2>. TAKE m \in n..b
  <2>1. m - n + 1 \in 1..Len(t) /\ n + (m - n + 1) - 1 = m
    BY <1>0, <1>1
  <2>2. s[m] = t[m - n + 1]
    BY <1>0, <2>1
  <2>. QED
    BY <2>1, <2>2 DEF Within
<1>. HIDE DEF b
<1>3. p \in 1..Parts(s, d) /\ f <= n /\ b <= To(s, d, p)
  BY <1>1, <1>2, WithinPart
<1>. HIDE DEF p
<1>4. /\ f \in 1..(Len(s) + 1) /\ To(s, d, p) \in 0..Len(s) /\ f <= To(s, d, p) + 1 /\ c \in Seq(V)
      /\ Len(c) = To(s, d, p) - f + 1 /\ \A x \in 1..Len(c) : c[x] = s[f + x - 1]
  BY <1>3, PartIs
<1>. HIDE DEF c, f
<1>5. y \in 1..(Len(c) - Len(t) + 1)
  <2>. DEFINE e == To(s, d, p)
  <2>1. e \in Int /\ f \in Int /\ n \in Int /\ f <= n /\ n + Len(t) - 1 <= e /\ Len(c) = e - f + 1
    BY <1>1, <1>3, <1>4 DEF b
  <2>. HIDE DEF e
  <2>. QED
    BY <1>1, <2>1
<1>6. ASSUME NEW x \in 1..Len(t) PROVE c[y + x - 1] = t[x]
  <2>1. y + x - 1 \in 1..Len(c) /\ f + (y + x - 1) - 1 = n + x - 1
    <3>1. f \in Int /\ n \in Int /\ y \in Int /\ Len(c) \in Int /\ y = n - f + 1
      BY <1>1, <1>4
    <3>. HIDE DEF y
    <3>. QED
      BY <1>1, <1>5, <3>1
  <2>2. c[y + x - 1] = s[f + (y + x - 1) - 1]
    BY <1>4, <2>1
  <2>. QED
    BY <1>0, <2>1, <2>2
<1>. HIDE DEF y
<1>7. y \in Occurrences(c, t)
  BY <1>4, <1>5, <1>6, OccursIs
<1>8. s[n] # d
  BY <1>1, <1>2
<1>. QED
  BY <1>1, <1>3, <1>7, <1>8 DEF p, f, c, b, y

\* The least is known by being the least.
LEMMA MinIs ==
    ASSUME NEW T \in SUBSET Nat, NEW p \in T, \A q \in T : p <= q
    PROVE  Min(T) = p
<1>1. Min(T) \in T /\ \A q \in T : Min(T) <= q
  BY MinIsLeast
<1>2. p \in Nat /\ Min(T) \in Nat
  BY <1>1
<1>. QED
  BY <1>1, <1>2

\* A text is found in itself.
LEMMA OccursInItself ==
    ASSUME NEW V, NEW t \in Seq(V)
    PROVE  1 \in Occurrences(t, t)
<1>1. Len(t) \in Nat
  OBVIOUS
<1>2. 1 \in 1..(Len(t) - Len(t) + 1) /\ \A x \in 1..Len(t) : t[1 + x - 1] = t[x]
  BY <1>1
<1>. QED
  BY <1>2, OccursIs

\* The part the first occurrence is in, and the first that holds the text.
Holder(s, t, d) == PartOf(s, d, Find(s, t))
HeldFirst(s, t, d, p) ==
    /\ p \in 1..Parts(s, d) /\ Occurrences(SplitString(s, d)[p], t) # {}
    /\ From(s, d, p) <= Find(s, t) /\ Find(s, t) + Len(t) <= To(s, d, p) + 1
    /\ \A q \in 1..Parts(s, d) : Occurrences(SplitString(s, d)[q], t) # {} => p <= q

\* The part the first occurrence is in is the first to hold the text.
LEMMA FirstHolder ==
    ASSUME NEW V, NEW s \in Seq(V), NEW t \in Seq(V), NEW d, Within(t, d), Occurrences(s, t) # {}
    PROVE  HeldFirst(s, t, d, Holder(s, t, d))
<1>. DEFINE n == Find(s, t)
           p == Holder(s, t, d)
<1>1. n \in Occurrences(s, t) /\ n \in Nat /\ \A m \in Occurrences(s, t) : n <= m
  BY FindIs
<1>2. Len(s) \in Nat /\ Len(t) \in Nat /\ Len(t) > 0 /\ Parts(s, d) \in Nat
  BY PartsType DEF Within
<1>. HIDE DEF n
<1>3. /\ PartOf(s, d, n) \in 1..Parts(s, d) /\ From(s, d, PartOf(s, d, n)) <= n /\ n + Len(t) - 1 <= To(s, d, PartOf(s, d, n))
      /\ n - From(s, d, PartOf(s, d, n)) + 1 \in Occurrences(SplitString(s, d)[PartOf(s, d, n)], t)
  BY <1>1, OccursWithin
<1>4. /\ p \in 1..Parts(s, d) /\ From(s, d, p) <= n /\ n + Len(t) - 1 <= To(s, d, p)
      /\ Occurrences(SplitString(s, d)[p], t) # {}
  BY <1>3 DEF n, Holder
<1>. HIDE DEF p
<1>5. From(s, d, p) \in Int /\ To(s, d, p) \in Int
  BY <1>4, PartIs
<1>6. ASSUME NEW q \in 1..Parts(s, d), Occurrences(SplitString(s, d)[q], t) # {}, ~(p <= q) PROVE FALSE
  <2>1. PICK m \in Occurrences(SplitString(s, d)[q], t) : TRUE
    BY <1>6
  <2>2. From(s, d, q) + m - 1 \in Occurrences(s, t)
    BY <2>1, PartOccurs
  <2>3. q < p
    BY <1>2, <1>4, <1>6
  <2>4. To(s, d, q) + 1 < From(s, d, p)
    BY <1>4, <2>3, PartsApart
  <2>5. /\ From(s, d, q) \in Int /\ To(s, d, q) \in Int /\ SplitString(s, d)[q] \in Seq(V)
        /\ Len(SplitString(s, d)[q]) = To(s, d, q) - From(s, d, q) + 1
    BY PartIs
  <2>6. m \in 1..(Len(SplitString(s, d)[q]) - Len(t) + 1)
    BY <2>1 DEF Occurrences
  <2>7. From(s, d, q) + m - 1 < n
    <3>. DEFINE a == From(s, d, q)
               b == To(s, d, q)
               l == Len(SplitString(s, d)[q])
    <3>1. a \in Int /\ b \in Int /\ l = b - a + 1 /\ m \in 1..(l - Len(t) + 1)
      BY <2>5, <2>6
    <3>2. n \in Int /\ b < n
      <4>1. b + 1 < From(s, d, p) /\ From(s, d, p) <= n
        BY <1>4, <2>4
      <4>2. n \in Int /\ From(s, d, p) \in Int
        BY <1>1, <1>5
      <4>. HIDE DEF n, b
      <4>. QED
        BY <3>1, <4>1, <4>2
    <3>3. Len(t) \in Nat /\ Len(t) > 0
      BY <1>2
    <3>. HIDE DEF a, b, l, n
    <3>4. a + m - 1 < n
      BY <3>1, <3>2, <3>3
    <3>. QED
      BY <3>4 DEF a
  <2>. QED
    BY <1>1, <2>2, <2>5, <2>6, <2>7
<1>7. n + Len(t) <= To(s, d, p) + 1
  BY <1>1, <1>2, <1>4, <1>5
<1>. QED
  BY <1>4, <1>6, <1>7 DEF n, p, HeldFirst

\* Every part but the holder is kept.
LEMMA OthersKept ==
    ASSUME NEW V, NEW s \in Seq(V), NEW t \in Seq(V), NEW r \in Seq(V), NEW d, Within(t, d), Occurrences(s, t) # {}
    PROVE  LET lines == SplitString(s, d)
               new == SplitString(ReplaceFirst(s, t, r), d)
               p == Holder(s, t, d)
           IN  IsPrefix(SubSeq(lines, 1, p - 1), new) /\ IsSuffix(SubSeq(lines, p + 1, Len(lines)), new)
<1>. DEFINE p == Holder(s, t, d)
           u == Find(s, t)
           v == u + Len(t)
<1>1. /\ p \in 1..Parts(s, d) /\ From(s, d, p) <= u /\ v <= To(s, d, p) + 1
  BY FirstHolder DEF HeldFirst
<1>2. u \in Nat /\ Len(t) \in Nat /\ u <= v /\ ReplaceFirst(s, t, r) = Splice(s, u, v, r)
  BY ReplaceIs
<1>. HIDE DEF p, u, v
<1>3. From(s, d, p) \in Int /\ To(s, d, p) \in Int
  BY <1>1, PartIs
<1>4. v \in Int
  BY <1>2 DEF v
<1>5. u \in From(s, d, p)..(To(s, d, p) + 1) /\ v \in u..(To(s, d, p) + 1)
  BY <1>1, <1>2, <1>3, <1>4
<1>6. LET lines == SplitString(s, d)
          new == SplitString(Splice(s, u, v, r), d)
      IN  IsPrefix(SubSeq(lines, 1, p - 1), new) /\ IsSuffix(SubSeq(lines, p + 1, Len(lines)), new)
  BY <1>1, <1>5, EditedPart
<1>. QED
  BY <1>2, <1>6 DEF p

\* The holder is the first part that holds the text, and the first that is it, if it is it.
LEMMA HolderIsTarget ==
    ASSUME NEW V, NEW s \in Seq(V), NEW t \in Seq(V), NEW d, Within(t, d), Occurrences(s, t) # {}
    PROVE  LET lines == SplitString(s, d)
               p == Holder(s, t, d)
           IN  /\ Min({j \in 1..Len(lines) : Occurrences(lines[j], t) # {}}) = p
               /\ lines[p] = t => Min({j \in 1..Len(lines) : lines[j] = t}) = p
<1>. DEFINE lines == SplitString(s, d)
           p == Holder(s, t, d)
           A == {j \in 1..Len(lines) : Occurrences(lines[j], t) # {}}
           B == {j \in 1..Len(lines) : lines[j] = t}
<1>1. Parts(s, d) \in Nat /\ Len(lines) = Parts(s, d)
  BY PartsType
<1>2. p \in 1..Parts(s, d) /\ Occurrences(lines[p], t) # {} /\ \A q \in 1..Parts(s, d) : Occurrences(lines[q], t) # {} => p <= q
  BY FirstHolder DEF HeldFirst
<1>3. Occurrences(t, t) # {}
  BY OccursInItself
<1>. HIDE DEF p, lines
<1>4. Min(A) = p
  <2>1. A \in SUBSET Nat /\ p \in A /\ \A q \in A : p <= q
    BY <1>1, <1>2
  <2>. HIDE DEF A
  <2>. QED
    BY <2>1, MinIs
<1>5. ASSUME lines[p] = t PROVE Min(B) = p
  <2>1. B \in SUBSET Nat /\ p \in B /\ \A q \in B : p <= q
    BY <1>1, <1>2, <1>3, <1>5
  <2>. HIDE DEF B
  <2>. QED
    BY <2>1, MinIs
<1>. QED
  BY <1>4, <1>5 DEF p, lines

\* A text whose first occurrence is a part of its own.
Whole(s, t, d) == Within(t, d) /\ Occurrences(s, t) # {} /\ SplitString(s, d)[Holder(s, t, d)] = t

\* The words of joined texts.
LEMMA JoinedAt ==
    ASSUME NEW V, NEW a \in Seq(V), NEW b \in Seq(V)
    PROVE  /\ \A x \in 1..Len(a) : (a \o b)[x] = a[x]
           /\ \A x \in 1..Len(b) : (a \o b)[Len(a) + x] = b[x]
           /\ Len(a \o b) = Len(a) + Len(b) /\ Len(a) \in Nat /\ Len(b) \in Nat /\ a \o b \in Seq(V)
<1>. DEFINE c == a \o b
<1>1. /\ c \in Seq(V) /\ Len(c) = Len(a) + Len(b) /\ Len(a) \in Nat /\ Len(b) \in Nat
      /\ \A x \in 1..(Len(a) + Len(b)) : c[x] = IF x <= Len(a) THEN a[x] ELSE b[x - Len(a)]
  BY ConcatProperties
<1>. HIDE DEF c
<1>2. ASSUME NEW x \in 1..Len(b) PROVE c[Len(a) + x] = b[x]
  <2>. DEFINE y == Len(a) + x
  <2>1. y \in 1..(Len(a) + Len(b)) /\ ~(y <= Len(a)) /\ y - Len(a) = x
    BY <1>1
  <2>. HIDE DEF y
  <2>2. c[y] = b[x]
    BY <1>1, <2>1
  <2>. QED
    BY <2>2 DEF y
<1>3. \A x \in 1..Len(a) : c[x] = a[x]
  BY <1>1
<1>. QED
  BY <1>1, <1>2, <1>3 DEF c

\* The first of the parts below a heading that a test picks is a whole part, when the
\* test passes every part that holds it and no part of the heading does.
LEMMA WholeBelow ==
    ASSUME NEW V, NEW h \in Seq(V), NEW g \in Seq(V), NEW b \in Seq(V), NEW d,
           Closed(h, d), Closed(g, d), Parts(g, d) = 1,
           NEW found \in SUBSET (1..Parts(g \o b, d)), found # {}, 1 \notin found,
           NEW t, t = SplitString(g \o b, d)[Min(found)], Len(t) > 0,
           \A q \in 1..Parts(h, d) : Occurrences(SplitString(h, d)[q], t) = {},
           \A q \in 1..Min(found) : Occurrences(SplitString(g \o b, d)[q], t) # {} => q \in found
    PROVE  Whole(h \o b, t, d) /\ t \in Seq(V)
<1>. DEFINE s == h \o b
           c == g \o b
           least == Min(found)
           p == Holder(s, t, d)
           H == Parts(h, d)
<1>1. /\ SplitString(s, d) = SplitString(h, d) \o SplitString(b, d) /\ Parts(s, d) = H + Parts(b, d)
      /\ SplitString(c, d) = SplitString(g, d) \o SplitString(b, d) /\ Parts(c, d) = 1 + Parts(b, d)
  <2>1. SplitString(s, d) = SplitString(h, d) \o SplitString(b, d) /\ Parts(s, d) = H + Parts(b, d)
    BY SplitJoined
  <2>2. SplitString(c, d) = SplitString(g, d) \o SplitString(b, d) /\ Parts(c, d) = 1 + Parts(b, d)
    BY SplitJoined
  <2>. QED
    BY <2>1, <2>2
<1>2. H \in Nat /\ Parts(b, d) \in Nat /\ s \in Seq(V) /\ c \in Seq(V)
  BY PartsType, ConcatProperties
<1>3. /\ \A x \in 1..H : SplitString(s, d)[x] = SplitString(h, d)[x]
      /\ \A x \in 1..Parts(b, d) : SplitString(s, d)[H + x] = SplitString(b, d)[x]
      /\ \A x \in 1..Parts(b, d) : SplitString(c, d)[1 + x] = SplitString(b, d)[x]
  <2>. DEFINE A == SplitString(h, d)
             B == SplitString(b, d)
             G == SplitString(g, d)
  <2>1. A \in Seq(Seq(V)) /\ B \in Seq(Seq(V)) /\ G \in Seq(Seq(V))
    BY SplitType
  <2>2. Len(A) = H /\ Len(B) = Parts(b, d) /\ Len(G) = 1
    BY PartsType
  <2>3. SplitString(s, d) = A \o B /\ SplitString(c, d) = G \o B
    BY <1>1
  <2>. HIDE DEF A, B, G, H
  <2>4. (\A x \in 1..Len(A) : (A \o B)[x] = A[x]) /\ \A x \in 1..Len(B) : (A \o B)[Len(A) + x] = B[x]
    BY <2>1, JoinedAt
  <2>5. \A x \in 1..Len(B) : (G \o B)[Len(G) + x] = B[x]
    BY <2>1, JoinedAt
  <2>6. (\A x \in 1..H : (A \o B)[x] = A[x]) /\ \A x \in 1..Parts(b, d) : (A \o B)[H + x] = B[x]
    BY <2>2, <2>4
  <2>7. \A x \in 1..Parts(b, d) : (G \o B)[1 + x] = B[x]
    BY <2>2, <2>5
  <2>. QED
    BY <2>3, <2>6, <2>7 DEF A, B, G
<1>4. least \in found /\ least \in 2..(1 + Parts(b, d)) /\ \A q \in found : least <= q
  <2>1. found \in SUBSET Nat
    BY <1>1, <1>2
  <2>2. least \in found /\ \A q \in found : least <= q
    BY <2>1, MinIsLeast
  <2>3. least \in 1..(1 + Parts(b, d)) /\ least # 1
    BY <1>1, <2>2
  <2>. HIDE DEF least
  <2>. QED
    BY <1>2, <2>2, <2>3
<1>. DEFINE e == least - 1
<1>. HIDE DEF s, c, H, least
<1>5. e \in 1..Parts(b, d) /\ least = 1 + e /\ t = SplitString(c, d)[least]
  BY <1>2, <1>4 DEF least, c
<1>. HIDE DEF e
<1>6. t = SplitString(s, d)[H + e] /\ H + e \in 1..Parts(s, d)
  <2>1. SplitString(c, d)[1 + e] = SplitString(b, d)[e] /\ SplitString(s, d)[H + e] = SplitString(b, d)[e]
    BY <1>3, <1>5
  <2>2. H + e \in 1..Parts(s, d)
    BY <1>1, <1>2, <1>5
  <2>. QED
    BY <1>5, <2>1, <2>2
<1>7. t \in Seq(V) /\ Within(t, d)
  <2>. DEFINE f == H + e
  <2>1. f \in 1..Parts(s, d) /\ t = SplitString(s, d)[f]
    BY <1>6
  <2>. HIDE DEF f
  <2>2. /\ t \in Seq(V) /\ Len(t) = To(s, d, f) - From(s, d, f) + 1
        /\ \A x \in 1..Len(t) : t[x] = s[From(s, d, f) + x - 1]
        /\ \A n \in From(s, d, f)..To(s, d, f) : s[n] # d
        /\ From(s, d, f) \in Int /\ To(s, d, f) \in Int
    BY <1>2, <2>1, PartIs
  <2>3. \A x \in 1..Len(t) : t[x] # d
    <3>. TAKE x \in 1..Len(t)
    <3>1. From(s, d, f) + x - 1 \in From(s, d, f)..To(s, d, f)
      BY <2>2
    <3>. QED
      BY <2>2, <3>1
  <2>. QED
    BY <2>2, <2>3 DEF Within
<1>8. Occurrences(t, t) # {}
  BY <1>7, OccursInItself
<1>9. Occurrences(s, t) # {}
  <2>1. PICK n \in Occurrences(t, t) : TRUE
    BY <1>8
  <2>. DEFINE f == H + e
  <2>2. f \in 1..Parts(s, d) /\ n \in Occurrences(SplitString(s, d)[f], t)
    BY <1>6, <2>1
  <2>. HIDE DEF f
  <2>3. From(s, d, f) + n - 1 \in Occurrences(s, t)
    BY <1>2, <1>7, <2>2, PartOccurs
  <2>. QED
    BY <2>3
<1>10. /\ p \in 1..Parts(s, d) /\ Occurrences(SplitString(s, d)[p], t) # {}
       /\ \A q \in 1..Parts(s, d) : Occurrences(SplitString(s, d)[q], t) # {} => p <= q
  <2>1. s \in Seq(V) /\ t \in Seq(V) /\ Within(t, d)
    BY <1>2, <1>7
  <2>2. HeldFirst(s, t, d, Holder(s, t, d))
    BY <2>1, <1>9, FirstHolder
  <2>. QED
    BY <2>2 DEF HeldFirst
<1>. HIDE DEF p
<1>11. p <= H + e
  BY <1>6, <1>8, <1>10
<1>12. ~(p <= H)
  <2>. SUFFICES ASSUME p <= H PROVE FALSE
    OBVIOUS
  <2>1. p \in 1..H
    BY <1>1, <1>2, <1>10
  <2>. QED
    BY <1>3, <1>10, <2>1 DEF H
<1>. DEFINE q == p - H
<1>13. q \in 1..e /\ H + q = p /\ 1 + q \in 1..least /\ q \in 1..Parts(b, d)
  BY <1>1, <1>2, <1>5, <1>10, <1>11, <1>12
<1>. HIDE DEF q
<1>14. SplitString(c, d)[1 + q] = SplitString(s, d)[p]
  BY <1>3, <1>13
<1>15. 1 + q \in found
  BY <1>10, <1>13, <1>14 DEF least, c
<1>16. q = e
  BY <1>4, <1>5, <1>13, <1>15
<1>17. SplitString(s, d)[p] = t
  BY <1>6, <1>13, <1>16
<1>. QED
  BY <1>7, <1>9, <1>17 DEF Whole, p, s

-----------------------------------------------------------------------------
(* The texts of functions *)

\* Names for the words the SMT backend has no encoding of.
Open == "{"
Close == "}"
Semicolon == ";"
Comma == ","

Lexemes == STRING \cup {"nl", Open, Close, "(", ")", Semicolon, Comma, "=", "0", "o", "uint", "VAR0", "msg.sender",
                        ".call.value(", "true", "glued", "if", "+(", "-("} \cup ToSet(Modifiers)

\* They are different words.
LEMMA FourWords ==
    /\ Open # Close /\ Open # Semicolon /\ Open # Comma /\ Close # Semicolon /\ Close # Comma /\ Semicolon # Comma
    /\ \A x \in {Open, Close, Semicolon, Comma} :
          x \notin {"nl", "(", ")", "=", "-=", "0", "o", "uint", "VAR0", "msg.sender", ".call.value(", "true", "glued",
                   "if", "+(", "-(", ".add(", ".sub(", "require", ">", "<", "transfer(", ".call("}
BY Zenon DEF Open, Close, Semicolon, Comma

\* Opens, in these names.
LEMMA OpensIs == ASSUME NEW s PROVE Opens(s) = Count(s, Open) - Count(s, Close)
BY Zenon DEF Opens, Open, Close

\* IsFunction, in these names.
LEMMA IsFunctionIs ==
    ASSUME NEW text, IsFunction(text)
    PROVE  /\ text \in Seq(STRING) /\ Marks(text, Open) # {}
           /\ text[Len(text)] = Close /\ Opens(text) = 0
           /\ \A n \in Marks(text, Open) : At(text, n + 1) = "nl"
           /\ \A line \in ToSet(SplitString(BlockOf(text), "nl")) :
                 \/ ToSet(line) \subseteq {Open, Close}
                 \/ Occurrences(SubSeq(text, 1, Min(Marks(text, Open))), line) = {}
           /\ BlockOf(text) = SubSeq(text, Min(Marks(text, Open)), Len(text))
BY Zenon DEF Open, Close, IsFunction, BlockOf

\* The words a text begins and ends with, and its first brace.
LEMMA FunctionText ==
    ASSUME NEW text, IsFunction(text)
    PROVE  LET b == Min(Marks(text, Open))
           IN  /\ text \in Seq(Lexemes) /\ text # <<>> /\ text[Len(text)] = Close /\ Opens(text) = 0
               /\ b \in 1..(Len(text) - 1) /\ text[b] = Open /\ text[b + 1] = "nl"
<1>. DEFINE b == Min(Marks(text, Open))
<1>1. text \in Seq(STRING)
  BY IsFunctionIs
<1>2. text \in Seq(Lexemes)
  BY <1>1, SeqMonotonic DEF Lexemes
<1>3. Marks(text, Open) \in SUBSET Nat /\ Marks(text, Open) # {}
  BY <1>2, MarksFinite, IsFunctionIs
<1>4. b \in Marks(text, Open)
  BY <1>3, MinIsLeast
<1>. HIDE DEF b
<1>5. b \in 1..Len(text) /\ text[b] = Open /\ Len(text) \in Nat
  BY <1>2, <1>4 DEF Marks
<1>6. text[Len(text)] = Close /\ Opens(text) = 0 /\ At(text, b + 1) = "nl"
  BY <1>4, IsFunctionIs
<1>7. b # Len(text)
  BY <1>5, <1>6, FourWords
<1>8. b \in 1..(Len(text) - 1) /\ b + 1 \in 1..Len(text)
  BY <1>5, <1>7
<1>9. text[b + 1] = "nl"
  BY <1>6, <1>8 DEF At
<1>10. text # <<>>
  BY <1>5, EmptySeq
<1>. QED
  BY <1>2, <1>5, <1>6, <1>8, <1>9, <1>10 DEF b

\* A line of the block, more than braces, is a whole line of the text.
LEMMA BlockWhole ==
    ASSUME NEW text, IsFunction(text),
           NEW found \in SUBSET (1..Len(SplitString(BlockOf(text), "nl"))), found # {},
           \A j \in found : ~(ToSet(SplitString(BlockOf(text), "nl")[j]) \subseteq {Open, Close}),
           \A j \in found : \A q \in 1..j :
              Occurrences(SplitString(BlockOf(text), "nl")[q], SplitString(BlockOf(text), "nl")[j]) # {} => q \in found
    PROVE  /\ Whole(text, FirstLine(SplitString(BlockOf(text), "nl"), found), "nl")
           /\ FirstLine(SplitString(BlockOf(text), "nl"), found) \in Seq(Lexemes)
           /\ Min(found) \in found
<1>. DEFINE b == Min(Marks(text, Open))
           n == Len(text)
           h == SubSeq(text, 1, b + 1)
           g == SubSeq(text, b, b + 1)
           r == SubSeq(text, b + 2, n)
           t == SplitString(BlockOf(text), "nl")[Min(found)]
<1>1. /\ text \in Seq(Lexemes) /\ b \in 1..(n - 1) /\ text[b] = Open /\ text[b + 1] = "nl" /\ n \in Nat
  BY FunctionText
<1>0. \A q \in 1..Len(SplitString(BlockOf(text), "nl")) :
          \/ ToSet(SplitString(BlockOf(text), "nl")[q]) \subseteq {Open, Close}
          \/ Occurrences(SubSeq(text, 1, b), SplitString(BlockOf(text), "nl")[q]) = {}
  <2>1. DOMAIN SplitString(BlockOf(text), "nl") = 1..Len(SplitString(BlockOf(text), "nl"))
    <3>1. Parts(BlockOf(text), "nl") \in Nat
      <4>1. BlockOf(text) \in Seq(Lexemes)
        <5>1. b \in 1..(Len(text) + 1) /\ Len(text) \in (b - 1)..Len(text)
          BY <1>1
        <5>. QED
          <6>1. SubSeq(text, b, Len(text)) \in Seq(Lexemes)
            BY <1>1, <5>1, Piece
          <6>2. BlockOf(text) = SubSeq(text, b, Len(text))
            BY IsFunctionIs
          <6>. QED
            BY <6>1, <6>2
      <4>. QED
        BY <4>1, PartsType
    <3>. QED
      BY <3>1 DEF SplitString
  <2>. QED
    BY <2>1, IsFunctionIs DEF ToSet
<1>2. BlockOf(text) = SubSeq(text, b, n)
  BY IsFunctionIs
<1>. HIDE DEF b, n
<1>3. b + 1 \in 1..n /\ 1 \in 1..(n + 1) /\ b + 1 \in (1 - 1)..n /\ b \in 1..(n + 1) /\ b + 1 \in (b - 1)..n /\ n \in (b + 1)..n /\ (b + 1) + 1 = b + 2
      /\ (b + 1) - b + 1 = 2 /\ b \in Nat
  BY <1>1
<1>4. /\ text = h \o r /\ h \in Seq(Lexemes) /\ Len(h) = b + 1 /\ (\A x \in 1..(b + 1) : h[x] = text[x])
      /\ r \in Seq(Lexemes)
  <2>. DEFINE m == b + 1
  <2>1. m \in 0..Len(text) /\ m + 1 = b + 2
    BY <1>3 DEF n
  <2>. HIDE DEF m
  <2>2. /\ text = SubSeq(text, 1, m) \o SubSeq(text, m + 1, Len(text)) /\ SubSeq(text, 1, m) \in Seq(Lexemes)
        /\ Len(SubSeq(text, 1, m)) = m /\ \A x \in 1..m : SubSeq(text, 1, m)[x] = text[x]
        /\ SubSeq(text, m + 1, Len(text)) \in Seq(Lexemes)
    BY <1>1, <2>1, Halves, ZenonT(60)
  <2>. QED
    BY <2>1, <2>2 DEF m, n
<1>5. g \in Seq(Lexemes) /\ Len(g) = 2 /\ g[1] = Open /\ g[2] = "nl"
  <2>. DEFINE m == b + 1
  <2>1. b \in 1..(Len(text) + 1) /\ m \in (b - 1)..Len(text)
    BY <1>3 DEF n
  <2>2. m - b + 1 = 2 /\ b + 1 - 1 = b /\ b + 2 - 1 = b + 1 /\ 1 \in 1..2 /\ 2 \in 1..2
    BY <1>3
  <2>. HIDE DEF m
  <2>3. /\ SubSeq(text, b, m) \in Seq(Lexemes) /\ Len(SubSeq(text, b, m)) = m - b + 1
        /\ \A x \in 1..(m - b + 1) : SubSeq(text, b, m)[x] = text[b + x - 1]
    BY <1>1, <2>1, Piece, SMTT(60)
  <2>4. SubSeq(text, b, m)[1] = text[b] /\ SubSeq(text, b, m)[2] = text[b + 1]
    BY <2>2, <2>3
  <2>. QED
    BY <1>1, <2>2, <2>3, <2>4 DEF m
<1>6. BlockOf(text) = g \o r
  <2>. DEFINE m == b + 1
  <2>1. b \in 1..(Len(text) + 1) /\ m \in (b - 1)..Len(text) /\ n \in m..Len(text) /\ m + 1 = b + 2
    BY <1>3 DEF n
  <2>. HIDE DEF m
  <2>2. SubSeq(text, b, m) \o SubSeq(text, m + 1, n) = SubSeq(text, b, n)
    BY <1>1, <2>1, ConcatAdjacentSubSeq
  <2>. QED
    BY <1>2, <2>1, <2>2 DEF m
<1>. HIDE DEF h, g, r
<1>7. Closed(h, "nl") /\ Closed(g, "nl")
  <2>1. h[Len(h)] = "nl"
    BY <1>1, <1>3, <1>4
  <2>2. g[Len(g)] = "nl"
    BY <1>5
  <2>. QED
    BY <2>1, <2>2 DEF Closed
<1>8. Parts(g, "nl") = 1 /\ SplitString(g, "nl")[1] = <<Open>>
  <2>1. Marks(g, "nl") = {2}
    <3>1. g[1] # "nl" /\ \A x \in 1..2 : x = 1 \/ x = 2
      BY <1>5, FourWords
    <3>2. 2 \in 1..2
      OBVIOUS
    <3>. QED
      BY <1>5, <3>1, <3>2 DEF Marks
  <2>2. Count(g, "nl") = 1
    BY <2>1, FS_Singleton DEF Count
  <2>3. Parts(g, "nl") = 1
    BY <1>5, <1>7, <2>2, ClosedParts
  <2>4. Cut(g, "nl", 1) = 2
    BY <1>5, <1>7, <2>2, ClosedParts
  <2>5. From(g, "nl", 1) = 1 /\ To(g, "nl", 1) = 1
    BY <2>4, CutFirst DEF From, To
  <2>6. SplitString(g, "nl")[1] \in Seq(Lexemes) /\ Len(SplitString(g, "nl")[1]) = 1 /\ SplitString(g, "nl")[1][1] = Open
    <3>1. 1 \in 1..Parts(g, "nl")
      BY <2>3
    <3>2. /\ SplitString(g, "nl")[1] \in Seq(Lexemes)
          /\ Len(SplitString(g, "nl")[1]) = To(g, "nl", 1) - From(g, "nl", 1) + 1
          /\ \A x \in 1..Len(SplitString(g, "nl")[1]) : SplitString(g, "nl")[1][x] = g[From(g, "nl", 1) + x - 1]
      BY <1>5, <3>1, PartIs
    <3>3. Len(SplitString(g, "nl")[1]) = 1 /\ 1 \in 1..1 /\ From(g, "nl", 1) + 1 - 1 = 1
      <4>1. Len(SplitString(g, "nl")[1]) = To(g, "nl", 1) - From(g, "nl", 1) + 1
        BY <3>2
      <4>2. 1 \in 1..1 /\ 1 + 1 - 1 = 1 /\ 1 - 1 + 1 = 1
        OBVIOUS
      <4>3. Len(SplitString(g, "nl")[1]) = 1
        BY <2>5, <4>1, <4>2
      <4>4. From(g, "nl", 1) + 1 - 1 = 1
        BY <2>5, <4>2
      <4>. QED
        BY <4>2, <4>3, <4>4
    <3>4. SplitString(g, "nl")[1][1] = g[1]
      BY <3>2, <3>3
    <3>. QED
      BY <1>5, <3>2, <3>3, <3>4
  <2>. QED
    BY <2>3, <2>6
<1>9. found \in SUBSET (1..Parts(g \o r, "nl")) /\ t = SplitString(g \o r, "nl")[Min(found)]
  <2>1. BlockOf(text) \in Seq(Lexemes)
    BY <1>4, <1>5, <1>6, ConcatProperties
  <2>2. Len(SplitString(BlockOf(text), "nl")) = Parts(BlockOf(text), "nl")
    BY <2>1, PartsType
  <2>. QED
    BY <1>6, <2>2
<1>10. 1 \notin found
  <2>1. SplitString(g \o r, "nl") = SplitString(g, "nl") \o SplitString(r, "nl")
    BY <1>4, <1>5, <1>7, SplitJoined
  <2>2. SplitString(g, "nl") \in Seq(Seq(Lexemes)) /\ SplitString(r, "nl") \in Seq(Seq(Lexemes)) /\ Len(SplitString(g, "nl")) = 1
    BY <1>4, <1>5, <1>8, SplitType, PartsType
  <2>3. SplitString(g \o r, "nl")[1] = SplitString(g, "nl")[1]
    <3>1. 1 \in 1..Len(SplitString(g, "nl"))
      <4>1. Len(SplitString(g, "nl")) = 1
        BY <2>2
      <4>. QED
        BY <4>1
    <3>. QED
      BY <2>1, <2>2, <3>1, JoinedAt
  <2>4. ToSet(SplitString(BlockOf(text), "nl")[1]) \subseteq {Open, Close}
    BY <1>6, <1>8, <2>3 DEF ToSet
  <2>. QED
    BY <2>4
<1>11. Min(found) \in found /\ Min(found) \in Nat
  <2>1. found \in SUBSET Nat
    OBVIOUS
  <2>. QED
    BY <2>1, MinIsLeast
<1>12. ~(ToSet(t) \subseteq {Open, Close}) /\ Occurrences(SubSeq(text, 1, b), t) = {}
  BY <1>0, <1>11
<1>13. t \in Seq(Lexemes) /\ Len(t) > 0
  <2>1. Min(found) \in 1..Parts(g \o r, "nl") /\ g \o r \in Seq(Lexemes)
    BY <1>4, <1>5, <1>9, <1>11, ConcatProperties
  <2>2. t \in Seq(Lexemes)
    <3>. DEFINE c == g \o r
               m == Min(found)
    <3>1. c \in Seq(Lexemes) /\ m \in 1..Parts(c, "nl")
      BY <2>1
    <3>. HIDE DEF c, m
    <3>2. SplitString(c, "nl")[m] \in Seq(Lexemes)
      BY <3>1, PartIs
    <3>. QED
      BY <1>9, <3>2 DEF c, m
  <2>. HIDE DEF t
  <2>3. Len(t) \in Nat /\ DOMAIN t = 1..Len(t)
    BY <2>2
  <2>4. Len(t) # 0
    BY <1>12, <2>3 DEF ToSet
  <2>. QED
    BY <2>2, <2>3, <2>4
<1>. HIDE DEF t
<1>14. ASSUME NEW q \in 1..Parts(h, "nl") PROVE Occurrences(SplitString(h, "nl")[q], t) = {}
  <2>. SUFFICES ASSUME NEW m \in Occurrences(SplitString(h, "nl")[q], t) PROVE FALSE
    OBVIOUS
  <2>. DEFINE y == From(h, "nl", q) + m - 1
             c == SplitString(h, "nl")[q]
  <2>1. /\ y \in Occurrences(h, t) /\ c \in Seq(Lexemes) /\ Len(c) = To(h, "nl", q) - From(h, "nl", q) + 1
        /\ From(h, "nl", q) \in 1..(Len(h) + 1) /\ To(h, "nl", q) \in 0..Len(h)
        /\ \A x \in From(h, "nl", q)..To(h, "nl", q) : h[x] # "nl"
    BY <1>4, <1>13, PartOccurs, PartIs, SMTT(60)
  <2>2. m \in 1..(Len(c) - Len(t) + 1)
    BY DEF Occurrences
  <2>3. To(h, "nl", q) <= b
    <3>1. To(h, "nl", q) # b + 1
      <4>1. h[b + 1] = "nl"
        BY <1>1, <1>3, <1>4
      <4>2. From(h, "nl", q) <= To(h, "nl", q)
        BY <1>13, <2>1, <2>2
      <4>. QED
        BY <2>1, <4>1, <4>2
    <3>. QED
      BY <1>3, <1>4, <2>1, <3>1
  <2>4. y \in 1..(b - Len(t) + 1)
    <3>. DEFINE e == To(h, "nl", q)
               f == From(h, "nl", q)
               z == Len(t)
    <3>1. /\ e \in Int /\ f \in Int /\ f >= 1 /\ e <= b /\ m \in 1..(e - f + 1 - z + 1) /\ b \in Int /\ z \in Int
          /\ y = f + m - 1
      <4>1. Len(t) \in Int
        BY <1>13
      <4>. QED
        <5>. HIDE DEF c
        <5>1. /\ Len(c) = To(h, "nl", q) - From(h, "nl", q) + 1
              /\ From(h, "nl", q) \in 1..(Len(h) + 1) /\ To(h, "nl", q) \in 0..Len(h) /\ Len(h) = b + 1
          BY <1>4, <2>1
        <5>2. m \in 1..(Len(c) - Len(t) + 1)
          BY <2>2
        <5>. QED
          BY <1>3, <2>3, <4>1, <5>1, <5>2
    <3>. HIDE DEF e, f, z, y
    <3>2. y \in 1..(b - z + 1)
      BY <3>1
    <3>. QED
      BY <3>2 DEF z
  <2>. HIDE DEF y
  <2>5. \A x \in 1..Len(t) : h[y + x - 1] = t[x]
    <3>1. h \in Seq(Lexemes) /\ t \in Seq(Lexemes) /\ y \in Occurrences(h, t)
      BY <1>4, <1>13, <2>1
    <3>. QED
      BY <3>1, OccursIs
  <2>. DEFINE e == SubSeq(text, 1, b)
  <2>6. e \in Seq(Lexemes) /\ Len(e) = b /\ \A x \in 1..b : e[x] = text[x]
    <3>1. b \in 0..Len(text)
      BY <1>1, <1>3 DEF n
    <3>. QED
      BY <1>1, <3>1, Halves
  <2>. HIDE DEF e
  <2>7. \A x \in 1..Len(t) : e[y + x - 1] = t[x]
    <3>. TAKE x \in 1..Len(t)
    <3>1. y + x - 1 \in 1..b /\ y + x - 1 \in 1..(b + 1)
      BY <1>3, <1>13, <2>4
    <3>. QED
      BY <1>4, <2>5, <2>6, <3>1
  <2>8. y \in Occurrences(e, t)
    BY <1>13, <2>4, <2>6, <2>7, OccursIs
  <2>. QED
    BY <1>12, <2>8 DEF e
<1>15. \A q \in 1..Min(found) : Occurrences(SplitString(g \o r, "nl")[q], t) # {} => q \in found
  BY <1>6, <1>9, <1>11
<1>16. Whole(h \o r, t, "nl")
  <2>1. h \in Seq(Lexemes) /\ g \in Seq(Lexemes) /\ r \in Seq(Lexemes)
    BY <1>4, <1>5
  <2>2. Closed(h, "nl") /\ Closed(g, "nl") /\ Parts(g, "nl") = 1
    BY <1>7, <1>8
  <2>3. found \in SUBSET (1..Parts(g \o r, "nl")) /\ t = SplitString(g \o r, "nl")[Min(found)]
    BY <1>9
  <2>4. Len(t) > 0
    BY <1>13
  <2>. QED
    BY <2>1, <2>2, <2>3, <2>4, <1>10, <1>14, <1>15, WholeBelow
<1>. QED
  BY <1>4, <1>11, <1>13, <1>16 DEF FirstLine, t

\* The first of the parts a test picks is a whole part, when the test passes every part that holds it.
LEMMA WholeFirst ==
    ASSUME NEW V, NEW s \in Seq(V), NEW d,
           NEW found \in SUBSET (1..Parts(s, d)), found # {},
           NEW t, t = SplitString(s, d)[Min(found)], Len(t) > 0,
           \A q \in 1..Min(found) : Occurrences(SplitString(s, d)[q], t) # {} => q \in found
    PROVE  Whole(s, t, d) /\ t \in Seq(V) /\ Min(found) \in found
<1>. DEFINE least == Min(found)
           p == Holder(s, t, d)
<1>1. Parts(s, d) \in Nat
  BY PartsType
<1>2. least \in found /\ least \in 1..Parts(s, d) /\ \A q \in found : least <= q
  <2>1. found \in SUBSET Nat
    OBVIOUS
  <2>. QED
    BY <2>1, MinIsLeast
<1>3. t = SplitString(s, d)[least]
  OBVIOUS
<1>. HIDE DEF least, p
<1>4. t \in Seq(V) /\ Within(t, d)
  <2>1. /\ t \in Seq(V) /\ Len(t) = To(s, d, least) - From(s, d, least) + 1
        /\ \A x \in 1..Len(t) : t[x] = s[From(s, d, least) + x - 1]
        /\ \A n \in From(s, d, least)..To(s, d, least) : s[n] # d
        /\ From(s, d, least) \in Int /\ To(s, d, least) \in Int
    BY <1>2, <1>3, PartIs
  <2>2. \A x \in 1..Len(t) : t[x] # d
    <3>. TAKE x \in 1..Len(t)
    <3>1. From(s, d, least) + x - 1 \in From(s, d, least)..To(s, d, least)
      BY <2>1
    <3>. QED
      BY <2>1, <3>1
  <2>. QED
    BY <2>1, <2>2 DEF Within
<1>5. Occurrences(t, t) # {}
  BY <1>4, OccursInItself
<1>6. Occurrences(s, t) # {}
  <2>1. PICK n \in Occurrences(t, t) : TRUE
    BY <1>5
  <2>2. n \in Occurrences(SplitString(s, d)[least], t)
    BY <1>3, <2>1
  <2>3. From(s, d, least) + n - 1 \in Occurrences(s, t)
    BY <1>2, <1>4, <2>2, PartOccurs
  <2>. QED
    BY <2>3
<1>7. HeldFirst(s, t, d, p)
  BY <1>4, <1>6, FirstHolder DEF p
<1>8. p \in 1..least
  <2>1. p \in 1..Parts(s, d) /\ \A q \in 1..Parts(s, d) : Occurrences(SplitString(s, d)[q], t) # {} => p <= q
    BY <1>7 DEF HeldFirst
  <2>2. Occurrences(SplitString(s, d)[least], t) # {}
    BY <1>3, <1>5
  <2>3. p <= least
    BY <1>2, <2>1, <2>2
  <2>. QED
    BY <1>1, <1>2, <2>1, <2>3
<1>9. p \in found
  BY <1>7, <1>8 DEF HeldFirst, least
<1>10. p = least
  BY <1>1, <1>2, <1>8, <1>9
<1>. QED
  BY <1>2, <1>3, <1>4, <1>6, <1>10 DEF Whole, p, least

-----------------------------------------------------------------------------
(* What the tests of a line look for, they find in a longer one *)

\* A word in a piece of a text is in the text.
LEMMA HasMore ==
    ASSUME NEW V, NEW s \in Seq(V), NEW t \in Seq(V), Occurrences(s, t) # {}, NEW w, Has(t, w)
    PROVE  Has(s, w)
<1>1. PICK n \in Occurrences(s, t) : TRUE
  OBVIOUS
<1>2. n \in 1..(Len(s) - Len(t) + 1) /\ \A x \in 1..Len(t) : s[n + x - 1] = t[x]
  BY OccursIs
<1>3. PICK m \in 1..Len(t) : t[m] = w \/ <<t[m], w>> \in Inside
  BY DEF Has
<1>4. Len(s) \in Nat /\ Len(t) \in Nat
  OBVIOUS
<1>5. n + m - 1 \in 1..Len(s) /\ s[n + m - 1] = t[m]
  BY <1>2, <1>4
<1>. QED
  BY <1>3, <1>5 DEF Has

\* No brace has another word in it.
LEMMA InsideIs == Inside \subseteq (STRING \ {Open, Close}) \X STRING
BY WordsAssumption, Zenon DEF Open, Close

\* A line that holds a word, not a brace, is more than braces.
LEMMA HasWord ==
    ASSUME NEW V, NEW t \in Seq(V), NEW w, w # Open, w # Close, Has(t, w)
    PROVE  ~(ToSet(t) \subseteq {Open, Close}) /\ Len(t) > 0
<1>1. PICK m \in 1..Len(t) : t[m] = w \/ <<t[m], w>> \in Inside
  BY DEF Has
<1>2. t[m] \notin {Open, Close}
  <2>1. <<t[m], w>> \in Inside => t[m] \in STRING \ {Open, Close}
    BY InsideIs
  <2>. QED
    BY <1>1, <2>1
<1>3. DOMAIN t = 1..Len(t) /\ Len(t) \in Nat
  OBVIOUS
<1>. QED
  BY <1>1, <1>2, <1>3 DEF ToSet

-----------------------------------------------------------------------------
(* The inductive invariant *)

Entries == [line : Seq(Lexemes), part : Seq(Lexemes), code : Seq(Lexemes)]

\* What each ExtractInject keeps of the text it reads. The line is a whole line of it,
\* the first that holds its text; or, for AccessControl, a modifier; UncheckedCall's is
\* any line with the call.
ModifierOf(s, m) == Len(m) = 1 /\ m[1] \in ToSet(Modifiers) /\ Occurrences(s, m) # {}
Payment(s, part) ==
    /\ Len(part) = 3 /\ part[1] \in Uints /\ part[2] \in {"=", "-="} /\ part[3] \in Uints \cup {"0"}
    /\ Occurrences(s, part) # {}
CallIn(s, line, call) ==
    /\ \E q \in 1..Parts(s, "nl") : line = SplitString(s, "nl")[q]
    /\ Len(line) > 0 /\ Occurrences(line, call) # {}
    /\ Has(line, "if") \/ Has(line, "require") \/ Has(line, "=")
KeptOf(p, s, x) ==
    /\ p \in {"IntOverflow", "DoS", "Reentrancy"} => Whole(s, x.line, "nl")
    /\ p = "Reentrancy" => Payment(s, x.part)
    /\ p = "UncheckedCall" => CallIn(s, x.line, x.part)
    /\ p = "AccessControl" => (Whole(s, x.line, "nl") /\ Has(x.line, "require")) \/ ModifierOf(s, x.line)
Site(p, s, x) == x \in Entries /\ x.code = s /\ KeptOf(p, s, x)

\* What each Inject makes of an entry.
Edited(p, s, x) ==
    /\ x \in Entries
    /\ p # "IntOverflow" => KeptOf(p, s, x)
    /\ p = "IntOverflow" => Whole(Plain(s), x.line, "nl") /\ x.code = ReplaceFirst(Plain(s), x.line, Weakened(x.line))
    /\ p = "DoS" => x.code = ReplaceFirst(s, x.line, Weakened(x.line))
    /\ p = "Reentrancy" =>
          LET without == ReplaceFirst(s, x.line, <<>>)
          IN  Occurrences(without, x.part) # {} /\ x.code = ReplaceFirst(without, x.part, CallFirst(x.part))
    /\ p = "UncheckedCall" => x.code = ReplaceFirst(s, x.line, Unchecked(x.line, x.part))
    /\ p = "AccessControl" =>
          IF Has(x.line, "require") THEN x.code = ReplaceFirst(s, x.line, <<>>)
          ELSE LET searched == GluedWord(s, x.line)
               IN  x.code = ReplaceFirst(s \o <<"nl">>, searched, IF searched = x.line THEN <<>> ELSE <<"glued">>)

EditInv ==
    /\ processor \in Injectors /\ code \in Texts[processor]
    /\ stage \in {"extract", "inject", "secure", "end", "out_of_range", "undefined"}
    /\ inject_info \in Seq(Entries) /\ k \in Nat \ {0}
    /\ stage = "extract" => k = 1
    /\ stage = "inject" =>
          /\ k <= Len(inject_info) + 1
          /\ \A e \in 1..Len(inject_info) :
                IF e < k THEN Edited(processor, code, inject_info[e]) ELSE Site(processor, code, inject_info[e])
    /\ stage = "out_of_range" =>
          /\ processor = "Reentrancy" /\ k <= Len(inject_info) /\ Site(processor, code, Info)
          /\ Occurrences(ReplaceFirst(code, Info.line, <<>>), Info.part) = {}

-----------------------------------------------------------------------------
(* ExtractInject *)

\* A block is a text, and so is each of its lines.
LEMMA BlockType ==
    ASSUME NEW text, IsFunction(text)
    PROVE  /\ BlockOf(text) \in Seq(Lexemes) /\ Len(SplitString(BlockOf(text), "nl")) \in Nat
           /\ \A q \in 1..Len(SplitString(BlockOf(text), "nl")) : SplitString(BlockOf(text), "nl")[q] \in Seq(Lexemes)
<1>. DEFINE b == Min(Marks(text, Open))
           c == BlockOf(text)
<1>1. text \in Seq(Lexemes) /\ b \in 1..(Len(text) - 1)
  BY FunctionText
<1>2. BlockOf(text) = SubSeq(text, b, Len(text))
  BY IsFunctionIs
<1>. HIDE DEF b
<1>3. c \in Seq(Lexemes)
  <2>1. b \in 1..(Len(text) + 1) /\ Len(text) \in (b - 1)..Len(text)
    BY <1>1
  <2>2. SubSeq(text, b, Len(text)) \in Seq(Lexemes)
    BY <1>1, <2>1, Piece
  <2>. QED
    BY <1>2, <2>2
<1>. HIDE DEF c
<1>4. Len(SplitString(c, "nl")) \in Nat /\ \A q \in 1..Len(SplitString(c, "nl")) : SplitString(c, "nl")[q] \in Seq(Lexemes)
  BY <1>3, PartsType, PartIs
<1>. QED
  BY <1>3, <1>4 DEF c

\* What bounds a sum, bounds it with more around.
LEMMA BoundsMore ==
    ASSUME NEW s \in Seq(Lexemes), NEW t \in Seq(Lexemes), Occurrences(s, t) # {}, NEW n, Bounds(n, t)
    PROVE  Bounds(n, s)
<1>1. \A w : Has(t, w) => Has(s, w)
  BY HasMore
<1>. QED
  BY <1>1 DEF Bounds, Compares

\* What pays, pays with more around.
LEMMA PaysMore ==
    ASSUME NEW s \in Seq(Lexemes), NEW t \in Seq(Lexemes), Occurrences(s, t) # {}, NEW n, Pays(n, t)
    PROVE  Pays(n, s)
<1>1. \A w : Has(t, w) => Has(s, w)
  BY HasMore
<1>. QED
  BY <1>1 DEF Pays

\* The entries InOrder makes of sites that are all of a kind are of that kind.
LEMMA SitesInOrder ==
    ASSUME NEW V, NEW m \in Nat, NEW S \in SUBSET (1..m), NEW f \in [S -> V]
    PROVE  InOrder(f) \in Seq(V)
<1>1. IsFiniteSet(1..m)
  BY FS_Interval
<1>2. S \in SUBSET Nat
  OBVIOUS
<1>3. IsFiniteSet(S)
  BY <1>1, FS_Subset
<1>. QED
  BY <1>2, <1>3, InOrderOf

\* What ExtractOverflow finds is a whole line of the text.
LEMMA OverflowSite ==
    ASSUME IsFunction(code), NEW found, NEW n,
           found = {j \in 1..Len(SplitString(Block, "nl")) : Bounds(n, SplitString(Block, "nl")[j])}, found # {}
    PROVE  /\ Whole(code, FirstLine(SplitString(Block, "nl"), found), "nl")
           /\ FirstLine(SplitString(Block, "nl"), found) \in Seq(Lexemes)
<1>. DEFINE lines == SplitString(BlockOf(code), "nl")
<1>1. Len(lines) \in Nat /\ \A q \in 1..Len(lines) : lines[q] \in Seq(Lexemes)
  BY BlockType
<1>2. lines = SplitString(Block, "nl")
  BY DEF Block
<1>. HIDE DEF lines
<1>3. found \in SUBSET (1..Len(lines)) /\ found = {j \in 1..Len(lines) : Bounds(n, lines[j])}
  BY <1>2
<1>4. ASSUME NEW j \in found PROVE ~(ToSet(lines[j]) \subseteq {Open, Close})
  <2>1. lines[j] \in Seq(Lexemes) /\ (Has(lines[j], ">") \/ Has(lines[j], "<"))
    BY <1>1, <1>3 DEF Bounds, Compares
  <2>2. ">" \notin {Open, Close} /\ "<" \notin {Open, Close}
    BY FourWords
  <2>. QED
    BY <2>1, <2>2, HasWord
<1>5. ASSUME NEW j \in found, NEW q \in 1..j, Occurrences(lines[q], lines[j]) # {} PROVE q \in found
  <2>1. j \in 1..Len(lines) /\ q \in 1..Len(lines) /\ Bounds(n, lines[j])
    BY <1>1, <1>3
  <2>2. Bounds(n, lines[q])
    BY <1>1, <1>5, <2>1, BoundsMore
  <2>. QED
    BY <1>3, <2>1, <2>2
<1>6. /\ Whole(code, FirstLine(lines, found), "nl")
      /\ FirstLine(lines, found) \in Seq(Lexemes)
  <2>1. \A j \in found : \A q \in 1..j : Occurrences(lines[q], lines[j]) # {} => q \in found
    BY <1>5
  <2>. QED
    BY <1>3, <1>4, <2>1, BlockWhole DEF lines
<1>. QED
  BY <1>2, <1>6

\* No name of a number is a word of the syntax.
LEMMA UintsApart ==
    Uints \cap {"nl", "=", "-=", "(", ")", "0", "o", "uint", ".call.value(", Open, Close, Semicolon, Comma} = {}
BY WordsAssumption, Zenon DEF Symbols, Open, Close, Semicolon, Comma

\* A text an injector is handed is a function with a body.
LEMMA TextIs == ASSUME NEW p \in Injectors, NEW text \in Texts[p] PROVE IsFunction(text)
BY TextsAssumption

\* What ExtractReentrancy finds is a whole line of the text.
LEMMA ReentrancySite ==
    ASSUME IsFunction(code), NEW found, NEW n,
           found = {j \in 1..Len(SplitString(Block, "nl")) : Pays(n, SplitString(Block, "nl")[j])}, found # {}
    PROVE  /\ Whole(code, FirstLine(SplitString(Block, "nl"), found), "nl")
           /\ FirstLine(SplitString(Block, "nl"), found) \in Seq(Lexemes)
<1>. DEFINE lines == SplitString(BlockOf(code), "nl")
<1>1. Len(lines) \in Nat /\ \A q \in 1..Len(lines) : lines[q] \in Seq(Lexemes)
  BY BlockType
<1>2. lines = SplitString(Block, "nl")
  BY DEF Block
<1>. HIDE DEF lines
<1>3. found \in SUBSET (1..Len(lines)) /\ found = {j \in 1..Len(lines) : Pays(n, lines[j])}
  BY <1>2
<1>4. ASSUME NEW j \in found PROVE ~(ToSet(lines[j]) \subseteq {Open, Close})
  <2>1. lines[j] \in Seq(Lexemes) /\ Has(lines[j], "transfer(")
    BY <1>1, <1>3 DEF Pays
  <2>2. "transfer(" \notin {Open, Close}
    BY FourWords
  <2>. QED
    BY <2>1, <2>2, HasWord
<1>5. ASSUME NEW j \in found, NEW q \in 1..j, Occurrences(lines[q], lines[j]) # {} PROVE q \in found
  <2>1. j \in 1..Len(lines) /\ q \in 1..Len(lines) /\ Pays(n, lines[j])
    BY <1>1, <1>3
  <2>2. Pays(n, lines[q])
    BY <1>1, <1>5, <2>1, PaysMore
  <2>. QED
    BY <1>3, <2>1, <2>2
<1>6. /\ Whole(code, FirstLine(lines, found), "nl")
      /\ FirstLine(lines, found) \in Seq(Lexemes)
  <2>1. \A j \in found : \A q \in 1..j : Occurrences(lines[q], lines[j]) # {} => q \in found
    BY <1>5
  <2>. QED
    BY <1>3, <1>4, <2>1, BlockWhole DEF lines
<1>. QED
  BY <1>2, <1>6

\* The assignment is found in the text, and is what Payment says.
LEMMA PaymentPart ==
    ASSUME code \in Seq(Lexemes), NEW n \in 1..Len(code), PaymentAt(n)
    PROVE  SubSeq(code, n, n + 2) \in Seq(Lexemes) /\ Payment(code, SubSeq(code, n, n + 2))
<1>. DEFINE part == SubSeq(code, n, n + 2)
<1>1. Len(code) \in Nat
  OBVIOUS
<1>2. At(code, n) = code[n] /\ code[n] \in Uints
  BY DEF PaymentAt, At
<1>3. At(code, n + 1) \in {"=", "-="} /\ At(code, n + 2) \in Uints \cup {"0"}
  BY DEF PaymentAt
<1>4. n + 1 \in 1..Len(code) /\ n + 2 \in 1..Len(code)
  <2>1. At(code, n + 1) # "nl"
    BY <1>3
  <2>2. At(code, n + 2) # "nl"
    BY <1>3, UintsApart
  <2>. QED
    BY <2>1, <2>2 DEF At
<1>5. code[n + 1] \in {"=", "-="} /\ code[n + 2] \in Uints \cup {"0"}
  BY <1>3, <1>4 DEF At
<1>6. n \in 1..(Len(code) + 1) /\ n + 2 \in (n - 1)..Len(code) /\ n + 2 - n + 1 = 3
  BY <1>1, <1>4
<1>7. part \in Seq(Lexemes) /\ Len(part) = 3 /\ \A x \in 1..3 : part[x] = code[n + x - 1]
  <2>. DEFINE m == n + 2
  <2>1. m \in (n - 1)..Len(code) /\ m - n + 1 = 3
    BY <1>6
  <2>. HIDE DEF m
  <2>2. /\ SubSeq(code, n, m) \in Seq(Lexemes) /\ Len(SubSeq(code, n, m)) = m - n + 1
        /\ \A x \in 1..(m - n + 1) : SubSeq(code, n, m)[x] = code[n + x - 1]
    BY <1>6, <2>1, Piece
  <2>. QED
    BY <2>1, <2>2 DEF m
<1>. HIDE DEF part
<1>8. part[1] = code[n] /\ part[2] = code[n + 1] /\ part[3] = code[n + 2]
  <2>1. 1 \in 1..3 /\ 2 \in 1..3 /\ 3 \in 1..3 /\ n + 1 - 1 = n /\ n + 2 - 1 = n + 1 /\ n + 3 - 1 = n + 2
    OBVIOUS
  <2>. QED
    BY <1>7, <2>1
<1>9. Occurrences(code, part) # {}
  <2>1. n \in 1..(Len(code) - Len(part) + 1)
    BY <1>4, <1>7
  <2>2. n \in Occurrences(code, part)
    BY <1>7, <2>1, OccursIs
  <2>. QED
    BY <2>2
<1>10. Payment(code, part)
  BY <1>2, <1>5, <1>7, <1>8, <1>9 DEF Payment
<1>. QED
  BY <1>7, <1>10 DEF part

\* EmplaceBack keeps the invariant when each entry is a site.
LEMMA Extracted ==
    ASSUME EditInv, stage = "extract", NEW entries \in Seq(Entries),
           \A e \in 1..Len(entries) : Site(processor, code, entries[e]), NEW line, EmplaceBack(entries, line)
    PROVE  EditInv'
<1>1. /\ inject_info' = entries /\ stage' = "inject" /\ processor' = processor /\ code' = code /\ k' = k /\ k = 1
  BY DEF EmplaceBack, EditInv
<1>2. Len(entries) \in Nat
  OBVIOUS
<1>. QED
  BY <1>1, <1>2 DEF EditInv

\* ExtractOverflow keeps the invariant.
LEMMA ExtractOverflowEdits == ASSUME EditInv, ExtractOverflow PROVE EditInv'
<1>. DEFINE lines == SplitString(Block, "nl")
           Found(n) == {j \in 1..Len(lines) : Bounds(n, lines[j])}
           sites == {n \in 1..Len(code) : (SumAt(n) \/ UpdateAt(n)) /\ Found(n) # {}}
           V == {x \in Entries : Site("IntOverflow", code, x)}
           f == [n \in sites |-> Entry(FirstLine(lines, Found(n)), <<>>, code)]
<1>1. stage = "extract" /\ processor = "IntOverflow" /\ EmplaceBack(InOrder(f), <<>>)
  BY DEF ExtractOverflow
<1>2. IsFunction(code) /\ code \in Seq(Lexemes)
  BY TextIs, FunctionText DEF EditInv
<1>3. ASSUME NEW n \in sites PROVE f[n] \in V
  <2>. DEFINE line == FirstLine(lines, Found(n))
             x == Entry(line, <<>>, code)
  <2>1. Found(n) # {} /\ Found(n) = {j \in 1..Len(lines) : Bounds(n, lines[j])}
    OBVIOUS
  <2>2. Whole(code, line, "nl") /\ line \in Seq(Lexemes)
    BY <1>2, <2>1, OverflowSite
  <2>. HIDE DEF line
  <2>3. x \in Entries /\ x.line = line /\ x.code = code
    BY <1>2, <2>2, EmptySeq DEF Entry, Entries
  <2>4. KeptOf("IntOverflow", code, x)
    BY <2>2, <2>3 DEF KeptOf
  <2>5. f[n] = x
    BY DEF line
  <2>. QED
    BY <2>3, <2>4, <2>5 DEF Site
<1>4. Len(code) \in Nat /\ sites \in SUBSET (1..Len(code)) /\ f = [n \in sites |-> f[n]]
  BY <1>2
<1>. HIDE DEF f, sites, V
<1>5. InOrder(f) \in Seq(V)
  <2>1. f \in [sites -> V]
    BY <1>3, <1>4
  <2>. QED
    BY <1>4, <2>1, SitesInOrder
<1>6. InOrder(f) \in Seq(Entries) /\ \A e \in 1..Len(InOrder(f)) : Site(processor, code, InOrder(f)[e])
  <2>1. V \subseteq Entries
    BY DEF V
  <2>2. InOrder(f) \in Seq(Entries)
    BY <1>5, <2>1, SeqMonotonic
  <2>3. \A e \in 1..Len(InOrder(f)) : InOrder(f)[e] \in V
    BY <1>5
  <2>. QED
    BY <1>1, <2>2, <2>3 DEF V
<1>. QED
  BY <1>1, <1>6, Extracted

\* ExtractReentrancy keeps the invariant.
LEMMA ExtractReentrancyEdits == ASSUME EditInv, ExtractReentrancy PROVE EditInv'
<1>. DEFINE lines == SplitString(Block, "nl")
           Found(n) == {j \in 1..Len(lines) : Pays(n, lines[j])}
           sites == {n \in 1..Len(code) : PaymentAt(n) /\ Found(n) # {}}
           V == {x \in Entries : Site("Reentrancy", code, x)}
           f == [n \in sites |-> Entry(FirstLine(lines, Found(n)), SubSeq(code, n, n + 2), code)]
<1>1. stage = "extract" /\ processor = "Reentrancy" /\ EmplaceBack(InOrder(f), <<>>)
  BY DEF ExtractReentrancy
<1>2. IsFunction(code) /\ code \in Seq(Lexemes)
  BY TextIs, FunctionText DEF EditInv
<1>3. ASSUME NEW n \in sites PROVE f[n] \in V
  <2>. DEFINE line == FirstLine(lines, Found(n))
             part == SubSeq(code, n, n + 2)
             x == Entry(line, part, code)
  <2>1. Found(n) # {} /\ Found(n) = {j \in 1..Len(lines) : Pays(n, lines[j])} /\ n \in 1..Len(code) /\ PaymentAt(n)
    OBVIOUS
  <2>2. Whole(code, line, "nl") /\ line \in Seq(Lexemes)
    BY <1>2, <2>1, ReentrancySite
  <2>3. part \in Seq(Lexemes) /\ Payment(code, part)
    BY <1>2, <2>1, PaymentPart
  <2>. HIDE DEF line, part
  <2>4. x \in Entries /\ x.line = line /\ x.part = part /\ x.code = code
    BY <1>2, <2>2, <2>3 DEF Entry, Entries
  <2>5. KeptOf("Reentrancy", code, x)
    BY <2>2, <2>3, <2>4 DEF KeptOf
  <2>6. f[n] = x
    BY DEF line, part
  <2>. QED
    BY <2>4, <2>5, <2>6 DEF Site
<1>4. Len(code) \in Nat /\ sites \in SUBSET (1..Len(code)) /\ f = [n \in sites |-> f[n]]
  BY <1>2
<1>. HIDE DEF f, sites, V
<1>5. InOrder(f) \in Seq(V)
  <2>1. f \in [sites -> V]
    BY <1>3, <1>4
  <2>. QED
    BY <1>4, <2>1, SitesInOrder
<1>6. InOrder(f) \in Seq(Entries) /\ \A e \in 1..Len(InOrder(f)) : Site(processor, code, InOrder(f)[e])
  <2>1. V \subseteq Entries
    BY DEF V
  <2>2. InOrder(f) \in Seq(Entries)
    BY <1>5, <2>1, SeqMonotonic
  <2>3. \A e \in 1..Len(InOrder(f)) : InOrder(f)[e] \in V
    BY <1>5
  <2>. QED
    BY <1>1, <2>2, <2>3 DEF V
<1>. QED
  BY <1>1, <1>6, Extracted

\* The line of a loop's limit is the first of the lines before the loop that checks it.
LEMMA DoSSite ==
    ASSUME code \in Seq(Lexemes), NEW no \in 2..Parts(code, "nl"), NEW limits, NEW found, found # {},
           found = {prev \in 1..(no - 1) : \E var \in limits : Checks(SplitString(code, "nl")[prev], var)}
    PROVE  /\ Whole(code, FirstLine(SplitString(code, "nl"), found), "nl")
           /\ FirstLine(SplitString(code, "nl"), found) \in Seq(Lexemes)
<1>. DEFINE lines == SplitString(code, "nl")
           least == Min(found)
<1>1. Parts(code, "nl") \in Nat /\ \A q \in 1..Parts(code, "nl") : lines[q] \in Seq(Lexemes)
  BY PartsType, PartIs
<1>. HIDE DEF lines
<1>2. found \in SUBSET (1..Parts(code, "nl")) /\ found \in SUBSET Nat
  BY <1>1
<1>3. least \in found
  BY <1>2, MinIsLeast
<1>. HIDE DEF least
<1>4. least \in 1..(no - 1) /\ \E var \in limits : Checks(lines[least], var)
  BY <1>3 DEF lines
<1>5. PICK var \in limits : Checks(lines[least], var)
  BY <1>4
<1>6. lines[least] \in Seq(Lexemes)
  BY <1>1, <1>2, <1>3
<1>7. Len(lines[least]) > 0
  <2>1. Has(lines[least], "if") \/ Has(lines[least], "require")
    BY <1>5 DEF Checks
  <2>2. "if" \notin {Open, Close} /\ "require" \notin {Open, Close}
    BY FourWords
  <2>. QED
    BY <1>6, <2>1, <2>2, HasWord
<1>8. ASSUME NEW q \in 1..least, Occurrences(lines[q], lines[least]) # {} PROVE q \in found
  <2>1. q \in 1..(no - 1) /\ lines[q] \in Seq(Lexemes)
    <3>1. q \in 1..(no - 1) /\ q \in 1..Parts(code, "nl")
      BY <1>1, <1>4
    <3>. QED
      BY <1>1, <3>1
  <2>2. \A w : Has(lines[least], w) => Has(lines[q], w)
    BY <1>6, <1>8, <2>1, HasMore
  <2>3. Checks(lines[q], var)
    BY <1>5, <2>2 DEF Checks
  <2>. QED
    BY <1>5, <2>1, <2>3 DEF lines
<1>9. Whole(code, lines[least], "nl")
  <2>. DEFINE t == lines[least]
  <2>1. t = SplitString(code, "nl")[Min(found)] /\ Len(t) > 0
    BY <1>7 DEF lines, least
  <2>2. \A q \in 1..Min(found) : Occurrences(SplitString(code, "nl")[q], t) # {} => q \in found
    BY <1>8 DEF lines, least
  <2>. HIDE DEF t
  <2>3. Whole(code, t, "nl")
    BY <1>2, <2>1, <2>2, WholeFirst
  <2>. QED
    BY <2>3 DEF t
<1>. QED
  BY <1>6, <1>9 DEF FirstLine, lines, least

\* ExtractDoS keeps the invariant.
LEMMA ExtractDoSEdits == ASSUME EditInv, ExtractDoS PROVE EditInv'
<1>. DEFINE lines == SplitString(code, "nl")
           Found(no) == {prev \in 1..(no - 1) : \E var \in Limits(lines[no]) : Checks(lines[prev], var)}
           sites == {no \in 2..Len(lines) : IsLoop(lines[no]) /\ Found(no) # {}}
           V == {x \in Entries : Site("DoS", code, x)}
           f == [no \in sites |-> Entry(FirstLine(lines, Found(no)), <<>>, code)]
<1>1. stage = "extract" /\ processor = "DoS" /\ EmplaceBack(InOrder(f), <<>>)
  BY DEF ExtractDoS
<1>2. code \in Seq(Lexemes)
  BY TextIs, FunctionText DEF EditInv
<1>3. Len(lines) = Parts(code, "nl") /\ Len(lines) \in Nat
  BY <1>2, PartsType
<1>4. ASSUME NEW no \in sites PROVE f[no] \in V
  <2>. DEFINE line == FirstLine(lines, Found(no))
             x == Entry(line, <<>>, code)
  <2>1. Found(no) # {} /\ Found(no) = {prev \in 1..(no - 1) : \E var \in Limits(lines[no]) : Checks(lines[prev], var)}
    OBVIOUS
  <2>2. no \in 2..Parts(code, "nl")
    BY <1>3
  <2>3. Whole(code, line, "nl") /\ line \in Seq(Lexemes)
    BY <1>2, <2>1, <2>2, DoSSite
  <2>. HIDE DEF line
  <2>4. x \in Entries /\ x.line = line /\ x.code = code
    BY <1>2, <2>3, EmptySeq DEF Entry, Entries
  <2>5. KeptOf("DoS", code, x)
    BY <2>3, <2>4 DEF KeptOf
  <2>6. f[no] = x
    BY DEF line
  <2>. QED
    BY <2>4, <2>5, <2>6 DEF Site
<1>5. sites \in SUBSET (1..Len(lines)) /\ f = [no \in sites |-> f[no]]
  BY <1>3
<1>. HIDE DEF f, sites, V
<1>6. InOrder(f) \in Seq(V)
  <2>1. f \in [sites -> V]
    BY <1>4, <1>5
  <2>. QED
    BY <1>3, <1>5, <2>1, SitesInOrder
<1>7. InOrder(f) \in Seq(Entries) /\ \A e \in 1..Len(InOrder(f)) : Site(processor, code, InOrder(f)[e])
  <2>1. V \subseteq Entries
    BY DEF V
  <2>2. InOrder(f) \in Seq(Entries)
    BY <1>6, <2>1, SeqMonotonic
  <2>3. \A e \in 1..Len(InOrder(f)) : InOrder(f)[e] \in V
    BY <1>6
  <2>. QED
    BY <1>1, <2>2, <2>3 DEF V
<1>. QED
  BY <1>1, <1>7, Extracted

\* A text of four words.
LEMMA FourOf == \A a, b, c, d : Len(<<a, b, c, d>>) = 4 /\ DOMAIN <<a, b, c, d>> = 1..4
OBVIOUS

\* The modifiers looked for are four.
LEMMA ModifiersAre == Len(Modifiers) = 4 /\ DOMAIN Modifiers = 1..4
BY FourOf, Zenon DEF Modifiers

\* A line that guards requires.
LEMMA GuardsRequire == ASSUME NEW t, Guards(t) PROVE Has(t, "require")
BY DEF Guards, Has

\* A line guards when one found in it does.
LEMMA GuardsMore ==
    ASSUME NEW V, NEW s \in Seq(V), NEW t \in Seq(V), Occurrences(s, t) # {}, Guards(t)
    PROVE  Guards(s)
<1>1. PICK o \in Occurrences(s, t) : TRUE
  OBVIOUS
<1>2. o \in 1..(Len(s) - Len(t) + 1) /\ \A x \in 1..Len(t) : s[o + x - 1] = t[x]
  BY OccursIs
<1>3. Len(s) \in Nat /\ Len(t) \in Nat
  OBVIOUS
<1>4. ASSUME NEW y \in Nat, At(t, y) # "nl" PROVE At(s, o + y - 1) = At(t, y)
  <2>1. y \in 1..Len(t) /\ At(t, y) = t[y]
    BY <1>4 DEF At
  <2>2. o + y - 1 \in 1..Len(s) /\ s[o + y - 1] = t[y]
    BY <1>2, <1>3, <2>1
  <2>. QED
    BY <2>1, <2>2 DEF At
<1>5. PICK n \in 1..Len(t) :
         /\ t[n] = "require" /\ At(t, n + 1) = "("
         /\ \/ At(t, n + 2) = "msg.sender" /\ At(t, n + 3) = "=="
            \/ \E m \in (n + 3)..Len(t) : t[m] = "==" /\ At(t, m + 1) = "msg.sender"
  BY DEF Guards
<1>. DEFINE a == o + n - 1
<1>6. a \in 1..Len(s) /\ s[a] = "require" /\ a + 1 = o + (n + 1) - 1 /\ a + 2 = o + (n + 2) - 1 /\ a + 3 = o + (n + 3) - 1
  BY <1>2, <1>3, <1>5
<1>7. At(s, a + 1) = "("
  BY <1>4, <1>5, <1>6
<1>8. CASE At(t, n + 2) = "msg.sender" /\ At(t, n + 3) = "=="
  <2>1. At(s, a + 2) = "msg.sender" /\ At(s, a + 3) = "=="
    BY <1>4, <1>6, <1>8
  <2>. QED
    BY <1>6, <1>7, <2>1 DEF Guards
<1>9. CASE \E m \in (n + 3)..Len(t) : t[m] = "==" /\ At(t, m + 1) = "msg.sender"
  <2>1. PICK m \in (n + 3)..Len(t) : t[m] = "==" /\ At(t, m + 1) = "msg.sender"
    BY <1>9
  <2>. DEFINE c == o + m - 1
  <2>2. m \in Nat /\ c \in (a + 3)..Len(s) /\ s[c] = "==" /\ c + 1 = o + (m + 1) - 1
    BY <1>2, <1>3, <2>1
  <2>3. At(s, c + 1) = "msg.sender"
    BY <1>4, <2>1, <2>2
  <2>. QED
    BY <1>6, <1>7, <2>2, <2>3 DEF Guards
<1>. QED
  BY <1>5, <1>8, <1>9

\* What GuardLine finds is a modifier of the text or a whole line that requires.
LEMMA GuardIs ==
    ASSUME IsFunction(code), GuardLine # <<>>
    PROVE  /\ GuardLine \in Seq(Lexemes)
           /\ (Whole(code, GuardLine, "nl") /\ Has(GuardLine, "require")) \/ ModifierOf(code, GuardLine)
<1>. DEFINE lines == SplitString(BlockOf(code), "nl")
           heading == SplitString(code, "nl")[1]
           modifiers == {m \in 1..Len(Modifiers) : Count(heading, Modifiers[m]) > 0}
           requires == {j \in 1..Min({3, Len(lines)}) : Guards(lines[j])}
<1>1. GuardLine = CASE modifiers # {} -> <<Modifiers[Min(modifiers)]>>
                    [] modifiers = {} /\ requires # {} -> FirstLine(lines, requires)
                    [] OTHER -> <<>>
  BY DEF GuardLine, Block
<1>2. code \in Seq(Lexemes) /\ code # <<>> /\ code[Len(code)] # "nl"
  BY FunctionText, FourWords
<1>3. CASE modifiers # {}
  <2>. DEFINE w == Modifiers[Min(modifiers)]
  <2>1. Len(Modifiers) = 4 /\ DOMAIN Modifiers = 1..4
    BY ModifiersAre
  <2>2. Min(modifiers) \in modifiers
    <3>1. modifiers \in SUBSET Nat
      BY <2>1
    <3>. QED
      BY <1>3, <3>1, MinIsLeast
  <2>3. w \in ToSet(Modifiers) /\ Count(heading, w) > 0
    BY <2>1, <2>2 DEF ToSet
  <2>4. w \in Lexemes
    BY <2>3 DEF Lexemes
  <2>. HIDE DEF w, heading
  <2>5. Parts(code, "nl") \in Nat /\ 1 \in 1..Parts(code, "nl")
    <3>1. Parts(code, "nl") = Count(code, "nl") + 1
      BY <1>2 DEF Parts
    <3>2. Parts(code, "nl") \in Nat /\ Count(code, "nl") \in Nat
      BY <1>2, PartsType
    <3>. QED
      BY <3>1, <3>2
  <2>6. /\ heading \in Seq(Lexemes) /\ From(code, "nl", 1) \in 1..(Len(code) + 1) /\ To(code, "nl", 1) \in 0..Len(code)
        /\ Len(heading) = To(code, "nl", 1) - From(code, "nl", 1) + 1
        /\ \A x \in 1..Len(heading) : heading[x] = code[From(code, "nl", 1) + x - 1]
    BY <1>2, <2>5, PartIs DEF heading
  <2>7. PICK y \in 1..Len(heading) : heading[y] = w
    <3>1. SUFFICES ASSUME \A y \in 1..Len(heading) : heading[y] # w PROVE FALSE
      OBVIOUS
    <3>2. Count(heading, w) = 0
      BY <2>6, <3>1, CountNone
    <3>. QED
      BY <2>3, <3>2
  <2>. DEFINE n == From(code, "nl", 1) + y - 1
             t == <<w>>
  <2>8. n \in 1..Len(code) /\ code[n] = w
    BY <2>6, <2>7
  <2>9. t \in Seq(Lexemes) /\ Len(t) = 1 /\ t[1] = w
    BY <2>4
  <2>. HIDE DEF n, t
  <2>10. n \in Occurrences(code, t)
    <3>1. n \in 1..(Len(code) - Len(t) + 1)
      BY <2>8, <2>9
    <3>2. \A x \in 1..Len(t) : code[n + x - 1] = t[x]
      BY <2>8, <2>9
    <3>. QED
      BY <1>2, <2>9, <3>1, <3>2, OccursIs
  <2>11. GuardLine = t
    BY <1>1, <1>3 DEF t, w
  <2>. QED
    BY <2>3, <2>9, <2>10, <2>11 DEF ModifierOf
<1>4. CASE modifiers = {}
  <2>. HIDE DEF lines, modifiers
  <2>1. Len(lines) \in Nat /\ \A q \in 1..Len(lines) : lines[q] \in Seq(Lexemes)
    BY BlockType DEF lines
  <2>2. Min({3, Len(lines)}) <= Len(lines) /\ Min({3, Len(lines)}) \in Nat
    <3>. DEFINE T == {3, Len(lines)}
    <3>1. T \in SUBSET Nat /\ T # {} /\ Len(lines) \in T
      BY <2>1
    <3>. HIDE DEF T
    <3>2. Min(T) \in T /\ \A y \in T : Min(T) <= y
      BY <3>1, MinIsLeast
    <3>. QED
      BY <3>1, <3>2 DEF T
  <2>3. requires # {} /\ GuardLine = FirstLine(lines, requires)
    BY <1>1, <1>4
  <2>. DEFINE most == Min({3, Len(lines)})
  <2>. HIDE DEF most
  <2>4. /\ requires \in SUBSET (1..Len(lines))
        /\ \A j \in requires : j \in 1..most /\ Guards(lines[j])
        /\ \A j \in 1..most : Guards(lines[j]) => j \in requires
    BY <2>1, <2>2 DEF most
  <2>. HIDE DEF requires
  <2>5. ASSUME NEW j \in requires PROVE ~(ToSet(lines[j]) \subseteq {Open, Close})
    <3>1. lines[j] \in Seq(Lexemes) /\ Has(lines[j], "require")
      BY <2>1, <2>4, GuardsRequire
    <3>2. "require" \notin {Open, Close}
      BY FourWords
    <3>. QED
      BY <3>1, <3>2, HasWord
  <2>6. ASSUME NEW j \in requires, NEW q \in 1..j, Occurrences(lines[q], lines[j]) # {} PROVE q \in requires
    <3>1. j \in 1..most /\ j \in 1..Len(lines) /\ Guards(lines[j])
      BY <2>4
    <3>2. most \in Nat /\ q \in 1..most /\ q \in 1..Len(lines)
      BY <2>1, <2>2, <3>1 DEF most
    <3>3. Guards(lines[q])
      BY <2>1, <2>6, <3>1, <3>2, GuardsMore
    <3>. QED
      BY <2>4, <3>2, <3>3
  <2>7. \A j \in requires : \A q \in 1..j : Occurrences(lines[q], lines[j]) # {} => q \in requires
    BY <2>6
  <2>8. /\ Whole(code, FirstLine(lines, requires), "nl") /\ FirstLine(lines, requires) \in Seq(Lexemes)
        /\ Min(requires) \in requires
    BY <2>3, <2>4, <2>5, <2>7, BlockWhole DEF lines
  <2>9. Has(FirstLine(lines, requires), "require")
    BY <2>4, <2>8, GuardsRequire DEF FirstLine
  <2>. QED
    BY <2>3, <2>8, <2>9
<1>. QED
  BY <1>3, <1>4

\* ExtractAccess keeps the invariant.
LEMMA ExtractAccessEdits == ASSUME EditInv, ExtractAccess PROVE EditInv'
<1>. DEFINE line == GuardLine
           sites == {n \in 1..Len(code) : TakesOver(n) /\ line # <<>>}
           V == {x \in Entries : Site("AccessControl", code, x)}
           f == [n \in sites |-> Entry(line, <<>>, code)]
<1>1. stage = "extract" /\ processor = "AccessControl" /\ EmplaceBack(InOrder(f), line)
  BY DEF ExtractAccess
<1>2. IsFunction(code) /\ code \in Seq(Lexemes)
  BY TextIs, FunctionText DEF EditInv
<1>3. ASSUME NEW n \in sites PROVE f[n] \in V
  <2>. DEFINE x == Entry(line, <<>>, code)
  <2>1. line # <<>>
    OBVIOUS
  <2>2. /\ line \in Seq(Lexemes)
        /\ (Whole(code, line, "nl") /\ Has(line, "require")) \/ ModifierOf(code, line)
    BY <1>2, <2>1, GuardIs
  <2>3. f[n] = x
    OBVIOUS
  <2>. HIDE DEF line, f
  <2>4. x \in Entries /\ x.line = line /\ x.code = code
    BY <1>2, <2>2, EmptySeq DEF Entry, Entries
  <2>5. KeptOf("AccessControl", code, x)
    BY <2>2, <2>4 DEF KeptOf
  <2>. QED
    BY <2>3, <2>4, <2>5 DEF Site
<1>4. Len(code) \in Nat /\ sites \in SUBSET (1..Len(code)) /\ f = [n \in sites |-> f[n]]
  BY <1>2
<1>. HIDE DEF f, sites, V
<1>5. InOrder(f) \in Seq(V)
  <2>1. f \in [sites -> V]
    BY <1>3, <1>4
  <2>. QED
    BY <1>4, <2>1, SitesInOrder
<1>6. InOrder(f) \in Seq(Entries) /\ \A e \in 1..Len(InOrder(f)) : Site(processor, code, InOrder(f)[e])
  <2>1. V \subseteq Entries
    BY DEF V
  <2>2. InOrder(f) \in Seq(Entries)
    BY <1>5, <2>1, SeqMonotonic
  <2>3. \A e \in 1..Len(InOrder(f)) : InOrder(f)[e] \in V
    BY <1>5
  <2>. QED
    BY <1>1, <2>2, <2>3 DEF V
<1>. QED
  BY <1>1, <1>6, Extracted

\* A set that holds 0 and with each number below N the next holds 0..N.
LEMMA UpTo ==
    ASSUME NEW N \in Nat, NEW T, 0 \in T, \A n \in 0..(N - 1) : n \in T => n + 1 \in T
    PROVE  \A n \in 0..N : n \in T
<1> DEFINE Missing == {n \in 0..N : n \notin T}
<1>1. SUFFICES ASSUME Missing # {} PROVE FALSE
  OBVIOUS
<1>2. Missing \in SUBSET Nat
  OBVIOUS
<1>3. PICK x \in Missing : \A y \in Missing : x <= y
  <2>. HIDE DEF Missing
  <2>. QED
    BY <1>1, <1>2, MinIsLeast
<1>4. x \in 1..N
  BY <1>3
<1>5. x - 1 \in 0..(N - 1) /\ (x - 1) + 1 = x
  BY <1>4
<1>6. x - 1 \in Missing
  BY <1>3, <1>5
<1>. QED
  BY <1>3, <1>4, <1>5, <1>6

\* A function can be given by its value at 0 and its steps.
Steps(N, S) == [1..N -> [S -> S]]
Follows(f, N, S, b, h) == f \in [0..N -> S] /\ f[0] = b /\ \A n \in 1..N : f[n] = h[n][f[n - 1]]
\* There is one.
LEMMA Recursion ==
    ASSUME NEW N \in Nat, NEW S, NEW b \in S, NEW h \in Steps(N, S)
    PROVE  \E f : Follows(f, N, S, b, h)
<1> DEFINE Holds(n) == \E f \in [0..n -> S] : f[0] = b /\ \A m \in 1..n : f[m] = h[m][f[m - 1]]
           T == {n \in 0..N : Holds(n)}
<1>. USE DEF Steps
<1>1. Holds(0)
  <2>. DEFINE f == [m \in 0..0 |-> b]
  <2>1. f \in [0..0 -> S] /\ f[0] = b /\ \A m \in 1..0 : f[m] = h[m][f[m - 1]]
    OBVIOUS
  <2>. QED
    BY <2>1
<1>2. ASSUME NEW n \in 0..(N - 1), Holds(n) PROVE Holds(n + 1)
  <2>1. PICK f \in [0..n -> S] : f[0] = b /\ \A m \in 1..n : f[m] = h[m][f[m - 1]]
    BY <1>2
  <2>. DEFINE g == [m \in 0..(n + 1) |-> IF m = n + 1 THEN h[n + 1][f[n]] ELSE f[m]]
  <2>2. n + 1 \in 1..N /\ n \in 0..n
    OBVIOUS
  <2>3. h[n + 1][f[n]] \in S
    BY <2>2
  <2>4. \A m \in 0..(n + 1) : m # n + 1 => m \in 0..n
    OBVIOUS
  <2>5. g \in [0..(n + 1) -> S]
    BY <2>3, <2>4
  <2>6. g[0] = b
    BY <2>1
  <2>7. ASSUME NEW m \in 1..(n + 1) PROVE g[m] = h[m][g[m - 1]]
    <3>1. m - 1 \in 0..n /\ g[m - 1] = f[m - 1]
      OBVIOUS
    <3>2. CASE m = n + 1
      BY <3>1, <3>2
    <3>3. CASE m \in 1..n
      BY <2>1, <3>1, <3>3
    <3>. QED
      BY <3>2, <3>3
  <2>. HIDE DEF g
  <2>. QED
    BY <2>5, <2>6, <2>7
<1>. HIDE DEF Holds
<1>3. 0 \in T /\ \A n \in 0..(N - 1) : n \in T => n + 1 \in T
  BY <1>1, <1>2
<1>4. \A n \in 0..N : n \in T
  <2>. HIDE DEF T
  <2>. QED
    BY <1>3, UpTo
<1>. QED
  BY <1>4 DEF Holds, Follows

\* The texts put together up to each.
Flattens(f, S, ss) ==
    /\ f \in [0..Len(ss) -> Seq(S)]
    /\ f[0] = <<>>
    /\ \A n \in 1..Len(ss) : f[n] = f[n - 1] \o ss[n]
    /\ FlattenSeq(ss) = f[Len(ss)]

\* FlattenSeq puts them together.
LEMMA FlattenIsFunction ==
    ASSUME NEW S, NEW ss \in Seq(Seq(S))
    PROVE  \E f : Flattens(f, S, ss)
<1> DEFINE N == Len(ss)
           h == [n \in 1..N |-> [t \in Seq(S) |-> t \o ss[n]]]
<1>1. N \in Nat /\ <<>> \in Seq(S) /\ \A n \in 1..N : ss[n] \in Seq(S)
  OBVIOUS
<1>. HIDE DEF N
<1>2. h \in Steps(N, Seq(S))
  <2>1. \A n \in 1..N : \A t \in Seq(S) : t \o ss[n] \in Seq(S)
    BY <1>1
  <2>2. \A n \in 1..N : [t \in Seq(S) |-> t \o ss[n]] \in [Seq(S) -> Seq(S)]
    BY <2>1
  <2>. QED
    BY <2>2 DEF Steps
<1>3. PICK f : Follows(f, N, Seq(S), <<>>, h)
  <2>. HIDE DEF h
  <2>. QED
    BY <1>1, <1>2, Recursion
<1>4. f \in [0..N -> Seq(S)] /\ f[0] = <<>>
  BY <1>3 DEF Follows
<1>5. ASSUME NEW n \in 1..N PROVE f[n] = f[n - 1] \o ss[n]
  <2>1. f[n] = h[n][f[n - 1]] /\ n - 1 \in 0..N
    <3>. HIDE DEF h
    <3>. QED
      BY <1>1, <1>3 DEF Follows
  <2>2. f[n - 1] \in Seq(S)
    BY <1>4, <2>1
  <2>. QED
    BY <2>1, <2>2
<1>. HIDE DEF h
<1>6. FlattenSeq(ss) = f[N]
  <2>1. CASE N = 0
    <3>1. ss = <<>>
      BY <2>1 DEF N
    <3>. QED
      BY <1>4, <2>1, <3>1 DEF FlattenSeq
  <2>2. CASE N # 0
    <3>. DEFINE IsIt(g) == g = [j \in 1..N |-> IF j = 1 THEN ss[j] ELSE g[j - 1] \o ss[j]]
                g == CHOOSE g : IsIt(g)
                own == [j \in 1..N |-> f[j]]
    <3>1. FlattenSeq(ss) = g[N]
      BY <2>2 DEF FlattenSeq, N
    <3>2. ASSUME 1 \in 1..N PROVE f[1] = ss[1]
      <4>1. PICK j \in 1..N : j = 1
        BY <3>2
      <4>2. f[j] = f[j - 1] \o ss[j] /\ j - 1 = 0 /\ ss[j] \in Seq(S)
        <5>1. f[j] = f[j - 1] \o ss[j]
          BY <1>5
        <5>2. j - 1 = 0
          BY <4>1
        <5>3. ss[j] \in Seq(S)
          BY <1>1
        <5>. QED
          BY <5>1, <5>2, <5>3
      <4>3. f[j] = <<>> \o ss[j]
        BY <1>4, <4>2
      <4>. QED
        BY <4>1, <4>2, <4>3
    <3>3. IsIt(own)
      <4>1. ASSUME NEW j \in 1..N PROVE own[j] = IF j = 1 THEN ss[j] ELSE own[j - 1] \o ss[j]
        <5>1. CASE j = 1
          BY <3>2, <5>1
        <5>2. CASE j # 1
          <6>1. j - 1 \in 1..N
            BY <1>1, <5>2
          <6>. QED
            BY <1>5, <5>2, <6>1
        <5>. QED
          BY <5>1, <5>2
      <4>. QED
        BY <4>1
    <3>. HIDE DEF own
    <3>4. IsIt(g)
      <4>. HIDE DEF IsIt
      <4>. QED
        BY <3>3
    <3>5. \A j \in 1..N : g[j] = IF j = 1 THEN ss[j] ELSE g[j - 1] \o ss[j]
      <4>. HIDE DEF g
      <4>. QED
        BY <3>4
    <3>. HIDE DEF g
    <3>. DEFINE Same == {n \in 0..N : n = 0 \/ g[n] = f[n]}
    <3>6. ASSUME NEW n \in 0..(N - 1), n \in Same PROVE n + 1 \in Same
      <4>1. PICK j \in 1..N : j = n + 1
        BY <1>1
      <4>2. g[j] = f[j]
        <5>1. CASE n = 0
          <6>1. j = 1
            BY <4>1, <5>1
          <6>. QED
            BY <3>2, <3>5, <6>1
        <5>2. CASE n # 0
          <6>1. j # 1 /\ j - 1 = n /\ g[n] = f[n]
            BY <1>1, <3>6, <4>1, <5>2
          <6>2. g[j] = g[n] \o ss[j] /\ f[j] = f[n] \o ss[j]
            BY <1>5, <3>5, <6>1
          <6>. QED
            BY <6>1, <6>2
        <5>. QED
          BY <5>1, <5>2
      <4>3. n + 1 \in 0..N
        BY <1>1
      <4>. QED
        BY <4>1, <4>2, <4>3
    <3>7. \A n \in 0..N : n \in Same
      <4>1. 0 \in Same
        BY <1>1
      <4>. HIDE DEF Same
      <4>. QED
        BY <1>1, <3>6, <4>1, UpTo
    <3>. QED
      BY <1>1, <2>2, <3>1, <3>7
  <2>. QED
    BY <2>1, <2>2
<1>. QED
  BY <1>4, <1>5, <1>6 DEF Flattens, N

\* Texts of some words, put together, are a text of these words.
LEMMA FlattenType == ASSUME NEW S, NEW ss \in Seq(Seq(S)) PROVE FlattenSeq(ss) \in Seq(S)
<1>1. PICK f : Flattens(f, S, ss)
  BY FlattenIsFunction
<1>2. Len(ss) \in 0..Len(ss)
  OBVIOUS
<1>. QED
  BY <1>1, <1>2 DEF Flattens

-----------------------------------------------------------------------------
(* The calls of a text *)

\* A call ends inside the text.
LEMMA CallEndsIn ==
    ASSUME code \in Seq(Lexemes), NEW n \in 1..Len(code)
    PROVE  CallEnds(n) \subseteq (n + 1)..Len(code)
<1>1. Len(code) \in Nat /\ n \in Nat
  OBVIOUS
<1>2. ASSUME NEW x \in Nat PROVE Closing(x) \subseteq x..Len(code)
  <2>. DEFINE even == {m \in x..Len(code) : Depth(x, m) = 0}
  <2>1. Closing(x) \subseteq IF even # {} THEN {Min(even)} ELSE {}
    BY DEF Closing
  <2>2. even \in SUBSET Nat /\ even \subseteq x..Len(code)
    BY <1>1
  <2>. HIDE DEF even
  <2>3. even # {} => Min(even) \in even
    BY <2>2, MinIsLeast
  <2>. QED
    BY <2>1, <2>2, <2>3
<1>3. Closing(n + 1) \subseteq (n + 1)..Len(code)
  BY <1>1, <1>2
<1>4. ASSUME NEW e \in Closing(n + 1) PROVE Closing(e + 1) \subseteq (n + 1)..Len(code)
  <2>1. e + 1 \in Nat /\ e >= n + 1
    BY <1>1, <1>3
  <2>2. Closing(e + 1) \subseteq (e + 1)..Len(code)
    BY <1>2, <2>1
  <2>. QED
    BY <1>1, <1>3, <2>2
<1>. QED
  BY <1>3, <1>4 DEF CallEnds

\* CallsAt gives calls.
LEMMA CallsType ==
    ASSUME code \in Seq(Lexemes), NEW n \in 1..Len(code)
    PROVE  CallsAt(n) \in Seq(Seq(Lexemes))
<1>. DEFINE U == Seq(Lexemes)
           ends == {e \in CallEnds(n) : \E j \in n..e : code[j] \in LowLevel}
           f == [e \in ends |-> SubSeq(code, n, e)]
<1>1. Len(code) \in Nat /\ ends \in SUBSET (1..Len(code)) /\ \A e \in ends : e >= n
  BY CallEndsIn
<1>2. CallsAt(n) = InOrder(f) \/ CallsAt(n) = <<>>
  BY DEF CallsAt
<1>. HIDE DEF ends
<1>3. ASSUME NEW e \in ends PROVE SubSeq(code, n, e) \in U
  <2>1. n \in 1..(Len(code) + 1) /\ e \in (n - 1)..Len(code)
    BY <1>1
  <2>. QED
    BY <2>1, Piece
<1>. HIDE DEF U
<1>4. f \in [ends -> U]
  BY <1>3
<1>. HIDE DEF f
<1>5. InOrder(f) \in Seq(U)
  BY <1>1, <1>4, SitesInOrder
<1>6. CallsAt(n) \in Seq(U)
  BY <1>2, <1>5, EmptySeq
<1>. QED
  BY <1>6 DEF U

\* ExtractCalls keeps the invariant.
LEMMA ExtractCallsEdits == ASSUME EditInv, ExtractCalls PROVE EditInv'
<1>. DEFINE lines == SplitString(code, "nl")
           calls == FlattenSeq([n \in 1..Len(code) |-> CallsAt(n)])
           Uses(call) == {j \in 1..Len(lines) : UsesCall(call, lines[j])}
           EntriesOf(call) == InOrder([j \in Uses(call) |-> Entry(lines[j], call, code)])
           V == {x \in Entries : Site("UncheckedCall", code, x)}
           all == [c \in 1..Len(calls) |-> EntriesOf(calls[c])]
<1>1. stage = "extract" /\ processor = "UncheckedCall" /\ EmplaceBack(FlattenSeq(all), <<>>)
  BY DEF ExtractCalls
<1>2. code \in Seq(Lexemes)
  BY TextIs, FunctionText DEF EditInv
<1>3. calls \in Seq(Seq(Lexemes))
  <2>. DEFINE U == Seq(Lexemes)
             g == [n \in 1..Len(code) |-> CallsAt(n)]
  <2>1. \A n \in 1..Len(code) : CallsAt(n) \in Seq(U)
    BY <1>2, CallsType
  <2>2. Len(code) \in Nat
    BY <1>2
  <2>. HIDE DEF U
  <2>3. g \in [1..Len(code) -> Seq(U)]
    BY <2>1
  <2>4. g \in Seq(Seq(U))
    BY <2>2, <2>3, SeqDef
  <2>. HIDE DEF g
  <2>5. FlattenSeq(g) \in Seq(U)
    BY <2>4, FlattenType
  <2>. QED
    BY <2>5 DEF g, U
<1>4. Len(lines) = Parts(code, "nl") /\ Len(lines) \in Nat /\ \A j \in 1..Len(lines) : lines[j] \in Seq(Lexemes)
  BY <1>2, PartsType, PartIs
<1>5. ASSUME NEW call \in Seq(Lexemes) PROVE EntriesOf(call) \in Seq(V)
  <2>. DEFINE f == [j \in Uses(call) |-> Entry(lines[j], call, code)]
             sites == Uses(call)
  <2>1. ASSUME NEW j \in sites PROVE f[j] \in V
    <3>. DEFINE line == lines[j]
               x == Entry(line, call, code)
    <3>1. j \in 1..Len(lines) /\ UsesCall(call, line)
      OBVIOUS
    <3>2. line \in Seq(Lexemes) /\ j \in 1..Parts(code, "nl") /\ line = SplitString(code, "nl")[j]
      BY <1>4, <3>1
    <3>3. f[j] = x
      OBVIOUS
    <3>. HIDE DEF line, f
    <3>4. call \in Seq(Lexemes) /\ Occurrences(line, call) # {}
      BY <3>1 DEF UsesCall
    <3>5. x \in Entries /\ x.line = line /\ x.part = call /\ x.code = code
      BY <1>2, <3>2, <3>4 DEF Entry, Entries
    <3>6. Len(line) > 0
      <4>1. PICK w : Has(line, w)
        BY <3>1 DEF UsesCall
      <4>2. PICK y \in 1..Len(line) : TRUE
        BY <4>1 DEF Has
      <4>. QED
        BY <3>2, <4>2
    <3>7. CallIn(code, x.line, x.part)
      BY <3>1, <3>2, <3>4, <3>5, <3>6 DEF CallIn, UsesCall
    <3>8. KeptOf("UncheckedCall", code, x)
      BY <3>7 DEF KeptOf
    <3>. QED
      BY <3>3, <3>5, <3>8 DEF Site
  <2>2. sites \in SUBSET (1..Len(lines)) /\ f = [j \in sites |-> f[j]]
    OBVIOUS
  <2>. HIDE DEF f, sites, V
  <2>3. f \in [sites -> V]
    BY <2>1, <2>2
  <2>4. InOrder(f) \in Seq(V)
    BY <1>4, <2>2, <2>3, SitesInOrder
  <2>. QED
    BY <2>4 DEF f
<1>. HIDE DEF EntriesOf, V, calls
<1>6. all \in Seq(Seq(V))
  <2>1. Len(calls) \in Nat /\ \A c \in 1..Len(calls) : EntriesOf(calls[c]) \in Seq(V)
    BY <1>3, <1>5
  <2>2. all \in [1..Len(calls) -> Seq(V)]
    BY <2>1
  <2>. QED
    BY <2>1, <2>2, SeqDef
<1>. HIDE DEF all
<1>. DEFINE entries == FlattenSeq(all)
<1>7. entries \in Seq(V)
  BY <1>6, FlattenType
<1>. HIDE DEF entries
<1>8. entries \in Seq(Entries) /\ \A e \in 1..Len(entries) : Site(processor, code, entries[e])
  <2>1. V \subseteq Entries
    BY DEF V
  <2>2. entries \in Seq(Entries)
    BY <1>7, <2>1, SeqMonotonic
  <2>3. \A e \in 1..Len(entries) : entries[e] \in V
    BY <1>7
  <2>. QED
    BY <1>1, <2>2, <2>3 DEF V
<1>. QED
  BY <1>1, <1>8, Extracted DEF entries

-----------------------------------------------------------------------------
(* What Inject makes of a text *)

\* The words of a text with its calls undone.
LEMMA PlainIs ==
    ASSUME NEW s \in Seq(Lexemes)
    PROVE  /\ Plain(s) \in Seq(Lexemes) /\ Len(Plain(s)) = Len(s) /\ Len(s) \in Nat
           /\ \A n \in 1..Len(s) : Plain(s)[n] = CASE s[n] = ".add(" -> "+(" [] s[n] = ".sub(" -> "-(" [] OTHER -> s[n]
<1>1. Len(s) \in Nat /\ \A n \in 1..Len(s) : s[n] \in Lexemes
  OBVIOUS
<1>2. "+(" \in Lexemes /\ "-(" \in Lexemes
  BY DEF Lexemes
<1>. HIDE DEF Lexemes
<1>3. \A n \in 1..Len(s) : (CASE s[n] = ".add(" -> "+(" [] s[n] = ".sub(" -> "-(" [] OTHER -> s[n]) \in Lexemes
  BY <1>1, <1>2
<1>4. Plain(s) \in [1..Len(s) -> Lexemes]
  BY <1>3 DEF Plain
<1>. QED
  BY <1>1, <1>4, SeqDef, LenProperties DEF Plain

\* Undoing SafeMath's calls keeps words apart that are apart in a text that has none undone.
LEMMA PlainApart ==
    ASSUME NEW s \in Seq(Lexemes), NEW t \in Seq(Lexemes), {"+(", "-("} \cap ToSet(s) = {}, {"+(", "-("} \cap ToSet(t) = {},
           NEW n \in 1..Len(s), NEW m \in 1..Len(t)
    PROVE  Plain(s)[n] = Plain(t)[m] <=> s[n] = t[m]
<1>1. s[n] \notin {"+(", "-("} /\ t[m] \notin {"+(", "-("}
  <2>1. s[n] \in ToSet(s) /\ t[m] \in ToSet(t)
    BY DEF ToSet
  <2>. QED
    BY <2>1
<1>. QED
  BY <1>1, PlainIs

\* Undoing the calls moves no line.
LEMMA PlainCuts ==
    ASSUME NEW s \in Seq(Lexemes)
    PROVE  /\ Marks(Plain(s), "nl") = Marks(s, "nl") /\ Parts(Plain(s), "nl") = Parts(s, "nl")
           /\ \A e \in Int : Cut(Plain(s), "nl", e) = Cut(s, "nl", e)
           /\ \A e : Rank(Plain(s), "nl", e) = Rank(s, "nl", e)
<1>1. Len(Plain(s)) = Len(s) /\ Len(s) \in Nat /\ \A n \in 1..Len(s) : Plain(s)[n] = "nl" <=> s[n] = "nl"
  BY PlainIs
<1>2. Marks(Plain(s), "nl") = Marks(s, "nl")
  BY <1>1 DEF Marks
<1>3. Parts(Plain(s), "nl") = Parts(s, "nl")
  <2>1. Plain(s) = <<>> <=> s = <<>>
    BY <1>1, PlainIs, EmptySeq
  <2>2. s # <<>> => (Plain(s)[Len(s)] = "nl" <=> s[Len(s)] = "nl")
    <3>1. s # <<>> => Len(s) \in 1..Len(s)
      BY <1>1, EmptySeq
    <3>. QED
      BY <1>1, <3>1
  <2>. QED
    BY <1>1, <1>2, <2>1, <2>2 DEF Parts, Count
<1>. QED
  BY <1>1, <1>2, <1>3 DEF Cut, Count, Rank

\* Where one of two texts is found in the other.
OccursAt(s, t) ==
    \A n : n \in Occurrences(s, t) <=> n \in 1..(Len(s) - Len(t) + 1) /\ \A x \in 1..Len(t) : s[n + x - 1] = t[x]
\* It is found where its words stand.
LEMMA OccursAtHolds == ASSUME NEW V, NEW s \in Seq(V), NEW t \in Seq(V) PROVE OccursAt(s, t)
BY OccursIs DEF OccursAt

\* Texts with equal words in the same places.
Alike(s, t, u, v) ==
    /\ Len(u) = Len(s) /\ Len(v) = Len(t)
    /\ \A n \in 1..Len(s), x \in 1..Len(t) : u[n] = v[x] <=> s[n] = t[x]
\* Then the one is found in the places of the other.
LEMMA OccursAlike ==
    ASSUME NEW V, NEW s \in Seq(V), NEW t \in Seq(V), NEW u \in Seq(V), NEW v \in Seq(V), Alike(s, t, u, v)
    PROVE  Occurrences(u, v) = Occurrences(s, t)
<1>1. OccursAt(s, t) /\ OccursAt(u, v)
  BY OccursAtHolds
<1>2. ASSUME NEW n PROVE n \in Occurrences(u, v) <=> n \in Occurrences(s, t)
  <2>1. ASSUME n \in 1..(Len(s) - Len(t) + 1), NEW x \in 1..Len(t)
        PROVE  u[n + x - 1] = v[x] <=> s[n + x - 1] = t[x]
    <3>1. n + x - 1 \in 1..Len(s)
      BY <2>1
    <3>. QED
      BY <3>1 DEF Alike
  <2>. QED
    BY <1>1, <2>1 DEF Alike, OccursAt
<1>. QED
  BY <1>2

\* A whole line, its calls undone, is one of the text, its calls undone.
LEMMA PlainWhole ==
    ASSUME NEW s \in Seq(Lexemes), {"+(", "-("} \cap ToSet(s) = {}, NEW t \in Seq(Lexemes), Whole(s, t, "nl")
    PROVE  Whole(Plain(s), Plain(t), "nl")
<1>. DEFINE p == Holder(s, t, "nl")
<1>1. Within(t, "nl") /\ Occurrences(s, t) # {} /\ SplitString(s, "nl")[p] = t
  BY DEF Whole
<1>2. p \in 1..Parts(s, "nl")
  BY <1>1, FirstHolder DEF HeldFirst
<1>. HIDE DEF p
<1>3. /\ From(s, "nl", p) \in 1..(Len(s) + 1) /\ To(s, "nl", p) \in 0..Len(s)
      /\ Len(t) = To(s, "nl", p) - From(s, "nl", p) + 1
      /\ \A x \in 1..Len(t) : t[x] = s[From(s, "nl", p) + x - 1]
  <2>. DEFINE part == SplitString(s, "nl")[p]
  <2>1. /\ From(s, "nl", p) \in 1..(Len(s) + 1) /\ To(s, "nl", p) \in 0..Len(s)
        /\ Len(part) = To(s, "nl", p) - From(s, "nl", p) + 1
        /\ \A x \in 1..Len(part) : part[x] = s[From(s, "nl", p) + x - 1]
    BY <1>2, PartIs
  <2>2. part = t
    BY <1>1
  <2>. HIDE DEF part
  <2>. QED
    BY <2>1, <2>2
<1>4. Len(s) \in Nat /\ Len(t) \in Nat
  OBVIOUS
<1>5. {"+(", "-("} \cap ToSet(t) = {}
  <2>1. ASSUME NEW x \in 1..Len(t) PROVE t[x] \in ToSet(s)
    <3>1. From(s, "nl", p) + x - 1 \in 1..Len(s)
      BY <1>3, <1>4
    <3>. QED
      BY <1>3, <3>1 DEF ToSet
  <2>2. ToSet(t) \subseteq ToSet(s)
    <3>1. DOMAIN t = 1..Len(t)
      OBVIOUS
    <3>. QED
      BY <2>1, <3>1 DEF ToSet
  <2>. QED
    BY <2>2
<1>6. /\ Plain(s) \in Seq(Lexemes) /\ Plain(t) \in Seq(Lexemes) /\ Len(Plain(s)) = Len(s) /\ Len(Plain(t)) = Len(t)
  BY PlainIs
<1>7. Occurrences(Plain(s), Plain(t)) = Occurrences(s, t)
  <2>. DEFINE ps == Plain(s)
             pt == Plain(t)
  <2>1. ps \in Seq(Lexemes) /\ pt \in Seq(Lexemes) /\ Len(ps) = Len(s) /\ Len(pt) = Len(t)
    BY <1>6
  <2>2. Alike(s, t, ps, pt)
    BY <1>5, <2>1, PlainApart DEF Alike
  <2>. HIDE DEF ps, pt
  <2>3. Occurrences(ps, pt) = Occurrences(s, t)
    BY <2>1, <2>2, OccursAlike
  <2>. QED
    BY <2>3 DEF ps, pt
<1>8. Holder(Plain(s), Plain(t), "nl") = p
  BY <1>7, PlainCuts DEF Holder, PartOf, Find, p
<1>9. SplitString(Plain(s), "nl")[p] = Plain(t)
  <2>. DEFINE ps == Plain(s)
             pt == Plain(t)
             a == From(s, "nl", p)
             b == To(s, "nl", p)
  <2>1. p \in 1..Parts(ps, "nl") /\ ps \in Seq(Lexemes) /\ From(ps, "nl", p) = a /\ To(ps, "nl", p) = b
    <3>1. p \in Int /\ p - 1 \in Int
      BY <1>2
    <3>. QED
      BY <1>2, <1>6, <3>1, PlainCuts DEF From, To
  <2>2. pt \in Seq(Lexemes) /\ Len(pt) = Len(t) /\ Len(ps) = Len(s)
    BY <1>6
  <2>3. ASSUME NEW x \in 1..Len(t) PROVE pt[x] = ps[a + x - 1]
    <3>1. a + x - 1 \in 1..Len(s) /\ t[x] = s[a + x - 1]
      BY <1>3, <1>4
    <3>. QED
      BY <1>5, <3>1, PlainApart
  <2>. HIDE DEF ps, pt, a, b
  <2>. DEFINE q == SplitString(ps, "nl")[p]
  <2>4. q \in Seq(Lexemes) /\ Len(q) = b - a + 1 /\ \A x \in 1..Len(q) : q[x] = ps[a + x - 1]
    <3>1. /\ SplitString(ps, "nl")[p] \in Seq(Lexemes)
          /\ Len(SplitString(ps, "nl")[p]) = To(ps, "nl", p) - From(ps, "nl", p) + 1
          /\ \A x \in 1..Len(SplitString(ps, "nl")[p]) : SplitString(ps, "nl")[p][x] = ps[From(ps, "nl", p) + x - 1]
      BY <2>1, PartIs
    <3>. QED
      BY <2>1, <3>1
  <2>. HIDE DEF q
  <2>5. Len(q) = Len(pt)
    BY <1>3, <2>2, <2>4 DEF a, b
  <2>6. q = pt
    BY <2>2, <2>3, <2>4, <2>5, SeqEqual
  <2>. QED
    BY <2>6 DEF q, ps, pt
<1>10. Within(Plain(t), "nl")
  BY <1>1, PlainIs DEF Within
<1>. QED
  BY <1>1, <1>7, <1>8, <1>9, <1>10 DEF Whole

\* The words Inject writes.
LEMMA WordsListed ==
    {"nl", Open, Close, "(", ")", Semicolon, Comma, "=", "0", "o", "uint", "VAR0", "msg.sender",
     ".call.value(", "true", "glued", "if", "+(", "-("} \subseteq Lexemes
BY DEF Lexemes

\* Weakened, in these names.
LEMMA WeakenedIs ==
    ASSUME NEW line
    PROVE  Weakened(line) = IF Has(line, "if") THEN <<"if", "(", "true", ")", Open>> ELSE <<>>
BY Zenon DEF Weakened, Open

\* A text of five words.
LEMMA FiveOf ==
    ASSUME NEW V, NEW a \in V, NEW b \in V, NEW c \in V, NEW d \in V, NEW e \in V
    PROVE  /\ <<a, b, c, d, e>> \in Seq(V) /\ Len(<<a, b, c, d, e>>) = 5
           /\ <<a, b, c, d, e>>[1] = a /\ <<a, b, c, d, e>>[2] = b /\ <<a, b, c, d, e>>[3] = c
           /\ <<a, b, c, d, e>>[4] = d /\ <<a, b, c, d, e>>[5] = e
OBVIOUS

\* What a bound becomes is a text.
LEMMA WeakenedType == ASSUME NEW line PROVE Weakened(line) \in Seq(Lexemes)
<1>1. "if" \in Lexemes /\ "(" \in Lexemes /\ "true" \in Lexemes /\ ")" \in Lexemes /\ Open \in Lexemes
  BY WordsListed
<1>2. <<"if", "(", "true", ")", Open>> \in Seq(Lexemes) /\ <<>> \in Seq(Lexemes)
  BY <1>1, FiveOf, EmptySeq
<1>. QED
  BY <1>2, WeakenedIs

\* CallFirst puts a call, its parts, and the end of its statement before the assignment.
Sent(part) ==
    IF Last(part) = "0"
    THEN <<"uint", "VAR0", Semicolon, "nl", "msg.sender", ".call.value(", "VAR0", ")", Semicolon, "nl">>
    ELSE <<Index(part[1]), ".call.value(", Last(part), ")", Semicolon, "nl">>
\* CallFirst, in these names.
LEMMA CallFirstIs == ASSUME NEW part PROVE CallFirst(part) = Sent(part) \o part
BY Zenon DEF CallFirst, Sent, Semicolon

\* A text of six words.
LEMMA SixOf ==
    ASSUME NEW V, NEW a \in V, NEW b \in V, NEW c \in V, NEW d \in V, NEW e \in V, NEW f \in V
    PROVE  /\ <<a, b, c, d, e, f>> \in Seq(V) /\ Len(<<a, b, c, d, e, f>>) = 6
           /\ <<a, b, c, d, e, f>>[1] = a /\ <<a, b, c, d, e, f>>[2] = b /\ <<a, b, c, d, e, f>>[3] = c
           /\ <<a, b, c, d, e, f>>[4] = d /\ <<a, b, c, d, e, f>>[5] = e /\ <<a, b, c, d, e, f>>[6] = f
OBVIOUS

\* A text of ten words.
LEMMA TenOf ==
    ASSUME NEW V, NEW a \in V, NEW b \in V, NEW c \in V, NEW d \in V, NEW e \in V, NEW f \in V, NEW g \in V, NEW h \in V
    PROVE  LET t == <<a, b, c, d, e, f, b, g, c, d>>
           IN  /\ t \in Seq(V) /\ Len(t) = 10
               /\ t[1] = a /\ t[2] = b /\ t[3] = c /\ t[4] = d /\ t[5] = e /\ t[6] = f /\ t[7] = b /\ t[8] = g /\ t[9] = c
               /\ t[10] = d
OBVIOUS

\* Its words: no brace is one of them, and ".call.value(" is.
LEMMA SentIs ==
    ASSUME NEW s, NEW part \in Seq(Lexemes), Payment(s, part)
    PROVE  /\ Sent(part) \in Seq(Lexemes)
           /\ \A x \in 1..Len(Sent(part)) : Sent(part)[x] \notin {Open, Close}
           /\ \/ Len(Sent(part)) = 6 /\ Sent(part)[1] \in {part[1], "o"} /\ Sent(part)[2] = ".call.value("
                 /\ Sent(part)[3] = part[3] /\ Sent(part)[4] = ")" /\ Sent(part)[5] = Semicolon /\ Sent(part)[6] = "nl"
              \/ Len(Sent(part)) = 10 /\ Sent(part)[1] = "uint" /\ Sent(part)[2] = "VAR0" /\ Sent(part)[3] = Semicolon
                 /\ Sent(part)[4] = "nl" /\ Sent(part)[5] = "msg.sender" /\ Sent(part)[6] = ".call.value("
                 /\ Sent(part)[7] = "VAR0" /\ Sent(part)[8] = ")" /\ Sent(part)[9] = Semicolon /\ Sent(part)[10] = "nl"
<1>1. Len(part) = 3 /\ part[1] \in Uints /\ part[3] \in Uints \cup {"0"}
  BY DEF Payment
<1>2. part[1] \in Lexemes /\ part[3] \in Lexemes /\ Last(part) = part[3]
  <2>1. Len(part) = 3
    BY <1>1
  <2>2. 1 \in 1..Len(part) /\ 3 \in 1..Len(part)
    BY <2>1
  <2>3. \A x \in 1..Len(part) : part[x] \in Lexemes
    OBVIOUS
  <2>4. Last(part) = part[3]
    BY <2>1 DEF Last
  <2>. QED
    BY <2>2, <2>3, <2>4
<1>3. "0" \in Lexemes /\ ".call.value(" \in Lexemes /\ ")" \in Lexemes /\ Semicolon \in Lexemes /\ "nl" \in Lexemes /\ "o" \in Lexemes
      /\ "uint" \in Lexemes /\ "VAR0" \in Lexemes /\ "msg.sender" \in Lexemes
  BY WordsListed
<1>. DEFINE l == Last(part)
           a == Index(part[1])
           t == <<a, ".call.value(", l, ")", Semicolon, "nl">>
           z == <<"uint", "VAR0", Semicolon, "nl", "msg.sender", ".call.value(", "VAR0", ")", Semicolon, "nl">>
<1>4. Sent(part) = IF l = "0" THEN z ELSE t
  BY DEF Sent
<1>5. a \in Lexemes /\ a \in {part[1], "o"} /\ l \in Lexemes /\ l = part[3]
  BY <1>2, <1>3 DEF Index
<1>. HIDE DEF a, l
<1>6. /\ t \in Seq(Lexemes) /\ Len(t) = 6 /\ t[1] = a /\ t[2] = ".call.value(" /\ t[3] = l /\ t[4] = ")" /\ t[5] = Semicolon /\ t[6] = "nl"
  BY <1>3, <1>5, SixOf
<1>7. /\ z \in Seq(Lexemes) /\ Len(z) = 10 /\ z[1] = "uint" /\ z[2] = "VAR0" /\ z[3] = Semicolon /\ z[4] = "nl" /\ z[5] = "msg.sender"
      /\ z[6] = ".call.value(" /\ z[7] = "VAR0" /\ z[8] = ")" /\ z[9] = Semicolon /\ z[10] = "nl"
  BY <1>3, TenOf
<1>. HIDE DEF t, z
<1>8. \A x \in 1..Len(t) : t[x] \notin {Open, Close}
  <2>1. part[1] \notin {Open, Close} /\ part[3] \notin {Open, Close}
    BY <1>1, UintsApart, FourWords
  <2>2. \A x \in 1..Len(t) : x = 1 \/ x = 2 \/ x = 3 \/ x = 4 \/ x = 5 \/ x = 6
    BY <1>6
  <2>3. a \notin {Open, Close} /\ l \notin {Open, Close} /\ ".call.value(" \notin {Open, Close} /\ ")" \notin {Open, Close}
        /\ Semicolon \notin {Open, Close} /\ "nl" \notin {Open, Close}
    BY <1>5, <2>1, FourWords
  <2>. QED
    BY <1>6, <2>2, <2>3
<1>9. \A x \in 1..Len(z) : z[x] \notin {Open, Close}
  <2>2. \A x \in 1..Len(z) : x = 1 \/ x = 2 \/ x = 3 \/ x = 4 \/ x = 5 \/ x = 6 \/ x = 7 \/ x = 8 \/ x = 9 \/ x = 10
    BY <1>7
  <2>3. "uint" \notin {Open, Close} /\ "VAR0" \notin {Open, Close} /\ "msg.sender" \notin {Open, Close} /\ ".call.value(" \notin {Open, Close}
        /\ ")" \notin {Open, Close} /\ Semicolon \notin {Open, Close} /\ "nl" \notin {Open, Close}
    BY FourWords
  <2>. QED
    BY <1>7, <2>2, <2>3
<1>. QED
  BY <1>4, <1>5, <1>6, <1>7, <1>8, <1>9

\* A text that is not empty has a first part.
LEMMA PartsSome == ASSUME NEW V, NEW s \in Seq(V), NEW d, Len(s) > 0 PROVE 1 \in 1..Parts(s, d)
<1>1. Parts(s, d) \in Nat /\ Count(s, d) \in Nat /\ Len(s) \in Nat /\ Parts(s, d) \in {Count(s, d), Count(s, d) + 1}
  BY PartsType
<1>2. CASE s[Len(s)] = d
  <2>1. Len(s) \in Marks(s, d)
    BY <1>1, <1>2 DEF Marks
  <2>2. Rank(s, d, Len(s)) \in 1..Count(s, d)
    BY <2>1, CutIs
  <2>. QED
    BY <1>1, <2>2
<1>3. CASE s[Len(s)] # d
  <2>1. s # <<>>
    BY EmptySeq
  <2>2. Parts(s, d) = Count(s, d) + 1
    BY <1>3, <2>1 DEF Parts
  <2>. QED
    BY <1>1, <2>2
<1>. QED
  BY <1>2, <1>3

\* Unchecked puts the call before what is left of its line.
KeptPart(line) == LeftOf(line) \o <<Reassigned(line[AssignAt(line)])>>
Rest(line, call) ==
    IF Has(line, "if") \/ Has(line, "require") THEN ReplaceFirst(line, call, <<"true">>)
    ELSE KeptPart(line) \o (IF Has(LeftOf(line), Comma) THEN <<"(", "true", Comma, ")">> ELSE <<"true">>) \o <<Semicolon, "nl">>
\* Unchecked, in these names.
LEMMA UncheckedIs == ASSUME NEW line, NEW call PROVE Unchecked(line, call) = call \o <<Semicolon, "nl">> \o Rest(line, call)
BY Zenon DEF Unchecked, Rest, KeptPart, Semicolon, Comma

\* A line with '=' is cut at a word of it, which is no brace.
LEMMA LeftIs ==
    ASSUME NEW line \in Seq(Lexemes), Has(line, "=")
    PROVE  /\ LeftOf(line) \in Seq(Lexemes) /\ Reassigned(line[AssignAt(line)]) \in Lexemes \ {Open, Close}
<1>. DEFINE T == {n \in 1..Len(line) : Has(<<line[n]>>, "=")}
           c == AssignAt(line)
<1>1. PICK m \in 1..Len(line) : line[m] = "=" \/ <<line[m], "=">> \in Inside
  BY DEF Has
<1>2. ASSUME NEW w PROVE Has(<<w>>, "=") <=> w = "=" \/ <<w, "=">> \in Inside
  <2>. DEFINE t == <<w>>
  <2>1. Len(t) = 1 /\ t[1] = w
    OBVIOUS
  <2>. HIDE DEF t
  <2>2. Has(t, "=") <=> t[1] = "=" \/ <<t[1], "=">> \in Inside
    BY <2>1 DEF Has
  <2>. QED
    BY <2>1, <2>2 DEF t
<1>3. m \in T /\ T \in SUBSET Nat
  BY <1>1, <1>2
<1>4. c = Min(T)
  BY DEF AssignAt
<1>. HIDE DEF c
<1>5. c \in T
  <2>. HIDE DEF T
  <2>. QED
    BY <1>3, <1>4, MinIsLeast
<1>6. Len(line) \in Nat /\ c \in 1..Len(line) /\ (line[c] = "=" \/ <<line[c], "=">> \in Inside)
  BY <1>2, <1>5
<1>. HIDE DEF T
<1>7. LeftOf(line) \in Seq(Lexemes)
  <2>. DEFINE e == c - 1
  <2>1. 1 \in 1..(Len(line) + 1) /\ e \in (1 - 1)..Len(line)
    BY <1>6
  <2>. HIDE DEF e
  <2>2. SubSeq(line, 1, e) \in Seq(Lexemes)
    BY <2>1, Piece
  <2>. QED
    BY <2>2 DEF LeftOf, c, e
<1>8. "=" \in Lexemes /\ "=" \notin {Open, Close}
  BY WordsListed, FourWords
<1>9. line[c] \in Lexemes /\ line[c] \notin {Open, Close}
  <2>1. <<line[c], "=">> \in Inside => line[c] \in STRING \ {Open, Close}
    BY InsideIs
  <2>2. line[c] \in Lexemes
    BY <1>6
  <2>. QED
    BY <1>6, <1>8, <2>1, <2>2
<1>10. Reassigned(line[c]) \in Lexemes \ {Open, Close}
  BY <1>8, <1>9 DEF Reassigned
<1>. QED
  BY <1>7, <1>10 DEF c

\* A text of four words.
LEMMA FourWordsOf ==
    ASSUME NEW V, NEW a \in V, NEW b \in V, NEW c \in V, NEW d \in V
    PROVE  /\ <<a, b, c, d>> \in Seq(V) /\ Len(<<a, b, c, d>>) = 4
           /\ <<a, b, c, d>>[1] = a /\ <<a, b, c, d>>[2] = b /\ <<a, b, c, d>>[3] = c /\ <<a, b, c, d>>[4] = d
OBVIOUS

\* What a line with a call becomes is a text.
LEMMA UncheckedType ==
    ASSUME NEW line \in Seq(Lexemes), NEW call \in Seq(Lexemes), Len(line) > 0, Occurrences(line, call) # {},
           Has(line, "if") \/ Has(line, "require") \/ Has(line, "=")
    PROVE  /\ Has(line, "=") => KeptPart(line) \in Seq(Lexemes)
           /\ Rest(line, call) \in Seq(Lexemes)
           /\ <<Semicolon, "nl">> \in Seq(Lexemes) /\ Unchecked(line, call) \in Seq(Lexemes)
<1>1. Semicolon \in Lexemes /\ Comma \in Lexemes /\ "nl" \in Lexemes /\ "(" \in Lexemes /\ ")" \in Lexemes /\ "true" \in Lexemes
  BY WordsListed
<1>. DEFINE V == Lexemes
           semi == <<Semicolon, "nl">>
           kept == KeptPart(line)
           four == <<"(", "true", Comma, ")">>
           one == <<"true">>
<1>2. ASSUME Has(line, "=") PROVE kept \in Seq(V)
  <2>. DEFINE left == LeftOf(line)
             word == Reassigned(line[AssignAt(line)])
             last == <<word>>
  <2>1. left \in Seq(V) /\ word \in V
    BY <1>2, LeftIs
  <2>. HIDE DEF left, word, V
  <2>2. last \in Seq(V)
    BY <2>1
  <2>. HIDE DEF last
  <2>3. left \o last \in Seq(V)
    BY <2>1, <2>2, ConcatProperties
  <2>. QED
    BY <2>3 DEF KeptPart, left, word, last
<1>3. four \in Seq(V)
  BY <1>1, FourWordsOf
<1>4. semi \in Seq(V) /\ one \in Seq(V)
  <2>. HIDE DEF V
  <2>1. Semicolon \in V /\ "nl" \in V /\ "true" \in V
    BY <1>1 DEF V
  <2>. QED
    BY <2>1
<1>5. line \in Seq(V) /\ call \in Seq(V)
  OBVIOUS
<1>. HIDE DEF V, semi, four, one, kept
<1>6. ReplaceFirst(line, call, one) \in Seq(V)
  BY <1>4, <1>5, ReplaceIs
<1>. DEFINE mid == IF Has(LeftOf(line), Comma) THEN four ELSE one
<1>7. mid \in Seq(V)
  BY <1>3, <1>4
<1>. HIDE DEF mid
<1>. DEFINE lm == kept \o mid
<1>8. Has(line, "=") => lm \in Seq(V)
  BY <1>2, <1>7, ConcatProperties
<1>. HIDE DEF lm
<1>9. Has(line, "=") => lm \o semi \in Seq(V)
  BY <1>4, <1>8, ConcatProperties
<1>10. Rest(line, call) = IF Has(line, "if") \/ Has(line, "require") THEN ReplaceFirst(line, call, one) ELSE lm \o semi
  BY DEF Rest, lm, mid, four, one, semi, kept
<1>11. Rest(line, call) \in Seq(V)
  BY <1>6, <1>9, <1>10
<1>. DEFINE rest == Rest(line, call)
<1>. HIDE DEF rest
<1>12. call \o semi \in Seq(V)
  BY <1>4, <1>5, ConcatProperties
<1>. DEFINE cs == call \o semi
<1>. HIDE DEF cs
<1>13. cs \o rest \in Seq(V)
  BY <1>11, <1>12, ConcatProperties DEF cs, rest
<1>14. Unchecked(line, call) = cs \o rest
  BY UncheckedIs DEF cs, rest, semi
<1>. QED
  BY <1>2, <1>4, <1>11, <1>13, <1>14 DEF V, semi, kept

-----------------------------------------------------------------------------
(* The steps of Inject keep the invariant *)

\* At is the word where there is one.
LEMMA AtIs == ASSUME NEW V, NEW s \in Seq(V), NEW n, At(s, n) # "nl" PROVE n \in 1..Len(s) /\ At(s, n) = s[n]
BY DEF At

\* What a glued modifier stands in is found in the text, and not before the modifier's own word.
LEMMA GluedIs ==
    ASSUME NEW s \in Seq(Lexemes), NEW m \in Seq(Lexemes), ModifierOf(s, m), NEW g, g = GluedWord(s, m)
    PROVE  /\ g \in Seq(Lexemes) /\ Occurrences(s, g) # {}
           /\ g = m \/ (Len(g) = 3 /\ g[2] = m[1] /\ Find(s, m) - 1 \in Occurrences(s, g)
                         /\ IsName(g[1]) /\ IsName(g[3]))
<1>. DEFINE n == Find(s, m)
<1>1. Len(m) = 1 /\ Occurrences(s, m) # {}
  BY DEF ModifierOf
<1>2. n \in Occurrences(s, m) /\ n \in 1..(Len(s) - Len(m) + 1) /\ \A x \in 1..Len(m) : s[n + x - 1] = m[x]
  <2>1. n \in Occurrences(s, m) /\ n \in 1..(Len(s) - Len(m) + 1)
    BY <1>1, FindIs
  <2>. HIDE DEF n
  <2>. QED
    BY <2>1, OccursIs
<1>3. g = m \/ (g = SubSeq(s, n - 1, n + 1) /\ IsName(At(s, n - 1)) /\ IsName(At(s, n + 1)))
  BY DEF GluedWord
<1>. HIDE DEF n
<1>4. CASE g = m
  BY <1>1, <1>4
<1>5. CASE g = SubSeq(s, n - 1, n + 1) /\ IsName(At(s, n - 1)) /\ IsName(At(s, n + 1))
  <2>1. At(s, n - 1) # "nl" /\ At(s, n + 1) # "nl"
    BY <1>5, Zenon DEF IsName, Symbols
  <2>2. n - 1 \in 1..Len(s) /\ n + 1 \in 1..Len(s) /\ At(s, n - 1) = s[n - 1] /\ At(s, n + 1) = s[n + 1]
    BY <2>1, AtIs
  <2>. DEFINE a == n - 1
             b == n + 1
  <2>3. a \in 1..(Len(s) + 1) /\ b \in (a - 1)..Len(s) /\ b - a + 1 = 3 /\ Len(s) \in Nat
    BY <1>2, <2>2
  <2>4. s[n] = m[1]
    <3>1. 1 \in 1..Len(m) /\ n + 1 - 1 = n
      BY <1>1, <1>2
    <3>. QED
      BY <1>2, <3>1
  <2>. HIDE DEF a, b
  <2>5. /\ SubSeq(s, a, b) \in Seq(Lexemes) /\ Len(SubSeq(s, a, b)) = b - a + 1
        /\ \A x \in 1..(b - a + 1) : SubSeq(s, a, b)[x] = s[a + x - 1]
    BY <2>3, Piece
  <2>6. g = SubSeq(s, a, b)
    BY <1>5 DEF a, b
  <2>7. g \in Seq(Lexemes) /\ Len(g) = 3 /\ \A x \in 1..3 : g[x] = s[a + x - 1]
    BY <2>3, <2>5, <2>6
  <2>8. g[1] = s[n - 1] /\ g[2] = s[n] /\ g[3] = s[n + 1]
    <3>1. 1 \in 1..3 /\ 2 \in 1..3 /\ 3 \in 1..3 /\ a + 1 - 1 = n - 1 /\ a + 2 - 1 = n /\ a + 3 - 1 = n + 1
      BY <1>2 DEF a
    <3>. QED
      BY <2>7, <3>1
  <2>9. a \in Occurrences(s, g)
    <3>1. a \in 1..(Len(s) - Len(g) + 1)
      BY <1>2, <2>2, <2>3, <2>7 DEF a
    <3>. QED
      BY <2>7, <3>1, OccursIs
  <2>. QED
    <3>1. Occurrences(s, g) # {}
      BY <2>9
    <3>2. IsName(g[1]) /\ IsName(g[3])
      BY <1>5, <2>2, <2>8
    <3>. QED
      BY <2>4, <2>7, <2>8, <2>9, <3>1, <3>2 DEF a, n
<1>. QED
  BY <1>3, <1>4, <1>5

\* What is found in a text is found in it with more behind.
LEMMA OccursMore ==
    ASSUME NEW V, NEW s \in Seq(V), NEW t \in Seq(V), NEW u \in Seq(V), NEW n \in Occurrences(s, t), Len(t) > 0
    PROVE  n \in Occurrences(s \o u, t)
<1>. DEFINE c == s \o u
<1>1. c \in Seq(V) /\ Len(c) = Len(s) + Len(u) /\ Len(s) \in Nat /\ Len(u) \in Nat /\ Len(t) \in Nat /\ \A x \in 1..Len(s) : c[x] = s[x]
  BY JoinedAt
<1>2. n \in 1..(Len(s) - Len(t) + 1) /\ \A x \in 1..Len(t) : s[n + x - 1] = t[x]
  BY OccursIs
<1>. HIDE DEF c
<1>3. ASSUME NEW x \in 1..Len(t) PROVE c[n + x - 1] = t[x]
  <2>1. n + x - 1 \in 1..Len(s)
    BY <1>1, <1>2
  <2>. QED
    BY <1>1, <1>2, <2>1
<1>4. n \in 1..(Len(c) - Len(t) + 1)
  BY <1>1, <1>2
<1>5. n \in Occurrences(c, t)
  BY <1>1, <1>3, <1>4, OccursIs
<1>. QED
  BY <1>5 DEF c

\* An edit of the entry the loop is at leaves the other entries as they were.
LEMMA EditKeeps ==
    ASSUME EditInv, stage = "inject", k <= Len(inject_info), NEW line \in Seq(Lexemes), NEW text,
           inject_info' = [inject_info EXCEPT ![k].line = line, ![k].code = text],
           k' = k + 1, stage' = stage, processor' = processor, code' = code,
           NEW x, x = [inject_info[k] EXCEPT !.line = line, !.code = text], Edited(processor, code, x)
    PROVE  EditInv'
<1>1. /\ inject_info \in Seq(Entries) /\ k \in 1..Len(inject_info) /\ Len(inject_info) \in Nat
      /\ \A e \in 1..Len(inject_info) : IF e < k THEN Edited(processor, code, inject_info[e]) ELSE Site(processor, code, inject_info[e])
  BY DEF EditInv
<1>2. inject_info' = [inject_info EXCEPT ![k] = x]
  OBVIOUS
<1>3. x \in Entries
  BY DEF Edited
<1>. HIDE DEF Edited, Site, Entries
<1>4. inject_info' \in Seq(Entries) /\ Len(inject_info') = Len(inject_info)
  BY <1>1, <1>2, <1>3
<1>5. inject_info'[k] = x /\ \A e \in 1..Len(inject_info) : e # k => inject_info'[e] = inject_info[e]
  <2>1. DOMAIN inject_info = 1..Len(inject_info)
    BY <1>1
  <2>. QED
    BY <1>1, <1>2, <2>1
<1>6. ASSUME NEW e \in 1..Len(inject_info)
      PROVE  IF e < k + 1 THEN Edited(processor, code, inject_info'[e]) ELSE Site(processor, code, inject_info'[e])
  <2>1. CASE e = k
    BY <1>1, <1>5, <2>1
  <2>2. CASE e # k
    <3>1. e < k + 1 <=> e < k
      BY <1>1, <2>2
    <3>. QED
      BY <1>1, <1>5, <2>2, <3>1
  <2>. QED
    BY <2>1, <2>2
<1>7. /\ processor' \in Injectors /\ code' \in Texts[processor'] /\ k' \in Nat \ {0} /\ k' <= Len(inject_info') + 1 /\ stage' = "inject"
  BY <1>1, <1>4 DEF EditInv
<1>8. \A e \in 1..Len(inject_info') : IF e < k' THEN Edited(processor', code', inject_info'[e]) ELSE Site(processor', code', inject_info'[e])
  BY <1>4, <1>6
<1>. QED
  BY <1>4, <1>7, <1>8 DEF EditInv

\* The entry the loop is at is as ExtractInject left it.
LEMMA AtSite ==
    ASSUME EditInv, stage = "inject", k <= Len(inject_info)
    PROVE  /\ Info \in Entries /\ Info.line \in Seq(Lexemes) /\ Info.part \in Seq(Lexemes) /\ Info.code = code
           /\ KeptOf(processor, code, Info) /\ code \in Seq(Lexemes) /\ code # <<>> /\ code[Len(code)] # "nl"
<1>1. k \in 1..Len(inject_info)
  BY DEF EditInv
<1>2. Site(processor, code, Info)
  BY <1>1 DEF EditInv, Info
<1>3. code \in Seq(Lexemes) /\ code # <<>> /\ code[Len(code)] # "nl"
  BY TextIs, FunctionText, FourWords DEF EditInv
<1>. QED
  BY <1>2, <1>3 DEF Site, Entries

\* InjectDoS keeps the invariant.
LEMMA InjectDoSEdits == ASSUME EditInv, InjectDoS PROVE EditInv'
<1>. DEFINE line == Info.line
           new == Weakened(line)
           text == ReplaceFirst(Info.code, line, new)
           x == [inject_info[k] EXCEPT !.line = line, !.code = text]
<1>1. stage = "inject" /\ processor = "DoS" /\ k <= Len(inject_info) /\ Edit(line, Info.code, line, new)
  BY DEF InjectDoS, InLoop
<1>2. /\ Info \in Entries /\ line \in Seq(Lexemes) /\ Info.code = code /\ KeptOf("DoS", code, Info) /\ code \in Seq(Lexemes)
  BY <1>1, AtSite
<1>3. Whole(code, line, "nl") /\ Occurrences(code, line) # {}
  BY <1>2 DEF KeptOf, Whole
<1>4. text = ReplaceFirst(code, line, new) /\ text \in Seq(Lexemes)
  <2>1. new \in Seq(Lexemes)
    BY WeakenedType
  <2>. HIDE DEF new, line
  <2>2. ReplaceFirst(code, line, new) \in Seq(Lexemes)
    BY <1>2, <1>3, <2>1, ReplaceIs
  <2>. QED
    BY <1>2, <2>2
<1>5. /\ inject_info' = [inject_info EXCEPT ![k].line = line, ![k].code = text]
      /\ k' = k + 1 /\ stage' = stage /\ processor' = processor /\ code' = code
  BY <1>1, <1>2, <1>3 DEF Edit
<1>. HIDE DEF line, text
<1>6. x \in Entries /\ x.line = line /\ x.code = text
  BY <1>2, <1>4 DEF Info, Entries
<1>. HIDE DEF x
<1>7. Edited("DoS", code, x)
  BY <1>3, <1>4, <1>6 DEF Edited, KeptOf
<1>. QED
  BY <1>1, <1>2, <1>5, <1>7, EditKeeps DEF x

\* InjectOverflow keeps the invariant.
LEMMA InjectOverflowEdits == ASSUME EditInv, InjectOverflow PROVE EditInv'
<1>. DEFINE line == Plain(Info.line)
           new == Weakened(line)
           plain == Plain(code)
           text == ReplaceFirst(plain, line, new)
           x == [inject_info[k] EXCEPT !.line = line, !.code = text]
<1>1. stage = "inject" /\ processor = "IntOverflow" /\ k <= Len(inject_info) /\ Edit(line, Plain(Info.code), line, new)
  BY DEF InjectOverflow, InLoop
<1>2. /\ Info \in Entries /\ Info.line \in Seq(Lexemes) /\ Info.code = code /\ KeptOf("IntOverflow", code, Info) /\ code \in Seq(Lexemes)
  BY <1>1, AtSite
<1>3. Whole(code, Info.line, "nl") /\ {"+(", "-("} \cap ToSet(code) = {}
  BY <1>1, <1>2, PlainAssumption DEF KeptOf, EditInv
<1>4. Whole(plain, line, "nl") /\ plain \in Seq(Lexemes) /\ line \in Seq(Lexemes)
  BY <1>2, <1>3, PlainWhole, PlainIs
<1>. HIDE DEF plain, line
<1>5. Occurrences(plain, line) # {}
  BY <1>4 DEF Whole
<1>6. text \in Seq(Lexemes)
  <2>1. new \in Seq(Lexemes)
    BY WeakenedType
  <2>. HIDE DEF new
  <2>. QED
    BY <1>4, <1>5, <2>1, ReplaceIs
<1>7. /\ inject_info' = [inject_info EXCEPT ![k].line = line, ![k].code = text]
      /\ k' = k + 1 /\ stage' = stage /\ processor' = processor /\ code' = code
  <2>1. Plain(Info.code) = plain
    BY <1>2 DEF plain
  <2>. QED
    BY <1>1, <1>5, <2>1 DEF Edit
<1>8. text = ReplaceFirst(plain, line, Weakened(line))
  OBVIOUS
<1>. HIDE DEF text
<1>9. x \in Entries /\ x.line = line /\ x.code = text
  BY <1>2, <1>4, <1>6 DEF Info, Entries
<1>. HIDE DEF x
<1>10. Edited("IntOverflow", code, x)
  BY <1>4, <1>8, <1>9 DEF Edited, plain
<1>. QED
  BY <1>1, <1>4, <1>7, <1>10, EditKeeps DEF x

\* InjectReentrancy keeps the invariant.
LEMMA InjectReentrancyEdits == ASSUME EditInv, InjectReentrancy PROVE EditInv'
<1>. DEFINE line == Info.line
           part == Info.part
           new == CallFirst(part)
           without == ReplaceFirst(code, line, <<>>)
           text == ReplaceFirst(without, part, new)
           x == [inject_info[k] EXCEPT !.line = line, !.code = text]
<1>1. stage = "inject" /\ processor = "Reentrancy" /\ k <= Len(inject_info) /\ Edit(line, ReplaceFirst(Info.code, line, <<>>), part, new)
  BY DEF InjectReentrancy, InLoop
<1>2. /\ Info \in Entries /\ line \in Seq(Lexemes) /\ part \in Seq(Lexemes) /\ Info.code = code /\ KeptOf("Reentrancy", code, Info)
      /\ code \in Seq(Lexemes) /\ Info.part = part
  BY <1>1, AtSite
<1>3. Whole(code, line, "nl") /\ Payment(code, part)
  BY <1>2 DEF KeptOf
<1>4. without \in Seq(Lexemes) /\ ReplaceFirst(Info.code, line, <<>>) = without
  <2>1. <<>> \in Seq(Lexemes) /\ Occurrences(code, line) # {}
    BY <1>3, EmptySeq DEF Whole
  <2>. HIDE DEF line
  <2>. QED
    BY <1>2, <2>1, ReplaceIs
<1>. HIDE DEF without
<1>5. CASE Occurrences(without, part) = {}
  <2>1. /\ stage' = "out_of_range" /\ inject_info' = inject_info /\ k' = k /\ processor' = processor /\ code' = code
    BY <1>1, <1>4, <1>5 DEF Edit
  <2>2. Site(processor, code, Info) /\ Info' = Info
    BY <1>1, <1>2, <2>1 DEF Site, Info
  <2>3. Occurrences(ReplaceFirst(code, Info.line, <<>>), Info.part) = {}
    BY <1>5 DEF without
  <2>. HIDE DEF Site
  <2>4. Site(processor', code', Info') /\ Occurrences(ReplaceFirst(code', Info'.line, <<>>), Info'.part) = {}
    BY <2>1, <2>2, <2>3
  <2>5. k' <= Len(inject_info') /\ processor' = "Reentrancy"
    BY <1>1, <2>1
  <2>6. processor' \in Injectors /\ code' \in Texts[processor'] /\ inject_info' \in Seq(Entries) /\ k' \in Nat \ {0}
    BY <2>1 DEF EditInv
  <2>. HIDE DEF line, part
  <2>. QED
    BY <2>1, <2>4, <2>5, <2>6 DEF EditInv
<1>6. CASE Occurrences(without, part) # {}
  <2>1. CallFirst(part) \in Seq(Lexemes)
    <3>1. Sent(part) \in Seq(Lexemes)
      BY <1>2, <1>3, SentIs
    <3>. HIDE DEF part
    <3>. QED
      BY <1>2, <3>1, CallFirstIs, ConcatProperties
  <2>2. text \in Seq(Lexemes)
    <3>. HIDE DEF part, new
    <3>1. new \in Seq(Lexemes)
      BY <2>1 DEF new
    <3>. QED
      BY <1>2, <1>4, <1>6, <3>1, ReplaceIs
  <2>3. /\ inject_info' = [inject_info EXCEPT ![k].line = line, ![k].code = text]
        /\ k' = k + 1 /\ stage' = stage /\ processor' = processor /\ code' = code
    BY <1>1, <1>4, <1>6 DEF Edit
  <2>4. text = ReplaceFirst(without, part, CallFirst(part))
    OBVIOUS
  <2>. HIDE DEF line, text
  <2>5. x \in Entries /\ x.line = line /\ x.code = text /\ x.part = part
    BY <1>2, <2>2 DEF Info, Entries
  <2>. HIDE DEF x, part
  <2>6. Edited("Reentrancy", code, x)
    BY <1>3, <1>6, <2>4, <2>5 DEF Edited, KeptOf, without
  <2>. QED
    BY <1>1, <1>2, <2>3, <2>6, EditKeeps DEF x
<1>. QED
  BY <1>5, <1>6

\* InjectCalls keeps the invariant.
LEMMA InjectCallsEdits == ASSUME EditInv, InjectCalls PROVE EditInv'
<1>. DEFINE line == Info.line
           call == Info.part
           new == Unchecked(line, call)
           text == ReplaceFirst(code, line, new)
           x == [inject_info[k] EXCEPT !.line = line, !.code = text]
<1>1. stage = "inject" /\ processor = "UncheckedCall" /\ k <= Len(inject_info) /\ Edit(line, Info.code, line, new)
  BY DEF InjectCalls, InLoop
<1>2. /\ Info \in Entries /\ line \in Seq(Lexemes) /\ call \in Seq(Lexemes) /\ Info.code = code /\ KeptOf("UncheckedCall", code, Info)
      /\ code \in Seq(Lexemes) /\ Info.part = call
  BY <1>1, AtSite
<1>3. CallIn(code, line, call)
  BY <1>2 DEF KeptOf
<1>. HIDE DEF line, call
<1>4. Occurrences(code, line) # {}
  <2>1. PICK q \in 1..Parts(code, "nl") : line = SplitString(code, "nl")[q]
    BY <1>3 DEF CallIn
  <2>2. 1 \in Occurrences(line, line)
    BY <1>2, OccursInItself
  <2>3. From(code, "nl", q) + 1 - 1 \in Occurrences(code, line)
    BY <1>2, <2>1, <2>2, PartOccurs
  <2>. QED
    BY <2>3
<1>5. Unchecked(line, call) \in Seq(Lexemes)
  BY <1>2, <1>3, UncheckedType DEF CallIn
<1>. HIDE DEF new
<1>6. text \in Seq(Lexemes)
  BY <1>2, <1>4, <1>5, ReplaceIs DEF new
<1>7. /\ inject_info' = [inject_info EXCEPT ![k].line = line, ![k].code = text]
      /\ k' = k + 1 /\ stage' = stage /\ processor' = processor /\ code' = code
  BY <1>1, <1>2, <1>4 DEF Edit
<1>8. text = ReplaceFirst(code, line, Unchecked(line, call))
  BY DEF new
<1>. HIDE DEF text
<1>9. x \in Entries /\ x.line = line /\ x.code = text /\ x.part = call
  BY <1>2, <1>6 DEF Info, Entries, call
<1>. HIDE DEF x
<1>10. Edited("UncheckedCall", code, x)
  BY <1>3, <1>8, <1>9 DEF Edited, KeptOf
<1>. QED
  BY <1>1, <1>2, <1>7, <1>10, EditKeeps DEF x

\* InjectAccess keeps the invariant: a modifier, glued or not, is in the text.
LEMMA InjectAccessEdits == ASSUME EditInv, InjectAccess PROVE EditInv'
<1>. DEFINE line == Info.line
<1>1. stage = "inject" /\ processor = "AccessControl" /\ k <= Len(inject_info)
  BY DEF InjectAccess, InLoop
<1>2. /\ Info \in Entries /\ line \in Seq(Lexemes) /\ Info.code = code /\ KeptOf("AccessControl", code, Info)
      /\ code \in Seq(Lexemes)
  BY <1>1, AtSite
<1>3. (Whole(code, line, "nl") /\ Has(line, "require")) \/ ModifierOf(code, line)
  BY <1>2 DEF KeptOf
<1>4. CASE Has(line, "require")
  <2>. DEFINE text == ReplaceFirst(code, line, <<>>)
             x == [inject_info[k] EXCEPT !.line = line, !.code = text]
  <2>1. Edit(line, code, line, <<>>)
    BY <1>2, <1>4 DEF InjectAccess
  <2>2. Occurrences(code, line) # {}
    BY <1>3 DEF Whole, ModifierOf
  <2>. HIDE DEF line
  <2>3. text \in Seq(Lexemes)
    <3>1. <<>> \in Seq(Lexemes)
      BY EmptySeq
    <3>. QED
      BY <1>2, <2>2, <3>1, ReplaceIs
  <2>4. /\ inject_info' = [inject_info EXCEPT ![k].line = line, ![k].code = text]
        /\ k' = k + 1 /\ stage' = stage /\ processor' = processor /\ code' = code
    BY <2>1, <2>2 DEF Edit
  <2>5. text = ReplaceFirst(code, line, <<>>)
    OBVIOUS
  <2>. HIDE DEF text
  <2>6. x \in Entries /\ x.line = line /\ x.code = text
    BY <1>2, <2>3 DEF Info, Entries
  <2>. HIDE DEF x
  <2>7. Edited("AccessControl", code, x)
    BY <1>3, <1>4, <2>5, <2>6 DEF Edited, KeptOf
  <2>. QED
    BY <1>1, <1>2, <2>4, <2>7, EditKeeps DEF x
<1>5. CASE ~Has(line, "require")
  <2>. DEFINE g == GluedWord(code, line)
             c == code \o <<"nl">>
             new == IF g = line THEN <<>> ELSE <<"glued">>
             text == ReplaceFirst(c, g, new)
             x == [inject_info[k] EXCEPT !.line = line, !.code = text]
  <2>1. Edit(line, c, g, new)
    BY <1>2, <1>5 DEF InjectAccess
  <2>2. ModifierOf(code, line)
    BY <1>3, <1>5
  <2>. HIDE DEF line
  <2>3. g \in Seq(Lexemes) /\ Occurrences(code, g) # {} /\ Len(g) > 0
    <3>1. g \in Seq(Lexemes) /\ Occurrences(code, g) # {} /\ (g = line \/ Len(g) = 3)
      BY <1>2, <2>2, GluedIs
    <3>. QED
      BY <2>2, <3>1, SMTT(60) DEF ModifierOf
  <2>. HIDE DEF g
  <2>4. c \in Seq(Lexemes) /\ Occurrences(c, g) # {}
    <3>. DEFINE u == <<"nl">>
    <3>1. u \in Seq(Lexemes)
      <4>1. "nl" \in Lexemes
        BY WordsListed
      <4>. QED
        BY <4>1
    <3>. HIDE DEF u
    <3>2. PICK n \in Occurrences(code, g) : TRUE
      BY <2>3
    <3>3. n \in Occurrences(code \o u, g) /\ code \o u \in Seq(Lexemes)
      BY <1>2, <2>3, <3>1, <3>2, OccursMore, ConcatProperties
    <3>. QED
      BY <3>3 DEF u
  <2>. HIDE DEF c
  <2>5. new \in Seq(Lexemes)
    <3>1. "glued" \in Lexemes
      BY WordsListed
    <3>2. <<"glued">> \in Seq(Lexemes) /\ <<>> \in Seq(Lexemes)
      BY <3>1, EmptySeq
    <3>. QED
      BY <3>2
  <2>6. text \in Seq(Lexemes)
    <3>. HIDE DEF new
    <3>. QED
      BY <2>3, <2>4, <2>5, ReplaceIs
  <2>7. /\ inject_info' = [inject_info EXCEPT ![k].line = line, ![k].code = text]
        /\ k' = k + 1 /\ stage' = stage /\ processor' = processor /\ code' = code
    BY <2>1, <2>4 DEF Edit
  <2>8. text = ReplaceFirst(code \o <<"nl">>, GluedWord(code, line), IF GluedWord(code, line) = line THEN <<>> ELSE <<"glued">>)
    BY DEF c, g
  <2>. HIDE DEF text
  <2>9. x \in Entries /\ x.line = line /\ x.code = text
    BY <1>2, <2>6 DEF Info, Entries
  <2>. HIDE DEF x
  <2>10. KeptOf("AccessControl", code, x)
    BY <2>2, <2>9 DEF KeptOf
  <2>11. Edited("AccessControl", code, x)
    BY <1>5, <2>8, <2>9, <2>10 DEF Edited
  <2>. QED
    BY <1>1, <1>2, <2>7, <2>11, EditKeeps DEF x
<1>. QED
  BY <1>4, <1>5

\* A function just read satisfies the invariant.
LEMMA InitEdits == EditInit => EditInv
BY EmptySeq DEF EditInit, EditInv

\* Every step keeps the invariant.
LEMMA NextEdits == ASSUME EditInv, [EditNext]_edit_vars PROVE EditInv'
<1>1. CASE ExtractInject
  BY <1>1, ExtractOverflowEdits, ExtractDoSEdits, ExtractReentrancyEdits, ExtractCallsEdits, ExtractAccessEdits DEF ExtractInject
<1>2. CASE InjectOverflow \/ InjectDoS \/ InjectReentrancy \/ InjectCalls \/ InjectAccess
  BY <1>2, InjectOverflowEdits, InjectDoSEdits, InjectReentrancyEdits, InjectCallsEdits, InjectAccessEdits
<1>. HIDE DEF Edited, Site, KeptOf
<1>3. CASE EndInject
  <2>1. stage' \in {"secure", "end"}
    BY <1>3 DEF EndInject
  <2>. QED
    BY <1>3, <2>1 DEF EndInject, EditInv
<1>4. CASE SplitSecure
  <2>1. stage = "secure" /\ UNCHANGED <<processor, code, inject_info>> /\ stage' = stage /\ k' = k + 1
    BY <1>4, Zenon DEF SplitSecure, InSecure, Secure
  <2>. QED
    BY <2>1 DEF EditInv
<1>5. CASE ReadPastTheEnd
  <2>1. stage = "secure" /\ UNCHANGED <<processor, code, inject_info>> /\ ((stage' = "undefined" /\ k' = k) \/ (stage' = stage /\ k' = k + 1))
    BY <1>5, Zenon DEF ReadPastTheEnd, InSecure, Secure
  <2>. QED
    BY <2>1 DEF EditInv
<1>6. CASE EndSecure
  BY <1>6 DEF EndSecure, EditInv
<1>7. CASE UNCHANGED edit_vars
  BY <1>7 DEF edit_vars, EditInv, Info
<1>. QED
  BY <1>1, <1>2, <1>3, <1>4, <1>5, <1>6, <1>7 DEF EditNext, Inject

\* Each entry keeps a line that stands where the search for its text leads, and its
\* code is what the one replacement of Inject makes of the function; when the search
\* has failed, it was for the assignment that went with the payment's line.
THEOREM EditInvHolds == EditSpec => []EditInv
<1>1. EditInit => EditInv
  BY InitEdits
<1>2. EditInv /\ [EditNext]_edit_vars => EditInv'
  BY NextEdits
<1>. QED
  BY <1>1, <1>2, PTL DEF EditSpec

-----------------------------------------------------------------------------
(* EditsOneLine *)

\* The line of a call is found in the text and is one line.
LEMMA LineIs ==
    ASSUME NEW s \in Seq(Lexemes), NEW line \in Seq(Lexemes), NEW call, CallIn(s, line, call)
    PROVE  Within(line, "nl") /\ Occurrences(s, line) # {}
<1>1. PICK q \in 1..Parts(s, "nl") : line = SplitString(s, "nl")[q]
  BY DEF CallIn
<1>2. Len(line) > 0
  BY DEF CallIn
<1>3. 1 \in Occurrences(line, line)
  BY OccursInItself
<1>4. From(s, "nl", q) + 1 - 1 \in Occurrences(s, line)
  BY <1>1, <1>3, PartOccurs
<1>5. /\ From(s, "nl", q) \in Int /\ To(s, "nl", q) \in Int /\ Len(line) = To(s, "nl", q) - From(s, "nl", q) + 1
      /\ \A x \in 1..Len(line) : line[x] = s[From(s, "nl", q) + x - 1]
      /\ \A n \in From(s, "nl", q)..To(s, "nl", q) : s[n] # "nl"
  BY <1>1, PartIs
<1>6. ASSUME NEW x \in 1..Len(line) PROVE line[x] # "nl"
  <2>1. From(s, "nl", q) + x - 1 \in From(s, "nl", q)..To(s, "nl", q)
    BY <1>5
  <2>. QED
    BY <1>5, <2>1
<1>. QED
  BY <1>2, <1>4, <1>6 DEF Within

\* A modifier is in one line.
LEMMA ModifierWithin == ASSUME NEW s, NEW m \in Seq(Lexemes), ModifierOf(s, m) PROVE Within(m, "nl")
<1>1. Len(m) = 1 /\ m[1] \in ToSet(Modifiers)
  BY DEF ModifierOf
<1>2. "nl" \notin ToSet(Modifiers)
  <2>1. Modifiers[1] # "nl" /\ Modifiers[2] # "nl" /\ Modifiers[3] # "nl" /\ Modifiers[4] # "nl"
    BY DEF Modifiers
  <2>. QED
    BY <2>1, ModifiersAre DEF ToSet
<1>. QED
  BY <1>1, <1>2 DEF Within

\* What EditsOneLine says of an entry, of the text it was made from and its new one.
OthersAre(s, line, new) ==
    LET before == SplitString(s, "nl")
        after == SplitString(new, "nl")
        j == Target(before, line)
    IN  IsPrefix(SubSeq(before, 1, j - 1), after) /\ IsSuffix(SubSeq(before, j + 1, Len(before)), after)

\* Only the line searched for changes when its text is replaced.
LEMMA ReplacedLine ==
    ASSUME NEW s \in Seq(Lexemes), NEW t \in Seq(Lexemes), NEW r \in Seq(Lexemes), Within(t, "nl"), Occurrences(s, t) # {},
           processor = "UncheckedCall" \/ Len(t) = 1 \/ SplitString(s, "nl")[Holder(s, t, "nl")] = t
    PROVE  OthersAre(s, t, ReplaceFirst(s, t, r))
<1>. DEFINE lines == SplitString(s, "nl")
           new == SplitString(ReplaceFirst(s, t, r), "nl")
           p == Holder(s, t, "nl")
<1>1. IsPrefix(SubSeq(lines, 1, p - 1), new) /\ IsSuffix(SubSeq(lines, p + 1, Len(lines)), new)
  BY OthersKept
<1>2. /\ Min({j \in 1..Len(lines) : Occurrences(lines[j], t) # {}}) = p
      /\ lines[p] = t => Min({j \in 1..Len(lines) : lines[j] = t}) = p
  BY HolderIsTarget
<1>. HIDE DEF lines, new, p
<1>3. Target(lines, t) = p
  <2>. DEFINE A == {j \in 1..Len(lines) : Occurrences(lines[j], t) # {}}
             B == {j \in 1..Len(lines) : lines[j] = t}
             C == {j \in 1..Len(lines) : IF processor = "UncheckedCall" \/ Len(t) = 1 THEN Occurrences(lines[j], t) # {} ELSE lines[j] = t}
  <2>1. Target(lines, t) = Min(C)
    BY DEF Target
  <2>2. CASE processor = "UncheckedCall" \/ Len(t) = 1
    <3>1. C = A
      BY <2>2
    <3>. HIDE DEF A, C
    <3>. QED
      BY <1>2, <2>1, <3>1 DEF A
  <2>3. CASE ~(processor = "UncheckedCall" \/ Len(t) = 1)
    <3>1. C = B /\ lines[p] = t
      BY <2>3 DEF lines, p
    <3>2. Min(B) = p
      BY <1>2, <3>1
    <3>. HIDE DEF B, C
    <3>. QED
      BY <2>1, <3>1, <3>2
  <2>. QED
    BY <2>2, <2>3
<1>. QED
  BY <1>1, <1>3 DEF OthersAre, lines, new

\* A word first found in a text is first found there with a newline behind.
LEMMA FindMore ==
    ASSUME NEW V, NEW s \in Seq(V), NEW t \in Seq(V), NEW u \in Seq(V), Len(t) > 0, Occurrences(s, t) # {}
    PROVE  Find(s \o u, t) = Find(s, t) /\ Occurrences(s \o u, t) # {} /\ s \o u \in Seq(V)
<1>. DEFINE c == s \o u
           f == Find(s, t)
           g == Find(c, t)
<1>1. c \in Seq(V) /\ Len(c) = Len(s) + Len(u) /\ Len(s) \in Nat /\ Len(u) \in Nat /\ Len(t) \in Nat /\ \A x \in 1..Len(s) : c[x] = s[x]
  BY JoinedAt
<1>2. f \in Occurrences(s, t) /\ f \in 1..(Len(s) - Len(t) + 1) /\ \A n \in Occurrences(s, t) : f <= n
  BY FindIs
<1>3. f \in Occurrences(c, t)
  BY <1>2, OccursMore
<1>. HIDE DEF c, f
<1>4. g \in Occurrences(c, t) /\ g \in 1..(Len(c) - Len(t) + 1) /\ \A n \in Occurrences(c, t) : g <= n
  BY <1>1, <1>3, FindIs
<1>. HIDE DEF g
<1>5. g <= f
  BY <1>3, <1>4
<1>6. g \in Occurrences(s, t)
  <2>1. g \in 1..(Len(s) - Len(t) + 1)
    BY <1>1, <1>2, <1>4, <1>5
  <2>2. ASSUME NEW x \in 1..Len(t) PROVE s[g + x - 1] = t[x]
    <3>1. g + x - 1 \in 1..Len(s)
      BY <1>1, <2>1
    <3>2. c[g + x - 1] = t[x]
      <4>1. \A z \in 1..Len(t) : c[g + z - 1] = t[z]
        BY <1>1, <1>4, OccursIs
      <4>. QED
        BY <4>1
    <3>. QED
      BY <1>1, <3>1, <3>2
  <2>. QED
    BY <2>1, <2>2, OccursIs
<1>7. f <= g
  BY <1>2, <1>6
<1>. QED
  BY <1>1, <1>2, <1>3, <1>4, <1>5, <1>7 DEF c, f, g

\* What a modifier stands glued in is first found where the modifier's own word is.
LEMMA GluedHolder ==
    ASSUME NEW s \in Seq(Lexemes), NEW m \in Seq(Lexemes), Within(m, "nl"), Len(m) = 1, Occurrences(s, m) # {},
           NEW g \in Seq(Lexemes), Within(g, "nl"), Len(g) = 3, g[2] = m[1], Find(s, m) - 1 \in Occurrences(s, g)
    PROVE  Holder(s, g, "nl") = Holder(s, m, "nl")
<1>. DEFINE f == Find(s, m)
           h == Find(s, g)
           p == PartOf(s, "nl", h)
           q == PartOf(s, "nl", f)
<1>1. f \in Occurrences(s, m) /\ f \in 1..(Len(s) - Len(m) + 1) /\ \A n \in Occurrences(s, m) : f <= n
  BY FindIs
<1>2. h \in Occurrences(s, g) /\ h \in 1..(Len(s) - Len(g) + 1) /\ \A n \in Occurrences(s, g) : h <= n
  BY FindIs
<1>3. f - 1 \in Occurrences(s, g)
  OBVIOUS
<1>. HIDE DEF f, h
<1>4. h <= f - 1
  BY <1>2, <1>3
<1>5. h + 1 \in Occurrences(s, m)
  <2>1. \A x \in 1..Len(g) : s[h + x - 1] = g[x]
    BY <1>2, OccursIs
  <2>2. 2 \in 1..Len(g) /\ h + 2 - 1 = h + 1
    BY <1>2
  <2>3. s[h + 1] = m[1]
    BY <2>1, <2>2
  <2>4. h + 1 \in 1..(Len(s) - Len(m) + 1)
    BY <1>2
  <2>5. ASSUME NEW x \in 1..Len(m) PROVE s[h + 1 + x - 1] = m[x]
    <3>1. x = 1 /\ h + 1 + x - 1 = h + 1
      BY <1>2
    <3>. QED
      BY <2>3, <3>1
  <2>6. \A n : n = h + 1 => n \in Occurrences(s, m)
    BY <2>4, <2>5, OccursIs
  <2>. QED
    BY <2>6
<1>6. f = h + 1
  <2>1. f <= h + 1
    BY <1>1, <1>5
  <2>. QED
    BY <1>1, <1>2, <1>4, <2>1
<1>7. p \in 1..Parts(s, "nl") /\ From(s, "nl", p) <= h /\ h + Len(g) - 1 <= To(s, "nl", p)
  BY <1>2, OccursWithin
<1>8. q \in 1..Parts(s, "nl") /\ From(s, "nl", q) <= f /\ f + Len(m) - 1 <= To(s, "nl", q)
  BY <1>1, OccursWithin
<1>. HIDE DEF p, q
<1>9. /\ From(s, "nl", p) \in Int /\ To(s, "nl", p) \in Int /\ From(s, "nl", q) \in Int /\ To(s, "nl", q) \in Int
      /\ Parts(s, "nl") \in Nat
  BY <1>7, <1>8, PartIs, PartsType
<1>10. From(s, "nl", p) <= f /\ f <= To(s, "nl", p) /\ f <= To(s, "nl", q)
  BY <1>1, <1>2, <1>6, <1>7, <1>8, <1>9
<1>11. ~(p < q) /\ ~(q < p)
  <2>1. p < q => To(s, "nl", p) + 1 < From(s, "nl", q)
    BY <1>7, <1>8, PartsApart
  <2>2. q < p => To(s, "nl", q) + 1 < From(s, "nl", p)
    BY <1>7, <1>8, PartsApart
  <2>. QED
    BY <1>1, <1>8, <1>9, <1>10, <2>1, <2>2
<1>12. p = q
  BY <1>7, <1>8, <1>9, <1>11
<1>. QED
  BY <1>12 DEF Holder, p, q, f, h

\* Only the line of the modifier changes when the word it is glued in is replaced.
LEMMA GluedLine ==
    ASSUME NEW s \in Seq(Lexemes), s # <<>>, s[Len(s)] # "nl", NEW m \in Seq(Lexemes), ModifierOf(s, m),
           NEW g, g = GluedWord(s, m), NEW r \in Seq(Lexemes)
    PROVE  OthersAre(s, m, ReplaceFirst(s \o <<"nl">>, g, r))
<1>. DEFINE u == <<"nl">>
           c == s \o u
<1>1. "nl" \in Lexemes
  BY WordsListed
<1>2. u \in Seq(Lexemes)
  BY <1>1
<1>3. SplitString(c, "nl") = SplitString(s, "nl")
  BY <1>1, SplitEnd
<1>. HIDE DEF u
<1>4. Len(m) = 1 /\ Occurrences(s, m) # {} /\ Within(m, "nl")
  BY ModifierWithin DEF ModifierOf
<1>5. Find(c, m) = Find(s, m) /\ Occurrences(c, m) # {} /\ c \in Seq(Lexemes)
  <2>1. s \in Seq(Lexemes) /\ m \in Seq(Lexemes) /\ u \in Seq(Lexemes) /\ Len(m) > 0 /\ Occurrences(s, m) # {}
    BY <1>2, <1>4
  <2>2. Find(s \o u, m) = Find(s, m) /\ Occurrences(s \o u, m) # {} /\ s \o u \in Seq(Lexemes)
    BY <2>1, FindMore
  <2>. QED
    BY <2>2
<1>6. /\ g \in Seq(Lexemes) /\ Occurrences(s, g) # {}
      /\ g = m \/ (Len(g) = 3 /\ g[2] = m[1] /\ Find(s, m) - 1 \in Occurrences(s, g) /\ IsName(g[1]) /\ IsName(g[3]))
  BY GluedIs
<1>7. CASE g = m
  <2>1. OthersAre(c, m, ReplaceFirst(c, m, r))
    <3>. HIDE DEF c
    <3>. QED
      BY <1>4, <1>5, ReplacedLine
  <2>. HIDE DEF c
  <2>2. OthersAre(s, m, ReplaceFirst(c, m, r))
    BY <1>3, <2>1 DEF OthersAre
  <2>. QED
    BY <1>7, <2>2 DEF c, u
<1>8. CASE Len(g) = 3 /\ g[2] = m[1] /\ Find(s, m) - 1 \in Occurrences(s, g) /\ IsName(g[1]) /\ IsName(g[3])
  <2>1. Within(g, "nl")
    <3>1. g[1] # "nl" /\ g[3] # "nl"
      BY <1>8, Zenon DEF IsName, Symbols
    <3>2. g[2] # "nl"
      BY <1>4, <1>8 DEF Within
    <3>3. \A x \in 1..Len(g) : x = 1 \/ x = 2 \/ x = 3
      BY <1>8
    <3>. QED
      BY <1>8, <3>1, <3>2, <3>3 DEF Within
  <2>2. Find(c, m) - 1 \in Occurrences(c, g)
    <3>1. Find(s, m) - 1 \in Occurrences(c, g)
      <4>. DEFINE n == Find(s, m) - 1
      <4>1. n \in Occurrences(s, g) /\ Len(g) > 0 /\ g \in Seq(Lexemes)
        BY <1>6, <1>8
      <4>. HIDE DEF n
      <4>2. n \in Occurrences(s \o u, g)
        BY <1>2, <4>1, OccursMore
      <4>. QED
        BY <4>2 DEF n
    <3>. QED
      BY <1>5, <3>1
  <2>. HIDE DEF c
  <2>. DEFINE p == Holder(c, m, "nl")
             lines == SplitString(c, "nl")
             new == SplitString(ReplaceFirst(c, g, r), "nl")
  <2>3. Holder(c, g, "nl") = p
    BY <1>4, <1>5, <1>6, <1>8, <2>1, <2>2, GluedHolder
  <2>4. /\ IsPrefix(SubSeq(lines, 1, Holder(c, g, "nl") - 1), new)
        /\ IsSuffix(SubSeq(lines, Holder(c, g, "nl") + 1, Len(lines)), new)
    <3>1. Occurrences(c, g) # {}
      BY <2>2
    <3>. QED
      BY <1>5, <1>6, <2>1, <3>1, OthersKept
  <2>5. Min({j \in 1..Len(lines) : Occurrences(lines[j], m) # {}}) = p
    BY <1>4, <1>5, HolderIsTarget
  <2>. HIDE DEF p, lines, new
  <2>6. Target(lines, m) = p
    <3>1. Target(lines, m) = Min({j \in 1..Len(lines) : Occurrences(lines[j], m) # {}})
      BY <1>4 DEF Target
    <3>. QED
      BY <2>5, <3>1
  <2>7. OthersAre(s, m, ReplaceFirst(c, g, r))
    <3>1. lines = SplitString(s, "nl")
      BY <1>3 DEF lines
    <3>2. IsPrefix(SubSeq(lines, 1, Target(lines, m) - 1), new) /\ IsSuffix(SubSeq(lines, Target(lines, m) + 1, Len(lines)), new)
      BY <2>3, <2>4, <2>6
    <3>. QED
      BY <3>1, <3>2 DEF OthersAre, new
  <2>. QED
    BY <2>7 DEF c, u
<1>. QED
  BY <1>6, <1>7, <1>8

\* The entry Inject has just edited.
LEMMA InjectedIs ==
    ASSUME EditInv, NEW e \in Injected
    PROVE  /\ Edited(processor, code, inject_info[e]) /\ code \in Seq(Lexemes) /\ code # <<>> /\ code[Len(code)] # "nl"
           /\ processor \in Injectors /\ inject_info[e] \in Entries /\ inject_info[e].line \in Seq(Lexemes)
           /\ inject_info[e].part \in Seq(Lexemes) /\ IsFunction(code)
<1>1. stage = "inject" /\ k > 1 /\ e = k - 1
  BY DEF Injected
<1>2. e \in 1..Len(inject_info) /\ e < k
  BY <1>1 DEF EditInv
<1>3. Edited(processor, code, inject_info[e])
  BY <1>1, <1>2 DEF EditInv
<1>4. code \in Seq(Lexemes) /\ code # <<>> /\ code[Len(code)] # "nl" /\ IsFunction(code)
  BY TextIs, FunctionText, FourWords DEF EditInv
<1>. QED
  BY <1>3, <1>4 DEF EditInv, Edited, Entries

\* EditsOneLine follows from the invariant.
LEMMA EditsOneLineFollows == EditInv => EditsOneLine
<1>. SUFFICES ASSUME EditInv, NEW e \in Injected, processor # "Reentrancy"
             PROVE  OthersAre(IF processor = "IntOverflow" THEN Plain(code) ELSE code, inject_info[e].line, inject_info[e].code)
  BY DEF EditsOneLine, OthersAre
<1>. DEFINE x == inject_info[e]
           line == x.line
<1>1. /\ Edited(processor, code, x) /\ code \in Seq(Lexemes) /\ code # <<>> /\ code[Len(code)] # "nl"
      /\ processor \in Injectors /\ line \in Seq(Lexemes)
  BY InjectedIs
<1>. HIDE DEF x
<1>2. CASE processor = "IntOverflow"
  <2>1. Whole(Plain(code), line, "nl") /\ x.code = ReplaceFirst(Plain(code), line, Weakened(line))
    BY <1>1, <1>2 DEF Edited
  <2>2. Plain(code) \in Seq(Lexemes) /\ Weakened(line) \in Seq(Lexemes)
    BY <1>1, PlainIs, WeakenedType
  <2>. HIDE DEF line
  <2>3. OthersAre(Plain(code), line, ReplaceFirst(Plain(code), line, Weakened(line)))
    BY <1>1, <2>1, <2>2, ReplacedLine DEF Whole
  <2>. QED
    BY <1>2, <2>1, <2>3 DEF line, x
<1>3. CASE processor = "DoS"
  <2>1. Whole(code, line, "nl") /\ x.code = ReplaceFirst(code, line, Weakened(line))
    BY <1>1, <1>3 DEF Edited, KeptOf
  <2>2. Weakened(line) \in Seq(Lexemes)
    BY WeakenedType
  <2>. HIDE DEF line
  <2>3. OthersAre(code, line, ReplaceFirst(code, line, Weakened(line)))
    BY <1>1, <2>1, <2>2, ReplacedLine DEF Whole
  <2>. QED
    BY <1>3, <2>1, <2>3 DEF line, x
<1>4. CASE processor = "UncheckedCall"
  <2>. DEFINE call == x.part
  <2>1. CallIn(code, line, call) /\ x.code = ReplaceFirst(code, line, Unchecked(line, call)) /\ call \in Seq(Lexemes)
    BY <1>1, <1>4 DEF Edited, KeptOf, Entries
  <2>. HIDE DEF line, call
  <2>2. Unchecked(line, call) \in Seq(Lexemes) /\ Within(line, "nl") /\ Occurrences(code, line) # {}
    BY <1>1, <2>1, UncheckedType, LineIs DEF CallIn
  <2>3. OthersAre(code, line, ReplaceFirst(code, line, Unchecked(line, call)))
    BY <1>1, <1>4, <2>2, ReplacedLine
  <2>. QED
    BY <1>4, <2>1, <2>3 DEF line, x
<1>5. CASE processor = "AccessControl"
  <2>1. (Whole(code, line, "nl") /\ Has(line, "require")) \/ ModifierOf(code, line)
    BY <1>1, <1>5 DEF Edited, KeptOf
  <2>2. CASE Has(line, "require")
    <3>1. x.code = ReplaceFirst(code, line, <<>>)
      BY <1>1, <1>5, <2>2 DEF Edited
    <3>2. Within(line, "nl") /\ Occurrences(code, line) # {} /\ (Len(line) = 1 \/ SplitString(code, "nl")[Holder(code, line, "nl")] = line)
      BY <1>1, <2>1, ModifierWithin DEF Whole, ModifierOf
    <3>3. <<>> \in Seq(Lexemes)
      BY EmptySeq
    <3>. HIDE DEF line
    <3>4. OthersAre(code, line, ReplaceFirst(code, line, <<>>))
      BY <1>1, <3>2, <3>3, ReplacedLine
    <3>. QED
      BY <1>5, <3>1, <3>4 DEF line, x
  <2>3. CASE ~Has(line, "require")
    <3>. DEFINE g == GluedWord(code, line)
               r == IF g = line THEN <<>> ELSE <<"glued">>
    <3>1. x.code = ReplaceFirst(code \o <<"nl">>, g, r)
      BY <1>1, <1>5, <2>3 DEF Edited
    <3>2. r \in Seq(Lexemes)
      <4>1. "glued" \in Lexemes
        BY WordsListed
      <4>2. <<"glued">> \in Seq(Lexemes) /\ <<>> \in Seq(Lexemes)
        BY <4>1, EmptySeq
      <4>. QED
        BY <4>2
    <3>3. ModifierOf(code, line)
      BY <2>1, <2>3
    <3>4. g = GluedWord(code, line)
      OBVIOUS
    <3>. HIDE DEF line, g, r
    <3>5. OthersAre(code, line, ReplaceFirst(code \o <<"nl">>, g, r))
      BY <1>1, <3>2, <3>3, <3>4, GluedLine
    <3>. QED
      BY <1>5, <3>1, <3>5 DEF line, x
  <2>. QED
    BY <2>2, <2>3
<1>. QED
  BY <1>1, <1>2, <1>3, <1>4, <1>5 DEF Injectors

\* Inject searches the whole function for the text of a line, and finds the line that
\* ExtractInject read: every other line of an injected function is as it was, SafeMath's
\* calls aside.
THEOREM EditsOneLineHolds == EditSpec => []EditsOneLine
BY EditInvHolds, EditsOneLineFollows, PTL

-----------------------------------------------------------------------------
(* BracesKept *)

\* The open braces of two texts add up.
LEMMA OpensConcat ==
    ASSUME NEW s \in Seq(Lexemes), NEW t \in Seq(Lexemes)
    PROVE  Opens(s \o t) = Opens(s) + Opens(t) /\ Opens(s) \in Int /\ Opens(t) \in Int
<1>1. Count(s, Open) \in Nat /\ Count(s, Close) \in Nat /\ Count(t, Open) \in Nat /\ Count(t, Close) \in Nat
  BY MarksFinite
<1>2. Count(s \o t, Open) = Count(s, Open) + Count(t, Open)
  BY CountConcat
<1>3. Count(s \o t, Close) = Count(s, Close) + Count(t, Close)
  BY CountConcat
<1>. QED
  BY <1>1, <1>2, <1>3, OpensIs

\* What is replaced takes its open braces away, what replaces it adds its own.
LEMMA ReplaceOpens ==
    ASSUME NEW s \in Seq(Lexemes), NEW t \in Seq(Lexemes), NEW r \in Seq(Lexemes), Occurrences(s, t) # {}
    PROVE  /\ Opens(ReplaceFirst(s, t, r)) = Opens(s) - Opens(t) + Opens(r)
           /\ Opens(s) \in Int /\ Opens(t) \in Int /\ Opens(r) \in Int
<1>1. /\ Count(s, Open) \in Nat /\ Count(s, Close) \in Nat /\ Count(t, Open) \in Nat /\ Count(t, Close) \in Nat
      /\ Count(r, Open) \in Nat /\ Count(r, Close) \in Nat
  BY MarksFinite
<1>2. Count(ReplaceFirst(s, t, r), Open) = Count(s, Open) - Count(t, Open) + Count(r, Open)
  BY ReplaceCount
<1>3. Count(ReplaceFirst(s, t, r), Close) = Count(s, Close) - Count(t, Close) + Count(r, Close)
  BY ReplaceCount
<1>. DEFINE new == ReplaceFirst(s, t, r)
<1>. HIDE DEF new
<1>4. Opens(new) = Count(new, Open) - Count(new, Close)
  BY OpensIs
<1>5. /\ Opens(s) = Count(s, Open) - Count(s, Close) /\ Opens(t) = Count(t, Open) - Count(t, Close)
      /\ Opens(r) = Count(r, Open) - Count(r, Close)
  BY OpensIs
<1>6. Count(new, Open) = Count(s, Open) - Count(t, Open) + Count(r, Open)
  BY <1>2 DEF new
<1>7. Count(new, Close) = Count(s, Close) - Count(t, Close) + Count(r, Close)
  BY <1>3 DEF new
<1>8. Opens(new) = Opens(s) - Opens(t) + Opens(r)
  BY <1>1, <1>4, <1>5, <1>6, <1>7
<1>. QED
  BY <1>1, <1>5, <1>8 DEF new

\* A text with no brace opens none.
LEMMA OpensNone ==
    ASSUME NEW s \in Seq(Lexemes), \A x \in 1..Len(s) : s[x] \notin {Open, Close}
    PROVE  Opens(s) = 0
<1>1. Count(s, Open) = 0
  BY CountNone
<1>2. Count(s, Close) = 0
  BY CountNone
<1>. QED
  BY <1>1, <1>2, OpensIs

\* Nor does the empty text.
LEMMA OpensEmpty == Opens(<<>>) = 0
<1>1. <<>> \in Seq(Lexemes) /\ \A x \in 1..Len(<<>>) : <<>>[x] \notin {Open, Close}
  BY EmptySeq
<1>. QED
  BY <1>1, OpensNone

\* A bound with the letters of if leaves one brace, another none.
LEMMA OpensWeakened ==
    ASSUME NEW line
    PROVE  Opens(Weakened(line)) = IF Has(line, "if") THEN 1 ELSE 0
<1>. DEFINE t == <<"if", "(", "true", ")", Open>>
<1>1. "if" \in Lexemes /\ "(" \in Lexemes /\ "true" \in Lexemes /\ ")" \in Lexemes /\ Open \in Lexemes
  BY WordsListed
<1>2. t \in Seq(Lexemes) /\ Len(t) = 5 /\ t[1] = "if" /\ t[2] = "(" /\ t[3] = "true" /\ t[4] = ")" /\ t[5] = Open
  BY <1>1, FiveOf
<1>3. Weakened(line) = IF Has(line, "if") THEN t ELSE <<>>
  BY WeakenedIs
<1>. HIDE DEF t
<1>4. \A x \in 1..Len(t) : x = 1 \/ x = 2 \/ x = 3 \/ x = 4 \/ x = 5
  BY <1>2
<1>5. "if" \notin {Open, Close} /\ "(" \notin {Open, Close} /\ "true" \notin {Open, Close} /\ ")" \notin {Open, Close} /\ Open # Close
  BY FourWords
<1>6. Marks(t, Open) = {5}
  <2>1. 5 \in 1..Len(t)
    BY <1>2
  <2>. QED
    BY <1>2, <1>4, <1>5, <2>1 DEF Marks
<1>7. Count(t, Open) = 1
  BY <1>6, FS_Singleton DEF Count
<1>8. Count(t, Close) = 0
  <2>1. \A x \in 1..Len(t) : t[x] # Close
    BY <1>2, <1>4, <1>5
  <2>. QED
    BY <1>2, <2>1, CountNone
<1>9. Opens(t) = 1
  BY <1>7, <1>8, OpensIs
<1>. QED
  BY <1>3, <1>9, OpensEmpty

\* Undoing the calls moves no brace.
LEMMA OpensPlain == ASSUME NEW s \in Seq(Lexemes) PROVE Opens(Plain(s)) = Opens(s)
<1>1. ASSUME NEW d \in {Open, Close} PROVE Marks(Plain(s), d) = Marks(s, d)
  <2>1. d \notin {"+(", "-(", ".add(", ".sub("}
    BY FourWords
  <2>2. \A n \in 1..Len(s) : Plain(s)[n] = d <=> s[n] = d
    BY <2>1, PlainIs
  <2>3. Len(Plain(s)) = Len(s)
    BY PlainIs
  <2>. QED
    BY <2>2, <2>3 DEF Marks
<1>. QED
  BY <1>1, OpensIs DEF Count

\* The words of a text of four.
LEMMA FourAre ==
    \A a, b, c, d : <<a, b, c, d>>[1] = a /\ <<a, b, c, d>>[2] = b /\ <<a, b, c, d>>[3] = c /\ <<a, b, c, d>>[4] = d
OBVIOUS

\* A modifier is no brace.
LEMMA ModifierOpens == ASSUME NEW s, NEW m \in Seq(Lexemes), ModifierOf(s, m) PROVE m[1] \notin {Open, Close} /\ Opens(m) = 0
<1>1. Len(m) = 1 /\ m[1] \in ToSet(Modifiers)
  BY DEF ModifierOf
<1>2. ToSet(Modifiers) = {Modifiers[1], Modifiers[2], Modifiers[3], Modifiers[4]}
  <2>. HIDE DEF Modifiers
  <2>. QED
    BY ModifiersAre DEF ToSet
<1>3. Modifiers[1] \notin {Open, Close} /\ Modifiers[2] \notin {Open, Close} /\ Modifiers[3] \notin {Open, Close} /\ Modifiers[4] \notin {Open, Close}
  <2>1. Modifiers[1] = "onlyOwner" /\ Modifiers[2] = "onlyowner" /\ Modifiers[3] = "onlyowner()" /\ Modifiers[4] = "onlyOwner()"
    BY FourAre, Zenon DEF Modifiers
  <2>. QED
    BY <2>1, Zenon DEF Open, Close
<1>4. m[1] \notin {Open, Close}
  BY <1>1, <1>2, <1>3
<1>5. \A x \in 1..Len(m) : m[x] \notin {Open, Close}
  BY <1>1, <1>4
<1>. QED
  BY <1>4, <1>5, OpensNone

\* The call before an assignment brings no brace.
LEMMA CallFirstOpens ==
    ASSUME NEW s, NEW part \in Seq(Lexemes), Payment(s, part)
    PROVE  CallFirst(part) \in Seq(Lexemes) /\ Opens(CallFirst(part)) = Opens(part) /\ Opens(part) \in Int
<1>. DEFINE z == Sent(part)
<1>1. z \in Seq(Lexemes) /\ \A x \in 1..Len(z) : z[x] \notin {Open, Close}
  BY SentIs
<1>2. CallFirst(part) = z \o part
  BY CallFirstIs
<1>. HIDE DEF z
<1>3. Opens(z) = 0
  BY <1>1, OpensNone
<1>4. Opens(z \o part) = Opens(z) + Opens(part) /\ Opens(part) \in Int
  BY <1>1, OpensConcat
<1>5. z \o part \in Seq(Lexemes)
  BY <1>1, ConcatProperties
<1>. QED
  BY <1>2, <1>3, <1>4, <1>5

\* A call made a statement opens what its line, or what is kept of it, did.
LEMMA UncheckedOpens ==
    ASSUME NEW line \in Seq(Lexemes), NEW call \in Seq(Lexemes), Len(line) > 0, Occurrences(line, call) # {},
           Has(line, "if") \/ Has(line, "require") \/ Has(line, "=")
    PROVE  LET uses == Has(line, "if") \/ Has(line, "require")
           IN  /\ uses => Opens(Unchecked(line, call)) = Opens(line)
               /\ ~uses => Opens(Unchecked(line, call)) = Opens(call \o LeftOf(line))
               /\ Opens(line) \in Int /\ Opens(Unchecked(line, call)) \in Int
<1>. DEFINE semi == <<Semicolon, "nl">>
           rest == Rest(line, call)
           kept == KeptPart(line)
           left == LeftOf(line)
           four == <<"(", "true", Comma, ")">>
           one == <<"true">>
           uses == Has(line, "if") \/ Has(line, "require")
<1>1. rest \in Seq(Lexemes) /\ semi \in Seq(Lexemes) /\ Unchecked(line, call) = call \o semi \o rest
  BY UncheckedType, UncheckedIs
<1>2. Semicolon \in Lexemes /\ Comma \in Lexemes /\ "nl" \in Lexemes /\ "(" \in Lexemes /\ ")" \in Lexemes /\ "true" \in Lexemes
  BY WordsListed
<1>3. Semicolon \notin {Open, Close} /\ Comma \notin {Open, Close} /\ "nl" \notin {Open, Close}
      /\ "(" \notin {Open, Close} /\ ")" \notin {Open, Close} /\ "true" \notin {Open, Close}
  BY FourWords
<1>4. Opens(semi) = 0
  <2>1. \A x \in 1..Len(semi) : semi[x] \notin {Open, Close}
    BY <1>3
  <2>. QED
    BY <1>1, <2>1, OpensNone
<1>5. one \in Seq(Lexemes) /\ Opens(one) = 0
  <2>1. one \in Seq(Lexemes) /\ \A x \in 1..Len(one) : one[x] \notin {Open, Close}
    BY <1>2, <1>3
  <2>. QED
    BY <2>1, OpensNone
<1>6. ASSUME ~uses
      PROVE  left \in Seq(Lexemes) /\ kept \in Seq(Lexemes) /\ Opens(kept) = Opens(left) /\ Opens(left) \in Int
  <2>. DEFINE word == Reassigned(line[AssignAt(line)])
             last == <<word>>
  <2>1. left \in Seq(Lexemes) /\ word \in Lexemes /\ word \notin {Open, Close}
    BY <1>6, LeftIs
  <2>2. kept = left \o last
    BY DEF KeptPart
  <2>. HIDE DEF word, left, kept
  <2>3. last \in Seq(Lexemes) /\ Len(last) = 1 /\ last[1] = word
    BY <2>1
  <2>. HIDE DEF last
  <2>4. Opens(last) = 0
    <3>1. \A x \in 1..Len(last) : last[x] \notin {Open, Close}
      BY <2>1, <2>3
    <3>. QED
      BY <2>3, <3>1, OpensNone
  <2>5. Opens(left \o last) = Opens(left) + Opens(last) /\ Opens(left) \in Int /\ left \o last \in Seq(Lexemes)
    BY <2>1, <2>3, OpensConcat, ConcatProperties
  <2>. QED
    BY <2>1, <2>2, <2>4, <2>5
<1>7. four \in Seq(Lexemes) /\ Opens(four) = 0
  <2>1. /\ four \in Seq(Lexemes) /\ Len(four) = 4 /\ four[1] = "(" /\ four[2] = "true"
        /\ four[3] = Comma /\ four[4] = ")"
    BY <1>2, FourWordsOf
  <2>. HIDE DEF four
  <2>2. \A x \in 1..Len(four) : x = 1 \/ x = 2 \/ x = 3 \/ x = 4
    BY <2>1
  <2>3. \A x \in 1..Len(four) : four[x] \notin {Open, Close}
    BY <1>3, <2>1, <2>2
  <2>. QED
    BY <2>1, <2>3, OpensNone
<1>. DEFINE mid == IF Has(left, Comma) THEN four ELSE one
<1>8. mid \in Seq(Lexemes) /\ Opens(mid) = 0
  BY <1>5, <1>7
<1>9. rest = IF uses THEN ReplaceFirst(line, call, one) ELSE kept \o mid \o semi
  BY DEF Rest
<1>. HIDE DEF mid, four, one, semi, rest, left, kept, uses
<1>10. Opens(ReplaceFirst(line, call, one)) = Opens(line) - Opens(call) /\ Opens(line) \in Int /\ Opens(call) \in Int
  BY <1>5, ReplaceOpens
<1>11. ASSUME ~uses PROVE Opens(kept \o mid \o semi) = Opens(left)
  <2>. DEFINE lm == kept \o mid
  <2>1. lm \in Seq(Lexemes) /\ Opens(lm) = Opens(kept) + Opens(mid)
    BY <1>6, <1>8, <1>11, OpensConcat, ConcatProperties
  <2>. HIDE DEF lm
  <2>2. Opens(lm \o semi) = Opens(lm) + Opens(semi)
    BY <1>1, <2>1, OpensConcat
  <2>. QED
    BY <1>4, <1>6, <1>8, <1>11, <2>1, <2>2 DEF lm
<1>12. Opens(call \o semi \o rest) = Opens(call) + Opens(rest) /\ Opens(rest) \in Int
  <2>. DEFINE cs == call \o semi
  <2>1. cs \in Seq(Lexemes) /\ Opens(cs) = Opens(call) + Opens(semi)
    BY <1>1, OpensConcat, ConcatProperties
  <2>. HIDE DEF cs
  <2>2. Opens(cs \o rest) = Opens(cs) + Opens(rest) /\ Opens(rest) \in Int
    BY <1>1, <2>1, OpensConcat
  <2>. QED
    BY <1>4, <1>10, <2>1, <2>2 DEF cs
<1>13. ASSUME ~uses PROVE Opens(call \o left) = Opens(call) + Opens(left)
  BY <1>6, <1>13, OpensConcat
<1>14. Opens(Unchecked(line, call)) = Opens(call) + Opens(rest)
  BY <1>1, <1>12
<1>15. uses => Opens(rest) = Opens(line) - Opens(call)
  BY <1>9, <1>10
<1>16. ~uses => Opens(rest) = Opens(left)
  BY <1>9, <1>11
<1>17. /\ uses => Opens(Unchecked(line, call)) = Opens(line)
       /\ ~uses => Opens(Unchecked(line, call)) = Opens(call \o left)
       /\ Opens(line) \in Int /\ Opens(Unchecked(line, call)) \in Int
  BY <1>10, <1>12, <1>13, <1>14, <1>15, <1>16
<1>. QED
  BY <1>17 DEF left, uses

\* The word a modifier is glued in has no brace.
LEMMA GluedOpens ==
    ASSUME NEW s \in Seq(Lexemes), NEW m \in Seq(Lexemes), ModifierOf(s, m), NEW g, g = GluedWord(s, m)
    PROVE  g \in Seq(Lexemes) /\ Len(g) > 0 /\ Opens(g) = 0 /\ Occurrences(s, g) # {}
<1>1. m[1] \notin {Open, Close} /\ Opens(m) = 0 /\ Len(m) = 1
  BY ModifierOpens DEF ModifierOf
<1>2. /\ g \in Seq(Lexemes) /\ Occurrences(s, g) # {}
      /\ g = m \/ (Len(g) = 3 /\ g[2] = m[1] /\ Find(s, m) - 1 \in Occurrences(s, g) /\ IsName(g[1]) /\ IsName(g[3]))
  BY GluedIs
<1>3. CASE g = m
  BY <1>1, <1>2, <1>3
<1>4. CASE Len(g) = 3 /\ g[2] = m[1] /\ IsName(g[1]) /\ IsName(g[3])
  <2>1. g[1] \notin {Open, Close} /\ g[3] \notin {Open, Close}
    BY <1>4, Zenon DEF IsName, Symbols, Open, Close
  <2>2. \A x \in 1..Len(g) : x = 1 \/ x = 2 \/ x = 3
    BY <1>4
  <2>3. \A x \in 1..Len(g) : g[x] \notin {Open, Close}
    BY <1>1, <1>4, <2>1, <2>2
  <2>. QED
    BY <1>2, <1>4, <2>3, OpensNone
<1>. QED
  BY <1>2, <1>3, <1>4

\* What BracesKept says of an entry.
BracesAre(p, x) ==
    Opens(x.code) = 0 <=>
        CASE p \in {"IntOverflow", "DoS"} -> Opens(x.line) = (IF Has(x.line, "if") THEN 1 ELSE 0)
          [] p \in {"Reentrancy", "AccessControl"} -> Opens(x.line) = 0
          [] OTHER -> \/ Has(x.line, "if") \/ Has(x.line, "require")
                      \/ Opens(x.part \o LeftOf(x.line)) = Opens(x.line)

\* BracesKept follows from the invariant.
LEMMA BracesKeptFollows == EditInv => BracesKept
<1>. SUFFICES ASSUME EditInv, NEW e \in Injected PROVE BracesAre(processor, inject_info[e])
  BY DEF BracesKept, BracesAre
<1>. DEFINE x == inject_info[e]
           line == x.line
           part == x.part
<1>1. /\ Edited(processor, code, x) /\ code \in Seq(Lexemes) /\ processor \in Injectors /\ line \in Seq(Lexemes) /\ part \in Seq(Lexemes)
      /\ IsFunction(code)
  BY InjectedIs
<1>2. Opens(code) = 0
  BY <1>1, IsFunctionIs
<1>. HIDE DEF x
<1>3. CASE processor = "IntOverflow"
  <2>1. Whole(Plain(code), line, "nl") /\ x.code = ReplaceFirst(Plain(code), line, Weakened(line))
    BY <1>1, <1>3 DEF Edited
  <2>2. Plain(code) \in Seq(Lexemes) /\ Weakened(line) \in Seq(Lexemes) /\ Occurrences(Plain(code), line) # {}
    BY <1>1, <2>1, PlainIs, WeakenedType DEF Whole
  <2>3. Opens(Plain(code)) = 0 /\ Opens(Weakened(line)) = IF Has(line, "if") THEN 1 ELSE 0
    BY <1>1, <1>2, OpensPlain, OpensWeakened
  <2>. HIDE DEF line
  <2>4. Opens(x.code) = Opens(Plain(code)) - Opens(line) + Opens(Weakened(line)) /\ Opens(line) \in Int
    BY <1>1, <2>1, <2>2, ReplaceOpens
  <2>5. Opens(x.code) = 0 <=> Opens(line) = (IF Has(line, "if") THEN 1 ELSE 0)
    BY <2>3, <2>4
  <2>. QED
    BY <1>3, <2>5 DEF BracesAre, line, x
<1>4. CASE processor = "DoS"
  <2>1. Whole(code, line, "nl") /\ x.code = ReplaceFirst(code, line, Weakened(line))
    BY <1>1, <1>4 DEF Edited, KeptOf
  <2>2. Weakened(line) \in Seq(Lexemes) /\ Occurrences(code, line) # {}
    BY <2>1, WeakenedType DEF Whole
  <2>3. Opens(Weakened(line)) = IF Has(line, "if") THEN 1 ELSE 0
    BY OpensWeakened
  <2>. HIDE DEF line
  <2>4. Opens(x.code) = Opens(code) - Opens(line) + Opens(Weakened(line)) /\ Opens(line) \in Int
    BY <1>1, <2>1, <2>2, ReplaceOpens
  <2>5. Opens(x.code) = 0 <=> Opens(line) = (IF Has(line, "if") THEN 1 ELSE 0)
    BY <1>2, <2>3, <2>4
  <2>. QED
    BY <1>4, <2>5 DEF BracesAre, line, x
<1>5. CASE processor = "Reentrancy"
  <2>. DEFINE without == ReplaceFirst(code, line, <<>>)
  <2>1. Whole(code, line, "nl") /\ Payment(code, part)
    BY <1>1, <1>5 DEF Edited, KeptOf
  <2>2. Occurrences(without, part) # {} /\ x.code = ReplaceFirst(without, part, CallFirst(part))
    BY <1>1, <1>5 DEF Edited
  <2>3. <<>> \in Seq(Lexemes) /\ Occurrences(code, line) # {}
    BY <2>1, EmptySeq DEF Whole
  <2>. HIDE DEF line, part
  <2>4. without \in Seq(Lexemes) /\ Opens(without) = Opens(code) - Opens(line) + Opens(<<>>) /\ Opens(line) \in Int
    BY <1>1, <2>3, ReplaceIs, ReplaceOpens
  <2>. HIDE DEF without
  <2>5. CallFirst(part) \in Seq(Lexemes) /\ Opens(CallFirst(part)) = Opens(part) /\ Opens(part) \in Int
    BY <1>1, <2>1, CallFirstOpens
  <2>6. Opens(x.code) = Opens(without) - Opens(part) + Opens(CallFirst(part))
    BY <1>1, <2>2, <2>4, <2>5, ReplaceOpens
  <2>7. Opens(x.code) = 0 <=> Opens(line) = 0
    BY <1>2, <2>4, <2>5, <2>6, OpensEmpty
  <2>. QED
    BY <1>5, <2>7 DEF BracesAre, line, x
<1>6. CASE processor = "AccessControl"
  <2>1. (Whole(code, line, "nl") /\ Has(line, "require")) \/ ModifierOf(code, line)
    BY <1>1, <1>6 DEF Edited, KeptOf
  <2>2. CASE Has(line, "require")
    <3>1. x.code = ReplaceFirst(code, line, <<>>)
      BY <1>1, <1>6, <2>2 DEF Edited
    <3>2. <<>> \in Seq(Lexemes) /\ Occurrences(code, line) # {}
      BY <2>1, EmptySeq DEF Whole, ModifierOf
    <3>. HIDE DEF line
    <3>3. Opens(x.code) = Opens(code) - Opens(line) + Opens(<<>>) /\ Opens(line) \in Int
      <4>. DEFINE none == <<>>
      <4>1. none \in Seq(Lexemes) /\ x.code = ReplaceFirst(code, line, none)
        BY <3>1, <3>2
      <4>. HIDE DEF none
      <4>2. Opens(x.code) = Opens(code) - Opens(line) + Opens(none) /\ Opens(line) \in Int
        BY <1>1, <3>2, <4>1, ReplaceOpens
      <4>. QED
        BY <4>2 DEF none
    <3>4. Opens(x.code) = 0 <=> Opens(line) = 0
      BY <1>2, <3>3, OpensEmpty
    <3>. QED
      BY <1>6, <3>4 DEF BracesAre, line, x
  <2>3. CASE ~Has(line, "require")
    <3>. DEFINE g == GluedWord(code, line)
               r == IF g = line THEN <<>> ELSE <<"glued">>
               u == <<"nl">>
               c == code \o u
    <3>1. x.code = ReplaceFirst(c, g, r)
      BY <1>1, <1>6, <2>3 DEF Edited
    <3>2. ModifierOf(code, line)
      BY <2>1, <2>3
    <3>3. "glued" \in Lexemes /\ "nl" \in Lexemes /\ "glued" \notin {Open, Close} /\ "nl" \notin {Open, Close}
      BY WordsListed, FourWords
    <3>4. r \in Seq(Lexemes) /\ Opens(r) = 0
      <4>. DEFINE one == <<"glued">>
      <4>1. one \in Seq(Lexemes) /\ \A y \in 1..Len(one) : one[y] \notin {Open, Close}
        BY <3>3
      <4>. HIDE DEF one
      <4>2. Opens(one) = 0
        BY <4>1, OpensNone
      <4>. QED
        BY <4>1, <4>2, EmptySeq, OpensEmpty DEF one
    <3>5. u \in Seq(Lexemes) /\ Opens(u) = 0
      <4>1. u \in Seq(Lexemes) /\ \A y \in 1..Len(u) : u[y] \notin {Open, Close}
        BY <3>3
      <4>. HIDE DEF u
      <4>. QED
        BY <4>1, OpensNone
    <3>6. g = GluedWord(code, line)
      OBVIOUS
    <3>. HIDE DEF g, r, u, line
    <3>7. g \in Seq(Lexemes) /\ Len(g) > 0 /\ Opens(g) = 0 /\ Occurrences(code, g) # {}
      BY <1>1, <3>2, <3>6, GluedOpens
    <3>8. Opens(line) = 0
      BY <1>1, <3>2, ModifierOpens
    <3>9. c \in Seq(Lexemes) /\ Opens(c) = 0 /\ Occurrences(c, g) # {}
      <4>1. PICK n \in Occurrences(code, g) : TRUE
        BY <3>7
      <4>2. n \in Occurrences(c, g)
        BY <1>1, <3>5, <3>7, <4>1, OccursMore
      <4>3. Opens(c) = Opens(code) + Opens(u) /\ c \in Seq(Lexemes)
        BY <1>1, <3>5, OpensConcat, ConcatProperties
      <4>. QED
        BY <1>2, <3>5, <4>2, <4>3
    <3>. HIDE DEF c
    <3>10. Opens(x.code) = Opens(c) - Opens(g) + Opens(r)
      BY <3>1, <3>4, <3>7, <3>9, ReplaceOpens
    <3>11. Opens(x.code) = 0
      BY <3>4, <3>7, <3>9, <3>10
    <3>. QED
      BY <1>6, <3>8, <3>11 DEF BracesAre, line, x
  <2>. QED
    BY <2>2, <2>3
<1>7. CASE processor = "UncheckedCall"
  <2>1. CallIn(code, line, part) /\ x.code = ReplaceFirst(code, line, Unchecked(line, part))
    BY <1>1, <1>7 DEF Edited, KeptOf
  <2>. HIDE DEF line, part
  <2>2. Len(line) > 0 /\ Occurrences(line, part) # {} /\ Occurrences(code, line) # {}
    BY <1>1, <2>1, LineIs DEF CallIn
  <2>3. Has(line, "if") \/ Has(line, "require") \/ Has(line, "=")
    BY <2>1 DEF CallIn
  <2>4. Unchecked(line, part) \in Seq(Lexemes)
    BY <1>1, <2>2, <2>3, UncheckedType
  <2>. DEFINE uses == Has(line, "if") \/ Has(line, "require")
  <2>5. /\ uses => Opens(Unchecked(line, part)) = Opens(line)
        /\ ~uses => Opens(Unchecked(line, part)) = Opens(part \o LeftOf(line))
        /\ Opens(line) \in Int /\ Opens(Unchecked(line, part)) \in Int
    BY <1>1, <2>2, <2>3, UncheckedOpens
  <2>6. Opens(x.code) = Opens(code) - Opens(line) + Opens(Unchecked(line, part))
    BY <1>1, <2>1, <2>2, <2>4, ReplaceOpens
  <2>. HIDE DEF uses
  <2>7. Opens(x.code) = 0 <=> uses \/ Opens(part \o LeftOf(line)) = Opens(line)
    BY <1>2, <2>5, <2>6
  <2>. QED
    BY <1>7, <2>7 DEF BracesAre, uses, line, part, x
<1>. QED
  BY <1>1, <1>3, <1>4, <1>5, <1>6, <1>7 DEF Injectors

\* The braces of an injected function match exactly when what Inject writes in place of the
\* line opens as many as the line did: a bound written if with its block, and no other; a
\* call's line, unless what is right of its first '=', the one of == included, held a brace.
THEOREM BracesKeptHolds == EditSpec => []BracesKept
BY EditInvHolds, BracesKeptFollows, PTL

-----------------------------------------------------------------------------
(* OnlyReentrancyThrows *)

\* A text in another line than the one that goes is found in what is left.
LEMMA OutsideStays ==
    ASSUME NEW V, NEW s \in Seq(V), NEW d, NEW line \in Seq(V), Whole(s, line, d),
           NEW part \in Seq(V), Len(part) > 0, NEW j \in 1..Parts(s, d), Occurrences(SplitString(s, d)[j], part) # {},
           Occurrences(ReplaceFirst(s, line, <<>>), part) = {}
    PROVE  j = Holder(s, line, d)
<1>. DEFINE q == Holder(s, line, d)
           u == Find(s, line)
           l == Len(line)
           p == Len(part)
           new == ReplaceFirst(s, line, <<>>)
           g == From(s, d, q)
           h == To(s, d, q)
           a == From(s, d, j)
           b == To(s, d, j)
           o == SplitString(s, d)[j]
<1>1. Within(line, d) /\ Occurrences(s, line) # {} /\ SplitString(s, d)[q] = line
  BY DEF Whole
<1>2. q \in 1..Parts(s, d) /\ g <= u /\ u + l <= h + 1
  BY <1>1, FirstHolder DEF HeldFirst
<1>3. /\ g \in 1..(Len(s) + 1) /\ h \in 0..Len(s) /\ l = h - g + 1
  BY <1>1, <1>2, PartIs
<1>4. u \in 1..(Len(s) - l + 1) /\ Len(s) \in Nat /\ l \in Nat /\ p \in Nat
  BY <1>1, FindIs
<1>5. new = Splice(s, u, u + l, <<>>) /\ new \in Seq(V) /\ u \in 1..(Len(s) + 1) /\ u + l \in u..(Len(s) + 1)
  <2>. DEFINE none == <<>>
  <2>1. none \in Seq(V)
    BY EmptySeq
  <2>. HIDE DEF none
  <2>2. /\ u \in 1..(Len(s) + 1) /\ u + l \in u..(Len(s) + 1)
        /\ ReplaceFirst(s, line, none) = Splice(s, u, u + l, none) /\ ReplaceFirst(s, line, none) \in Seq(V)
    BY <1>1, <2>1, ReplaceIs
  <2>. QED
    BY <2>2 DEF none
<1>. DEFINE v == u + l
<1>. HIDE DEF u, new, l, g, h
<1>6. u = g /\ v = h + 1 /\ v \in u..(Len(s) + 1)
  BY <1>2, <1>3, <1>4
<1>7. /\ Len(new) = Len(s) - l /\ (\A x \in 1..(u - 1) : new[x] = s[x]) /\ (\A x \in v..Len(s) : new[x - l] = s[x])
  <2>. DEFINE none == <<>>
  <2>1. none \in Seq(V) /\ Len(none) = 0 /\ new = Splice(s, u, v, none)
    BY <1>5, EmptySeq
  <2>. HIDE DEF none, v
  <2>2. /\ Len(Splice(s, u, v, none)) = Len(s) - (v - u) + Len(none)
        /\ \A x \in 1..(u - 1) : Splice(s, u, v, none)[x] = s[x]
        /\ \A x \in v..Len(s) : Splice(s, u, v, none)[x - (v - u) + Len(none)] = s[x]
    <3>1. u \in 1..(Len(s) + 1) /\ v \in u..(Len(s) + 1) /\ none \in Seq(V) /\ s \in Seq(V)
      BY <1>5, <1>6, <2>1
    <3>2. Splice(s, u, v, none) \in Seq(V) /\ Len(Splice(s, u, v, none)) = Len(s) - (v - u) + Len(none)
      BY <3>1, SpliceIs
    <3>3. \A x \in 1..(u - 1) : Splice(s, u, v, none)[x] = s[x]
      BY <3>1, SpliceIs
    <3>4. \A x \in v..Len(s) : Splice(s, u, v, none)[x - (v - u) + Len(none)] = s[x]
      BY <3>1, SpliceIs
    <3>. QED
      BY <3>2, <3>3, <3>4
  <2>3. v - u = l
    BY <1>4, <1>5 DEF v
  <2>4. \A x \in v..Len(s) : x - (v - u) + Len(none) = x - l
    BY <1>4, <1>6, <2>1, <2>3
  <2>. QED
    BY <1>4, <2>1, <2>2, <2>3, <2>4
<1>. HIDE DEF v
<1>8. PICK m \in Occurrences(o, part) : TRUE
  OBVIOUS
<1>. DEFINE n == a + m - 1
<1>9. n \in Occurrences(s, part)
  BY <1>8, PartOccurs
<1>10. /\ a \in 1..(Len(s) + 1) /\ b \in 0..Len(s)
       /\ o \in Seq(V) /\ Len(o) = b - a + 1
  BY PartIs
<1>11. m \in 1..(Len(o) - p + 1)
  BY <1>8, <1>10, OccursIs
<1>. HIDE DEF a, b, o, p
<1>12. n \in Nat /\ a <= n /\ n + p - 1 <= b
  BY <1>4, <1>10, <1>11
<1>. HIDE DEF n
<1>13. n \in 1..(Len(s) - p + 1) /\ \A x \in 1..p : s[n + x - 1] = part[x]
  BY <1>9, OccursIs DEF p
<1>14. ~(j < q)
  <2>. SUFFICES ASSUME j < q PROVE FALSE
    OBVIOUS
  <2>1. b + 1 < g
    BY <1>2, PartsApart DEF a, b, g, h
  <2>2. n + p - 1 < u
    BY <1>3, <1>4, <1>6, <1>10, <1>12, <2>1
  <2>3. ASSUME NEW x \in 1..p PROVE new[n + x - 1] = part[x]
    <3>1. n + x - 1 \in 1..(u - 1)
      BY <1>3, <1>4, <1>6, <1>12, <1>13, <2>2
    <3>. QED
      BY <1>7, <1>13, <3>1
  <2>4. n \in 1..(Len(new) - p + 1)
    <3>1. Len(new) = Len(s) - l /\ n \in 1..(Len(s) - p + 1)
      BY <1>7, <1>13
    <3>. QED
      BY <1>4, <2>2, <3>1
  <2>5. n \in Occurrences(new, part)
    BY <1>5, <2>3, <2>4, OccursIs DEF p
  <2>. QED
    BY <2>5 DEF new
<1>15. ~(q < j)
  <2>. SUFFICES ASSUME q < j PROVE FALSE
    OBVIOUS
  <2>. DEFINE y == n - l
  <2>1. h + 1 < a
    BY <1>2, PartsApart DEF a, b, g, h
  <2>2. v < n
    BY <1>3, <1>4, <1>6, <1>10, <1>12, <2>1
  <2>3. ASSUME NEW x \in 1..p PROVE new[y + x - 1] = part[x]
    <3>1. n + x - 1 \in v..Len(s) /\ (n + x - 1) - l = y + x - 1
      BY <1>4, <1>6, <1>13, <2>2
    <3>2. new[(n + x - 1) - l] = s[n + x - 1]
      BY <1>7, <3>1
    <3>. QED
      BY <1>13, <3>1, <3>2
  <2>4. y \in 1..(Len(new) - p + 1)
    BY <1>4, <1>6, <1>7, <1>13, <2>2 DEF v
  <2>. HIDE DEF y
  <2>5. y \in Occurrences(new, part)
    BY <1>5, <2>3, <2>4, OccursIs DEF p
  <2>. QED
    BY <2>5 DEF new
<1>16. Parts(s, d) \in Nat
  BY PartsType
<1>17. j = q
  BY <1>2, <1>14, <1>15, <1>16
<1>. QED
  BY <1>17 DEF q

\* OnlyReentrancyThrows follows from the invariant.
LEMMA OnlyReentrancyThrowsFollows == EditInv => OnlyReentrancyThrows
<1>. SUFFICES ASSUME EditInv, stage = "out_of_range"
             PROVE  LET holders == {j \in 1..Len(SplitString(code, "nl")) : Occurrences(SplitString(code, "nl")[j], Info.part) # {}}
                    IN  processor = "Reentrancy" /\ \A j \in holders : SplitString(code, "nl")[j] = Info.line /\ Cardinality(holders) = 1
  BY DEF OnlyReentrancyThrows
<1>. DEFINE line == Info.line
           part == Info.part
           lines == SplitString(code, "nl")
           holders == {j \in 1..Len(lines) : Occurrences(lines[j], part) # {}}
           q == Holder(code, line, "nl")
<1>1. /\ processor = "Reentrancy" /\ Site("Reentrancy", code, Info) /\ Occurrences(ReplaceFirst(code, line, <<>>), part) = {}
  BY DEF EditInv
<1>2. /\ Whole(code, line, "nl") /\ Payment(code, part) /\ line \in Seq(Lexemes) /\ part \in Seq(Lexemes)
  BY <1>1 DEF Site, KeptOf, Entries
<1>3. code \in Seq(Lexemes)
  BY TextIs, FunctionText DEF EditInv
<1>4. Len(lines) = Parts(code, "nl")
  BY <1>3, PartsType
<1>. HIDE DEF line, part
<1>5. ASSUME NEW j \in holders PROVE j = q
  <2>1. j \in 1..Parts(code, "nl") /\ Occurrences(SplitString(code, "nl")[j], part) # {} /\ Len(part) > 0
    BY <1>2, <1>4 DEF Payment
  <2>. QED
    BY <1>1, <1>2, <1>3, <2>1, OutsideStays, ZenonT(60)
<1>6. lines[q] = line
  BY <1>2 DEF Whole
<1>7. ASSUME NEW j \in holders PROVE lines[j] = line /\ Cardinality(holders) = 1
  <2>1. j = q
    BY <1>5, <1>7
  <2>2. holders = {q}
    <3>. HIDE DEF holders, q
    <3>. QED
      BY <1>5, <2>1
  <2>3. Cardinality({q}) = 1
    BY FS_Singleton
  <2>. QED
    BY <1>6, <2>1, <2>2, <2>3
<1>. QED
  BY <1>1, <1>7 DEF line, part

\* std::string::replace throws out_of_range only in ReentrancyProcessor's Inject, and only
\* when the assignment to be moved stood, alone of its kind, in the payment's line, which
\* Inject has removed before it searches.
THEOREM OnlyReentrancyThrowsHolds == EditSpec => []OnlyReentrancyThrows
BY EditInvHolds, OnlyReentrancyThrowsFollows, PTL

-----------------------------------------------------------------------------
(* CallBeforeUpdate *)

\* Where the first assignment of a text is replaced by itself with a call before it,
\* no such assignment is found up to that call.
LEMMA SentFirst ==
    ASSUME NEW c \in Seq(Lexemes), NEW s, NEW part \in Seq(Lexemes), Payment(s, part), Occurrences(c, part) # {},
           NEW t, t = ReplaceFirst(c, part, CallFirst(part)), NEW n \in Occurrences(t, part)
    PROVE  Find(t, <<".call.value(">>) < n
<1>. DEFINE f == Find(c, part)
           z == Sent(part)
           r == z \o part
           call == <<".call.value(">>
<1>1. /\ Len(part) = 3 /\ part[1] \in Uints /\ part[2] \in {"=", "-="} /\ part[3] \in Uints \cup {"0"}
  BY DEF Payment
<1>2. z \in Seq(Lexemes)
  BY SentIs
<1>3. \/ Len(z) = 6 /\ z[1] \in {part[1], "o"} /\ z[2] = ".call.value("
      \/ Len(z) = 10 /\ z[1] = "uint" /\ z[2] = "VAR0" /\ z[3] = Semicolon /\ z[4] = "nl" /\ z[5] = "msg.sender" /\ z[6] = ".call.value("
  BY SentIs
<1>4. CallFirst(part) = r
  BY CallFirstIs
<1>. HIDE DEF z
<1>5. r \in Seq(Lexemes) /\ Len(r) = Len(z) + 3 /\ \A x \in 1..Len(z) : r[x] = z[x]
  <2>1. \A x \in 1..Len(z) : (z \o part)[x] = z[x]
    BY <1>2, JoinedAt
  <2>2. z \o part \in Seq(Lexemes) /\ Len(z \o part) = Len(z) + Len(part)
    BY <1>2, JoinedAt
  <2>. QED
    BY <1>1, <2>1, <2>2
<1>. HIDE DEF r
<1>6. f \in Occurrences(c, part) /\ f \in 1..(Len(c) - 2) /\ \A m \in Occurrences(c, part) : f <= m
  <2>1. f \in Occurrences(c, part) /\ f \in 1..(Len(c) - Len(part) + 1) /\ \A m \in Occurrences(c, part) : f <= m
    BY FindIs
  <2>. HIDE DEF f
  <2>2. Len(c) - Len(part) + 1 = Len(c) - 2 /\ Len(c) \in Nat
    BY <1>1
  <2>. QED
    BY <2>1, <2>2
<1>7. t = Splice(c, f, f + 3, r) /\ f \in 1..(Len(c) + 1) /\ f + 3 \in f..(Len(c) + 1)
  <2>1. ReplaceFirst(c, part, r) = Splice(c, f, f + Len(part), r)
    BY <1>5, ReplaceIs
  <2>2. t = Splice(c, f, f + Len(part), r) /\ f + Len(part) = f + 3
    BY <1>1, <1>4, <2>1
  <2>. HIDE DEF f
  <2>. QED
    BY <1>6, <2>2
<1>. HIDE DEF f
<1>8. /\ t \in Seq(Lexemes) /\ Len(t) = Len(c) - 3 + Len(r)
      /\ (\A x \in 1..(f - 1) : t[x] = c[x]) /\ (\A x \in 1..Len(r) : t[f - 1 + x] = r[x])
  <2>. DEFINE v == f + 3
  <2>1. v \in f..(Len(c) + 1) /\ v - f = 3 /\ t = Splice(c, f, v, r)
    BY <1>6, <1>7
  <2>. HIDE DEF v
  <2>2. /\ Splice(c, f, v, r) \in Seq(Lexemes) /\ Len(Splice(c, f, v, r)) = Len(c) - (v - f) + Len(r)
        /\ \A x \in 1..(f - 1) : Splice(c, f, v, r)[x] = c[x]
        /\ \A x \in 1..Len(r) : Splice(c, f, v, r)[f - 1 + x] = r[x]
    <3>1. f \in 1..(Len(c) + 1) /\ v \in f..(Len(c) + 1) /\ r \in Seq(Lexemes) /\ c \in Seq(Lexemes)
      BY <1>5, <1>7, <2>1
    <3>2. Splice(c, f, v, r) \in Seq(Lexemes) /\ Len(Splice(c, f, v, r)) = Len(c) - (v - f) + Len(r)
      BY <3>1, SpliceIs
    <3>3. \A x \in 1..(f - 1) : Splice(c, f, v, r)[x] = c[x]
      BY <3>1, SpliceIs
    <3>4. \A x \in 1..Len(r) : Splice(c, f, v, r)[f - 1 + x] = r[x]
      BY <3>1, SpliceIs
    <3>. QED
      BY <3>2, <3>3, <3>4
  <2>. QED
    BY <2>1, <2>2
<1>9. \A x \in 1..Len(z) : t[f - 1 + x] = z[x]
  <2>1. \A x \in 1..Len(z) : x \in 1..Len(r)
    BY <1>2, <1>5
  <2>. QED
    BY <1>5, <1>8, <2>1
<1>10. c[f] = part[1] /\ c[f + 1] = part[2] /\ c[f + 2] = part[3]
  <2>1. \A x \in 1..3 : c[f + x - 1] = part[x]
    <3>1. \A x \in 1..Len(part) : c[f + x - 1] = part[x]
      BY <1>6, OccursIs
    <3>. QED
      BY <1>1, <3>1
  <2>2. 1 \in 1..3 /\ 2 \in 1..3 /\ 3 \in 1..3 /\ f + 1 - 1 = f /\ f + 2 - 1 = f + 1 /\ f + 3 - 1 = f + 2
    BY <1>6
  <2>. QED
    BY <2>1, <2>2
<1>11. n \in Nat \ {0} /\ t[n] = part[1] /\ t[n + 1] = part[2] /\ t[n + 2] = part[3]
  <2>1. n \in 1..(Len(t) - 3 + 1) /\ \A x \in 1..3 : t[n + x - 1] = part[x]
    <3>1. n \in 1..(Len(t) - Len(part) + 1) /\ \A x \in 1..Len(part) : t[n + x - 1] = part[x]
      BY <1>8, OccursIs
    <3>. QED
      BY <1>1, <3>1
  <2>2. 1 \in 1..3 /\ 2 \in 1..3 /\ 3 \in 1..3 /\ n + 1 - 1 = n /\ n + 2 - 1 = n + 1 /\ n + 3 - 1 = n + 2
    BY <2>1
  <2>. QED
    BY <2>1, <2>2
<1>12. part[1] \notin {"nl", "=", "-=", ".call.value(", Semicolon, "0", "o", "uint"}
       /\ part[3] \notin {"o", "uint"} /\ part[2] \notin {"o", "uint", "VAR0", ".call.value(", Semicolon}
       /\ part[1] # part[2]
  BY <1>1, UintsApart, FourWords
<1>13. ASSUME NEW m \in 1..(f - 1), c[m] = part[1], c[m + 1] = part[2], c[m + 2] = part[3] PROVE FALSE
  <2>1. m \in 1..(Len(c) - Len(part) + 1)
    BY <1>1, <1>6
  <2>2. ASSUME NEW x \in 1..Len(part) PROVE c[m + x - 1] = part[x]
    <3>1. (x = 1 /\ m + x - 1 = m) \/ (x = 2 /\ m + x - 1 = m + 1) \/ (x = 3 /\ m + x - 1 = m + 2)
      BY <1>1
    <3>. QED
      BY <1>13, <3>1
  <2>3. m \in Occurrences(c, part)
    BY <2>1, <2>2, OccursIs
  <2>. QED
    BY <1>6, <2>3
<1>14. ~(n <= f - 3)
  <2>. SUFFICES ASSUME n <= f - 3 PROVE FALSE
    OBVIOUS
  <2>1. n \in 1..(f - 1) /\ n + 1 \in 1..(f - 1) /\ n + 2 \in 1..(f - 1)
    BY <1>6, <1>11
  <2>. QED
    BY <1>8, <1>11, <1>13, <2>1
<1>15. 1 \in 1..Len(z) /\ 2 \in 1..Len(z) /\ t[f] = z[1] /\ t[f + 1] = z[2]
  <2>1. 1 \in 1..Len(z) /\ 2 \in 1..Len(z) /\ f - 1 + 1 = f /\ f - 1 + 2 = f + 1
    BY <1>3, <1>6
  <2>. QED
    BY <1>9, <2>1
<1>16. n # f - 2
  <2>. SUFFICES ASSUME n = f - 2 PROVE FALSE
    OBVIOUS
  <2>1. n \in 1..(f - 1) /\ n + 1 \in 1..(f - 1) /\ n + 2 = f
    BY <1>6, <1>11
  <2>2. c[n] = part[1] /\ c[n + 1] = part[2] /\ z[1] = part[3]
    BY <1>8, <1>11, <1>15, <2>1
  <2>3. z[1] = part[1]
    BY <1>3, <1>12, <2>2
  <2>4. c[n + 2] = part[3]
    BY <1>10, <2>1, <2>2, <2>3
  <2>. QED
    BY <1>13, <2>1, <2>2, <2>4
<1>17. n # f - 1
  <2>. SUFFICES ASSUME n = f - 1 PROVE FALSE
    OBVIOUS
  <2>1. n + 1 = f
    BY <1>6
  <2>2. z[1] = part[2]
    BY <1>11, <1>15, <2>1
  <2>. QED
    BY <1>3, <1>12, <2>2
<1>18. n # f
  <2>. SUFFICES ASSUME n = f PROVE FALSE
    OBVIOUS
  <2>1. z[2] = part[2]
    BY <1>11, <1>15
  <2>. QED
    BY <1>3, <1>12, <2>1
<1>19. call \in Seq(Lexemes) /\ Len(call) = 1 /\ call[1] = ".call.value("
  <2>1. ".call.value(" \in Lexemes
    BY WordsListed
  <2>. QED
    BY <2>1
<1>. HIDE DEF call
<1>20. ASSUME NEW m \in 1..Len(t), t[m] = ".call.value(" PROVE Find(t, call) <= m /\ Find(t, call) \in Nat
  <2>1. m \in 1..(Len(t) - Len(call) + 1)
    BY <1>8, <1>19
  <2>2. ASSUME NEW x \in 1..Len(call) PROVE t[m + x - 1] = call[x]
    <3>1. x = 1 /\ m + x - 1 = m
      BY <1>19
    <3>. QED
      BY <1>19, <1>20, <3>1
  <2>3. m \in Occurrences(t, call)
    BY <1>8, <1>19, <2>1, <2>2, OccursIs
  <2>4. Find(t, call) \in 1..(Len(t) - Len(call) + 1) /\ \A y \in Occurrences(t, call) : Find(t, call) <= y
    <3>1. Occurrences(t, call) # {}
      BY <2>3
    <3>. QED
      BY <1>8, <1>19, <3>1, FindIs
  <2>. QED
    BY <2>3, <2>4
<1>21. n > f /\ Len(t) \in Nat /\ f \in Nat /\ Len(c) \in Nat
  BY <1>6, <1>8, <1>11, <1>14, <1>16, <1>17, <1>18
<1>22. CASE Len(z) = 6 /\ z[2] = ".call.value("
  <2>1. n # f + 1
    BY <1>11, <1>12, <1>15, <1>22
  <2>2. f + 1 \in 1..Len(t)
    BY <1>5, <1>6, <1>8, <1>21, <1>22
  <2>3. Find(t, call) <= f + 1 /\ Find(t, call) \in Nat
    BY <1>15, <1>20, <1>22, <2>2
  <2>. QED
    BY <1>11, <1>21, <2>1, <2>3 DEF call
<1>23. CASE Len(z) = 10 /\ z[3] = Semicolon /\ z[4] = "nl" /\ z[6] = ".call.value("
  <2>1. t[f + 2] = Semicolon /\ t[f + 3] = "nl" /\ t[f + 5] = ".call.value("
    <3>1. 3 \in 1..Len(z) /\ 4 \in 1..Len(z) /\ 6 \in 1..Len(z) /\ f - 1 + 3 = f + 2 /\ f - 1 + 4 = f + 3 /\ f - 1 + 6 = f + 5
      BY <1>21, <1>23
    <3>. QED
      BY <1>9, <1>23, <3>1
  <2>2. n # f + 1
    <3>1. f + 1 + 1 = f + 2
      BY <1>21
    <3>. QED
      BY <1>11, <1>12, <2>1, <3>1
  <2>3. n # f + 2 /\ n # f + 3 /\ n # f + 5
    BY <1>11, <1>12, <2>1
  <2>4. n # f + 4
    <3>1. f + 4 + 1 = f + 5
      BY <1>21
    <3>. QED
      BY <1>11, <1>12, <2>1, <3>1
  <2>5. n > f + 5
    BY <1>11, <1>21, <2>2, <2>3, <2>4
  <2>6. f + 5 \in 1..Len(t)
    BY <1>5, <1>6, <1>8, <1>21, <1>23
  <2>7. Find(t, call) <= f + 5 /\ Find(t, call) \in Nat
    BY <1>20, <2>1, <2>6
  <2>. QED
    BY <1>11, <1>21, <2>5, <2>7 DEF call
<1>. QED
  BY <1>3, <1>22, <1>23

\* CallBeforeUpdate follows from the invariant.
LEMMA CallBeforeUpdateFollows == EditInv => CallBeforeUpdate
<1>. SUFFICES ASSUME EditInv, NEW e \in Injected, processor = "Reentrancy",
                    NEW n \in Occurrences(inject_info[e].code, inject_info[e].part)
             PROVE  Find(inject_info[e].code, <<".call.value(">>) < n
  BY DEF CallBeforeUpdate
<1>. DEFINE x == inject_info[e]
           line == x.line
           part == x.part
           without == ReplaceFirst(code, line, <<>>)
<1>1. /\ Edited("Reentrancy", code, x) /\ code \in Seq(Lexemes) /\ line \in Seq(Lexemes) /\ part \in Seq(Lexemes)
  BY InjectedIs
<1>. HIDE DEF x
<1>2. Whole(code, line, "nl") /\ Payment(code, part)
  BY <1>1 DEF Edited, KeptOf
<1>3. Occurrences(without, part) # {} /\ x.code = ReplaceFirst(without, part, CallFirst(part))
  BY <1>1 DEF Edited
<1>4. n \in Occurrences(x.code, part)
  BY DEF x
<1>. HIDE DEF line, part
<1>5. without \in Seq(Lexemes)
  <2>1. <<>> \in Seq(Lexemes) /\ Occurrences(code, line) # {}
    BY <1>2, EmptySeq DEF Whole
  <2>. QED
    BY <1>1, <2>1, ReplaceIs
<1>. HIDE DEF without
<1>6. Find(x.code, <<".call.value(">>) < n
  <2>. DEFINE t == x.code
  <2>1. t = ReplaceFirst(without, part, CallFirst(part)) /\ n \in Occurrences(t, part)
    BY <1>3, <1>4
  <2>. HIDE DEF t
  <2>2. Find(t, <<".call.value(">>) < n
    BY <1>1, <1>2, <1>3, <1>5, <2>1, SentFirst
  <2>. QED
    BY <2>2 DEF t
<1>. QED
  BY <1>6 DEF x

\* A function that ReentrancyProcessor labels reentrant calls out before any of the
\* assignments to what it pays from: whatever the injected call's line is put before is the
\* first of them.
THEOREM CallBeforeUpdateHolds == EditSpec => []CallBeforeUpdate
BY EditInvHolds, CallBeforeUpdateFollows, PTL

=============================================================================

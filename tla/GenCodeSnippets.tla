--------------------------- MODULE GenCodeSnippets ---------------------------
(***************************************************************************)
(* Processor::GenCodeSnippets on the tokens of one function: the names the *)
(* file defines become CONTRACTn, FUNCn, STRUCTn and VARn, numbers NUM.    *)
(* The result is what DumpCodeSnippets tells repeats by and the model      *)
(* learns from, so equal names must stay equal and distinct ones distinct. *)
(*                                                                         *)
(* Data.  A literal is a pair: <<"word", w>> for a word of the source,     *)
(* <<"VAR", 2>> for the text VAR2, which a source may hold too:            *)
(* Reentrancy's Inject writes VAR0 into the code.                          *)
(***************************************************************************)
EXTENDS Integers, Sequences, FiniteSets

CONSTANTS
    Words,        \* the literals the lexer finds
    Numbers,      \* all_num: the values of the file's literals, strings and booleans too
    FuncMaps,     \* what func_def_map may be
    AllMaps,      \* what all_def_map may be
    MaxTokens     \* bound: tokens of a function

DefTypes == {"CONTRACT", "FUNC", "STRUCT", "VAR"}
DefMap == [Words -> DefTypes \cup {"UNKNOWN"}]   \* UNKNOWN: the map has no such key

W(w) == <<"word", w>>
NUM == <<"NUM", 0>>
NewNames == DefTypes \X (Nat \ {0})

ASSUME MapsAssumption == FuncMaps \subseteq DefMap /\ AllMaps \subseteq DefMap
ASSUME NumbersAssumption == Numbers \subseteq Words /\ NUM \notin Words
ASSUME MaxTokensAssumption == MaxTokens \in Nat

VARIABLES
    func_def_map, all_def_map,
    words,         \* the literals as the lexer left them
    token_flow,    \* the literals now
    replace_map,   \* for each type, the numbers of its words
    i

vars == <<func_def_map, all_def_map, words, token_flow, replace_map, i>>

Init ==
    /\ func_def_map \in FuncMaps /\ all_def_map \in AllMaps
    /\ words \in UNION {[1..n -> Words] : n \in 0..MaxTokens}
    /\ token_flow = words
    /\ replace_map = [t \in DefTypes |-> [w \in {} |-> 0]]
    /\ i = 1

Tokens == 1..Len(words)
Word == words[i]

\* tx.origin, add and sub, and the value of call.value, whose call may have been renamed.
Protected ==
    \/ Word \in {W("tx"), W("origin"), W("add"), W("sub")}
    \/ Word = W("value") /\ i > 2 /\ token_flow[i - 2] = W("call")

TypeOfMutant(w) == IF all_def_map[w] # "UNKNOWN" THEN all_def_map[w] ELSE func_def_map[w] \* the file's goes first
TypeOf(w) == IF func_def_map[w] # "UNKNOWN" THEN func_def_map[w] ELSE all_def_map[w]

ReplaceLiteral(l) == token_flow' = [token_flow EXCEPT ![i] = l]
NextToken == i' = i + 1 /\ UNCHANGED <<func_def_map, all_def_map, words>>

KeepProtected ==
    /\ i \in Tokens /\ Protected
    /\ NextToken /\ UNCHANGED <<token_flow, replace_map>>

\* A word of no definition stays, unless it is the value of a literal.
KeepUndefined ==
    /\ i \in Tokens /\ ~Protected /\ TypeOf(Word) = "UNKNOWN"
    /\ ReplaceLiteral(IF Word \in Numbers THEN NUM ELSE Word)
    /\ NextToken /\ UNCHANGED replace_map

NameAgain ==
    /\ i \in Tokens /\ ~Protected
    /\ \E t \in DefTypes :
        /\ TypeOf(Word) = t /\ Word \in DOMAIN replace_map[t]
        /\ ReplaceLiteral(<<t, replace_map[t][Word]>>)
    /\ NextToken /\ UNCHANGED replace_map

\* The number is the size before the insertion, C++17 evaluating the right side first, plus one.
NextNumberMutant(t) == Cardinality(DOMAIN replace_map[t]) \* counted from 0
NextNumber(t) == Cardinality(DOMAIN replace_map[t]) + 1
WithName(names, w, n) == [v \in DOMAIN names \cup {w} |-> IF v = w THEN n ELSE names[v]]

NameFirstMutant == \* the name given is not kept
    /\ i \in Tokens /\ ~Protected
    /\ \E t \in DefTypes :
        /\ TypeOf(Word) = t /\ Word \notin DOMAIN replace_map[t]
        /\ ReplaceLiteral(<<t, NextNumber(t)>>)
    /\ NextToken /\ UNCHANGED replace_map
NameFirst ==
    /\ i \in Tokens /\ ~Protected
    /\ \E t \in DefTypes :
        /\ TypeOf(Word) = t /\ Word \notin DOMAIN replace_map[t]
        /\ replace_map' = [replace_map EXCEPT ![t] = WithName(replace_map[t], Word, NextNumber(t))]
        /\ ReplaceLiteral(<<t, NextNumber(t)>>)
    /\ NextToken

Next == KeepProtected \/ KeepUndefined \/ NameAgain \/ NameFirst

Spec == Init /\ [][Next]_vars

-----------------------------------------------------------------------------
(* Properties *)

Done == {p \in Tokens : p < i}
Type(w) == IF func_def_map[w] \in DefTypes THEN func_def_map[w] ELSE all_def_map[w]

\* Words that the protection leaves in some places and not in others.
Ambiguous == {W("value")}

\* Words that all become NUM.
Merged == {w \in Numbers : Type(w) = "UNKNOWN"}

TypeOK ==
    /\ func_def_map \in DefMap /\ all_def_map \in DefMap
    /\ words \in Seq(Words)
    /\ token_flow \in Seq(Words \cup {NUM} \cup NewNames) /\ Len(token_flow) = Len(words)
    /\ i \in 1..(Len(words) + 1)
    /\ DOMAIN replace_map = DefTypes
    /\ \A t \in DefTypes : /\ IsFiniteSet(DOMAIN replace_map[t]) /\ DOMAIN replace_map[t] \subseteq Words
                           /\ replace_map[t] \in [DOMAIN replace_map[t] -> Nat \ {0}]

\* Renaming merges no two words and splits none: two functions get one token flow only
\* if they are the same up to the names they define, as the removal of repeats supposes.
\* Apart are words that look like a new name (an injected VAR0 does not), numbers, true and
\* false, and an undefined word the file also has as a string; a defined one is renamed still.
NamesDistinct ==
    \A p, q \in Done :
        {words[p], words[q]} \cap (Merged \cup NewNames \cup Ambiguous) = {}
            => (token_flow[p] = token_flow[q] <=> words[p] = words[q])

\* The words of type t renamed so far, up to position p.
Named(t, p) == {words[q] : q \in {r \in Done : r <= p /\ Type(words[r]) = t /\ token_flow[r] \in NewNames}}

\* Names are numbered from 1 in the order in which they first occur, each type on its
\* own: the flow does not depend on the names the author chose.
NamesCanonical ==
    \A p \in Done :
        LET t == Type(words[p])
        IN  (t \in DefTypes /\ token_flow[p] \in NewNames /\ words[p] \notin Named(t, p - 1))
                => token_flow[p] = <<t, Cardinality(Named(t, p))>>

\* The VAR0 that Reentrancy's Inject writes into the code is never the name given to a
\* variable of the function (reentrancy_processor.h:132).
InjectedNameFresh ==
    \A p \in Done : token_flow[p] = <<"VAR", 0>> => words[p] = <<"VAR", 0>>

=============================================================================

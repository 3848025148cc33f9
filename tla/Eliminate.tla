------------------------------ MODULE Eliminate ------------------------------
(***************************************************************************)
(* Processor::Eliminate on the code of one function: the lines that hold a *)
(* detect token are kept, and for a kept line that ends in '{' the line    *)
(* that closes it, found by counting the braces at line ends.              *)
(*                                                                         *)
(* Data.  A line is abstracted to whether a detect token occurs in it and  *)
(* to its last character.  back() of an empty line, which Inject leaves    *)
(* where it removes one, reads the zero byte before the string's buffer:   *)
(* it is neither brace.                                                    *)
(***************************************************************************)
EXTENDS Integers, Sequences, FiniteSets

CONSTANT MaxLines   \* bound: lines of a function
ASSUME MaxLinesAssumption == MaxLines \in Nat

VARIABLES
    line_part,   \* the code, split at its newlines
    detects,     \* detect_token is not empty
    need,        \* the line numbers marked
    i, j, st,    \* loop variables and the brace depth
    phase,
    code         \* what info.code ends as: line numbers of the code it had

vars == <<line_part, detects, need, i, j, st, phase, code>>

Ends == {"{", "}", "other"}
Line == [tok : BOOLEAN, last : Ends]
Phases == {"begin", "scan", "match", "done"}

Init ==
    /\ line_part \in UNION {[1..n -> Line] : n \in 0..MaxLines}
    /\ detects \in BOOLEAN
    /\ ~detects => \A n \in 1..Len(line_part) : ~line_part[n].tok
    /\ need = {} /\ i = 1 /\ j = 1 /\ st = 0
    /\ phase = "begin"
    /\ code = {}

Lines == 1..Len(line_part)
Opens(n) == line_part[n].last = "{"
Closes(n) == line_part[n].last = "}"

Begin ==
    /\ phase = "begin"
    /\ \/ ~detects /\ phase' = "done" /\ code' = Lines
       \/ detects /\ phase' = "scan" /\ UNCHANGED code
    /\ UNCHANGED <<line_part, detects, need, i, j, st>>

\* A line without a token, or already marked as the end of a block.
PassLine ==
    /\ phase = "scan" /\ i \in Lines
    /\ i \in need \/ ~line_part[i].tok
    /\ i' = i + 1
    /\ UNCHANGED <<line_part, detects, need, j, st, phase, code>>

FirstAfterMutant == i \* the opener is counted again
FirstAfter == i + 1

MarkLine ==
    /\ phase = "scan" /\ i \in Lines \ need /\ line_part[i].tok
    /\ need' = need \cup {i}
    /\ \/ Opens(i) /\ phase' = "match" /\ j' = FirstAfter /\ st' = 1 /\ UNCHANGED i
       \/ ~Opens(i) /\ i' = i + 1 /\ UNCHANGED <<phase, j, st>>
    /\ UNCHANGED <<line_part, detects, code>>

Delta(n) == IF Opens(n) THEN 1 ELSE IF Closes(n) THEN -1 ELSE 0

MatchLineMutant == \* no break
    /\ phase = "match" /\ j \in Lines
    /\ st' = st + Delta(j)
    /\ need' = IF st' = 0 THEN need \cup {j} ELSE need
    /\ j' = j + 1
    /\ UNCHANGED <<line_part, detects, i, phase, code>>
MatchLine ==
    /\ phase = "match" /\ j \in Lines
    /\ st' = st + Delta(j)
    /\ \/ st' = 0 /\ need' = need \cup {j} /\ phase' = "scan" /\ i' = i + 1 /\ UNCHANGED j
       \/ st' # 0 /\ j' = j + 1 /\ UNCHANGED <<need, phase, i>>
    /\ UNCHANGED <<line_part, detects, code>>

MatchEnds ==
    /\ phase = "match" /\ j \notin Lines
    /\ phase' = "scan" /\ i' = i + 1
    /\ UNCHANGED <<line_part, detects, need, j, st, code>>

Rebuild ==
    /\ phase = "scan" /\ i \notin Lines
    /\ code' = need
    /\ phase' = "done"
    /\ UNCHANGED <<line_part, detects, need, i, j, st>>

Next == Begin \/ PassLine \/ MarkLine \/ MatchLine \/ MatchEnds \/ Rebuild

Spec == Init /\ [][Next]_vars

-----------------------------------------------------------------------------
(* Properties *)

TypeOK ==
    /\ line_part \in Seq(Line) /\ Len(line_part) <= MaxLines /\ detects \in BOOLEAN
    /\ need \subseteq Lines /\ code \subseteq Lines
    /\ i \in 1..(MaxLines + 1) /\ j \in 1..(MaxLines + 1) /\ st \in Nat
    /\ phase \in Phases

\* The depth of the block opened at line a after line b, and the line that closes it.
Depth(a, b) == 1 + Cardinality({n \in (a + 1)..b : Opens(n)}) - Cardinality({n \in (a + 1)..b : Closes(n)})
Closer(a, b) == b > a /\ Depth(a, b) = 0 /\ \A c \in a..(b - 1) : Depth(a, c) > 0

Holding == {n \in Lines : line_part[n].tok}
Wanted == Holding \cup {b \in Lines : \E a \in Holding : Opens(a) /\ Closer(a, b)}

\* The slice is exactly the lines that hold a token and the lines that close the
\* blocks those open, whichever lines were marked first.
SliceIsWanted == phase = "done" /\ detects => code = Wanted

\* A sequence of line numbers, in order, is nested.
Nested(S) ==
    /\ Cardinality({n \in S : Opens(n)}) = Cardinality({n \in S : Closes(n)})
    /\ \A m \in S : Cardinality({n \in S : n <= m /\ Closes(n)}) <= Cardinality({n \in S : n <= m /\ Opens(n)})

\* Of nested code whose closing lines hold no token, the slice is nested too:
\* the snippet the lexer and the model see has no dangling brace.
SliceIsNested ==
    phase = "done" /\ Nested(Lines) /\ (\A n \in Lines : Closes(n) => ~line_part[n].tok)
        => Nested(code)

=============================================================================

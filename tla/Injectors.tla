----------------------------- MODULE Injectors ------------------------------
(***************************************************************************)
(* ExtractInject and Inject of the five injectors on the text of one       *)
(* function.  ExtractInject looks for lines that guard something and keeps *)
(* the function twice, as secure and to be injected into; Inject edits the *)
(* second by searching for the kept line and replacing it.                 *)
(*                                                                         *)
(* Data.  A text is a sequence of words, "nl" among them.  A search for a  *)
(* short text such as "if" or "=" also finds it inside a longer word:      *)
(* Inside says in which.  The tree's nodes are the places of the text they stand for; the *)
(* order of the entries, which is the tree's, is that of the text here.    *)
(***************************************************************************)
EXTENDS Integers, Sequences, FiniteSets, SequencesExt

CONSTANTS
    Texts,      \* for each injector, the texts of the functions it may be handed
    Inside,     \* pairs: in the first word, the second, or a text like it, is found
    Uints,      \* words IsUint holds of
    Addresses,  \* words of type address
    ids         \* those of them the function declares

Injectors == {"IntOverflow", "DoS", "Reentrancy", "UncheckedCall", "AccessControl"}
Modifiers == <<"onlyOwner", "onlyowner", "onlyowner()", "onlyOwner()">>  \* in the order they are looked for
Symbols == {"(", ")", "{", "}", ";", ",", "=", "==", "!=", "+", "-", "+=", "-=", "<", ">", "<=", ">=", "|", "++", "nl"}

VARIABLES
    processor,     \* which of them
    code,          \* the function's text
    stage,         \* "extract", "inject", "secure", "end"; "out_of_range", "undefined"
    k,             \* the entry of the running loop
    inject_info,   \* its entries: line, the text after '@' or <<>>, and code
    secure_info

edit_vars == <<processor, code, stage, k, inject_info, secure_info>>

-----------------------------------------------------------------------------
(* Texts *)

At(s, n) == IF n \in 1..Len(s) THEN s[n] ELSE "nl"
IsName(w) == w \notin Symbols
Has(s, x) == \E n \in 1..Len(s) : s[n] = x \/ <<s[n], x>> \in Inside
Marks(s, x) == {n \in 1..Len(s) : s[n] = x}
Count(s, x) == Cardinality(Marks(s, x))

\* The i-th of a set of numbers, and the values of a function in that order.
Nth(S, i) == CHOOSE n \in S : Cardinality({m \in S : m <= n}) = i
InOrder(f) == [e \in 1..Cardinality(DOMAIN f) |-> f[Nth(DOMAIN f, e)]]

\* The delimiters, nl ; and |, are words.  One at the end is followed by no part.
Cut(s, delim, i) ==
    CASE i = 0 -> 0 [] i \in 1..Count(s, delim) -> Nth(Marks(s, delim), i) [] OTHER -> Len(s) + 1
Parts(s, delim) == Count(s, delim) + (IF s = <<>> \/ s[Len(s)] = delim THEN 0 ELSE 1)
SplitString(s, delim) ==
    [part \in 1..Parts(s, delim) |-> SubSeq(s, Cut(s, delim, part - 1) + 1, Cut(s, delim, part) - 1)]

Occurrences(s, t) == {n \in 1..(Len(s) - Len(t) + 1) : SubSeq(s, n, n + Len(t) - 1) = t}
Find(s, t) == Min(Occurrences(s, t))
ReplaceFirst(s, t, r) == ReplaceSubSeqAt(Find(s, t), r, t, s)

Opens(s) == Count(s, "{") - Count(s, "}")

FirstLineMutant(lines, found) == lines[Max(found)] \* no break: the last counts
FirstLine(lines, found) == lines[Min(found)]
BlockOf(text) == SubSeq(text, Min(Marks(text, "{")), Len(text))
Block == BlockOf(code)

\* A function with a body, cleaned: its braces match, a brace that opens a block ends
\* its line, and the lines of its block, braces aside, are not found before the block.
IsFunction(text) ==
    /\ text \in Seq(STRING) /\ Marks(text, "{") # {}
    /\ text[Len(text)] = "}" /\ Opens(text) = 0
    /\ \A n \in Marks(text, "{") : At(text, n + 1) = "nl"
    /\ \A line \in ToSet(SplitString(BlockOf(text), "nl")) :
          ToSet(line) \subseteq {"{", "}"} \/ Occurrences(SubSeq(text, 1, Min(Marks(text, "{"))), line) = {}
ASSUME TextsAssumption ==
    /\ DOMAIN Texts = Injectors
    /\ \A p \in Injectors : \A text \in Texts[p] : IsFunction(text)
\* "+(" and "-(" are what Inject makes of SafeMath's calls, and words of nothing else.
ASSUME PlainAssumption == \A text \in Texts["IntOverflow"] : {"+(", "-("} \cap ToSet(text) = {}
ASSUME WordsAssumption ==
    /\ Inside \subseteq (STRING \ {"{", "}"}) \X STRING
    /\ Uints \cup Addresses \cup ids \subseteq STRING
    /\ Uints \cap (Symbols \cup {"0", "o", "uint", ".call.value("}) = {}

Entry(line, part, text) == [line |-> line, part |-> part, code |-> text]

EditInit ==
    /\ processor \in Injectors
    /\ code \in Texts[processor]
    /\ stage = "extract" /\ k = 1
    /\ inject_info = <<>> /\ secure_info = <<>>

-----------------------------------------------------------------------------
(* ExtractInject *)

\* Each entry has a twin in secure_info, with the same code.
EmplaceBack(entries, secure_line) ==
    /\ inject_info' = entries
    /\ secure_info' = [e \in 1..Len(inject_info') |-> Entry(secure_line, <<>>, code)]
    /\ stage' = "inject"
    /\ UNCHANGED <<processor, code, k>>

Compares(line) == Has(line, ">") \/ Has(line, "<")

\* c = a + b, in a declaration or not, and c += a.
SumAt(n) == /\ At(code, n + 1) = "=" /\ At(code, n + 3) \in {"+", "-"}
            /\ {At(code, n), At(code, n + 2), At(code, n + 4)} \subseteq Uints
UpdateAt(n) == At(code, n + 1) \in {"+=", "-="} /\ {At(code, n), At(code, n + 2)} \subseteq Uints

\* The line of a bound: it compares, and names the result and an operand.
Bounds(n, line) ==
    /\ Compares(line) /\ Has(line, code[n])
    /\ \/ Has(line, code[n + 2])
       \/ SumAt(n) /\ Has(line, code[n + 4])

ExtractOverflow ==
    /\ stage = "extract" /\ processor = "IntOverflow"
    /\ LET lines == SplitString(Block, "nl")
           Found(n) == {j \in 1..Len(lines) : Bounds(n, lines[j])}
           sites == {n \in 1..Len(code) : (SumAt(n) \/ UpdateAt(n)) /\ Found(n) # {}}
       IN  EmplaceBack(InOrder([n \in sites |-> Entry(FirstLine(lines, Found(n)), <<>>, code)]), <<>>)

\* A loop's limit: the first name after the comparison in its second part.
IsLoop(line) == /\ Occurrences(line, <<"for", "(", "uint">>) # {}
                /\ Len(SplitString(line, ";")) = 3
Limits(line) ==
    LET part == SplitString(line, ";")[2]
        from == {n \in 1..Len(part) : part[n] \in {"<", ">", "<=", ">="}}
        names == {n \in 1..Len(part) : from # {} /\ n > Min(from) /\ part[n] \in Uints}
    IN  IF names = {} THEN {} ELSE {part[Min(names)]}

Checks(line, var) == (Has(line, "if") \/ Has(line, "require")) /\ Has(line, var)

ExtractDoS ==
    /\ stage = "extract" /\ processor = "DoS"
    /\ LET lines == SplitString(code, "nl")
           Found(no) == {prev \in 1..(no - 1) : \E var \in Limits(lines[no]) : Checks(lines[prev], var)}
           loops == {no \in 2..Len(lines) : IsLoop(lines[no]) /\ Found(no) # {}}
       IN  EmplaceBack(InOrder([no \in loops |-> Entry(FirstLine(lines, Found(no)), <<>>, code)]), <<>>)

\* b -= a, and b = 0 outside a declaration; of an element its index is looked for.
Index(left) == IF left = "b[o]" THEN "o" ELSE left
PaymentAt(n) ==
    /\ At(code, n) \in Uints
    /\ \/ At(code, n + 1) = "-=" /\ At(code, n + 2) \in Uints
       \/ At(code, n + 1) = "=" /\ At(code, n + 2) = "0" /\ At(code, n - 1) # "uint"
Pays(n, line) ==
    /\ Has(line, Index(code[n])) \/ (code[n + 2] # "0" /\ Has(line, code[n + 2]))
    /\ Has(line, "transfer(")

ExtractReentrancy ==
    /\ stage = "extract" /\ processor = "Reentrancy"
    /\ LET lines == SplitString(Block, "nl")
           Found(n) == {j \in 1..Len(lines) : Pays(n, lines[j])}
           payments == {n \in 1..Len(code) : PaymentAt(n) /\ Found(n) # {}}
       IN  EmplaceBack(InOrder([n \in payments |->
                                  Entry(FirstLine(lines, Found(n)), SubSeq(code, n, n + 2), code)]), <<>>)

\* The function calls that begin at a name and whose text holds a low level call: the
\* call itself, x.call.value(v) inside x.call.value(v)(), and any call around them.
LowLevel == {".call(", ".call.value(", ".delegatecall("}
Keywords == {"if", "while", "for", "return", "returns"}
Opening == LowLevel \cup {"(", "transfer(", ".add(", ".sub("}
Depth(n, m) == Cardinality({j \in n..m : code[j] \in Opening}) - Cardinality({j \in n..m : code[j] = ")"})
Closing(n) ==
    LET even == {m \in n..Len(code) : Depth(n, m) = 0}
    IN  IF At(code, n) \in Opening /\ even # {} THEN {Min(even)} ELSE {}
CallEnds(n) == Closing(n + 1) \cup UNION {Closing(e + 1) : e \in Closing(n + 1)}
CallsAt(n) ==
    LET ends == {e \in CallEnds(n) : \E j \in n..e : code[j] \in LowLevel}
    IN  IF IsName(code[n]) /\ code[n] \notin Keywords THEN InOrder([e \in ends |-> SubSeq(code, n, e)]) ELSE <<>>

\* Each line that holds the text of a call and tests or keeps its result.
UsesCall(call, line) ==
    /\ Has(line, "require") \/ Has(line, "if") \/ Has(line, "=")
    /\ Occurrences(line, call) # {}

ExtractCalls ==
    /\ stage = "extract" /\ processor = "UncheckedCall"
    /\ LET lines == SplitString(code, "nl")
           calls == FlattenSeq([n \in 1..Len(code) |-> CallsAt(n)])
           Uses(call) == {j \in 1..Len(lines) : UsesCall(call, lines[j])}
           EntriesOf(call) == InOrder([j \in Uses(call) |-> Entry(lines[j], call, code)])
       IN  EmplaceBack(FlattenSeq([c \in 1..Len(calls) |-> EntriesOf(calls[c])]), <<>>)

\* require(... == msg.sender and require(msg.sender ==
Guards(line) ==
    \E n \in 1..Len(line) :
        /\ line[n] = "require" /\ At(line, n + 1) = "("
        /\ \/ At(line, n + 2) = "msg.sender" /\ At(line, n + 3) = "=="
           \/ \E m \in (n + 3)..Len(line) : line[m] = "==" /\ At(line, m + 1) = "msg.sender"

\* A modifier in the first line, else a require of the sender in the block's first three.
GuardLine ==
    LET lines == SplitString(Block, "nl")
        modifiers == {m \in 1..Len(Modifiers) : Count(SplitString(code, "nl")[1], Modifiers[m]) > 0}
        requires == {j \in 1..Min({3, Len(lines)}) : Guards(lines[j])}
    IN  CASE modifiers # {} -> <<Modifiers[Min(modifiers)]>>
          [] modifiers = {} /\ requires # {} -> FirstLine(lines, requires)
          [] OTHER -> <<>>

\* An address is assigned that the function does not declare.
TakesOver(n) == At(code, n + 1) = "=" /\ At(code, n) \in Addresses \ ids

ExtractAccess ==
    /\ stage = "extract" /\ processor = "AccessControl"
    /\ LET line == GuardLine
           sites == {n \in 1..Len(code) : TakesOver(n) /\ line # <<>>}
       IN  EmplaceBack(InOrder([n \in sites |-> Entry(line, <<>>, code)]), line)

-----------------------------------------------------------------------------
(* Inject *)

InLoop(p) == stage = "inject" /\ processor = p /\ k <= Len(inject_info)
Info == inject_info[k]

\* std::string::replace throws when find answered npos.
Edit(line, text, searched, new) ==
    /\ IF Occurrences(text, searched) # {}
       THEN /\ inject_info' = [inject_info EXCEPT ![k].line = line, ![k].code = ReplaceFirst(text, searched, new)]
            /\ k' = k + 1 /\ UNCHANGED stage
       ELSE stage' = "out_of_range" /\ UNCHANGED <<inject_info, k>>
    /\ UNCHANGED <<processor, code, secure_info>>

Plain(s) == [n \in 1..Len(s) |-> CASE s[n] = ".add(" -> "+(" [] s[n] = ".sub(" -> "-(" [] OTHER -> s[n]]

WeakenedMutant(line) == <<"if", "(", "true", ")", "{">> \* a require, too
Weakened(line) == IF Has(line, "if") THEN <<"if", "(", "true", ")", "{">> ELSE <<>>

\* The line is searched in the text with the SafeMath calls undone.
InjectOverflowMutant == \* the line keeps its calls
    InLoop("IntOverflow") /\ Edit(Info.line, Plain(Info.code), Info.line, Weakened(Info.line))
InjectOverflow ==
    /\ InLoop("IntOverflow")
    /\ LET line == Plain(Info.line) IN Edit(line, Plain(Info.code), line, Weakened(line))

InjectDoS == InLoop("DoS") /\ Edit(Info.line, Info.code, Info.line, Weakened(Info.line))

\* A call comes before the assignment.
CallFirstMutant(assign_line) == \* after it
    assign_line \o <<";", "nl", Index(assign_line[1]), ".call.value(", Last(assign_line), ")">>
CallFirst(assign_line) ==
    (IF Last(assign_line) = "0"
     THEN <<"uint", "VAR0", ";", "nl", "msg.sender", ".call.value(", "VAR0", ")", ";", "nl">>
     ELSE <<Index(assign_line[1]), ".call.value(", Last(assign_line), ")", ";", "nl">>) \o assign_line

\* The payment goes; the assignment may have been part of its line.
InjectReentrancy ==
    /\ InLoop("Reentrancy")
    /\ Edit(Info.line, ReplaceFirst(Info.code, Info.line, <<>>), Info.part, CallFirst(Info.part))

\* A line is cut at its first '=', the one of == and += among them, and "=" is put
\* there again: = of ==, and of the other operators themselves.
AssignAt(line) == Min({n \in 1..Len(line) : Has(<<line[n]>>, "=")})
LeftOf(line) == SubSeq(line, 1, AssignAt(line) - 1)
Reassigned(operator) == IF operator = "==" THEN "=" ELSE operator

\* The call becomes a statement of its own and its result true.
UncheckedMutant(line, call) == \* the result is used all the same
    call \o <<";", "nl">> \o line
Unchecked(line, call) ==
    call \o <<";", "nl">> \o
    IF Has(line, "if") \/ Has(line, "require") THEN ReplaceFirst(line, call, <<"true">>)
    ELSE LeftOf(line) \o <<Reassigned(line[AssignAt(line)])>>
         \o (IF Has(LeftOf(line), ",") THEN <<"(", "true", ",", ")">> ELSE <<"true">>) \o <<";", "nl">>

InjectCalls ==
    /\ InLoop("UncheckedCall")
    /\ Edit(Info.line, Info.code, Info.line, Unchecked(Info.line, Info.part))

\* " onlyOwner " goes with both its blanks, so that two names around it become
\* one; the text is put together anew, with a newline after each line.
GluedWord(s, m) ==
    LET n == Find(s, m)
        glued == m[1] \in {"onlyOwner", "onlyowner"} /\ IsName(At(s, n - 1)) /\ IsName(At(s, n + 1))
    IN  IF glued THEN SubSeq(s, n - 1, n + 1) ELSE m
InjectAccess ==
    /\ InLoop("AccessControl")
    /\ IF Has(Info.line, "require")
       THEN Edit(Info.line, Info.code, Info.line, <<>>)
       ELSE LET searched == GluedWord(Info.code, Info.line)
            IN  Edit(Info.line, Info.code \o <<"nl">>, searched, IF searched = Info.line THEN <<>> ELSE <<"glued">>)

EndInject ==
    /\ stage = "inject" /\ k > Len(inject_info)
    /\ stage' = (IF processor = "AccessControl" THEN "secure" ELSE "end")
    /\ k' = 1
    /\ UNCHANGED <<processor, code, inject_info, secure_info>>

\* AccessControl's second loop splits line + "@" + left at '|' and puts a modifier
\* before the function for each of the names in the first part.  Without a '|' there
\* is no second part to read.
Modifier(part, name) == IF Has(part, name) THEN <<"modifier", name, "{", "}", "nl">> ELSE <<>>
Secured(info) ==
    LET part == SubSeq(info.line, 1, Cut(info.line, "|", 1) - 1)
    IN  Entry(info.line, info.part, Modifier(part, "onlyowner") \o Modifier(part, "onlyOwner") \o info.code)

InSecure == stage = "secure" /\ k <= Len(secure_info)
Secure ==
    /\ secure_info' = [secure_info EXCEPT ![k] = Secured(@)]
    /\ k' = k + 1 /\ UNCHANGED stage
SplitSecure ==
    /\ InSecure /\ Count(secure_info[k].line, "|") > 0
    /\ Secure
    /\ UNCHANGED <<processor, code, inject_info>>
ReadPastTheEnd ==
    /\ InSecure /\ Count(secure_info[k].line, "|") = 0
    /\ \/ stage' = "undefined" /\ UNCHANGED <<k, secure_info>>
       \/ Secure
    /\ UNCHANGED <<processor, code, inject_info>>
EndSecure ==
    /\ stage = "secure" /\ k > Len(secure_info)
    /\ stage' = "end"
    /\ UNCHANGED <<processor, code, k, inject_info, secure_info>>

ExtractInject == ExtractOverflow \/ ExtractDoS \/ ExtractReentrancy \/ ExtractCalls \/ ExtractAccess
Inject == \/ InjectOverflow \/ InjectDoS \/ InjectReentrancy \/ InjectCalls \/ InjectAccess
          \/ EndInject \/ SplitSecure \/ ReadPastTheEnd \/ EndSecure
EditNext == ExtractInject \/ Inject

EditSpec == EditInit /\ [][EditNext]_edit_vars

-----------------------------------------------------------------------------
(* Properties *)

\* The entry Inject has just edited, which nothing touches again: each comes by.
Injected == IF stage = "inject" /\ k > 1 THEN {k - 1} ELSE {}

\* Searching for a line's text in the whole function finds no place but the line
\* ExtractInject saw: every other line of an injected function is as it was,
\* SafeMath calls aside. A call's line may be found inside a longer one.
Target(lines, line) ==
    Min({j \in 1..Len(lines) :
            IF processor = "UncheckedCall" \/ Len(line) = 1 THEN Occurrences(lines[j], line) # {} ELSE lines[j] = line})
EditsOneLine ==
    \A e \in Injected : processor # "Reentrancy" =>
        LET before == SplitString(IF processor = "IntOverflow" THEN Plain(code) ELSE code, "nl")
            after == SplitString(inject_info[e].code, "nl")
            j == Target(before, inject_info[e].line)
        IN  /\ IsPrefix(SubSeq(before, 1, j - 1), after)
            /\ IsSuffix(SubSeq(before, j + 1, Len(before)), after)

\* The braces of an injected function match exactly when the line replaced held as many
\* open ones as what replaced it: one if it has the letters of if, none otherwise. Of a
\* call's line that has the letters of neither if nor require only what is left of the
\* first '=' is kept: while (x.call() == true) { and while (ok = x.call()) { lose their brace.
BracesKept ==
    \A e \in Injected :
        LET line == inject_info[e].line
        IN  Opens(inject_info[e].code) = 0 <=>
                CASE processor \in {"IntOverflow", "DoS"} -> Opens(line) = (IF Has(line, "if") THEN 1 ELSE 0)
                  [] processor \in {"Reentrancy", "AccessControl"} -> Opens(line) = 0
                  [] OTHER -> \/ Has(line, "if") \/ Has(line, "require")
                              \/ Opens(inject_info[e].part \o LeftOf(line)) = Opens(line)

\* The search fails only in Reentrancy, and only when the function's one such
\* assignment stands in the very line of the payment.
OnlyReentrancyThrows ==
    stage = "out_of_range" =>
        LET holders == {j \in 1..Len(SplitString(code, "nl")) : Occurrences(SplitString(code, "nl")[j], Info.part) # {}}
        IN  processor = "Reentrancy" /\ \A j \in holders : SplitString(code, "nl")[j] = Info.line /\ Cardinality(holders) = 1

\* A function labelled reentrant calls out before any of the assignments to what it pays from.
CallBeforeUpdate ==
    \A e \in Injected : processor = "Reentrancy" =>
        LET call == Find(inject_info[e].code, <<".call.value(">>)
        IN  \A n \in Occurrences(inject_info[e].code, inject_info[e].part) : call < n

\* Inject makes of the call a statement that nothing tests, unless it was one already,
\* if ExtractInject found the call itself. Found through the require, assert or function
\* around it the call stays tested, and through the first half of x.call.value(v)() it is
\* no longer made: these are labelled vulnerable without an unchecked call more. Every
\* other call stays as it was, but on a line cut at '=' those right of it are gone and the
\* call left of it, return x.call() == true, is made twice.
Calls(s) == {n \in 1..Len(s) : \/ At(s, n + 1) \in {".call(", ".delegatecall("}
                               \/ At(s, n + 1) = ".call.value(" /\ At(s, n + 4) = "("}
AfterCall(s, n) == At(s, IF s[n + 1] = ".call.value(" THEN n + 6 ELSE n + 3)
Unused(s) == {n \in Calls(s) : AfterCall(s, n) = ";" /\ At(s, n - 1) \in {"nl", ")", "{", "}"}}
CallUnchecked ==
    \A e \in Injected : processor = "UncheckedCall" =>
        LET line == inject_info[e].line
            call == inject_info[e].part
            new == inject_info[e].code
            itself == 1 \in Calls(call) /\ AfterCall(call, 1) = "nl"
            half == call[2] = ".call.value(" /\ 1 \notin Calls(call)
            was == {Find(code, line) + Find(line, call) - 1} \cap Unused(code)
            kept == IF Has(line, "if") \/ Has(line, "require")
                    THEN Cardinality(Calls(line)) - (IF half THEN 1 ELSE 0)
                    ELSE Cardinality(Calls(LeftOf(line))) + Cardinality(Calls(call))
        IN  /\ Cardinality(Unused(new)) = Cardinality(Unused(code)) - Cardinality(was) + (IF itself THEN 1 ELSE 0)
            /\ Cardinality(Calls(new)) = Cardinality(Calls(code)) - Cardinality(Calls(line)) + kept

=============================================================================

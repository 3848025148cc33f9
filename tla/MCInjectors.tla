----------------------------- MODULE MCInjectors -----------------------------
(* Functions of up to four lines: checks with and without a block, written  *)
(* alone, inside a longer line and with words that hold "if" or a variable; *)
(* payments; calls tested, kept, compared, passed on or neither; loops with *)
(* and without a limit, one of them not at the beginning of its line.       *)
EXTENDS Injectors

MCHeaders ==
    [p \in Injectors |->
        CASE p = "DoS" -> {<<"function", "f", "(", ")", "{">>, <<"function", "notify", "(", "n", ")", "{">>}
          [] p = "AccessControl" -> {<<"function", "f", "(", "l", ")", "{">>,
                                     <<"function", "f", "(", "l", ")", "onlyOwner", "{">>,
                                     <<"function", "f", "(", "l", ")", "public", "onlyOwner", "returns", "(", ")", "{">>,
                                     <<"function", "f", "(", "l", ")", "onlyowner()", "{">>}
          [] OTHER -> {<<"function", "f", "(", "a", ")", "{">>}]

MCBodyLines ==
    [p \in Injectors |-> {<<"}">>} \cup
        CASE p = "IntOverflow" -> {<<"c", "=", "a", "+", "b", ";">>, <<"c", "+=", "a", ";">>,
                                   <<"require", "(", "c", ">", "a", ")", ";">>,
                                   <<"if", "(", "d", ")", "require", "(", "c", ">", "a", ")", ";">>,
                                   <<"require", "(", "c", ">", "a", ".add(", "b", ")", ")", ";">>,
                                   <<"if", "(", "c", ">", "a", ")", "{">>,
                                   <<"notify", "(", "c", ">", "a", ")", ";">>}
          [] p = "DoS" -> {<<"for", "(", "uint", "i", "=", "0", ";", "i", "<", "n", ";", "i", "++", ")", "{">>,
                           <<"for", "(", "uint", "i", "=", "0", ";", "i", "<", "9", ";", "i", "++", ")", "{">>,
                           <<"if", "(", "d", ")", "for", "(", "uint", "i", "=", "0", ";", "i", "<=", "n", ";", "i", "++", ")", "{">>,
                           <<"require", "(", "n", "<", "9", ")", ";">>,
                           <<"require", "(", "norm", "<", "9", ")", ";">>,
                           <<"if", "(", "d", ")", "require", "(", "n", "<", "9", ")", ";">>,
                           <<"if", "(", "n", "<", "9", ")", "{">>}
          [] p = "Reentrancy" -> {<<"b[o]", "-=", "a", ";">>, <<"b", "=", "0", ";">>,
                                  <<"o", ".", "transfer(", "a", ")", ";">>, <<"o", ".", "transfer(", "b", ")", ";">>,
                                  <<"if", "(", "o", ".", "transfer(", "a", ")", ")", "{">>,
                                  <<"if", "(", "o", ".", "transfer(", "a", ")", ")", "b[o]", "-=", "a", ";">>}
          [] p = "UncheckedCall" -> {<<"x", ".call(", ")", ";">>, <<"ok", "=", "x", ".call(", ")", ";">>,
                                     <<"(", "ok", ",", "d", ")", "=", "x", ".call(", ")", ";">>,
                                     <<"require", "(", "x", ".call(", ")", ")", ";">>,
                                     <<"require", "(", "x", ".call.value(", "1", ")", "(", ")", ")", ";">>,
                                     <<"ok", "=", "x", ".call.value(", "1", ")", "(", ")", ";">>,
                                     <<"if", "(", "x", ".call(", ")", ")", "{">>,
                                     <<"while", "(", "ok", "=", "x", ".call(", ")", ")", "{">>,
                                     <<"if", "(", "d", ")", "x", ".call(", ")", ";">>,
                                     <<"if", "(", "d", ")", "ok", "=", "x", ".call(", ")", ";">>,
                                     <<"return", "x", ".call(", ")", "==", "true", ";">>,
                                     <<"while", "(", "x", ".call(", ")", "!=", "d", ")", "{">>,
                                     <<"assert", "(", "x", ".call(", ")", "==", "true", ")", ";">>,
                                     <<"ok", "=", "g", "(", "x", ".delegatecall(", ")", ")", ";">>}
          [] p = "AccessControl" -> {<<"owner", "=", "o", ";">>, <<"l", "=", "o", ";">>, <<"b", "=", "0", ";">>,
                                     <<"require", "(", "owner", "==", "msg.sender", ")", ";">>,
                                     <<"require", "(", "msg.sender", "==", "onlyOwner", "|", "|", "d", ")", ";">>,
                                     <<"require", "(", "msg.sender", "!=", "o", ")", ";">>,
                                     <<"require", "(", "owner", "==", "msg.sender", "|", "|", "d", ")", ";">>}]

\* A body closes the blocks it opens and not the function's.
Nested(body) == FoldLeft(LAMBDA depth, line : IF depth = 0 THEN 0 ELSE depth + Opens(line), 1, body) = 1
Join(lines) == FoldLeft(LAMBDA s, line : s \o <<"nl">> \o line, lines[1], Tail(lines))
MaxLines(p) == IF p = "UncheckedCall" THEN 3 ELSE 4   \* bound: lines between the first and the last
MCTexts ==
    [p \in Injectors |->
        {Join(<<header>> \o body \o <<<<"}">>>>) : header \in MCHeaders[p],
            body \in {b \in UNION {[1..n -> MCBodyLines[p]] : n \in 1..MaxLines(p)} : Nested(b)}}]

MCUints == {"a", "b", "c", "n", "norm", "b[o]"}
MCAddresses == {"owner", "l", "o"}
MCids == {"l"}
MCInside ==
    {<<"notify", "if">>, <<"norm", "n">>, <<"function", "n">>, <<"function", "c">>, <<"owner", "n">>, <<"b[o]", "b">>,
     <<"b[o]", "o">>, <<"==", "=">>, <<"!=", "=">>, <<"<=", "=">>, <<"+=", "=">>, <<"-=", "=">>, <<"transfer(", "a">>, <<"transfer(", "n">>,
     <<".add(", "a">>,
     <<"<=", "<">>, <<"return", "n">>, <<"uint", "n">>, <<"onlyOwner", "n">>, <<"onlyowner()", "n">>, <<"onlyowner()", "onlyowner">>}
=============================================================================

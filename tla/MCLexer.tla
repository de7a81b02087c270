------------------------------- MODULE MCLexer --------------------------------
(***************************************************************************)
(* All short sources, longer ones of what can stay open, and sources that  *)
(* include files.                                                          *)
(***************************************************************************)
EXTENDS Lexer

Apart(s) == \A i \in 1 .. Len(s) - 1 : s[i] \in {"$", "'"} => s[i + 1] \notin Runs

Name(n)     == <<"INCLUDE", "space", "quote", n, "quote">>
MCFiles     == [n \in {<<"A">>, <<"1">>, <<"9">>} |->
                  IF n = <<"A">> THEN <<"cls">> ELSE IF n = <<"1">> THEN Name("A") ELSE <<"REM", "+">>]
MCMemory    == {<<>>, [i \in 1 .. 12 |-> "space"], [i \in 1 .. 7 |-> "space"] \o Name("A")}
IncludeTexts == { <<"A", "\n">> \o Name(n) \o rest :
                     n \in {"A", "1", "9", "("},
                     rest \in {<<>>, <<"\n", "A", "=", "1">>, <<"\n", "REM", "\n">> \o Name("9"),
                               <<"space", "INCLUDE", "!">>, <<"space", "INCLUDE", "A", "INCLUDE">>,
                               <<"\n", "INCLUDE", "quote">>} }
TwiceTexts   == { <<"INCLUDE", "space">> \o rest \o Name("A") \o <<"\n">> \o Name("9") :
                     rest \in {<<>>, <<"INCLUDE", "space">>, <<"A", "space">>} }

MCTexts ==
    {s \in SeqOf(Symbols, 3) \cup SeqOf({"quote", "'", "$", "1", "\n"}, 5)
              \cup SeqOf({"quote", "REM", "A", "\n"}, 5) : Apart(s)}
    \cup IncludeTexts \cup TwiceTexts

Unclosed  == { <<"REM", "space", "A">> }
TwoLines  == { <<"quote", "\n", "quote", "A">> }
TwoFiles  == { Name("A") \o <<"\n">> \o Name("9") }
=============================================================================

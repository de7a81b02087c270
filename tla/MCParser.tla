------------------------------ MODULE MCParser -------------------------------
(***************************************************************************)
(* Sources for the parser: small programs that nest every statement in     *)
(* every other one, and what one wrong, missing or additional token makes  *)
(* of them.                                                                *)
(***************************************************************************)
EXTENDS ParserTrees

Simple == { <<"CLS">>, <<"A", "=", "1">> }
If     == <<"IF", "A", "<", "1", "THEN">>
For    == <<"FOR", "A", "=", "1", "TO", "B">>

IfElse(s, t) == If \o s \o <<"ELSE">> \o t
Do(s)        == <<"DO">> \o s \o <<"LOOP", "ENDLESS">>
ForTo(s)     == For \o s \o <<"NEXT", "A">>

CLS == <<"CLS">>

Programs ==
    { <<>>,
      <<"L:", "M:", "A", "=", "A", "+", "1", "CLS">>,
      <<"IF", "A", "=", "B", "AND", "$1", "<", "1", "THEN", "CLS">>,
      <<"DO", "LOOP", "WHILE", "A", "<", "1", "AND", "A", "=", "1">>,
      <<"DO", "CLS", "LOOP", "UNTIL", "A", "<", "B", "CLS">>,
      IfElse(IfElse(CLS, CLS), CLS),
      If \o IfElse(CLS, <<"A", "=", "1">>),
      IfElse(Do(CLS), <<"L:">> \o CLS),
      IfElse(CLS, If \o CLS),
      Do(CLS \o IfElse(CLS, CLS)),
      Do(Do(<<>>) \o <<"L:">> \o CLS),
      ForTo(If \o CLS),
      ForTo(<<"FOR", "B", "=", "1", "TO", "1", "NEXT", "B">>),
      <<"L:">> \o ForTo(<<"M:">> \o Do(CLS)) }

\* The keyword statements, with the least of operands.
Calls ==
    { <<k>> : k \in {"BREAK", "CLS", "END", "FILES", "RETURN"} }
    \cup { <<k, "'text'">> : k \in {"ALERT", "DELETE", "SIZE"} }
    \cup { <<k, "1">> : k \in {"INK", "PAUSE"} }
    \cup { <<k, "A", "1">> : k \in {"MOVE", "PAGE", "PEEK", "PEEKINT", "POKE", "POKEINT", "SOUND"} }
    \cup { <<k, "A">> : k \in {"CURSCHAR", "CURSCOL", "GETKEY", "WAITKEY", "INPUT"} }
    \cup { <<k, "L">> : k \in {"GOSUB", "GOTO"} }
    \cup { <<"CASE", m, "$1">> : m \in {"LOWER", "UPPER"} }
    \cup { <<"CURSOR", m>> : m \in {"ON", "OFF"} }
    \cup { <<"STRING", m, "$1", "1", "A">> : m \in {"GET", "SET"} }
    \cup { <<"SERIAL", m, "A">> : m \in {"ON", "SEND", "REC"} }
    \cup { <<"PORT", "IN", "1", "A">>, <<"PORT", "OUT", "&", "$1", "TIMER">>,
           <<"NUMBER", "A", "$1">>, <<"NUMBER", "$1", "A">>, <<"ASKFILE", "$1">>,
           <<"CALL", "&", "A", "+", "1">>, <<"CURSPOS", "A", "B">>, <<"LEN", "$1", "A">>,
           <<"LISTBOX", "$1", "'text'", "$2", "A">>, <<"LOAD", "'text'", "1">>,
           <<"PRINT", "$1">>, <<"PRINT", "HEX", "A", "+", "INK", ";">>, <<"RAND", "A", "1", "B">>,
           <<"READ", "L", "1", "A">>, <<"RENAME", "$1", "$2">>, <<"SAVE", "$1", "1", "&", "A">> }

\* One token of s replaced, left out, or t put before it.
Replaced(s, i, t) == [s EXCEPT ![i] = t]
Without(s, i)     == SubSeq(s, 1, i - 1) \o SubSeq(s, i + 1, Len(s))
With(s, i, t)     == SubSeq(s, 1, i - 1) \o <<t>> \o SubSeq(s, i, Len(s))

Changed(s, ts) ==
    {s} \cup {Replaced(s, i, t) : i \in DOMAIN s, t \in ts}
        \cup {Without(s, i) : i \in DOMAIN s}
        \cup {With(s, i, t) : i \in 1 .. Len(s) + 1, t \in ts}
        \cup {SubSeq(s, 1, i) : i \in DOMAIN s}

\* INCLUDE with the literal that the lexer has looked for.
Includes == { <<"INCLUDE", "'text'">> \o s :
                s \in { <<>>, CLS, <<"A", "=", "1">>, If \o CLS, <<"L:">> \o CLS,
                         <<"INCLUDE", "'text'", "PRINT", "A">> } }

\* An INCLUDE in front of what begins no statement, to the grammar or the code.
Refused == { <<"INCLUDE", "'text'", t>> \o CLS : t \in {"1", "'x'", "+", "=", "L"} }

AllSources ==
    UNION {Changed(s, {"A", "$1", "1", "+", "=", "&", "L:"} \cup Structure \cup {"CLS"}) :
              s \in Programs}
    \cup UNION {Changed(s, {"A", "$1", "1", "'text'", "'x'", "+", "&", ";", "L", "IN", "CHR", "END"}) :
              s \in Calls}
    \cup {s \o <<"B", "=", "1">> : s \in Calls}
    \cup Includes \cup Refused

\* Those in which nothing is read in another way by the grammar and by the code.
MCSources == {s \in AllSources : NoMoreThanTheGrammar(s) /\ NoMoreThanTheCode(s)} \cup Refused

\* Single sources, each showing one disagreement.
NextAlone       == { For \o CLS \o <<"NEXT">> }
EatenKeyword    == { <<"A", "B", "CLS", "CLS">> }
Nothing         == { <<>> }
ThenAtTheEnd    == { If }
ComparedLiteral == { <<"IF", "1", "<", "1", "THEN", "CLS">> }
LabelledBranch  == { IfElse(<<"L:", "CLS">>, CLS) }
LabelAtTheEnd   == { <<"DO", "CLS", "L:", "LOOP", "ENDLESS">> }
IncludedFirst   == { <<"INCLUDE", "'text'", "A", "=", "1">> }
=============================================================================

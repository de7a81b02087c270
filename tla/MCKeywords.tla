----------------------------- MODULE MCKeywords ------------------------------
(***************************************************************************)
(* Every keyword statement, with operands of every kind.                   *)
(***************************************************************************)
EXTENDS Keywords

MCLines ==
    { <<k>> : k \in {"CLS", "END", "FILES", "RETURN"} }
    \cup { <<k, s>> : k \in {"ALERT", "DELETE", "SIZE"}, s \in {"$1", "'text'"} }
    \cup { <<k, n>> : k \in {"INK", "PAUSE", "CALL"}, n \in {"A", "2", "INK", "TIMER"} }
    \cup { <<k, "A">> : k \in {"CURSCHAR", "CURSCOL", "GETKEY", "WAITKEY"} }
    \cup { <<"INPUT", v>> : v \in {"A", "$1"} }
    \cup { <<"ASKFILE", "$2">>, <<"CURSPOS", "A", "C">>, <<"CURSPOS", "A", "A">> }
    \cup { <<"CASE", mod, "$2">> : mod \in {"LOWER", "UPPER"} }
    \cup { <<"CURSOR", mod>> : mod \in {"ON", "OFF"} }
    \cup { <<"LISTBOX", "$1", "'text'", "$2", "A">> }
    \cup { <<k, s, n>> : k \in {"LOAD"}, s \in {"$1", "'text'"}, n \in {"A", "TIMER"} }
    \cup { <<k, n, "A">> : k \in {"MOVE", "SOUND"}, n \in {"A", "B", "2", "INK"} }
    \cup { <<k, "1", n>> : k \in {"MOVE", "SOUND"}, n \in {"TIMER", "PROGSTART"} }
    \cup { <<"PAGE", "2", "1">>, <<"PAGE", "1", "INK">> }
    \cup { <<"NUMBER", "$2", "A">>, <<"NUMBER", "A", "$2">> }
    \cup { <<k, v, "B">> : k \in {"PEEK", "PEEKINT"}, v \in {"A", "B", "C"} }
    \cup { <<k, n, "B">> : k \in {"POKE", "POKEINT"}, n \in {"A", "B", "C", "2", "PROGSTART"} }
    \cup { <<"PORT", "IN", n, "A">> : n \in {"A", "2", "TIMER"} }
    \cup { <<"PORT", "OUT", n, "A">> : n \in {"B", "2", "TIMER"} }
    \cup { <<"PRINT">> \o mod \o n \o e : mod \in {<<>>, <<"CHR">>, <<"HEX">>},
                                           n \in {<<"A">>, <<"'x'">>, <<"INK">>}, e \in {<<>>, <<";">>} }
    \cup { <<"PRINT">> \o mod \o n \o e : mod \in {<<>>, <<"CHR">>}, n \in {<<"$1">>, <<"'text'">>},
                                           e \in {<<>>, <<";">>} }
    \cup { <<"RAND", "A", n, k>> : n \in {"A", "1", "TIMER"}, k \in {"B", "2", "TIMER"} }
    \cup { <<"RENAME", "$1", "$2">>, <<"RENAME", "$2", "'text'">> }
    \cup { <<"SAVE", "$1", n, k>> : n \in {"A", "TIMER"}, k \in {"B", "TIMER"} }
    \cup { <<"SERIAL", "ON", n>> : n \in {"1200", "9600", "1", "A"} }
    \cup { <<"SERIAL", "SEND", n>> : n \in {"A", "TIMER"} } \cup { <<"SERIAL", "REC", "A">> }
    \cup { <<"STRING", mod, "$1", n, v>> : mod \in {"GET", "SET"}, n \in {"1", "2"}, v \in {"A", "B"} }

\* Statements that do not keep their promise.
Length        == { <<"LEN", "$1", "A">> }
Break         == { <<"BREAK">> }
DeleteSuccess == { <<"DELETE", "$1">> }
LoadSuccess   == { <<"LOAD", "$1", "A">> }
TimerColumn   == { <<"MOVE", "TIMER", "1">> }
TimerToPort   == { <<"PORT", "OUT", "1", "TIMER">> }
TimerPoked    == { <<"POKE", "TIMER", "B">> }
Character     == { <<"CURSCHAR", "A">> }
=============================================================================

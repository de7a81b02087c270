---------------------------- MODULE KeywordParser ----------------------------
(***************************************************************************)
(* The keyword statements (front/keyword_parser.c): parse_keyword picks a  *)
(* function by the keyword, and that function takes the operands in order. *)
(*                                                                         *)
(* string(), numeric(), label(), expr() and variable() report an error and *)
(* return NULL to a function that goes on with the next operand.  Where    *)
(* the function itself looks for a token (a target variable, a modifier),  *)
(* it gives up without it.  A rule names the operands of a function in     *)
(* order; Given(o) are the tokens it looks for itself.                     *)
(***************************************************************************)
EXTENDS Terms

\* What a function looks for itself, and what it takes if it is there.
Given ==
    [ numericVariable |-> NumericVariables, stringVariable |-> StringVariables,
      lowerOrUpper |-> {"LOWER", "UPPER"}, onOrOff |-> {"ON", "OFF"}, onOrSend |-> {"ON", "SEND"},
      getOrSet |-> {"GET", "SET"}, in |-> {"IN"}, out |-> {"OUT"}, rec |-> {"REC"} ]

Optional == [chrOrHex |-> {"CHR", "HEX"}, semicolon |-> {";"}]

\* numeric() takes no character literal.
NumericOperand(p) ==
    IF Token(p) = "&" THEN Primary(p)
    ELSE OneOf(NumericVariables \cup NumericLiterals \cup KeywordValues, p)

Taking(o, p) ==
    CASE o \in DOMAIN Given    -> OneOf(Given[o], p)
      [] o \in DOMAIN Optional -> IF Token(p) \in Optional[o] THEN OneOf(Optional[o], p)
                                  ELSE Result(p, NULL, FALSE)
      [] o = "string"   -> OneOf(StringVariables \cup StringLiterals, p)
      [] o = "numeric"  -> NumericOperand(p)
      [] o = "label"    -> OneOf(Identifiers, p)
      [] o = "expr"     -> Expr(p)
      [] o = "variable" -> Variable(p)

\* The operands of a keyword, before the token next.
NumberOperands(next) ==
    IF next \in StringVariables THEN <<"stringVariable", "numericVariable">>
    ELSE <<"numericVariable", "stringVariable">>

PortOperands(next) ==
    IF next = "OUT" THEN <<"out", "numeric", "numeric">> ELSE <<"in", "numeric", "numericVariable">>

SerialOperands(next) ==
    IF next = "REC" THEN <<"rec", "numericVariable">> ELSE <<"onOrSend", "numeric">>

StringOperands == <<"getOrSet", "stringVariable", "numeric", "numericVariable">>
PrintOperands  == <<"chrOrHex", "expr", "semicolon">>

Rule(keyword, next) ==
    CASE keyword \in {"BREAK", "CLS", "END", "FILES", "RETURN"}  -> <<>>
      [] keyword \in {"ALERT", "DELETE", "SIZE"}                 -> <<"string">>
      [] keyword \in {"INK", "PAUSE"}                            -> <<"numeric">>
      [] keyword \in {"GOSUB", "GOTO"}                           -> <<"label">>
      [] keyword = "CALL"                                        -> <<"expr">>
      [] keyword = "INPUT"                                       -> <<"variable">>
      [] keyword = "ASKFILE"                                     -> <<"stringVariable">>
      [] keyword \in {"CURSCHAR", "CURSCOL", "GETKEY", "WAITKEY"} -> <<"numericVariable">>
      [] keyword = "CURSOR"                    -> <<"onOrOff">>
      [] keyword = "CURSPOS"                   -> <<"numericVariable", "numericVariable">>
      [] keyword = "CASE"                      -> <<"lowerOrUpper", "stringVariable">>
      [] keyword = "LEN"                       -> <<"string", "numericVariable">>
      [] keyword = "LOAD"                      -> <<"string", "numeric">>
      [] keyword = "RENAME"                    -> <<"string", "string">>
      [] keyword \in {"MOVE", "PAGE", "POKE", "POKEINT", "SOUND"} -> <<"numeric", "numeric">>
      [] keyword \in {"PEEK", "PEEKINT"}       -> <<"numericVariable", "numeric">>
      [] keyword = "RAND"                      -> <<"numericVariable", "numeric", "numeric">>
      [] keyword = "READ"                      -> <<"label", "numeric", "numericVariable">>
      [] keyword = "SAVE"                      -> <<"string", "numeric", "numeric">>
      [] keyword = "LISTBOX"                   -> <<"string", "string", "string", "numericVariable">>
      [] keyword = "PRINT"                     -> PrintOperands
      [] keyword = "STRING"                    -> StringOperands
      [] keyword = "NUMBER"                    -> NumberOperands(next)
      [] keyword = "PORT"                      -> PortOperands(next)
      [] keyword = "SERIAL"                    -> SerialOperands(next)

\* The next of the operands os.  Without a token that it looks for itself a
\* function gives up, and what it has got so far is lost.
NextOperand(os, a) ==
    IF a.lost \/ Len(a.node) = Len(os) THEN a
    ELSE LET o == os[Len(a.node) + 1]
             b == Taking(o, a.pos)
         IN [ pos |-> b.pos, node |-> Append(a.node, b.node), err |-> a.err \/ b.err,
              lost |-> o \in DOMAIN Given /\ b.err ]

\* The operands os from p on.
Operands(os, p) ==
    LET Round(a) == NextOperand(os, a)
    IN Loop(Round, [pos |-> p, node |-> <<>>, err |-> FALSE, lost |-> FALSE], Len(os))

\* op1 and op2 of a keyword: more than two operands are nested in sequences.
Nested(kids) ==
    LET Pair(k) == IF Len(k) <= 2 THEN k
                   ELSE Append(SubSeq(k, 1, Len(k) - 2), Node("SEQUENCE", <<k[Len(k) - 1], k[Len(k)]>>))
    IN Loop(Pair, kids, Len(kids))

\* Where parse_keyword is called again by do_include, which takes two tokens,
\* whatever they are.
PastIncludes(p) ==
    Min({q \in p .. Len(tokens) : (q - p) % 2 = 0 /\ Token(q) # "INCLUDE"} \cup {Len(tokens) + 1})

\* The function of the keyword at p.  READ is parsed and then refused.
Keyword(p) ==
    LET r == Operands(Rule(Token(p), Token(p + 1)), p + 1) IN
    IF Token(p) \notin Statements THEN Failed(p)
    ELSE IF r.lost \/ Token(p) = "READ" THEN Result(r.pos, NULL, TRUE)
    ELSE Result(r.pos, Node(Token(p), Nested(r.node)), r.err)
=============================================================================

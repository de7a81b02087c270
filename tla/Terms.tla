-------------------------------- MODULE Terms --------------------------------
(***************************************************************************)
(* The tokens of a source as the parser sees them, and the functions of    *)
(* front/parser.c below a statement: variables, literals, expressions and  *)
(* synchronize.  None of them changes anything but the position in the     *)
(* source, the error flag and the tree it returns; each is an operator     *)
(* from the position of the next token to its result.                      *)
(***************************************************************************)
EXTENDS Integers, Sequences, FiniteSetsExt

VARIABLE tokens     \* the source, without its final EOF

NumericVariables == {"A", "B", "C"}
StringVariables  == {"$1", "$2"}
Variables        == NumericVariables \cup StringVariables
NumericLiterals  == {"1", "2", "1200", "9600"}
StringLiterals   == {"'text'"}
CharLiterals     == {"'x'"}
Literals         == NumericLiterals \cup StringLiterals \cup CharLiterals
Arithmetic       == {"+", "-"}
Relations        == {"=", "<"}
Signs            == {"&", ";"}
LabelNames       == {"L:", "M:"}
Identifiers      == {"L", "M"}
KeywordValues    == {"PROGSTART", "RAMSTART", "VARIABLES", "VERSION", "TIMER", "INK"}
Statements       == {"ALERT", "ASKFILE", "BREAK", "CALL", "CASE", "CLS", "CURSOR", "CURSCHAR",
                     "CURSCOL", "CURSPOS", "DELETE", "END", "FILES", "GETKEY", "GOSUB", "GOTO",
                     "INK", "INPUT", "LEN", "LISTBOX", "LOAD", "MOVE", "NUMBER", "PAGE", "PAUSE",
                     "PEEK", "PEEKINT", "POKE", "POKEINT", "PORT", "PRINT", "RAND", "READ",
                     "RENAME", "RETURN", "SAVE", "SERIAL", "SIZE", "SOUND", "STRING", "WAITKEY"}
Modifiers        == {"CHR", "GET", "HEX", "IN", "LOWER", "OFF", "ON", "OUT", "REC", "SEND", "SET",
                     "UPPER"}
Structure        == {"AND", "DO", "ELSE", "ENDLESS", "FOR", "IF", "LOOP", "NEXT", "THEN", "TO",
                     "UNTIL", "WHILE"}
Keywords         == KeywordValues \cup Statements \cup Modifiers \cup Structure \cup {"INCLUDE"}
Tokens           == Variables \cup Literals \cup Arithmetic \cup Relations \cup Signs
                    \cup LabelNames \cup Identifiers \cup Keywords

\* Nodes: an operator with its operands; a leaf is a Node without operands.
Node(op, kids) == [op |-> op, kids |-> kids]
Leaf(token)    == Node(token, <<>>)
NULL           == Node("NULL", <<>>)

\* At the end of the source get_token returns EOF for ever.
Token(p) == IF p <= Len(tokens) THEN tokens[p] ELSE "EOF"
After(p) == IF p <= Len(tokens) THEN p + 1 ELSE p

\* synchronize(): where it leaves off when it is called at p.  The second token
\* that it takes is not looked at.
Stops(t) == t = "EOF" \/ t \in Keywords

Synchronized(p) ==
    IF Stops(Token(p)) THEN After(p)
    ELSE Min({q \in p + 2 .. Len(tokens) : Stops(Token(q))} \cup {Len(tokens) + 1})

\* A result: the position after it, the Node, and whether parse_error was called.
Result(p, node, err) == [pos |-> p, node |-> node, err |-> err]
Failed(p)            == Result(Synchronized(p), NULL, TRUE)

\* The next token as a leaf if it is one of ts.
OneOf(ts, p) == IF Token(p) \in ts THEN Result(p + 1, Leaf(Token(p)), FALSE) ELSE Failed(p)

Variable(p) == OneOf(Variables, p)

Primary(p) ==
    IF Token(p) = "&"
    THEN LET v == Variable(p + 1) IN [v EXCEPT !.node = Node("&", <<v.node>>)]
    ELSE OneOf(Variables \cup Literals \cup KeywordValues, p)

\* ret = init_node(.., ret, op2)
Joined(a, op, b) == Result(b.pos, Node(op, <<a.node, b.node>>), a.err \/ b.err)

\* A loop of at most n rounds that begins with a; a round after the last one
\* leaves its result alone.
Loop(Round(_), a, n) ==
    LET after[k \in 0 .. n] == IF k = 0 THEN a ELSE Round(after[k - 1])
    IN after[n]

MoreTerms(a) ==
    IF Token(a.pos) \in Arithmetic THEN Joined(a, Token(a.pos), Primary(a.pos + 1)) ELSE a

\* Each round takes an operator.
Expr(p) == Loop(MoreTerms, Primary(p), Len(tokens))

Comparison(p) ==
    LET a == Expr(p) IN
    IF Token(a.pos) \in Relations
    THEN Joined(a, Token(a.pos), Expr(a.pos + 1))
    ELSE Failed(a.pos)

MoreComparisons(a) ==
    IF Token(a.pos) = "AND" THEN Joined(a, "AND", Comparison(a.pos + 1)) ELSE a

BooleanExpr(p) == Loop(MoreComparisons, Comparison(p), Len(tokens))

Assign(p) ==
    LET target == Variable(p) IN
    IF Token(target.pos) = "="
    THEN Joined(target, ":=", Expr(target.pos + 1))
    ELSE Failed(target.pos)
=============================================================================

------------------------------- MODULE Parser --------------------------------
(***************************************************************************)
(* The recursive descent parser (front/parser.c) from the tokens of a      *)
(* source to the tree that is compiled.                                    *)
(*                                                                         *)
(* One step is one statement-level function up to its next call of         *)
(* statement(), or its continuation after that call: the C call stack is   *)
(* the stack calls.  The functions below a statement are in Terms and      *)
(* KeywordParser.                                                          *)
(***************************************************************************)
EXTENDS KeywordParser, SequencesExt

CONSTANTS
    Sources     \* the token sequences parsed, each without its final EOF

ASSUME SourcesAssumption == \A s \in Sources : s \in Seq(Tokens)

VARIABLES
    pos,        \* the token that get_token returns next
    calls,      \* the callers of statement(), the innermost first
    mode,       \* what happens next: see below
    ret,        \* the Node that statement() has returned last
    hadError,   \* had_error
    labels,     \* the labels made real, with the Node each got, in order
    tree        \* what parse() returns: the Nodes of the top level, in order

vars == <<tokens, pos, calls, mode, ret, hadError, labels, tree>>

\* statement() is called, it returns, a loop looks for its end; parse() has
\* returned, or a null pointer was dereferenced or called.
Modes == {"statement", "returned", "body", "parsed", "crashed"}

Init ==
    /\ tokens \in Sources
    /\ pos = 1
    /\ calls = <<>>
    /\ mode = "statement"
    /\ ret = NULL
    /\ hadError = FALSE
    /\ labels = <<>>
    /\ tree = <<>>

-----------------------------------------------------------------------------
(* statement().                                                            *)

\* The function has parsed r and gives node back to its caller.
Return(r, node) ==
    /\ pos' = r.pos
    /\ mode' = "returned"
    /\ ret' = node
    /\ hadError' = (hadError \/ r.err)

\* statement() looks at the next token, which is one of ts.
At(ts) ==
    /\ mode = "statement"
    /\ Token(pos) \in ts
    /\ UNCHANGED <<tokens, tree>>

ParseEndOfFile ==
    /\ At({"EOF"})
    /\ Return(Result(pos, NULL, FALSE), NULL)
    /\ UNCHANGED <<calls, labels>>

ParseAssign ==
    LET r == Assign(pos) IN
    /\ At(Variables)
    /\ Return(r, r.node)
    /\ UNCHANGED <<calls, labels>>

\* parse_keyword.  keywords_compilers has an entry for every keyword and is
\* indexed with whatever token follows an INCLUDE.
ParseKeyword ==
    LET k == PastIncludes(pos)
        r == Keyword(k)
    IN
    /\ At(Keywords \ {"IF", "DO", "FOR"})
    /\ UNCHANGED <<calls, labels>>
    /\ \/ /\ Token(k) \in Keywords
          /\ Return(r, r.node)
       \/ /\ Token(k) \notin Keywords
          /\ Return(Failed(k), NULL)
       \/ /\ Token(k) \notin Keywords
          /\ pos' = k
          /\ mode' = "crashed"
          /\ UNCHANGED <<ret, hadError>>

\* Faulty variant: the error is reported, no token is skipped.
ParseUnexpectedStays ==
    /\ At(Literals \cup Arithmetic \cup Relations \cup Signs \cup Identifiers)
    /\ Return(Result(pos, NULL, TRUE), NULL)
    /\ UNCHANGED <<calls, labels>>

ParseUnexpected ==
    /\ At(Literals \cup Arithmetic \cup Relations \cup Signs \cup Identifiers)
    /\ Return(Failed(pos), NULL)
    /\ UNCHANGED <<calls, labels>>

\* A caller waits for the statement it has called.
Await(frame, r) ==
    /\ calls' = <<frame>> \o calls
    /\ pos' = r.pos
    /\ hadError' = (hadError \/ r.err)
    /\ UNCHANGED ret

ParseLabel ==
    /\ At(LabelNames)
    /\ Await([fn |-> "label", kids |-> <<Leaf(Token(pos))>>], Result(pos + 1, NULL, FALSE))
    /\ UNCHANGED <<mode, labels>>

ParseIf ==
    LET cond == BooleanExpr(pos + 1) IN
    /\ At({"IF"})
    /\ UNCHANGED labels
    /\ \/ /\ Token(cond.pos) = "THEN"
          /\ Await([fn |-> "then", kids |-> <<cond.node>>],
                   Result(cond.pos + 1, cond.node, cond.err))
          /\ UNCHANGED mode
       \/ /\ Token(cond.pos) # "THEN"
          /\ Return(Failed(cond.pos), NULL)
          /\ UNCHANGED calls

ParseDo ==
    /\ At({"DO"})
    /\ Await([fn |-> "do", kids |-> <<>>], Result(pos + 1, NULL, FALSE))
    /\ mode' = "body"
    /\ UNCHANGED labels

\* for_stmt up to its body; the first two errors are those of the iterator and
\* of the initializer.
ParseFor ==
    LET init == Assign(pos + 1)
        to   == Expr(init.pos + 1)
    IN
    /\ At({"FOR"})
    /\ UNCHANGED labels
    /\ \/ /\ Token(pos + 1) \notin NumericVariables
          /\ Return(Failed(pos + 1), NULL)
          /\ UNCHANGED calls
       \/ /\ Token(pos + 1) \in NumericVariables
          /\ init.node = NULL \/ Token(init.pos) # "TO"
          /\ Return(Failed(init.pos), NULL)
          /\ UNCHANGED calls
       \/ /\ Token(pos + 1) \in NumericVariables
          /\ init.node # NULL /\ Token(init.pos) = "TO"
          /\ Await([fn |-> "for", kids |-> <<init.node, to.node>>],
                   Result(to.pos, to.node, to.err \/ init.err))
          /\ mode' = "body"

-----------------------------------------------------------------------------
(* The callers of statement().                                             *)

\* statement() has returned to a function of the name fn.
Returned(fn) ==
    /\ mode = "returned"
    /\ calls # <<>>
    /\ Head(calls).fn = fn
    /\ UNCHANGED <<tokens, tree>>

\* Faulty variant: the label is added before its statement is parsed.
LabelsEarly(l) == Append(labels, [label |-> l, node |-> NULL])

\* add_real_symbol; which Node a label keeps is the matter of SymbolTable.
LabelsWith(l) == Append(labels, [label |-> l, node |-> ret])

ReturnToLabel ==
    /\ Returned("label")
    /\ calls' = Tail(calls)
    /\ labels' = LabelsWith(Head(calls).kids[1].op)
    /\ UNCHANGED <<pos, mode, ret, hadError>>

\* Faulty variant: ELSE belongs to the outermost IF.
TakesElseOutermost == Token(pos) = "ELSE" /\ Len(calls) = 1

TakesElse == Token(pos) = "ELSE"

ReturnToThen ==
    LET kids == Append(Head(calls).kids, ret) IN
    /\ Returned("then")
    /\ UNCHANGED <<hadError, labels>>
    /\ \/ /\ TakesElse
          /\ calls' = <<[fn |-> "else", kids |-> kids]>> \o Tail(calls)
          /\ pos' = pos + 1
          /\ mode' = "statement"
          /\ UNCHANGED ret
       \/ /\ ~TakesElse
          /\ calls' = Tail(calls)
          /\ ret' = Node("IF", Append(kids, NULL))
          /\ UNCHANGED <<pos, mode>>

ReturnToElse ==
    /\ Returned("else")
    /\ calls' = Tail(calls)
    /\ ret' = Node("IF", Append(Head(calls).kids, ret))
    /\ UNCHANGED <<pos, mode, hadError, labels>>

ReturnToBody ==
    /\ Returned("do") \/ Returned("for")
    /\ calls' = [calls EXCEPT ![1].kids = Append(@, ret)]
    /\ mode' = "body"
    /\ UNCHANGED <<pos, ret, hadError, labels>>

\* The top of a loop over the statements of a body, in a function named fn.
InBody(fn) ==
    /\ mode = "body"
    /\ Head(calls).fn = fn
    /\ UNCHANGED <<tokens, labels, tree>>

Closer(fn) == IF fn = "do" THEN "LOOP" ELSE "NEXT"

MoreBody(fn) ==
    /\ InBody(fn)
    /\ Token(pos) \notin {"EOF", Closer(fn)}
    /\ mode' = "statement"
    /\ UNCHANGED <<pos, calls, ret, hadError>>

BodyAtEndOfFile(fn) ==
    /\ InBody(fn)
    /\ Token(pos) = "EOF"
    /\ calls' = Tail(calls)
    /\ Return(Result(pos, NULL, TRUE), NULL)

\* LOOP with its modifier; the condition of ENDLESS is NULL.
CloseDo ==
    LET kids == Head(calls).kids
        cond == BooleanExpr(pos + 2)
    IN
    /\ InBody("do")
    /\ Token(pos) = "LOOP"
    /\ calls' = Tail(calls)
    /\ \/ /\ Token(pos + 1) = "ENDLESS"
          /\ Return(Result(pos + 2, NULL, FALSE), Node("ENDLESS", <<NULL>> \o kids))
       \/ /\ Token(pos + 1) \in {"WHILE", "UNTIL"}
          /\ Return(cond, Node(Token(pos + 1), <<cond.node>> \o kids))
       \/ /\ Token(pos + 1) \notin {"ENDLESS", "WHILE", "UNTIL"}
          /\ Return(Result(pos + 1, NULL, TRUE), NULL)

\* Faulty variant: any variable may follow NEXT.
SameVariableAny(kids, temp) == temp \in {Leaf(v) : v \in Variables}

\* The variable after NEXT is the target of the initializer.
SameVariable(kids, temp) == kids[1].kids[1] = temp

\* NEXT with its variable, which is looked into without being checked.
CloseFor ==
    LET kids == Head(calls).kids
        temp == Variable(pos + 1)
    IN
    /\ InBody("for")
    /\ Token(pos) = "NEXT"
    /\ calls' = Tail(calls)
    /\ \/ /\ temp.node = NULL
          /\ pos' = temp.pos
          /\ mode' = "crashed"
          /\ hadError' = TRUE
          /\ UNCHANGED ret
       \/ /\ temp.node # NULL
          /\ IF SameVariable(kids, temp.node)
             THEN Return(temp, Node("FOR", kids))
             ELSE Return(Result(temp.pos, temp.node, TRUE), NULL)

\* parse() links the statement and goes on unless the file has ended.
ReturnToParse ==
    /\ mode = "returned"
    /\ calls = <<>>
    /\ tree' = Append(tree, ret)
    /\ mode' = IF Token(pos) = "EOF" THEN "parsed" ELSE "statement"
    /\ UNCHANGED <<tokens, pos, calls, ret, hadError, labels>>

Stop ==
    /\ mode \in {"parsed", "crashed"}
    /\ UNCHANGED vars

Next ==
    \/ ParseEndOfFile
    \/ ParseAssign
    \/ ParseKeyword
    \/ ParseUnexpected
    \/ ParseLabel
    \/ ParseIf
    \/ ParseDo
    \/ ParseFor
    \/ ReturnToLabel
    \/ ReturnToThen
    \/ ReturnToElse
    \/ ReturnToBody
    \/ \E fn \in {"do", "for"} : MoreBody(fn) \/ BodyAtEndOfFile(fn)
    \/ CloseDo
    \/ CloseFor
    \/ ReturnToParse
    \/ Stop

Spec == Init /\ [][Next]_vars

-----------------------------------------------------------------------------
(* The grammar (docs/grammar.ebnf), by spans of the source: whether tokens  *)
(* i to j - 1 are an expression, a statement and so on.  In it ( "&" ) is   *)
(* the sign itself, where the plain variable is another alternative or none;*)
(* ( CHR | HEX ) and ( ";" ) of PRINT may be left out, as additional/       *)
(* test.bas leaves them out; and the LABEL of GOTO and GOSUB is a name.     *)
(* Of differences.md come that NEXT has the variable of its FOR and that    *)
(* READ "doesn't work".                                                     *)

\* Parts with a token of ts between any two of them.
Separated(IsPart(_, _), ts, i, j) ==
    LET cuts == {i - 1, j} \cup {k \in i .. j - 1 : tokens[k] \in ts} IN
    /\ i < j
    /\ \A a, b \in cuts : a < b /\ (\A c \in cuts : c <= a \/ b <= c) => IsPart(a + 1, b)

IsPrimary(i, j) ==
    \/ j = i + 1 /\ tokens[i] \in Variables \cup Literals \cup KeywordValues
    \/ j = i + 2 /\ tokens[i] = "&" /\ tokens[i + 1] \in Variables

IsExpr(i, j) == Separated(IsPrimary, Arithmetic, i, j)

IsAssign(i, j) ==
    i + 2 < j /\ tokens[i] \in Variables /\ tokens[i + 1] = "=" /\ IsExpr(i + 2, j)

IsComparison(i, j) ==
    i + 2 < j /\ tokens[i] \in Variables /\ tokens[i + 1] \in Relations /\ IsExpr(i + 2, j)

IsBoolean(i, j) == Separated(IsComparison, {"AND"}, i, j)

\* The right sides of the keyword rules, a choice as a set of sequences.
Sides(keyword) ==
    CASE keyword \in {"BREAK", "CLS", "END", "FILES", "RETURN"} -> {<<>>}
      [] keyword \in {"ALERT", "DELETE", "SIZE"}               -> {<<"string">>}
      [] keyword \in {"INK", "PAUSE"}                          -> {<<"numeric">>}
      [] keyword \in {"MOVE", "PAGE", "POKE", "POKEINT", "SOUND"} -> {<<"numeric", "numeric">>}
      [] keyword \in {"CURSCHAR", "CURSCOL", "GETKEY", "WAITKEY"} -> {<<"NUMERIC">>}
      [] keyword \in {"GOSUB", "GOTO"}    -> {<<"LABEL">>}
      [] keyword \in {"PEEK", "PEEKINT"}  -> {<<"NUMERIC", "numeric">>}
      [] keyword = "ASKFILE" -> {<<"STRING">>}
      [] keyword = "CALL"    -> {<<"expr">>}
      [] keyword = "CASE"    -> {<<m, "STRING">> : m \in {"LOWER", "UPPER"}}
      [] keyword = "CURSOR"  -> {<<"OFF">>, <<"ON">>}
      [] keyword = "CURSPOS" -> {<<"NUMERIC", "NUMERIC">>}
      [] keyword = "INPUT"   -> {<<"NUMERIC">>, <<"STRING">>}
      [] keyword = "LEN"     -> {<<"string", "NUMERIC">>}
      [] keyword = "LISTBOX" -> {<<"string", "string", "string", "NUMERIC">>}
      [] keyword = "LOAD"    -> {<<"string", "numeric">>}
      [] keyword = "NUMBER"  -> {<<"STRING", "NUMERIC">>, <<"NUMERIC", "STRING">>}
      [] keyword = "PORT"    -> {<<"IN", "numeric", "NUMERIC">>, <<"OUT", "numeric", "numeric">>}
      [] keyword = "PRINT"   -> {<<"expr">>, <<"expr", ";">>}
                                \cup {<<m, "expr">> : m \in {"CHR", "HEX"}}
                                \cup {<<m, "expr", ";">> : m \in {"CHR", "HEX"}}
      [] keyword = "RAND"    -> {<<"NUMERIC", "numeric", "numeric">>}
      [] keyword = "RENAME"  -> {<<"string", "string">>}
      [] keyword = "SAVE"    -> {<<"string", "numeric", "numeric">>}
      [] keyword = "SERIAL"  -> {<<"ON", "numeric">>, <<"SEND", "numeric">>, <<"REC", "NUMERIC">>}
      [] keyword = "STRING"  -> {<<m, "STRING", "numeric", "NUMERIC">> : m \in {"GET", "SET"}}
      [] OTHER               -> {}

Is(part, i, j) ==
    CASE part = "expr"    -> IsExpr(i, j)
      [] part = "numeric" -> IsPrimary(i, j) /\ tokens[i] \notin
                                StringVariables \cup StringLiterals \cup CharLiterals
      [] part = "string"  -> j = i + 1 /\ tokens[i] \in StringVariables \cup StringLiterals
      [] part = "NUMERIC" -> j = i + 1 /\ tokens[i] \in NumericVariables
      [] part = "STRING"  -> j = i + 1 /\ tokens[i] \in StringVariables
      [] part = "LABEL"   -> j = i + 1 /\ tokens[i] \in Identifiers
      [] OTHER            -> j = i + 1 /\ tokens[i] = part

\* One part after the other, each with the ends it may have.
AreParts(parts, i, j) ==
    LET ends[n \in 0 .. Len(parts)] ==
            IF n = 0 THEN {i}
            ELSE {k \in i .. j : \E h \in ends[n - 1] : h < k /\ Is(parts[n], h, k)}
    IN j \in ends[Len(parts)]

IsKeywordStatement(i, j) ==
    \/ \E parts \in Sides(tokens[i]) : AreParts(parts, i + 1, j)
    \/ tokens[i] = "INCLUDE" /\ j = i + 2 /\ tokens[i + 1] \in StringLiterals

EndOfFile == Len(tokens) + 1

\* The tokens that the statement at i may go on with, given the ends of what
\* begins later: THEN and the end of a FOR's header, ELSE, LOOP and NEXT.
Thens(i)   == {k \in i + 1 .. Len(tokens) : tokens[k] = "THEN" /\ IsBoolean(i + 1, k)}
Headers(i) == {m \in i + 1 .. EndOfFile : \E k \in i + 1 .. m - 1 :
                  tokens[k] = "TO" /\ IsAssign(i + 1, k) /\ IsExpr(k + 1, m)}

Elses(ends, i) == {k \in UNION {ends[t + 1].one : t \in Thens(i)} : k < EndOfFile /\ tokens[k] = "ELSE"}
Loops(ends, i) == {k \in ends[i + 1].all : k < Len(tokens) /\ tokens[k] = "LOOP"}
Nexts(ends, i) == {k \in UNION {ends[m].all : m \in Headers(i)} : k < Len(tokens) /\ tokens[k] = "NEXT"}

\* Where a statement that begins at i may end.
StatementEnds(ends, i) ==
    LET branches == UNION {ends[k + 1].one : k \in Thens(i) \cup Elses(ends, i)}
        loops    == Loops(ends, i)
        nexts    == Nexts(ends, i)
    IN {j \in i + 1 .. EndOfFile :
          \/ IsAssign(i, j)
          \/ IsKeywordStatement(i, j)
          \/ tokens[i] \in LabelNames /\ j = i + 1
          \/ tokens[i] = "IF" /\ j \in branches
          \/ /\ tokens[i] = "DO"
             /\ \E k \in loops :
                   \/ tokens[k + 1] = "ENDLESS" /\ j = k + 2
                   \/ tokens[k + 1] \in {"WHILE", "UNTIL"} /\ IsBoolean(k + 2, j)
          \/ /\ tokens[i] = "FOR"
             /\ \E k \in nexts :
                   tokens[k + 1] \in NumericVariables /\ tokens[k + 1] = tokens[i + 1] /\ j = k + 2}

\* Where one statement, and where any number of them from i on may end.
Ends[i \in 1 .. EndOfFile] ==
    LET one == StatementEnds(Ends, i)
    IN [one |-> one, all |-> {i} \cup UNION {Ends[k].all : k \in one}]

\* "program = statement , { statement } , EOF"
IsProgram == tokens # <<>> /\ EndOfFile \in Ends[1].all

-----------------------------------------------------------------------------
(* Where the code and the grammar part.  A source s is:                    *)

\* without what only the code takes: nothing at all, or nothing behind the last
\* THEN or ELSE; any expression on the left of a comparison; and a label or an
\* INCLUDE with the statement behind it as one branch of an IF that goes on.
HasBranches(s) == s # <<>> /\ s[Len(s)] \notin {"THEN", "ELSE"}

ComparesVariables(s) ==
    \A i \in DOMAIN s : s[i] \in Relations =>
       /\ i > 1 /\ s[i - 1] \in Variables
       /\ i > 2 => s[i - 2] \notin Arithmetic \cup {"&"}

BranchesAreSingle(s) ==
    \A i \in DOMAIN s : \A k \in i + 2 .. Len(s) :
       s[i] \in {"THEN", "ELSE"} /\ s[k] = "ELSE" => s[i + 1] \notin LabelNames \cup {"INCLUDE"}

\* Without what only the grammar takes: a label in front of the end of a body or
\* of an ELSE, and an INCLUDE in front of anything but a keyword statement.
LabelsHaveStatements(s) ==
    \A i \in 1 .. Len(s) - 1 : s[i] \in LabelNames => s[i + 1] \notin {"LOOP", "NEXT", "ELSE"}

IncludesLeadKeywords(s) ==
    \A i \in DOMAIN s : s[i] = "INCLUDE" =>
       i + 2 <= Len(s) /\ s[i + 1] \in StringLiterals /\ s[i + 2] \in Statements \cup {"INCLUDE"}

NoMoreThanTheGrammar(s) ==
    HasBranches(s) /\ ComparesVariables(s) /\ BranchesAreSingle(s) /\ IncludesLeadKeywords(s)

NoMoreThanTheCode(s) == LabelsHaveStatements(s) /\ IncludesLeadKeywords(s)

-----------------------------------------------------------------------------
(* Properties.                                                             *)

Parsed == mode = "parsed" /\ ~hadError

\* The types of the state.
TypeOK ==
    /\ tokens \in Seq(Tokens)
    /\ pos \in 1 .. Len(tokens) + 1
    /\ mode \in Modes
    /\ hadError \in BOOLEAN
    /\ \A i \in DOMAIN calls :
          calls[i].fn \in {"label", "then", "else", "do", "for"}
    /\ \A k \in DOMAIN labels : labels[k].label \in LabelNames

\* The parser reports an error in every source that is not a program of the
\* grammar.
AcceptsOnlyPrograms == Parsed => IsProgram

\* A source in which it reports an error, or which it does not get through, is
\* no program.
AcceptsAllPrograms == hadError \/ mode = "crashed" => ~IsProgram

\* What is left to do: tokens, then the functions that wait for a statement.
\* A statement before a token consumes it; one at the end of the file returns.
Weight(m, next) ==
    CASE m = "returned"                   -> 2
      [] m = "body"                       -> 1
      [] m = "statement" /\ next = "EOF" -> 3
      [] OTHER                            -> 0

Left == 8 * (Len(tokens) + 1 - pos) + 4 * Len(calls) + Weight(mode, Token(pos))

\* The parser comes to an end on every source, without waiting for a token that
\* does not come and without calling statement() again where it has been: every
\* step leaves less to do than the one before.
EveryStepLeavesLess == [][Left' < Left]_vars

\* "Consume a variable. Compare it to initializer's target, and if they don't
\* match, raise an error" (parsing_theory.md): a NEXT without its variable is
\* an error like any other.
NextIsChecked == mode # "crashed"

\* "Skip tokens until we are on keyword": at a token that is no keyword,
\* synchronize() leaves off at the first one after it.
SynchronizesOnKeyword ==
    \A p \in pos .. Len(tokens) :
       ~Stops(Token(p)) =>
          \A q \in p .. Synchronized(p) - 1 : ~Stops(Token(q))
=============================================================================

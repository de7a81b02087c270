----------------------------- MODULE Expression ------------------------------
(***************************************************************************)
(* Compiled expressions at work: a behaviour compiles one tree and then    *)
(* runs the code, an instruction a step, on a machine whose registers hold *)
(* anything.                                                               *)
(***************************************************************************)
EXTENDS ExpressionCode, TLC

CONSTANTS
    Trees,      \* the expressions compiled
    Words,      \* the values of the numeric variables and of the timer
    Junk,       \* what the registers may hold when the code begins
    Strings     \* the contents of the string variables

-----------------------------------------------------------------------------
(* Running the code.                                                       *)

VARIABLES
    tree,       \* the expression
    result,     \* what compile_expression made of it
    m,          \* the machine: registers, flags, numbers and strings
    ip,         \* the offset of the next instruction in the code
    status      \* "compiled", "error", "run", "divide" or "fault"

vars == <<tree, result, m, ip, status>>

RECURSIVE Leaves(_)
Leaves(t) == IF "val" \in DOMAIN t THEN {t} ELSE Leaves(t.op1) \cup Leaves(t.op2)

\* The addresses of the numbers and of the strings a tree reads.
CellsOf(t)   == {l.val : l \in {k \in Leaves(t) : k.attribute = "cell"}}
StringsOf(t) == {l.val : l \in {k \in Leaves(t) : k.attribute = "string"}}

CellBytes(cell) ==
    [ a \in UNION {{c, c + 1} : c \in DOMAIN cell} |->
         IF a \in DOMAIN cell THEN cell[a] % 256 ELSE cell[a - 1] \div 256 ]

Machines ==
    { [ ax |-> junk, bx |-> junk, cx |-> junk, dx |-> junk, si |-> STRBUF, di |-> STRBUF,
        cmp |-> <<junk, 0>>, carry |-> FALSE, ticks |-> ticks, hours |-> 0, stack |-> <<>>,
        mem |-> CellBytes(cell), text |-> (STRBUF :> <<>>) @@ text ] :
          junk  \in Junk,
          ticks \in IF Timer \in Leaves(tree) THEN Words ELSE {0},
          cell  \in [CellsOf(tree) -> Words],
          text  \in [StringsOf(tree) -> Strings] }

\* compile() has run on the tree, and check_for_error of main().
Init ==
    /\ tree \in Trees
    /\ LET c == CompileExpression(tree) IN
       /\ result = [code |-> Placed(c.code), size |-> Size(c.code), numeric |-> c.numeric]
       /\ status = IF c.ill THEN "error" ELSE "compiled"
    /\ m = <<>>
    /\ ip = 0

\* The program reaches the expression.
Reach ==
    /\ status = "compiled"
    /\ m' \in Machines
    /\ status' = "run"
    /\ UNCHANGED <<tree, result, ip>>

AtEnd == ip = result.size

\* The instruction at ip is one of ops.
Fetched(ops) ==
    /\ status = "run"
    /\ ip \in DOMAIN result.code
    /\ result.code[ip].op \in ops
    /\ UNCHANGED <<tree, result>>

Jump ==
    LET i == result.code[ip] IN
    /\ Fetched(Jumps)
    /\ ip' = JumpsTo(m, ip, i)
    /\ UNCHANGED <<m, status>>

\* Any other instruction; DIV may raise an exception.
Execute ==
    LET i == result.code[ip] IN
    /\ status = "run"
    /\ ip \in DOMAIN result.code
    /\ i.op \notin Jumps \cup {"CALL"}
    /\ IF i.op = "DIV" /\ DivFaults(m)
       THEN status' = "fault" /\ UNCHANGED <<m, ip>>
       ELSE m' = Moved(m, i) /\ ip' = ip + i.size /\ UNCHANGED status
    /\ UNCHANGED <<tree, result>>

\* Faulty variant: the handler prints its message and returns.
CallZeroDivideReturning ==
    /\ Fetched({"CALL"})
    /\ result.code[ip].src.val = ZERODIV
    /\ ip' = ip + 3
    /\ UNCHANGED <<m, status>>

\* zero_divide_handler prints its message and leaves the program.
CallZeroDivide ==
    /\ Fetched({"CALL"})
    /\ result.code[ip].src.val = ZERODIV
    /\ status' = "divide"
    /\ UNCHANGED <<m, ip>>

\* add_strings: SI is copied to STRBUF, DI appended to it there.
JoinedAt(x) ==
    LET copied == [x.text EXCEPT ![STRBUF] = x.text[x.si]] IN
    [x EXCEPT !.text = [copied EXCEPT ![STRBUF] = @ \o copied[x.di]],
              !.si = STRBUF, !.ax = STRBUF, !.bx = x.di]

CallAddStrings ==
    /\ Fetched({"CALL"})
    /\ result.code[ip].src.val = STRADD
    /\ m' = JoinedAt(m)
    /\ ip' = ip + 3
    /\ UNCHANGED status

CallStringCompare ==
    /\ Fetched({"CALL"})
    /\ result.code[ip].src.val = OsStringCompare
    /\ m' = [m EXCEPT !.carry = (m.text[m.si] = m.text[m.di])]
    /\ ip' = ip + 3
    /\ UNCHANGED status

Next ==
    \/ Reach
    \/ Jump
    \/ Execute
    \/ CallZeroDivide
    \/ CallAddStrings
    \/ CallStringCompare

Spec == Init /\ [][Next]_vars

FairSpec == Spec /\ WF_vars(Next)

-----------------------------------------------------------------------------
(* What an expression means, read off the tree.                            *)

NoStrings == {"-", "*", "/", "%", "<", ">", "AND"}

RECURSIVE TypeOf(_)
TypeOf(t) ==
    IF "val" \in DOMAIN t
    THEN IF t.attribute = "string" THEN "string" ELSE "number"
    ELSE LET a == TypeOf(t.op1)
         IN CASE a = "ill" \/ TypeOf(t.op2) # a                 -> "ill"
              [] a = "string" /\ t.attribute \in NoStrings      -> "ill"
              [] t.attribute \in Comparisons                    -> "number"
              [] OTHER                                          -> a

Truth(b) == IF b THEN 1 ELSE 0

RECURSIVE Meaning(_)
Meaning(t) ==
    IF "val" \in DOMAIN t
    THEN CASE t.attribute = "constant" -> t.val
           [] t.attribute = "cell"     -> WordAt(m.mem, t.val)
           [] t.attribute = "timer"    -> m.ticks
           [] t.attribute = "string"   -> m.text[t.val]
    ELSE LET x == Meaning(t.op1)
             y == Meaning(t.op2)
         IN CASE t.attribute = "+" /\ TypeOf(t) = "string" -> x \o y
              [] t.attribute = "+" /\ TypeOf(t) = "number" -> Wrap(x + y)
              [] t.attribute = "-"   -> Wrap(x - y)
              [] t.attribute = "*"   -> ProductLow(x, y)
              [] t.attribute = "/"   -> IF y = 0 THEN 0 ELSE x \div y
              [] t.attribute = "%"   -> IF y = 0 THEN 0 ELSE x % y
              [] t.attribute = "="   -> Truth(x = y)
              [] t.attribute = "!="  -> Truth(x # y)
              [] t.attribute = "<"   -> Truth(Signed(x) < Signed(y))
              [] t.attribute = ">"   -> Truth(Signed(x) > Signed(y))
              [] t.attribute = "AND" -> Truth(x = 1 /\ y = 1)

\* Whether a division by zero is met; the second comparison of an AND is not
\* looked at when the first is false.
RECURSIVE DividesByZero(_)
DividesByZero(t) ==
    /\ "val" \notin DOMAIN t
    /\ \/ DividesByZero(t.op1)
       \/ /\ DividesByZero(t.op2)
          /\ t.attribute = "AND" => Meaning(t.op1) = 1
       \/ /\ t.attribute \in {"/", "%"}
          /\ Meaning(t.op2) = 0

-----------------------------------------------------------------------------
(* Properties.                                                             *)

\* The types of the state.
TypeOK ==
    /\ tree \in Trees
    /\ status \in {"compiled", "error", "run", "divide", "fault"}
    /\ result.numeric \in BOOLEAN
    /\ m # <<>> => {m.ax, m.bx, m.dx, m.si, m.di} \subseteq Word16

\* "If expression is numeric, compile_expression puts the result to AX
\* register. If it is a string, it puts the address into SI"
\* (codegen_theory.md): what the code leaves there is what the tree means.
ResultIsMeaning ==
    status = "run" /\ AtEnd =>
       IF result.numeric THEN m.ax = Meaning(tree)
                         ELSE m.text[m.si] = Meaning(tree)

\* The program leaves through the handler of division by zero exactly when
\* the expression divides by zero, and DIV never raises an exception.
DivisionIsGuarded ==
    /\ status # "fault"
    /\ status = "divide" => DividesByZero(tree)
    /\ status = "run" /\ AtEnd => ~DividesByZero(tree)

\* The compiler rejects an expression exactly when numbers and strings are
\* mixed or a string is subtracted, multiplied, ordered, ...
TypeErrorsFound ==
    /\ status = "error" => TypeOf(tree) = "ill"
    /\ status = "compiled" => TypeOf(tree) = IF result.numeric THEN "number" ELSE "string"

\* The code has no loop: every expression is rejected, evaluated or leaves
\* through the handler.
Finishes == <>(status \in {"error", "divide"} \/ (status = "run" /\ AtEnd))
=============================================================================

--------------------------- MODULE ExpressionCode ----------------------------
(***************************************************************************)
(* The expression compiler (back/expression.c): compile_expression walks a *)
(* tree, emits code that leaves a number in AX or the address of a string  *)
(* in SI, and reports which of the two it was.                             *)
(***************************************************************************)
EXTENDS Machine

\* Trees: a leaf carries the address, the word or the text it stands for.
Leaf(attribute, val)       == [attribute |-> attribute, val |-> val]
Node(attribute, op1, op2)  == [attribute |-> attribute, op1 |-> op1, op2 |-> op2]

Number(w)     == Leaf("constant", w)    \* a literal, PROGSTART, & of a variable, ...
Variable(v)   == Leaf("cell", VARS + 2 * v)
Timer         == Leaf("timer", 0)
StringAt(a)   == Leaf("string", a)      \* a string literal or variable

-----------------------------------------------------------------------------
(* compile_expression.  Its result: the code, whether the value is numeric,*)
(* and whether compile_error was called.                                   *)

Compiled(code, numeric, ill) == [code |-> code, numeric |-> numeric, ill |-> ill]

LeafCode(t) ==
    CASE t.attribute = "constant" -> Compiled(<<Mov(AX, Imm(t.val))>>, TRUE, FALSE)
      [] t.attribute = "cell"     -> Compiled(<<Mov(AX, At(t.val))>>, TRUE, FALSE)
      [] t.attribute = "timer"    -> Compiled(<<Xor(AX, AX), Int1A, Mov(AX, DX)>>, TRUE, FALSE)
      [] t.attribute = "string"   -> Compiled(<<Mov(SI, Imm(t.val))>>, FALSE, FALSE)

\* The save between the operands: numeric to BX, string to DI.
Save(numeric) == IF numeric THEN <<Mov(BX, AX)>> ELSE <<Mov(DI, SI)>>

\* Faulty variant: the operands are not exchanged before the subtraction.
NumericCodeUnswapped(op) ==
    CASE op = "+" -> <<Add(AX, BX)>>
      [] op = "-" -> <<Sub(AX, BX)>>
      [] op = "*" -> <<MulBx>>
      [] op = "/" -> <<TestAx, Jne(3), CallTo(ZERODIV), XchgAxBx, Xor(DX, DX), DivBx>>
      [] op = "%" -> <<TestAx, Jne(3), CallTo(ZERODIV), XchgAxBx, Xor(DX, DX), DivBx,
                       Mov(AX, DX)>>

\* Faulty variant: DX keeps what an earlier product left in it.
NumericCodeDirtyDx(op) ==
    CASE op = "+" -> <<Add(AX, BX)>>
      [] op = "-" -> <<XchgAxBx, Sub(AX, BX)>>
      [] op = "*" -> <<MulBx>>
      [] op = "/" -> <<TestAx, Jne(3), CallTo(ZERODIV), XchgAxBx, DivBx>>
      [] op = "%" -> <<TestAx, Jne(3), CallTo(ZERODIV), XchgAxBx, DivBx, Mov(AX, DX)>>

\* What follows the second operand of a numeric operator: the first operand
\* is in BX, the second in AX.
NumericCode(op) ==
    CASE op = "+" -> <<Add(AX, BX)>>
      [] op = "-" -> <<XchgAxBx, Sub(AX, BX)>>
      [] op = "*" -> <<MulBx>>
      [] op = "/" -> <<TestAx, Jne(3), CallTo(ZERODIV), XchgAxBx, Xor(DX, DX), DivBx>>
      [] op = "%" -> <<TestAx, Jne(3), CallTo(ZERODIV), XchgAxBx, Xor(DX, DX), DivBx,
                       Mov(AX, DX)>>

\* ... of a string operator: the first string is at DI, the second at SI.
JoinCode == <<XchgDiSi, CallTo(STRADD)>>

\* os_string_compare sets the carry flag when SI and DI are the same string.
OsStringCompare == \h45

\* The instructions of a comparison, by whether the operands are numbers.
ComparisonCode(op, numeric) ==
    CASE op = "=" /\ numeric ->
            <<Cmp(AX, BX), Jne(6), Mov(AX, Imm(1)), JmpShort(2), Xor(AX, AX)>>
      [] op = "=" /\ ~numeric ->
            <<CallTo(OsStringCompare), Jc(4), Xor(AX, AX), JmpShort(4), Mov(AX, Imm(1))>>
      [] op = "!=" /\ numeric ->
            <<Cmp(AX, BX), Jne(4), Xor(AX, AX), JmpShort(4), Mov(AX, Imm(1))>>
      [] op = "!=" /\ ~numeric ->
            <<CallTo(OsStringCompare), Jc(6), Mov(AX, Imm(1)), JmpShort(2), Xor(AX, AX)>>
      [] op = "<" -> <<Cmp(AX, BX), Jg(4), Xor(AX, AX), JmpShort(4), Mov(AX, Imm(1))>>
      [] op = ">" -> <<Cmp(BX, AX), Jg(4), Xor(AX, AX), JmpShort(4), Mov(AX, Imm(1))>>

\* AND: the code of the second comparison between the test of the first and
\* its own; the near jump is patched to the final XOR.
AndCode(second) ==
    LET rest == second \o <<TestAx, Jz(6), Mov(AX, Imm(1)), JmpShort(2)>>
    IN <<TestAx, JzNear(Size(rest))>> \o rest \o <<Xor(AX, AX)>>

\* Faulty variant: < and > accept strings, like = and !=.
NumericOnlyUnordered == {"-", "*", "/", "%", "AND"}

\* The operators that reject a string as their first operand.
NumericOnly == {"-", "*", "/", "%", "<", ">", "AND"}
Comparisons == {"=", "!=", "<", ">"}

RECURSIVE CompileExpression(_)
CompileExpression(t) ==
    IF "val" \in DOMAIN t THEN LeafCode(t)
    ELSE
    LET op     == t.attribute
        a      == CompileExpression(t.op1)
        b      == CompileExpression(t.op2)
        save   == IF op = "AND" THEN <<>> ELSE Save(a.numeric)
        joined == a.code \o save \o b.code
    IN
    IF op \in NumericOnly /\ ~a.numeric THEN Compiled(a.code, FALSE, TRUE)
    ELSE IF a.numeric # b.numeric THEN Compiled(joined, FALSE, TRUE)
    ELSE Compiled(
            CASE op = "AND"          -> a.code \o AndCode(b.code)
              [] op \in Comparisons  -> joined \o ComparisonCode(op, a.numeric)
              [] op = "+" /\ ~a.numeric -> joined \o JoinCode
              [] OTHER               -> joined \o NumericCode(op),
            op \in Comparisons \/ a.numeric,
            a.ill \/ b.ill)
=============================================================================

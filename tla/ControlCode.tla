----------------------------- MODULE ControlCode ------------------------------
(***************************************************************************)
(* The special forms of back/codegen.c with their instructions: the code   *)
(* of numeric assignments, IF, DO and FOR, and of sequences of them.  The  *)
(* way the rel16 words get into the code is in Codegen; here they have the *)
(* values they end up with.                                                *)
(***************************************************************************)
EXTENDS ExpressionCode

Assign(v, e)        == [kind |-> "assign", var |-> v, expr |-> e]
If(c, then, else)   == [kind |-> "if", cond |-> c, then |-> then, else |-> else]
Do(body, mod, c)    == [kind |-> "do", body |-> body, mod |-> mod, cond |-> c]
For(v, e, to, body) == [kind |-> "for", var |-> v, expr |-> e, to |-> to, body |-> body]

Load(e) == CompileExpression(e).code

AssignCode(s) == Load(s.expr) \o <<Mov(At(VARS + 2 * s.var), AX)>>

\* Faulty variant: the jump of a false condition ends before the JMP over ELSE.
IfCodeShort(s, then, else) ==
    Load(s.cond) \o <<TestAx, JzNear(Size(then))>> \o then \o <<JmpNear(Size(else))>> \o else

IfCode(s, then, else) ==
    Load(s.cond) \o <<TestAx, JzNear(Size(then) + 3)>> \o then \o <<JmpNear(Size(else))>> \o else

\* Back over everything that is repeated; the jump itself comes on top.
Back(code) == -Size(code)

\* Faulty variant: the jumps of WHILE and UNTIL are exchanged.
DoCodeSwapped(s, body) ==
    IF s.mod = "ENDLESS" THEN body \o <<JmpNear(Back(body) - 3)>>
    ELSE LET tested == body \o Load(s.cond) \o <<TestAx>>
         IN tested \o <<IF s.mod = "UNTIL" THEN JneNear(Back(tested) - 4) ELSE JzNear(Back(tested) - 4)>>

DoCode(s, body) ==
    IF s.mod = "ENDLESS" THEN body \o <<JmpNear(Back(body) - 3)>>
    ELSE LET tested == body \o Load(s.cond) \o <<TestAx>>
         IN tested \o <<IF s.mod = "WHILE" THEN JneNear(Back(tested) - 4) ELSE JzNear(Back(tested) - 4)>>

\* Faulty variant: the bound is compared before the iterator is incremented.
ForCodeBefore(s, body) ==
    LET iterator == At(VARS + 2 * s.var)
        loop == body \o Load(s.to)
                \o <<Mov(BX, AX), Mov(AX, iterator), Inc(iterator), Cmp(BX, AX)>>
    IN AssignCode(s) \o loop \o <<JgeNear(Back(loop) - 4)>>

\* The bound is computed again for each repetition, after the increment.
ForCode(s, body) ==
    LET iterator == At(VARS + 2 * s.var)
        loop == body \o <<Inc(iterator)>> \o Load(s.to)
                \o <<Mov(BX, AX), Mov(AX, iterator), Cmp(BX, AX)>>
    IN AssignCode(s) \o loop \o <<JgeNear(Back(loop) - 4)>>

\* compile_ast, for a sequence of statements.
RECURSIVE StatementsCode(_)
StatementsCode(list) ==
    IF list = <<>> THEN <<>>
    ELSE LET s == Head(list) IN
         (CASE s.kind = "assign" -> AssignCode(s)
            [] s.kind = "if"     -> IfCode(s, StatementsCode(s.then), StatementsCode(s.else))
            [] s.kind = "do"     -> DoCode(s, StatementsCode(s.body))
            [] s.kind = "for"    -> ForCode(s, StatementsCode(s.body)))
         \o StatementsCode(Tail(list))
=============================================================================

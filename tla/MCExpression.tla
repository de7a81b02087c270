---------------------------- MODULE MCExpression -----------------------------
(***************************************************************************)
(* The expressions that the grammar allows with up to three operands (four *)
(* with an AND).  The second operand of an arithmetic operator is never    *)
(* compound: expr() of parser.c nests to the left and has no parentheses.  *)
(***************************************************************************)
EXTENDS Expression

A == Variable(0)
B == Variable(1)
C == Variable(2)
S == StringAt(STRVARS)
T == StringAt(STRVARS + 128)
U == StringAt(LOAD + RUNTIMELEN)

Arithmetic == {"+", "-", "*", "/", "%"}
Operators  == Arithmetic \cup Comparisons

NumberTrees ==
    {Node(o, Node(p, A, B), C) : o \in Operators, p \in Arithmetic}
    \cup {Node(o, A, k) : o \in Operators, k \in {Timer, Number(3), A}}

StringTrees ==
    {Node(o, Node("+", S, T), U) : o \in {"+", "=", "!="}}
    \cup {Node(o, S, k) : o \in {"+", "=", "!="}, k \in {S, T}}

AndTrees ==
    {Node("AND", Node(o, A, B), Node(p, Node(q, A, B), A)) :
        o \in Comparisons, p \in Comparisons, q \in {"-", "/"}}
    \cup {Node("AND", Node("AND", Node("<", A, B), Node(o, S, T)), Node("=", B, A)) :
             o \in {"=", "!="}}

\* Every operator on operands of different types, or on two strings.
MixedTrees ==
    {Node(o, A, S) : o \in Operators}
    \cup {Node(o, S, A) : o \in Operators}
    \cup {Node(o, S, T) : o \in NoStrings}
    \cup {Node(o, Node("-", S, T), k) : o \in Operators, k \in {A, S}}
    \cup {Node("AND", Node("=", A, S), Node("=", A, A)),
          Node("AND", Node("=", A, A), Node("=", A, S))}

MCTrees == NumberTrees \cup StringTrees \cup AndTrees \cup MixedTrees

MCWords   == {0, 1, 3, 32767, 32768, 65535}
MCJunk    == {65535}
MCStrings == {<<>>, <<"a">>, <<"a", "b">>}

\* Comparisons whose second operand is a sum.
CompoundNumbers == {Node("=", A, Node("+", B, C))}
CompoundStrings == {Node("=", Node("+", S, T), Node("+", T, U))}
=============================================================================

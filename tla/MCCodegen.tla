------------------------------ MODULE MCCodegen ------------------------------
(***************************************************************************)
(* Programs for the statement compiler: every way of filling eight small   *)
(* statement trees with assignments, GOTO a, GOSUB b and END, and of       *)
(* placing the labels a and b on their nodes.                              *)
(***************************************************************************)
EXTENDS Codegen, FiniteSets

MCNodes  == 1 .. 5
MCNULL   == 0
MCLabels == {"a", "b"}

\* A tree: the kinds of its compound nodes, their children (the branches of an
\* IF, the body of a loop), the top level and the nodes that occur in it.
Tree(compounds, kids, top, used) ==
    [ compounds |-> compounds,
      kids |-> [n \in MCNodes |-> IF n \in DOMAIN kids THEN kids[n] ELSE <<>>],
      top |-> top, used |-> used ]

Straight == Tree(<<>>, <<>>, <<1, 2, 3, 4>>, 1 .. 4)
IfElse   == Tree(<<"if">>, << <<2, 3>> >>, <<4, 1, 5>>, 1 .. 5)
IfOnly   == Tree(<<"if">>, << <<2, 0>> >>, <<3, 1, 4>>, 1 .. 4)
DoLoop   == Tree(<<"do">>, << <<0, 2, 3>> >>, <<4, 1, 5>>, 1 .. 5)
ForLoop  == Tree(<<"for">>, << <<0, 2, 3>> >>, <<4, 1, 5>>, 1 .. 5)
DoIf     == Tree(<<"do", "if">>, << <<0, 2>>, <<3, 4>> >>, <<1, 5>>, 1 .. 5)
IfLoops  == Tree(<<"if", "for", "do">>, << <<2, 3>>, <<0, 4>>, <<0, 5>> >>,
                 <<1>>, 1 .. 5)
ForDo    == Tree(<<"for", "do">>, << <<0, 2, 4>>, <<0, 3>> >>, <<1, 5>>, 1 .. 5)

Trees == {Straight, IfElse, IfOnly, DoLoop, ForLoop, DoIf, IfLoops, ForDo}

\* A program over tree t: fill gives each leaf its kind, target its node to
\* each label found in the source; GOTO names a, GOSUB names b.  Expressions are
\* 4 or 12 bytes long, conditions 22.
Prog(t, fill, form, target, blob) ==
    LET kind == [n \in MCNodes |-> IF n \in DOMAIN t.compounds
                                   THEN t.compounds[n] ELSE fill[n]]
    IN [ kind   |-> kind,
         then   |-> [n \in MCNodes |-> IF kind[n] = "if" THEN t.kids[n][1] ELSE MCNULL],
         else   |-> [n \in MCNodes |-> IF kind[n] = "if" THEN t.kids[n][2] ELSE MCNULL],
         body   |-> [n \in MCNodes |-> IF kind[n] = "if" THEN <<>> ELSE t.kids[n]],
         top    |-> t.top,
         form   |-> [n \in MCNodes |-> form],
         expr   |-> [n \in MCNodes |-> IF kind[n] \in {"if", "do"} THEN 22
                                       ELSE IF n % 2 = 0 THEN 12 ELSE 4],
         to     |-> [n \in MCNodes |-> 4],
         ill    |-> [n \in MCNodes |-> FALSE],
         illTo  |-> [n \in MCNodes |-> FALSE],
         label  |-> [n \in MCNodes |-> IF kind[n] = "gosub" THEN "b" ELSE "a"],
         target |-> target,
         isreal |-> [l \in MCLabels |-> target[l] # MCNULL],
         blob   |-> blob ]

\* What the front end may choose; b labels the first or the fourth node or
\* nothing, in which case a GOSUB b is an error.
Choices ==
    { c \in [ tree : Trees,
              fill : [MCNodes -> {"assign", "goto", "gosub", "end"}],
              form : {"ENDLESS", "UNTIL"},
              target : [MCLabels -> MCNodes \cup {MCNULL}] ] :
        /\ c.target["a"] \in c.tree.used
        /\ c.target["b"] \in {1, 4, MCNULL}
        /\ c.form = "ENDLESS" => \E n \in DOMAIN c.tree.compounds :
                                    c.tree.compounds[n] = "do"
        /\ \A n \in MCNodes :
              n \in DOMAIN c.tree.compounds \/ n \notin c.tree.used
              => c.fill[n] = "assign" }

ControlPrograms == { Prog(c.tree, c.fill, c.form, c.target, 0) : c \in Choices }

OneThree == [l \in MCLabels |-> IF l = "a" THEN 1 ELSE 3]

\* Every leaf and its forms, with and without a type error at each statement.
FormPrograms ==
    { [Prog(Straight, fill, form, OneThree, 31)
         EXCEPT !.ill = [n \in MCNodes |-> n = wrong]] :
            fill \in { f \in [MCNodes -> {"copy", "print", "println", "return"}] :
                        f[4] = "return" /\ f[5] = "return" },
            form \in {"string", "number", "chr", "hex"},
            wrong \in {0, 2} }
    \cup
    { [Prog(t, [n \in MCNodes |-> "assign"], form, OneThree, 31)
         EXCEPT !.ill = [n \in MCNodes |-> n = wrong],
                !.illTo = [n \in MCNodes |-> n = wrongTo]] :
            t \in Trees, form \in {"ENDLESS", "WHILE"},
            wrong \in {0, 1}, wrongTo \in {0, 1, 2} }

MCPrograms == ControlPrograms \cup FormPrograms

-----------------------------------------------------------------------------
(* Single programs, each showing one disagreement.                         *)

Fill(k1, k2, k3, k4, k5) == <<k1, k2, k3, k4, k5>>

Unlabelled == [l \in MCLabels |-> MCNULL]
LabelA(n)  == [Unlabelled EXCEPT !["a"] = n]

\* a: A = 1 / GOTO a / A = 1 / A = 1
BackwardGoto ==
    { Prog(Straight, Fill("assign", "goto", "assign", "assign", "assign"),
           "UNTIL", LabelA(1), 0) }

\* A = 1 / GOTO a / A = 1 / END / a: with nothing after the label
TrailingLabel ==
    { [Prog(Straight, Fill("assign", "goto", "assign", "end", "assign"),
            "UNTIL", Unlabelled, 0) EXCEPT !.isreal["a"] = TRUE] }

\* IF .. THEN A = 1 ELSE END, the last statement
ElseEnd ==
    { Prog(Tree(<<"if">>, << <<2, 3>> >>, <<4, 1>>, 1 .. 4),
           Fill("if", "assign", "end", "assign", "assign"),
           "UNTIL", Unlabelled, 0) }

\* PRINT of a string after n bytes of string literals
PrintAfter(n) ==
    { Prog(Straight, Fill("assign", "assign", "assign", "println", "assign"),
           "string", Unlabelled, n) }

PrintAfter15300 == PrintAfter(15300)
PrintAfter33000 == PrintAfter(33000)
=============================================================================

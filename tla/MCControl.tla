------------------------------ MODULE MCControl -------------------------------
(***************************************************************************)
(* Programs that nest each form in each other one.                         *)
(***************************************************************************)
EXTENDS Control

A == Variable(0)
B == Variable(1)
Less(x, y)  == Node("<", x, y)
Equal(x, y) == Node("=", x, y)
Plus(x, n)  == Node("+", x, Number(n))

Step    == Assign(1, Plus(B, 1))
Leaves1 == { <<>>, <<Step>>, <<Assign(0, B)>> }

Inner ==
    Leaves1
    \cup { <<If(Less(A, B), s, t)>> : s \in Leaves1, t \in Leaves1 }
    \cup { <<Do(s, "UNTIL", Less(Number(2), B))>> : s \in {<<Step>>} }
    \cup { <<For(1, Number(1), Number(2), s)>> : s \in Leaves1 }

\* Bodies that change the bound B + 1 or the iterator A, and do not chase it.
Shifting == { <<>>, <<Assign(0, B)>>, <<Assign(1, Number(0))>>,
              <<If(Equal(B, Number(2)), <<Assign(1, Number(5))>>, <<>>)>> }

MCBodies ==
    { <<If(Equal(A, B), s, t), Step>> : s \in Inner, t \in Leaves1 }
    \cup { <<If(Less(A, B), s, t), Step>> : s \in Leaves1, t \in Inner }
    \cup { <<Do(s \o <<Assign(0, Plus(A, 1))>>, "WHILE", Less(A, Number(2)))>> : s \in Inner }
    \cup { <<Do(s \o <<Assign(0, Plus(A, 1))>>, "UNTIL", Less(Number(1), A))>> : s \in Inner }
    \cup { <<For(0, e, Number(3), s), Step>> : e \in {B, Number(1)}, s \in Inner }
    \cup { <<For(0, B, Plus(B, 1), s)>> : s \in Shifting }
    \cup { <<Do(s, "ENDLESS", Number(0))>> : s \in { <<>>, <<Assign(0, B)>> } }

\* FOR A = 32766 TO 32767
ToTheLast == { <<For(0, Number(32766), Number(32767), <<>>)>> }
=============================================================================

----------------------------- MODULE ParserTrees ------------------------------
(***************************************************************************)
(* What the tree of the parser says of the source.                         *)
(***************************************************************************)
EXTENDS Parser, FiniteSets

(* The source that a tree stands for, without labels and INCLUDE.          *)

RECURSIVE Spelled(_), SpelledAll(_)
Spelled(n) ==
    LET k == n.kids IN
    CASE n.op = "NULL" -> <<>>
      [] n.op = ":="   -> Spelled(k[1]) \o <<"=">> \o Spelled(k[2])
      [] n.op = "IF"   -> <<"IF">> \o Spelled(k[1]) \o <<"THEN">> \o Spelled(k[2])
                          \o (IF k[3] = NULL THEN <<>> ELSE <<"ELSE">> \o Spelled(k[3]))
      [] n.op \in {"ENDLESS", "WHILE", "UNTIL"} ->
            <<"DO">> \o SpelledAll(Tail(k)) \o <<"LOOP", n.op>> \o Spelled(k[1])
      [] n.op = "FOR"  -> <<"FOR">> \o Spelled(k[1]) \o <<"TO">> \o Spelled(k[2])
                          \o SpelledAll(SubSeq(k, 3, Len(k)))
                          \o <<"NEXT">> \o Spelled(k[1].kids[1])
      [] n.op = "SEQUENCE" -> SpelledAll(k)
      [] n.op \in Arithmetic \cup Relations \cup {"AND"} -> Spelled(k[1]) \o <<n.op>> \o Spelled(k[2])
      [] OTHER             -> <<n.op>> \o SpelledAll(k)
SpelledAll(ns) == FlattenSeq([i \in DOMAIN ns |-> Spelled(ns[i])])

\* The tokens from the i-th on that have a place in the tree.
HasPlace(k) ==
    tokens[k] \notin LabelNames \cup {"INCLUDE"} /\ (k > 1 => tokens[k - 1] # "INCLUDE")

Unlabelled(i) ==
    LET places == SelectSeq([k \in 1 .. Len(tokens) + 1 - i |-> i + k - 1], HasPlace)
    IN [k \in DOMAIN places |-> tokens[places[k]]]

\* The tree has an IF whose last branch could still take an ELSE.
RECURSIVE IsOpen(_), ElsesNearest(_)
IsOpen(n) == n.op = "IF" /\ (n.kids[3] = NULL \/ IsOpen(n.kids[3]))

ElsesNearest(n) ==
    /\ n.op = "IF" /\ n.kids[3] # NULL => ~IsOpen(n.kids[2])
    /\ \A i \in DOMAIN n.kids : ElsesNearest(n.kids[i])

RECURSIVE HasNull(_)
HasNull(n) ==
    \/ n = NULL
    \/ \E i \in DOMAIN n.kids :
          /\ HasNull(n.kids[i])
          /\ ~(n.op = "IF" /\ i = 3) /\ ~(n.op = "ENDLESS" /\ i = 1) /\ n.op # "PRINT"

-----------------------------------------------------------------------------
(* Properties.                                                             *)

\* The tree is the source: nothing of it is dropped, repeated or reordered, and
\* an ELSE belongs to the nearest IF.  (An ELSE that is the last token of the
\* file leaves nothing in the tree.)
TreeIsTheSource ==
    Parsed =>
       /\ Unlabelled(1) \in {SpelledAll(tree), SpelledAll(tree) \o <<"ELSE">>}
       /\ \A i \in DOMAIN tree : ElsesNearest(tree[i])

\* Each label of the source becomes real once, with the statement that follows
\* it; with NULL only if no statement follows.
LabelsNameStatements ==
    Parsed =>
       /\ Len(labels) = Cardinality({i \in DOMAIN tokens : tokens[i] \in LabelNames})
       /\ \A k \in DOMAIN labels : \E i \in DOMAIN tokens :
             LET rest == Unlabelled(i + 1) IN
             /\ tokens[i] = labels[k].label
             /\ IsPrefix(Spelled(labels[k].node), rest)
             /\ labels[k].node = NULL => rest = <<>>

\* "No successful parsing will result in the return of NULL pointer"
\* (parsing_theory.md): the tree of a source without errors has no NULL but an
\* absent ELSE and the condition of ENDLESS.
NoNullOnSuccess ==
    Parsed => \A i \in DOMAIN tree : ~HasNull(tree[i])
=============================================================================

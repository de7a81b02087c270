------------------------------- MODULE Fixups --------------------------------
(***************************************************************************)
(* What a one-pass assembler promises about references that come before    *)
(* their label: such a reference waits, it is settled in the very step that*)
(* gives its label a place, it then goes to that place, and neither the    *)
(* place of a label nor a settled reference ever changes.                  *)
(*                                                                         *)
(* Codegen implements it: waiting and settled are the patch table, place is*)
(* the addr field of the symbol table, and the offset of a settled         *)
(* reference is where the processor lands when it executes the jump.       *)
(***************************************************************************)
EXTENDS Integers

CONSTANT Labels

VARIABLES
    here,       \* the location counter
    place,      \* the labels that have a place, and the place of each
    waiting,    \* the references whose label has none yet
    settled     \* the references fixed up, with the offset they go to

fvars == <<here, place, waiting, settled>>

Refs == [site : Nat, label : Labels]

Init ==
    /\ here \in Nat
    /\ place = [l \in {} |-> 0]
    /\ waiting = {}
    /\ settled = {}

\* One step of the assembler: the labels of L are placed here, code is added,
\* and references in it to labels without a place begin to wait.
Step(L) ==
    LET still == {r \in waiting : r.label \notin L} IN
    /\ here' \in Nat
    /\ here' >= here
    /\ place' = [l \in DOMAIN place \cup L |-> IF l \in L THEN here ELSE place[l]]
    /\ waiting' \in SUBSET Refs
    /\ still \subseteq waiting'
    /\ \A r \in waiting' \ still :
          /\ r.label \notin DOMAIN place \cup L
          /\ here <= r.site /\ r.site < here'
    /\ settled' = settled \cup
          { [site |-> r.site, label |-> r.label, offset |-> here] :
                r \in waiting \ still }

Next == \E L \in SUBSET (Labels \ DOMAIN place) : Step(L)

Spec == Init /\ [][Next]_fvars

-----------------------------------------------------------------------------
\* No reference waits for a label that has a place, and a settled one goes
\* to the place of its label.
Settled ==
    /\ \A r \in waiting : r.label \notin DOMAIN place
    /\ \A f \in settled : f.label \in DOMAIN place /\ f.offset = place[f.label]
=============================================================================

-------------------------- MODULE SymbolTableProofs --------------------------
(***************************************************************************)
(* The symbol table for any first capacity and any number of labels: its   *)
(* bounds for any set of label names, and what it answers for one in which *)
(* no name begins with another one.                                        *)
(***************************************************************************)
EXTENDS SymbolTable, TLAPS, WellFoundedInduction

\* The comparison of add_unreal_symbol tells the names apart.
PrefixFree == \A a, b \in Names : IsPrefix(a, b) <=> a = b

\* One entry for each name that was asked for.
EntriesDistinct ==
    \A i, j \in DOMAIN table : table[i].str = table[j].str => i = j

\* A reference and a label keep having their entry.
UsesHaveEntries ==
    \A u \in uses : u.id \in DOMAIN table /\ table[u.id].str = u.str

LabelsHaveEntries ==
    \A k \in DOMAIN found : \E i \in DOMAIN table : table[i].str = found[k].str

\* The label found at k is the last one with its name.
LastFound(k) == \A j \in k + 1 .. Len(found) : found[j].str # found[k].str

\* An entry is real when its label has been found, and has the statement found
\* last under it.
EntriesTellLabels ==
    \A i \in DOMAIN table :
        /\ table[i].isreal <=> \E k \in DOMAIN found : found[k].str = table[i].str
        /\ \A k \in DOMAIN found :
              found[k].str = table[i].str /\ LastFound(k) => table[i].target = found[k].node

EnoughRoom == capacity \in Nat \ {0} /\ Len(table) <= capacity

TableInv ==
    /\ TypeOK
    /\ EnoughRoom
    /\ EntriesDistinct
    /\ UsesHaveEntries
    /\ LabelsHaveEntries
    /\ EntriesTellLabels

-----------------------------------------------------------------------------
\* The entries of a typed table are entries with names.
LEMMA EntriesTyped ==
    ASSUME TypeOK
    PROVE  /\ DOMAIN table = 1 .. Len(table) /\ Len(table) \in Nat
           /\ \A i \in DOMAIN table : table[i] \in Entry /\ table[i].str \in Names
<1>1. table \in Seq(Entry)
  BY DEF TypeOK
<1>2. \A i \in DOMAIN table : table[i] \in Entry
  BY <1>1
<1>3. \A e \in Entry : e.str \in Names
  BY DEF Entry
<1> QED
  BY <1>1, <1>2, <1>3

\* The empty table has the invariant.
LEMMA InitInv == Init => TableInv
<1> SUFFICES ASSUME Init PROVE TableInv
  OBVIOUS
<1>1. table = <<>> /\ found = <<>> /\ uses = {} /\ capacity = InitialRoom
  BY DEF Init
<1>2. DOMAIN table = {} /\ DOMAIN found = {} /\ Len(table) = 0
  BY <1>1
<1>3. EnoughRoom
  BY <1>1, <1>2, RoomAssumption DEF EnoughRoom
<1>4. TypeOK
  <2>1. table \in Seq(Entry) /\ found \in Seq([str : Names, node : Nodes \cup {NULL}])
    BY <1>1
  <2>2. capacity \in Nat /\ uses \subseteq [str : Names, id : Nat]
    BY <1>1, RoomAssumption
  <2>3. parsed \in 0 .. MaxStatements /\ last \in Nodes \cup {NULL}
    BY BoundAssumption DEF Init
  <2> QED BY <2>1, <2>2, <2>3 DEF Init, TypeOK
<1>5. EntriesDistinct /\ UsesHaveEntries /\ LabelsHaveEntries /\ EntriesTellLabels
  BY <1>1, <1>2 DEF EntriesDistinct, UsesHaveEntries, LabelsHaveEntries, EntriesTellLabels
<1> QED
  BY <1>3, <1>4, <1>5 DEF TableInv

\* The search finds the entry of the name, or there is none.
LEMMA Search ==
    ASSUME PrefixFree, TypeOK, EntriesDistinct, NEW str \in Names
    PROVE  \/ /\ \E i \in DOMAIN table : Matches(i, str)
              /\ IndexOf(str) \in DOMAIN table
              /\ table[IndexOf(str)].str = str
              /\ WithSymbol(str) = table
           \/ /\ ~ \E i \in DOMAIN table : Matches(i, str)
              /\ \A i \in DOMAIN table : table[i].str # str
              /\ IndexOf(str) = Len(table) + 1
              /\ WithSymbol(str) = Append(table, [str |-> str, target |-> NULL, isreal |-> FALSE])
<1>1. \A i \in DOMAIN table : table[i].str \in Names
  BY EntriesTyped
<1>2. \A i \in DOMAIN table : Matches(i, str) <=> table[i].str = str
  BY <1>1 DEF PrefixFree, Matches
<1>3. CASE \E i \in DOMAIN table : Matches(i, str)
  <2>1. PICK m \in DOMAIN table : Matches(m, str)
    BY <1>3
  <2>2. DOMAIN table = 1 .. Len(table) /\ Len(table) \in Nat
    BY DEF TypeOK
  <2>3. \A j \in 1 .. m - 1 : ~Matches(j, str)
    <3> SUFFICES ASSUME NEW j \in 1 .. m - 1, Matches(j, str) PROVE FALSE
      OBVIOUS
    <3>1. j \in DOMAIN table /\ j # m
      BY <2>1, <2>2
    <3> QED BY <1>2, <2>1, <3>1 DEF EntriesDistinct
  <2>4. /\ IndexOf(str) \in DOMAIN table
        /\ Matches(IndexOf(str), str)
    BY <1>3, <2>1, <2>3 DEF IndexOf
  <2> QED BY <1>2, <1>3, <2>4 DEF WithSymbol
<1>4. CASE ~ \E i \in DOMAIN table : Matches(i, str)
  BY <1>2, <1>4 DEF IndexOf, WithSymbol
<1> QED
  BY <1>3, <1>4

\* The table that is searched, with a new entry if it had none for the name.
LEMMA Grown ==
    ASSUME PrefixFree, TypeOK, EntriesDistinct, NEW str \in Names
    PROVE  LET t == WithSymbol(str)
               n == IndexOf(str)
           IN  /\ t \in Seq(Entry)
               /\ n \in DOMAIN t /\ n \in Nat /\ t[n].str = str
               /\ \A i \in DOMAIN table : i \in DOMAIN t /\ t[i] = table[i]
               /\ \A i \in DOMAIN t \ DOMAIN table :
                     /\ i = n
                     /\ ~t[i].isreal
                     /\ \A j \in DOMAIN table : table[j].str # str
               /\ \A i, j \in DOMAIN t : t[i].str = t[j].str => i = j
<1>1. table \in Seq(Entry)
  BY DEF TypeOK
<1>2. CASE \E i \in DOMAIN table : Matches(i, str)
  <2>1. /\ IndexOf(str) \in DOMAIN table
        /\ table[IndexOf(str)].str = str
        /\ WithSymbol(str) = table
    BY <1>2, Search
  <2>2. DOMAIN table \subseteq Nat
    BY EntriesTyped
  <2> QED BY <1>1, <2>1, <2>2 DEF EntriesDistinct
<1>3. CASE ~ \E i \in DOMAIN table : Matches(i, str)
  <2> DEFINE e == [str |-> str, target |-> NULL, isreal |-> FALSE]
             t == Append(table, e)
  <2>1. /\ \A i \in DOMAIN table : table[i].str # str
        /\ IndexOf(str) = Len(table) + 1
        /\ WithSymbol(str) = t
    BY <1>3, Search
  <2>2. e \in Entry /\ e.str = str /\ e.isreal = FALSE
    BY DEF Entry
  <2> HIDE DEF e
  <2>3. /\ t \in Seq(Entry)
        /\ DOMAIN table = 1 .. Len(table) /\ Len(table) \in Nat
        /\ DOMAIN t = 1 .. Len(table) + 1
        /\ \A i \in 1 .. Len(table) : t[i] = table[i]
        /\ t[Len(table) + 1] = e
    BY <1>1, <2>2
  <2> HIDE DEF t
  <2>4. \A i \in DOMAIN t : i \in DOMAIN table \/ i = Len(table) + 1
    BY <2>3
  <2>5. \A i, j \in DOMAIN t : t[i].str = t[j].str => i = j
    BY <2>1, <2>2, <2>3, <2>4 DEF EntriesDistinct
  <2> QED BY <2>1, <2>2, <2>3, <2>4, <2>5
<1> QED
  BY <1>2, <1>3

\* There is room for the entry.
LEMMA RoomMade ==
    ASSUME PrefixFree, TypeOK, EntriesDistinct, EnoughRoom, NEW str \in Names, MakeRoom(str)
    PROVE  capacity' \in Nat \ {0} /\ Len(WithSymbol(str)) <= capacity'
<1>1. Len(table) \in Nat /\ table \in Seq(Entry)
  BY DEF TypeOK
<1>2. CASE \E i \in DOMAIN table : Matches(i, str)
  BY <1>2, Search DEF MakeRoom, EnoughRoom
<1>3. CASE ~ \E i \in DOMAIN table : Matches(i, str)
  <2>1. Len(WithSymbol(str)) = Len(table) + 1
    <3> DEFINE e == [str |-> str, target |-> NULL, isreal |-> FALSE]
    <3>1. WithSymbol(str) = Append(table, e)
      BY <1>3, Search
    <3>2. e \in Entry
      BY DEF Entry
    <3> HIDE DEF e
    <3>3. Len(Append(table, e)) = Len(table) + 1
      BY <1>1, <3>2
    <3> QED BY <3>1, <3>3
  <2>2. capacity' = IF capacity < Len(table) + 1 THEN capacity * 2 ELSE capacity
    BY <1>3 DEF MakeRoom, Room
  <2> QED BY <1>1, <2>1, <2>2 DEF EnoughRoom
<1> QED
  BY <1>2, <1>3

-----------------------------------------------------------------------------
\* A reference keeps it: the new entry, if there is one, is of no label found.
LEMMA ReferKeeps ==
    ASSUME PrefixFree, TableInv, NEW str \in Names, Refer(str)
    PROVE  TableInv'
<1> DEFINE t == WithSymbol(str)
           n == IndexOf(str)
           u0 == [str |-> str, id |-> n]
<1>1. TypeOK /\ EntriesDistinct /\ EnoughRoom
  BY DEF TableInv
<1>2. /\ t \in Seq(Entry)
      /\ n \in DOMAIN t /\ n \in Nat /\ t[n].str = str
      /\ \A i \in DOMAIN table : i \in DOMAIN t /\ t[i] = table[i]
      /\ \A i \in DOMAIN t \ DOMAIN table :
            i = n /\ ~t[i].isreal /\ \A j \in DOMAIN table : table[j].str # str
      /\ \A i, j \in DOMAIN t : t[i].str = t[j].str => i = j
  BY <1>1, Grown
<1>3. capacity' \in Nat \ {0} /\ Len(t) <= capacity'
  BY <1>1, RoomMade DEF Refer
<1>4. table' = t /\ uses' = uses \cup {u0}
  BY DEF Refer
<1> HIDE DEF t, n
<1>5. /\ found' = found /\ last' = last /\ parsed' = parsed /\ eof' = eof
      /\ returned' = FALSE
  BY DEF Refer
<1>6. u0 \in [str : Names, id : Nat] /\ u0.str = str /\ u0.id = n
  BY <1>2
<1> HIDE DEF u0
<1>7. TypeOK'
  <2>1. uses' \subseteq [str : Names, id : Nat]
    BY <1>1, <1>4, <1>6 DEF TypeOK
  <2> QED BY <1>1, <1>2, <1>3, <1>4, <1>5, <2>1 DEF TypeOK
<1>8. EntriesDistinct' /\ EnoughRoom'
  BY <1>2, <1>3, <1>4 DEF EntriesDistinct, EnoughRoom
<1>9. UsesHaveEntries'
  BY <1>2, <1>4, <1>6 DEF UsesHaveEntries, TableInv
<1>10. LabelsHaveEntries'
  BY <1>2, <1>4, <1>5 DEF LabelsHaveEntries, TableInv
<1>11. EntriesTellLabels'
  <2>1. \A k : LastFound(k)' <=> LastFound(k)
    BY <1>5 DEF LastFound
  <2> SUFFICES ASSUME NEW i \in DOMAIN t
               PROVE  /\ t[i].isreal <=> \E k \in DOMAIN found : found[k].str = t[i].str
                      /\ \A k \in DOMAIN found :
                            found[k].str = t[i].str /\ LastFound(k) => t[i].target = found[k].node
    BY <1>4, <1>5, <2>1 DEF EntriesTellLabels
  <2>2. CASE i \in DOMAIN table
    BY <1>2, <2>2 DEF EntriesTellLabels, TableInv
  <2>3. CASE i \notin DOMAIN table
    <3>1. t[i].str = str /\ ~t[i].isreal /\ \A j \in DOMAIN table : table[j].str # str
      BY <1>2, <2>3
    <3>2. \A k \in DOMAIN found : found[k].str # str
      BY <3>1 DEF LabelsHaveEntries, TableInv
    <3> QED BY <3>1, <3>2
  <2> QED BY <2>2, <2>3
<1> QED
  BY <1>7, <1>8, <1>9, <1>10, <1>11 DEF TableInv

\* A label found keeps it: only the entry of its name changes.
LEMMA DefineKeeps ==
    ASSUME PrefixFree, TableInv, NEW str \in Names, Define(str)
    PROVE  TableInv'
<1> DEFINE t == WithSymbol(str)
           n == IndexOf(str)
           f0 == [str |-> str, node |-> last]
           N == Len(found) + 1
<1>1. TypeOK /\ EntriesDistinct /\ EnoughRoom
  BY DEF TableInv
<1>2. /\ t \in Seq(Entry)
      /\ n \in DOMAIN t /\ n \in Nat /\ t[n].str = str
      /\ \A i \in DOMAIN table : i \in DOMAIN t /\ t[i] = table[i]
      /\ \A i \in DOMAIN t \ DOMAIN table :
            i = n /\ ~t[i].isreal /\ \A j \in DOMAIN table : table[j].str # str
      /\ \A i, j \in DOMAIN t : t[i].str = t[j].str => i = j
  BY <1>1, Grown
<1>3. capacity' \in Nat \ {0} /\ Len(t) <= capacity'
  BY <1>1, RoomMade DEF Define
<1>4. table' = Marked(t, n, last) /\ found' = Append(found, f0)
  BY DEF Define
<1> HIDE DEF t, n
<1>5. /\ uses' = uses /\ last' = last /\ parsed' = parsed /\ eof' = eof
      /\ returned' = returned
  BY DEF Define
<1>6. f0 \in [str : Names, node : Nodes \cup {NULL}] /\ f0.str = str /\ f0.node = last
  BY <1>1 DEF TypeOK
<1> HIDE DEF f0
<1>7. /\ Marked(t, n, last) \in Seq(Entry)
      /\ DOMAIN Marked(t, n, last) = DOMAIN t /\ Len(Marked(t, n, last)) = Len(t)
      /\ \A i \in DOMAIN t : Marked(t, n, last)[i].str = t[i].str
      /\ \A i \in DOMAIN t \ {n} : Marked(t, n, last)[i] = t[i]
      /\ Marked(t, n, last)[n].target = last /\ Marked(t, n, last)[n].isreal
  <2> DEFINE e == [t[n] EXCEPT !.target = last, !.isreal = TRUE]
             m == [t EXCEPT ![n] = e]
  <2>1. t[n] \in Entry /\ last \in Nodes \cup {NULL}
    BY <1>1, <1>2 DEF TypeOK
  <2>2. e \in Entry /\ e.str = t[n].str /\ e.target = last /\ e.isreal
    BY <2>1 DEF Entry
  <2>3. Marked(t, n, last) = m
    BY <1>2 DEF Marked
  <2> HIDE DEF e
  <2>4. /\ m \in Seq(Entry) /\ DOMAIN m = DOMAIN t /\ Len(m) = Len(t)
        /\ m[n] = e /\ \A i \in DOMAIN t \ {n} : m[i] = t[i]
    BY <1>2, <2>2
  <2> HIDE DEF m
  <2> QED BY <2>2, <2>3, <2>4
<1>8. /\ found' \in Seq([str : Names, node : Nodes \cup {NULL}])
      /\ Len(found) \in Nat /\ DOMAIN found = 1 .. Len(found)
      /\ Len(found') = N /\ DOMAIN found' = 1 .. N
      /\ found'[N] = f0
      /\ \A k \in DOMAIN found : found'[k] = found[k]
  <2>1. found \in Seq([str : Names, node : Nodes \cup {NULL}])
    BY <1>1 DEF TypeOK
  <2> QED BY <1>4, <1>6, <2>1
<1>9. TypeOK'
  BY <1>1, <1>3, <1>4, <1>5, <1>7, <1>8 DEF TypeOK
<1>10. EntriesDistinct' /\ EnoughRoom'
  BY <1>2, <1>3, <1>4, <1>7 DEF EntriesDistinct, EnoughRoom
<1>11. UsesHaveEntries'
  BY <1>2, <1>4, <1>5, <1>7 DEF UsesHaveEntries, TableInv
<1>12. LabelsHaveEntries'
  <2> SUFFICES ASSUME NEW k \in 1 .. N PROVE \E i \in DOMAIN t : t[i].str = found'[k].str
    BY <1>4, <1>7, <1>8 DEF LabelsHaveEntries
  <2>1. CASE k = N
    BY <1>2, <1>6, <1>8, <2>1
  <2>2. CASE k # N
    <3>1. k \in DOMAIN found /\ found'[k] = found[k]
      BY <1>8, <2>2
    <3> QED BY <1>2, <3>1 DEF LabelsHaveEntries, TableInv
  <2> QED BY <2>1, <2>2
<1>13. EntriesTellLabels'
  <2> DEFINE m == Marked(t, n, last)
  <2> SUFFICES ASSUME NEW i \in DOMAIN t
               PROVE  /\ m[i].isreal <=> \E k \in DOMAIN found' : found'[k].str = t[i].str
                      /\ \A k \in DOMAIN found' :
                            found'[k].str = t[i].str /\ LastFound(k)'
                               => m[i].target = found'[k].node
    BY <1>4, <1>7 DEF EntriesTellLabels
  <2>1. CASE i = n
    <3>1. N \in DOMAIN found' /\ found'[N].str = str /\ m[i].isreal
      BY <1>6, <1>7, <1>8, <2>1
    <3>2. \A k \in DOMAIN found' : found'[k].str = str /\ LastFound(k)' => k = N
      <4> SUFFICES ASSUME NEW k \in 1 .. N, found'[k].str = str, LastFound(k)', k # N
                   PROVE  FALSE
        BY <1>8
      <4>1. N \in k + 1 .. Len(found')
        BY <1>8
      <4> QED BY <3>1, <4>1 DEF LastFound
    <3>3. found'[N].node = m[i].target
      BY <1>6, <1>7, <1>8, <2>1
    <3> QED BY <1>2, <2>1, <3>1, <3>2, <3>3
  <2>2. CASE i # n
    <3>1. i \in DOMAIN table /\ m[i] = table[i] /\ t[i] = table[i] /\ table[i].str # str
      BY <1>2, <1>7, <2>2
    <3>2. \A k \in DOMAIN found' : found'[k].str = table[i].str =>
             k \in DOMAIN found /\ found'[k] = found[k]
      BY <1>6, <1>8, <3>1
    <3>3. \A k \in DOMAIN found : k \in DOMAIN found' /\ found'[k] = found[k]
      BY <1>8
    <3>4. \A k \in DOMAIN found : LastFound(k)' => LastFound(k)
      BY <1>8 DEF LastFound
    <3>5. /\ table[i].isreal <=> \E k \in DOMAIN found : found[k].str = table[i].str
          /\ \A k \in DOMAIN found :
                found[k].str = table[i].str /\ LastFound(k) => table[i].target = found[k].node
      BY <3>1 DEF EntriesTellLabels, TableInv
    <3> QED BY <3>1, <3>2, <3>3, <3>4, <3>5
  <2> QED BY <2>1, <2>2
<1> QED
  BY <1>9, <1>10, <1>11, <1>12, <1>13 DEF TableInv

\* What leaves the table and its history alone keeps it.
LEMMA TableStays ==
    ASSUME TableInv, TypeOK', UNCHANGED <<table, capacity, uses, found>> PROVE TableInv'
<1>1. \A k : LastFound(k)' <=> LastFound(k)
  BY DEF LastFound
<1> QED
  BY <1>1 DEF TableInv, EnoughRoom, EntriesDistinct, UsesHaveEntries, LabelsHaveEntries,
              EntriesTellLabels

\* Every step keeps it.
LEMMA StepKeeps ==
    ASSUME PrefixFree PROVE TableInv /\ [Next]_vars => TableInv'
<1> SUFFICES ASSUME TableInv, [Next]_vars PROVE TableInv'
  OBVIOUS
<1>1. CASE \E str \in Names : Refer(str) \/ Define(str)
  BY <1>1, ReferKeeps, DefineKeeps
<1>2. CASE ParseStatement
  <2>1. parsed' \in 0 .. MaxStatements /\ parsed' \in Nodes
    BY <1>2, BoundAssumption DEF ParseStatement, Nodes, TableInv, TypeOK
  <2>2. TypeOK'
    BY <1>2, <2>1 DEF ParseStatement, TableInv, TypeOK
  <2> QED BY <1>2, <2>2, TableStays DEF ParseStatement
<1>3. CASE ParseEndOfFile
  <2>1. TypeOK'
    BY <1>3 DEF ParseEndOfFile, TableInv, TypeOK
  <2> QED BY <1>3, <2>1, TableStays DEF ParseEndOfFile
<1>4. CASE UNCHANGED vars
  <2>1. TypeOK'
    BY <1>4 DEF vars, TableInv, TypeOK
  <2> QED BY <1>4, <2>1, TableStays DEF vars
<1> QED
  BY <1>1, <1>2, <1>3, <1>4 DEF Next

\* The invariant holds in every state.
LEMMA InvHolds == ASSUME PrefixFree PROVE Spec => []TableInv
<1>1. TableInv /\ [Next]_vars => TableInv'
  BY StepKeeps
<1> QED BY <1>1, InitInv, PTL DEF Spec

-----------------------------------------------------------------------------
\* Two references have one index exactly when they name one label, for any set
\* of names of which none begins with another.
THEOREM NamesKeptApart == ASSUME PrefixFree PROVE Spec => []OneIndexPerName
<1>1. TableInv => OneIndexPerName
  BY DEF TableInv, OneIndexPerName, EntriesDistinct, UsesHaveEntries
<1> QED BY <1>1, InvHolds, PTL

\* Code generation learns of every reference whether its label exists and, if it
\* is there once, its statement, for any set of names of which none begins with
\* another.
THEOREM AnswersAreRight == ASSUME PrefixFree PROVE Spec => []ReferencesResolve
<1>1. TableInv => ReferencesResolve
  <2> SUFFICES ASSUME TableInv, NEW u \in uses
               PROVE  /\ IsSymbolReal(u.id) <=> \E k \in DOMAIN found : found[k].str = u.str
                      /\ \A k \in DOMAIN found :
                            found[k].str = u.str /\ FoundOnce(k) => GetSymbol(u.id) = found[k].node
    BY DEF ReferencesResolve
  <2>1. u.id \in DOMAIN table /\ table[u.id].str = u.str
    BY DEF TableInv, UsesHaveEntries
  <2>2. ~ (Len(table) + 1 < u.id)
    BY <2>1, EntriesTyped DEF TableInv
  <2>3. IsSymbolReal(u.id) = table[u.id].isreal /\ GetSymbol(u.id) = table[u.id].target
    BY <2>2 DEF IsSymbolReal, GetSymbol
  <2>4. \A k \in DOMAIN found : FoundOnce(k) => LastFound(k)
    <3>1. found \in Seq([str : Names, node : Nodes \cup {NULL}])
      BY DEF TableInv, TypeOK
    <3>2. \A k \in DOMAIN found : \A j \in k + 1 .. Len(found) : j \in DOMAIN found /\ j # k
      BY <3>1
    <3> QED BY <3>2 DEF FoundOnce, LastFound
  <2> QED BY <2>1, <2>3, <2>4 DEF TableInv, EntriesTellLabels
<1> QED BY <1>1, InvHolds, PTL

-----------------------------------------------------------------------------
(* The bounds of the table, for all names: the first match is some entry,  *)
(* whichever names match it.                                               *)

\* Every set of naturals that is not empty has a least element.
LEMMA LeastElement ==
    ASSUME NEW S \in SUBSET Nat, S # {}
    PROVE  \E k \in S : \A n \in S : k <= n
<1>1. IsWellFoundedOn(OpToRel(<, Nat), Nat)
  BY NatLessThanWellFounded
<1>2. PICK k \in S : \A n \in S : ~ (<<n, k>> \in OpToRel(<, Nat))
  BY <1>1, WFMin
<1>3. \A n \in S : n \in Nat /\ k \in Nat /\ ~ (n < k)
  BY <1>2 DEF OpToRel
<1>4. \A n \in S : k <= n
  BY <1>3
<1> QED
  BY <1>2, <1>4

\* The search gives the index of an entry or of the next free one, and the table
\* it was made in or one entry more.
LEMMA SearchEnds ==
    ASSUME TypeOK, NEW str \in Names
    PROVE  \/ /\ \E i \in DOMAIN table : Matches(i, str)
              /\ IndexOf(str) \in DOMAIN table
              /\ WithSymbol(str) = table
           \/ /\ ~ \E i \in DOMAIN table : Matches(i, str)
              /\ IndexOf(str) = Len(table) + 1
              /\ WithSymbol(str) = Append(table, [str |-> str, target |-> NULL, isreal |-> FALSE])
<1>1. DOMAIN table = 1 .. Len(table) /\ Len(table) \in Nat
  BY EntriesTyped
<1>2. CASE \E i \in DOMAIN table : Matches(i, str)
  <2> DEFINE S == {i \in DOMAIN table : Matches(i, str)}
  <2>1. S \in SUBSET Nat /\ S # {}
    BY <1>1, <1>2
  <2>2. PICK m \in S : \A i \in S : m <= i
    <3> HIDE DEF S
    <3> QED BY <2>1, LeastElement
  <2>3. m \in DOMAIN table /\ Matches(m, str)
    OBVIOUS
  <2>4. \A j \in 1 .. m - 1 : ~Matches(j, str)
    <3> SUFFICES ASSUME NEW j \in 1 .. m - 1, Matches(j, str) PROVE FALSE
      OBVIOUS
    <3>1. j \in S /\ j < m
      BY <1>1, <2>3
    <3> QED BY <1>1, <2>2, <2>3, <3>1
  <2>5. IndexOf(str) \in DOMAIN table
    BY <1>2, <2>3, <2>4 DEF IndexOf
  <2> QED BY <1>2, <2>5 DEF WithSymbol
<1>3. CASE ~ \E i \in DOMAIN table : Matches(i, str)
  BY <1>3 DEF IndexOf, WithSymbol
<1> QED
  BY <1>2, <1>3

BoundsInv == TypeOK /\ EnoughRoom /\ \A u \in uses : u.id \in DOMAIN table

\* What a search leaves: typed entries, at least those there were, the index
\* among them, and room for all of them.
LEMMA GrownInBounds ==
    ASSUME BoundsInv, NEW str \in Names, MakeRoom(str)
    PROVE  LET t == WithSymbol(str)
               n == IndexOf(str)
           IN  /\ t \in Seq(Entry) /\ DOMAIN table \subseteq DOMAIN t
               /\ n \in DOMAIN t /\ n \in Nat
               /\ capacity' \in Nat \ {0} /\ Len(t) <= capacity'
<1>1. table \in Seq(Entry) /\ DOMAIN table = 1 .. Len(table) /\ Len(table) \in Nat
  BY EntriesTyped DEF BoundsInv, TypeOK
<1>2. CASE \E i \in DOMAIN table : Matches(i, str)
  <2>1. IndexOf(str) \in DOMAIN table /\ WithSymbol(str) = table
    BY <1>2, SearchEnds DEF BoundsInv
  <2>2. capacity' = capacity
    BY <1>2 DEF MakeRoom
  <2> QED BY <1>1, <2>1, <2>2 DEF BoundsInv, EnoughRoom
<1>3. CASE ~ \E i \in DOMAIN table : Matches(i, str)
  <2> DEFINE e == [str |-> str, target |-> NULL, isreal |-> FALSE]
             t == Append(table, e)
  <2>1. IndexOf(str) = Len(table) + 1 /\ WithSymbol(str) = t
    BY <1>3, SearchEnds DEF BoundsInv
  <2>2. e \in Entry
    BY DEF Entry
  <2> HIDE DEF e
  <2>3. t \in Seq(Entry) /\ DOMAIN t = 1 .. Len(table) + 1 /\ Len(t) = Len(table) + 1
    BY <1>1, <2>2
  <2>4. capacity' = IF capacity < Len(table) + 1 THEN capacity * 2 ELSE capacity
    BY <1>3 DEF MakeRoom, Room
  <2> HIDE DEF t
  <2>5. DOMAIN table \subseteq DOMAIN t /\ Len(table) + 1 \in DOMAIN t
    BY <1>1, <2>3
  <2>6. capacity' \in Nat \ {0} /\ Len(t) <= capacity'
    BY <1>1, <2>3, <2>4 DEF BoundsInv, EnoughRoom
  <2> QED BY <1>1, <2>1, <2>3, <2>5, <2>6
<1> QED
  BY <1>2, <1>3

LEMMA ReferInBounds ==
    ASSUME BoundsInv, NEW str \in Names, Refer(str)
    PROVE  BoundsInv'
<1> DEFINE t == WithSymbol(str)
           n == IndexOf(str)
           u0 == [str |-> str, id |-> n]
<1>1. /\ t \in Seq(Entry) /\ DOMAIN table \subseteq DOMAIN t
      /\ n \in DOMAIN t /\ n \in Nat
      /\ capacity' \in Nat \ {0} /\ Len(t) <= capacity'
  BY GrownInBounds DEF Refer
<1>2. table' = t /\ uses' = uses \cup {u0}
  BY DEF Refer
<1> HIDE DEF t, n
<1>3. /\ found' = found /\ last' = last /\ parsed' = parsed /\ eof' = eof
      /\ returned' = FALSE
  BY DEF Refer
<1>4. u0 \in [str : Names, id : Nat] /\ u0.id = n
  BY <1>1
<1> HIDE DEF u0
<1>5. uses' \subseteq [str : Names, id : Nat] /\ \A u \in uses' : u.id \in DOMAIN t
  BY <1>1, <1>2, <1>4 DEF BoundsInv, TypeOK
<1> QED
  BY <1>1, <1>2, <1>3, <1>5 DEF BoundsInv, TypeOK, EnoughRoom

LEMMA DefineInBounds ==
    ASSUME BoundsInv, NEW str \in Names, Define(str)
    PROVE  BoundsInv'
<1> DEFINE t == WithSymbol(str)
           n == IndexOf(str)
           f0 == [str |-> str, node |-> last]
<1>1. /\ t \in Seq(Entry) /\ DOMAIN table \subseteq DOMAIN t
      /\ n \in DOMAIN t /\ n \in Nat
      /\ capacity' \in Nat \ {0} /\ Len(t) <= capacity'
  BY GrownInBounds DEF Define
<1>2. table' = Marked(t, n, last) /\ found' = Append(found, f0)
  BY DEF Define
<1> HIDE DEF t, n
<1>3. /\ uses' = uses /\ last' = last /\ parsed' = parsed /\ eof' = eof
      /\ returned' = returned
  BY DEF Define
<1>4. f0 \in [str : Names, node : Nodes \cup {NULL}]
  BY DEF BoundsInv, TypeOK
<1> HIDE DEF f0
<1>5. found' \in Seq([str : Names, node : Nodes \cup {NULL}])
  BY <1>2, <1>4 DEF BoundsInv, TypeOK
<1>6. Marked(t, n, last) \in Seq(Entry) /\ DOMAIN Marked(t, n, last) = DOMAIN t /\ Len(Marked(t, n, last)) = Len(t)
  <2> DEFINE e == [t[n] EXCEPT !.target = last, !.isreal = TRUE]
             m == [t EXCEPT ![n] = e]
  <2>1. t[n] \in Entry /\ last \in Nodes \cup {NULL}
    BY <1>1 DEF BoundsInv, TypeOK
  <2>2. e \in Entry
    BY <2>1 DEF Entry
  <2>3. Marked(t, n, last) = m
    BY <1>1 DEF Marked
  <2> HIDE DEF e
  <2>4. m \in Seq(Entry) /\ DOMAIN m = DOMAIN t /\ Len(m) = Len(t)
    BY <1>1, <2>2
  <2> HIDE DEF m
  <2> QED BY <2>3, <2>4
<1>7. \A u \in uses' : u.id \in DOMAIN table'
  BY <1>1, <1>2, <1>3, <1>6 DEF BoundsInv
<1> QED
  BY <1>1, <1>2, <1>3, <1>5, <1>6, <1>7 DEF BoundsInv, TypeOK, EnoughRoom

\* No entry is written beyond the allocated table and no index beyond the
\* entries is given out, however often the table grows and whichever names
\* begin with one another.
THEOREM TableInBounds == Spec => []IndicesInBounds
<1>1. Init => BoundsInv
  <2>1. Init => uses = {}
    BY DEF Init
  <2> QED BY <2>1, InitInv DEF TableInv, BoundsInv
<1>2. BoundsInv /\ [Next]_vars => BoundsInv'
  <2> SUFFICES ASSUME BoundsInv, [Next]_vars PROVE BoundsInv'
    OBVIOUS
  <2>1. CASE \E str \in Names : Refer(str) \/ Define(str)
    BY <2>1, ReferInBounds, DefineInBounds
  <2>2. CASE ParseStatement
    <3>1. parsed' \in 0 .. MaxStatements /\ parsed' \in Nodes
      BY <2>2, BoundAssumption DEF ParseStatement, Nodes, BoundsInv, TypeOK
    <3> QED BY <2>2, <3>1 DEF ParseStatement, BoundsInv, TypeOK, EnoughRoom
  <2>3. CASE ParseEndOfFile
    BY <2>3 DEF ParseEndOfFile, BoundsInv, TypeOK, EnoughRoom
  <2>4. CASE UNCHANGED vars
    BY <2>4 DEF vars, BoundsInv, TypeOK, EnoughRoom
  <2> QED BY <2>1, <2>2, <2>3, <2>4 DEF Next
<1>3. BoundsInv => IndicesInBounds
  BY DEF BoundsInv, EnoughRoom, IndicesInBounds
<1> QED BY <1>1, <1>2, <1>3, PTL DEF Spec
=============================================================================

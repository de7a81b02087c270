----------------------------- MODULE SymbolTable -----------------------------
(***************************************************************************)
(* The symbol table (util/table.c) while the parser fills it.  GOTO and    *)
(* GOSUB add an unreal symbol for the label they name (label() of          *)
(* keyword_parser.c); a label in front of a statement becomes real when    *)
(* the statement has been parsed (statement() of parser.c).  Both keep the *)
(* index they get, and code generation later asks the table about it.      *)
(*                                                                         *)
(* An index is 1 higher here than in the code.                             *)
(***************************************************************************)
EXTENDS Integers, Sequences, SequencesExt

CONSTANTS
    Names,          \* the label names of the source, as sequences of letters
    NULL,           \* the null Node pointer
    InitialRoom,    \* the first capacity of the table (8 in init_sym_table)
    MaxStatements,  \* bound on the statements parsed
    MaxLabels       \* bound on the labels found

ASSUME RoomAssumption == InitialRoom \in Nat \ {0}
ASSUME BoundAssumption == MaxStatements \in Nat

VARIABLES
    table,      \* SymbolTable.table: the entries in use
    capacity,   \* SymbolTable.capacity
    last,       \* the Node the last call of statement() returned
    parsed,     \* how many statements have been parsed: they number the Nodes
    eof,        \* the parser has reached the end of the file
    returned,   \* statement() has just returned to its caller
    uses,       \* history: the name and the index of each GOTO and GOSUB
    found       \* history: the labels found, in order, with their statement

vars == <<table, capacity, last, parsed, eof, returned, uses, found>>

Nodes == 1 .. MaxStatements

Entry == [str : Names, target : Nodes \cup {NULL}, isreal : BOOLEAN]

Init ==
    /\ table = <<>>
    /\ capacity = InitialRoom
    /\ last = NULL
    /\ parsed = 0
    /\ eof = FALSE
    /\ returned = FALSE
    /\ uses = {}
    /\ found = <<>>

-----------------------------------------------------------------------------
(* add_unreal_symbol and add_real_symbol.                                  *)

\* Faulty variant: the search begins after the first entry.
MatchesAfterFirst(i, str) == i > 1 /\ IsPrefix(table[i].str, str)

\* strncmp(entry.str, str, entry.len): the comparison stops at the end of the
\* entry's name, so an entry matches every name that begins with its own.
Matches(i, str) == IsPrefix(table[i].str, str)

\* The index both functions return: the first match, or the next free entry.
IndexOf(str) ==
    IF \E i \in DOMAIN table : Matches(i, str)
    THEN CHOOSE i \in DOMAIN table :
            Matches(i, str) /\ \A j \in 1 .. i - 1 : ~Matches(j, str)
    ELSE Len(table) + 1

\* The table with an entry for str.
WithSymbol(str) ==
    IF \E i \in DOMAIN table : Matches(i, str)
    THEN table
    ELSE Append(table, [str |-> str, target |-> NULL, isreal |-> FALSE])

\* Faulty variant: the table grows only when it is already too full.
RoomTooLate(len) == IF capacity < len THEN capacity * 2 ELSE capacity

\* The capacity once there is room for one entry more than len.
Room(len) == IF capacity < len + 1 THEN capacity * 2 ELSE capacity

MakeRoom(str) ==
    capacity' = IF \E i \in DOMAIN table : Matches(i, str)
                THEN capacity ELSE Room(Len(table))

-----------------------------------------------------------------------------
(* The parser.                                                             *)

\* label(): the operand of GOTO or GOSUB, a new index of the table.
Refer(str) ==
    /\ ~eof
    /\ table' = WithSymbol(str)
    /\ MakeRoom(str)
    /\ uses' = uses \cup {[str |-> str, id |-> IndexOf(str)]}
    /\ returned' = FALSE
    /\ UNCHANGED <<last, parsed, eof, found>>

\* statement() returns the Node of a complete statement (after the end of the
\* file: of an IF whose last branch is empty).
ParseStatement ==
    /\ parsed < MaxStatements
    /\ parsed' = parsed + 1
    /\ last' = parsed'
    /\ returned' = TRUE
    /\ UNCHANGED <<table, capacity, eof, uses, found>>

\* statement() returns NULL at the end of the file.
ParseEndOfFile ==
    /\ ~eof
    /\ eof' = TRUE
    /\ last' = NULL
    /\ returned' = TRUE
    /\ UNCHANGED <<table, capacity, parsed, uses, found>>

\* Faulty variant: the entry is taken to be the newest one.
MarkedNewest(t, i, n) == [t EXCEPT ![Len(t)].target = n, ![Len(t)].isreal = TRUE]

\* What add_real_symbol assigns after it called add_unreal_symbol.
Marked(t, i, n) == [t EXCEPT ![i].target = n, ![i].isreal = TRUE]

\* statement() on a label whose statement has just been parsed.
Define(str) ==
    /\ returned
    /\ Len(found) < MaxLabels
    /\ table' = Marked(WithSymbol(str), IndexOf(str), last)
    /\ MakeRoom(str)
    /\ found' = Append(found, [str |-> str, node |-> last])
    /\ UNCHANGED <<last, parsed, eof, returned, uses>>

Next ==
    \/ \E str \in Names : Refer(str) \/ Define(str)
    \/ ParseStatement
    \/ ParseEndOfFile

Spec == Init /\ [][Next]_vars

-----------------------------------------------------------------------------
(* What code generation asks.                                              *)

\* is_symbol_real; an index past the end is read from memory the table does
\* not own when it is the first one (the test is len < id, from 0).
IsSymbolReal(id) == IF Len(table) + 1 < id THEN FALSE ELSE table[id].isreal

\* get_symbol
GetSymbol(id) == IF Len(table) + 1 < id THEN NULL ELSE table[id].target

-----------------------------------------------------------------------------
(* Properties.                                                             *)

\* The types of the state.
TypeOK ==
    /\ table \in Seq(Entry)
    /\ capacity \in Nat
    /\ last \in Nodes \cup {NULL}
    /\ parsed \in 0 .. MaxStatements
    /\ eof \in BOOLEAN
    /\ returned \in BOOLEAN
    /\ uses \subseteq [str : Names, id : Nat]
    /\ found \in Seq([str : Names, node : Nodes \cup {NULL}])

\* "If entry is found, just return its index": two references have the same
\* index exactly when they name the same label (add_unreal_symbol).
OneIndexPerName ==
    \A u, v \in uses : u.str = v.str <=> u.id = v.id

\* Every entry lies in the memory allocated for it, and every index that was
\* given out is an entry: is_symbol_real and get_symbol, whose bound is one
\* too high, are never asked about the entry after the last.
IndicesInBounds ==
    /\ Len(table) <= capacity
    /\ \A u \in uses : u.id \in DOMAIN table

\* The label found at k is found nowhere else.
FoundOnce(k) == \A j \in DOMAIN found : found[j].str = found[k].str => j = k

\* Asked about the index a GOTO or GOSUB kept, the table answers whether its
\* label is in the source and, if it is there once, with its statement, whatever
\* was added to the table before and in between.
ReferencesResolve ==
    \A u \in uses :
        /\ IsSymbolReal(u.id) <=> \E k \in DOMAIN found : found[k].str = u.str
        /\ \A k \in DOMAIN found :
              found[k].str = u.str /\ FoundOnce(k) => GetSymbol(u.id) = found[k].node

\* "If it is present and real, does nothing" (parsing_theory.md): a label that
\* is found again keeps its first statement.
FirstDefinitionStays ==
    \A u \in uses : \A k \in DOMAIN found :
        found[k].str = u.str /\ (\A j \in 1 .. k - 1 : found[j].str # u.str)
           => GetSymbol(u.id) = found[k].node
=============================================================================

----------------------------- MODULE StringTable -----------------------------
(***************************************************************************)
(* The string table (util/table.c): the parser adds every string literal   *)
(* (literal() of parser.c), make_entry copies the blob into the binary     *)
(* behind the runtime, and the code refers to a string by its address      *)
(* (TOKEN_STRING_LITERAL of compile_expression).                           *)
(*                                                                         *)
(* An index is 1 higher here than in the code.  The text handed to         *)
(* add_string is a pointer into the source: a quote and the rest of the    *)
(* source follow the literal before the NUL.                               *)
(***************************************************************************)
EXTENDS Layout, Sequences, SequencesExt

CONSTANTS
    Texts,          \* the contents of the string literals in the source
    Rests,          \* what may follow a literal in the source, after its quote
    QUOTE,          \* the character that ends a literal
    NUL,            \* the byte that ends a C string
    InitialRoom,    \* the first capacity of the table (8 in init_str_table)
    MaxStrings      \* bound on the literals added

ASSUME RoomAssumption == InitialRoom \in Nat \ {0}

\* The lexer ends a literal at the first quote; a source is a text, which has
\* no NUL.
ASSUME TextsAssumption ==
    /\ \A text \in Texts : /\ text \in Seq(Range(text))
                           /\ {QUOTE, NUL} \cap Range(text) = {}
    /\ \A rest \in Rests : rest \in Seq(Range(rest))

VARIABLES
    table,      \* StringTable.table: offset and length of each string
    capacity,   \* StringTable.capacity
    blob,       \* StringTable.blob
    image,      \* the bytes of the binary from RUNTIMELEN on, once emitted
    added       \* history: each literal with the index it was given

vars == <<table, capacity, blob, image, added>>

Init ==
    /\ table = <<>>
    /\ capacity = InitialRoom
    /\ blob = <<>>
    /\ image = <<>>
    /\ added = <<>>

\* The C string that begins at offset off of bytes: up to the next NUL.
CString(bytes, off) ==
    LET end == CHOOSE i \in off + 1 .. Len(bytes) + 1 :
                  /\ i > Len(bytes) \/ bytes[i] = NUL
                  /\ \A j \in off + 1 .. i - 1 : bytes[j] # NUL
    IN SubSeq(bytes, off + 1, end - 1)

\* strcmp(entry_str, str): the entry is compared with the source from the
\* literal on, to its end.
Matches(i, text, rest) ==
    CString(blob, table[i].offset) = text \o <<QUOTE>> \o rest

\* The blob once text is appended, with the NUL behind it.
Stored(text) == blob \o text \o <<NUL>>

\* Faulty variant: the table grows only when it is already too full.
RoomTooLate(len) == IF capacity < len THEN capacity * 2 ELSE capacity

Room(len) == IF capacity < len + 1 THEN capacity * 2 ELSE capacity

\* add_string: the index of the first match, or of a new entry.
AddString(text, rest) ==
    LET found == {i \in DOMAIN table : Matches(i, text, rest)}
        id    == IF found = {} THEN Len(table) + 1
                 ELSE CHOOSE i \in found : \A j \in found : i <= j
    IN
    /\ image = <<>>
    /\ Len(added) < MaxStrings
    /\ added' = Append(added, [text |-> text, id |-> id])
    /\ IF found # {}
       THEN UNCHANGED <<table, capacity, blob>>
       ELSE /\ capacity' = Room(Len(table))
            /\ table' = Append(table, [offset |-> Len(blob), len |-> Len(text)])
            /\ blob' = Stored(text)
    /\ UNCHANGED image

\* make_entry writes out the string table.
EmitBlob ==
    /\ image = <<>>
    /\ blob # <<>>
    /\ image' = blob
    /\ UNCHANGED <<table, capacity, blob, added>>

Next ==
    \/ \E text \in Texts, rest \in Rests : AddString(text, rest)
    \/ EmitBlob

Spec == Init /\ [][Next]_vars

\* get_offset_string
GetOffset(id) == IF Len(table) + 1 < id THEN -1 ELSE table[id].offset

\* Faulty variant: the strings are taken to begin with the binary.
AddressFromLoad(id) == Wrap(LOAD + GetOffset(id))

\* The immediate that MOV SI gets for a string literal.
AddressOf(id) == Wrap(LOAD + RUNTIMELEN + GetOffset(id))

-----------------------------------------------------------------------------
(* Properties.                                                             *)

Characters == UNION {Range(t) : t \in Texts}

\* The types of the state.
TypeOK ==
    /\ table \in Seq([offset : Nat, len : Nat])
    /\ capacity \in Nat
    /\ blob \in Seq(Characters \cup {NUL})
    /\ image \in {<<>>, blob}
    /\ added \in Seq([text : Texts, id : Nat])

\* The index of a literal leads to its own text, whatever was appended since,
\* and the entries fill the blob without gap or overlap.
StringsIntact ==
    /\ Len(table) <= capacity
    /\ \A k \in DOMAIN added :
          CString(blob, GetOffset(added[k].id)) = added[k].text
    /\ \A i \in DOMAIN table :
          table[i].offset + table[i].len + 1 =
             IF i = Len(table) THEN Len(blob) ELSE table[i + 1].offset

\* At the address that the code loads into SI, the running program finds the
\* text of the literal: os_print_string and the string calls read to the NUL.
AddressesReachText ==
    image # <<>> =>
       \A k \in DOMAIN added :
          LET off == AddressOf(added[k].id) - (LOAD + RUNTIMELEN) IN
          /\ off \in 0 .. Len(image) - 1
          /\ CString(image, off) = added[k].text

\* "If entry is already present, just return its index": equal literals share
\* one entry (add_string).
EqualStringsShared ==
    \A j, k \in DOMAIN added :
       added[j].text = added[k].text => added[j].id = added[k].id
=============================================================================

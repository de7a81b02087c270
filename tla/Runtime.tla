------------------------------- MODULE Runtime -------------------------------
(***************************************************************************)
(* The beginning of every compiled program (back/runtime.c): make_entry    *)
(* emits a jump, the three handlers, four words of state, the strings and  *)
(* the code that clears the variables; make_exit ends a program.           *)
(*                                                                         *)
(* One step is one function or one commented block of make_entry; the last *)
(* step runs the entry code.  Instructions are counted by their bytes; the *)
(* words that are addresses or rel16 are kept.                             *)
(***************************************************************************)
EXTENDS Layout

CONSTANT BlobLengths        \* the lengths of the string table

ASSUME BlobAssumption == BlobLengths \subseteq Nat

VARIABLES
    blobLen,    \* StringTable.blob_len
    length,     \* CompileTarget.length
    at,         \* the offset at which each part emitted so far begins
    calls,      \* the rel16 words of calls and jumps, and what each is for
    si,         \* the word MOV SI gets in zero_divide_handler
    clears,     \* the blocks of memory the entry code sets to zero
    zeroed      \* the bytes that are zero when the program proper begins

vars == <<blobLen, length, at, calls, si, clears, zeroed>>

Parts == {"jump", "STRADD", "ZERODIV", "message", "PRINTSTR", "INKADDR", "RAMSTART",
          "WORKPAGE", "ACTIVEPAGE", "strings", "clear", "clear strings", "stack"}

\* The addresses that code generation uses for the parts of the runtime.
Declared == [ STRADD |-> STRADD, ZERODIV |-> ZERODIV, PRINTSTR |-> PRINTSTR,
              INKADDR |-> INKADDR, RAMSTART |-> RAMSTART, WORKPAGE |-> WORKPAGE,
              ACTIVEPAGE |-> ACTIVEPAGE, strings |-> LOAD + RUNTIMELEN ]

Init ==
    /\ blobLen \in BlobLengths
    /\ length = 0
    /\ at = [p \in {} |-> 0]
    /\ calls = {}
    /\ si = 0
    /\ clears = {}
    /\ zeroed = {}

\* The next part to emit begins here, after the part before it.
Begins(part, before) ==
    /\ part \notin DOMAIN at
    /\ before \in DOMAIN at
    /\ at' = [p \in DOMAIN at \cup {part} |-> IF p = part THEN length ELSE at[p]]
    /\ UNCHANGED <<blobLen, zeroed>>

\* A call whose opcode is at offset off.
CallAt(off, target) == [site |-> off + 1, rel |-> EmitRel(target, off), target |-> target]

\* emit_jump over the runtime and the strings.
EntryJump ==
    /\ at = [p \in {} |-> 0]
    /\ at' = [p \in {"jump"} |-> 0]
    /\ length' = 3
    /\ calls' = {CallAt(0, LOAD + RUNTIMELEN + blobLen)}
    /\ UNCHANGED <<blobLen, si, clears, zeroed>>

\* Faulty variant: the length the comment gives, 20 bytes.
AddStringsShort ==
    /\ Begins("STRADD", "jump")
    /\ length' = length + 20
    /\ calls' = calls \cup {CallAt(length + 5, 57), CallAt(length + 17, 63)}
    /\ UNCHANGED <<si, clears>>

\* add_strings: CALL os_string_copy and os_string_join.
AddStrings ==
    /\ Begins("STRADD", "jump")
    /\ length' = length + 21
    /\ calls' = calls \cup {CallAt(length + 5, 57), CallAt(length + 17, 63)}
    /\ UNCHANGED <<si, clears>>

\* make_exit
ExitLength == 9

\* zero_divide_handler; code->length has passed the opcode of MOV SI when the
\* address is computed.  The message with its NUL is 32 bytes.
ZeroDivideHandler ==
    /\ "ZERODIV" \notin DOMAIN at
    /\ "STRADD" \in DOMAIN at
    /\ at' = [p \in DOMAIN at \cup {"ZERODIV", "message"} |->
                 CASE p = "ZERODIV" -> length
                   [] p = "message" -> length + 4 + 3 + ExitLength
                   [] OTHER         -> at[p]]
    /\ si' = Wrap(LOAD + (length + 2) + 8)
    /\ calls' = calls \cup {CallAt(length + 4, 3)}
    /\ length' = length + 4 + 3 + ExitLength + 32
    /\ UNCHANGED <<blobLen, clears, zeroed>>

\* print_string: entry, loop, character, cursor, new line, RET and NOP.
PrintStringHandler ==
    /\ Begins("PRINTSTR", "ZERODIV")
    /\ length' = length + 19 + 11 + 2 + 20 + 26 + 2
    /\ calls' = calls \cup {CallAt(length + 71, 15)}
    /\ UNCHANGED <<si, clears>>

\* The word of state `part`.
StateWord(part, before) ==
    /\ Begins(part, before)
    /\ length' = length + 2
    /\ UNCHANGED <<calls, si, clears>>

Blob ==
    /\ Begins("strings", "ACTIVEPAGE")
    /\ length' = length + blobLen
    /\ UNCHANGED <<calls, si, clears>>

\* XOR AX, AX; REP STOSB of 46 bytes from VARS.
ClearNumbers ==
    /\ Begins("clear", "strings")
    /\ length' = length + 12
    /\ clears' = clears \cup {[from |-> VARS, count |-> 46]}
    /\ UNCHANGED <<calls, si>>

\* Faulty variant: half of the string variables.
ClearStringsHalf ==
    /\ Begins("clear strings", "clear")
    /\ length' = length + 10
    /\ clears' = clears \cup {[from |-> STRVARS, count |-> 512]}
    /\ UNCHANGED <<calls, si>>

\* REP STOSB of 1024 bytes from STRVARS.
ClearStrings ==
    /\ Begins("clear strings", "clear")
    /\ length' = length + 10
    /\ clears' = clears \cup {[from |-> STRVARS, count |-> 1024]}
    /\ UNCHANGED <<calls, si>>

SetupStack ==
    /\ Begins("stack", "clear strings")
    /\ length' = length + 2
    /\ UNCHANGED <<calls, si, clears>>

\* MikeOS jumps to the first byte: the entry jump, then the clearing code if
\* the jump arrives there.
Target == CHOOSE c \in calls : c.site = 1

RunEntry ==
    /\ "stack" \in DOMAIN at
    /\ zeroed = {}
    /\ Land(Target.site, Target.rel) = at["clear"]
    /\ zeroed' = UNION { b.from .. b.from + b.count - 1 : b \in clears }
    /\ UNCHANGED <<blobLen, length, at, calls, si, clears>>

\* Faulty variant: the three bytes of the jump are not counted.
ShownFromJump == IF Target.rel = RUNTIMELEN THEN RUNTIMELEN ELSE Target.rel

\* disassemble(): where it goes on after the runtime and the strings, from the
\* word of the entry jump.
ShownFrom ==
    LET stringsLen == Target.rel + 3 - RUNTIMELEN
    IN IF stringsLen # 0 THEN RUNTIMELEN + stringsLen ELSE RUNTIMELEN

Next ==
    \/ EntryJump
    \/ AddStrings
    \/ ZeroDivideHandler
    \/ PrintStringHandler
    \/ StateWord("INKADDR", "PRINTSTR")
    \/ StateWord("RAMSTART", "INKADDR")
    \/ StateWord("WORKPAGE", "RAMSTART")
    \/ StateWord("ACTIVEPAGE", "WORKPAGE")
    \/ Blob
    \/ ClearNumbers
    \/ ClearStrings
    \/ SetupStack
    \/ RunEntry

Spec == Init /\ [][Next]_vars

FairSpec == Spec /\ WF_vars(Next)

-----------------------------------------------------------------------------
(* Properties.                                                             *)

\* Every part of the runtime begins at the address that codegen.h gives it and
\* that compiled code calls, loads and stores; RUNTIMELEN is where the strings
\* begin.
RuntimeInPlace ==
    \A p \in DOMAIN Declared \cap DOMAIN at : LOAD + at[p] = Declared[p]

\* The calls of the handlers reach the MikeOS entry points below LOAD, across
\* the 16-bit wrap.
CallsReachTarget ==
    \A c \in calls : Wrap(LOAD + Land(c.site, c.rel)) = c.target

\* The disassembler skips exactly the runtime and the strings: it goes on at the
\* first instruction of the code after them (disassemble).
ProgramIsShown == "clear" \in DOMAIN at => ShownFrom = at["clear"]

\* The entry jump skips the runtime and all strings, so that the program
\* proper begins, with every string variable empty.
ProgramBegins ==
    <>(STRVARS .. STRVARS + 8 * 128 - 1 \subseteq zeroed)

\* "Print message": the handler of division by zero passes the address of its
\* message to os_print_string.
MessageIsPrinted ==
    "ZERODIV" \in DOMAIN at => si = LOAD + at["message"]

\* "Clear out numeric variables": A to Z, a word each, are zero when the
\* program proper begins.
NumbersCleared ==
    zeroed # {} => VARS .. VARS + 26 * 2 - 1 \subseteq zeroed
=============================================================================

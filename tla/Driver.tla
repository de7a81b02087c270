------------------------------- MODULE Driver --------------------------------
(***************************************************************************)
(* main() (main.c) with read_file, write_file and the error flag of        *)
(* util.c: read, check, parse, check, compile, check, write.  Every call   *)
(* of the C library may fail where the code looks at its result.  What     *)
(* -debug prints changes nothing and is left out.                          *)
(***************************************************************************)
EXTENDS Integers

CONSTANTS
    SourceLengths,  \* the lengths of the source file
    CodeLengths     \* the lengths of the compiled program

ASSUME LengthsAssumption ==
    /\ SourceLengths \subseteq Nat
    /\ CodeLengths \subseteq Nat \ {0}

VARIABLES
    pc,         \* where main() is
    argc,       \* the arguments given
    len,        \* the length of the source
    src,        \* how many bytes of it were read: -1 while the pointer is NULL
    ct,         \* CompileTarget.length
    hadError,   \* had_error
    output,     \* the bytes in the output file: -1 while it is as it was before
    open,       \* the files open
    success,    \* "Compilation successful" has been printed
    status      \* the exit status, -2 while the compiler runs

vars == <<pc, argc, len, src, ct, hadError, output, open, success, status>>

Init ==
    /\ pc = "args"
    /\ argc \in 1 .. 4
    /\ len \in SourceLengths
    /\ src = -1
    /\ ct = 0
    /\ hadError = FALSE
    /\ output = -1
    /\ open = {}
    /\ success = FALSE
    /\ status = -2

\* main() goes on with next.
Goes(here, next) ==
    /\ pc = here
    /\ pc' = next
    /\ UNCHANGED <<argc, len>>

Exit(code) == status' = code

RaiseError == hadError' = TRUE

CheckArguments ==
    \/ /\ argc < 3
       /\ Goes("args", "exit")
       /\ Exit(-1)
       /\ UNCHANGED <<src, ct, hadError, output, open, success>>
    \/ /\ argc >= 3
       /\ Goes("args", "read")
       /\ UNCHANGED <<src, ct, hadError, output, open, success, status>>

\* read_file: fopen, malloc and fread may fail; the file stays open when
\* malloc or fread does.
ReadFile ==
    /\ Goes("read", "check read")
    /\ \/ /\ RaiseError
          /\ UNCHANGED <<src, open>>
       \/ /\ RaiseError
          /\ open' = open \cup {"source"}
          /\ UNCHANGED src
       \/ /\ src' = len
          /\ UNCHANGED <<hadError, open>>
    /\ UNCHANGED <<ct, output, success, status>>

\* Faulty variant: check_for_error prints but does not exit.
CheckForErrorGoesOn(here, next) ==
    /\ Goes(here, next)
    /\ UNCHANGED <<src, ct, hadError, output, open, success, status>>

\* check_for_error between the phases.
CheckForError(here, next) ==
    /\ Goes(here, IF hadError THEN "exit" ELSE next)
    /\ IF hadError THEN Exit(-1) ELSE UNCHANGED status
    /\ UNCHANGED <<src, ct, hadError, output, open, success>>

\* init_lexer and parse; lex_error and parse_error raise the flag.
Parse ==
    /\ Goes("parse", "check parse")
    /\ RaiseError \/ UNCHANGED hadError
    /\ UNCHANGED <<src, ct, output, open, success, status>>

\* compile: compile_error raises the flag, code is emitted all the same.
Compile ==
    /\ Goes("compile", "check compile")
    /\ ct' \in CodeLengths
    /\ RaiseError \/ UNCHANGED hadError
    /\ UNCHANGED <<src, output, open, success, status>>

\* Faulty variant: the room allocated for the code is written, not its length.
WriteFileCapacity ==
    /\ Goes("write", "report")
    /\ output' = ct + 1
    /\ UNCHANGED <<src, ct, hadError, open, success, status>>

\* write_file: fopen truncates the file; fwrite may stop early, and then the
\* file is not closed here (its bytes reach the disk when main returns).
WriteFile ==
    /\ Goes("write", "report")
    /\ \/ /\ RaiseError
          /\ UNCHANGED <<output, open>>
       \/ \E n \in 0 .. ct - 1 :
             /\ RaiseError
             /\ output' = n
             /\ open' = open \cup {"output"}
       \/ /\ output' = ct
          /\ UNCHANGED <<hadError, open>>
    /\ UNCHANGED <<src, ct, success, status>>

Report ==
    /\ Goes("report", "exit")
    /\ success' = TRUE
    /\ Exit(0)
    /\ UNCHANGED <<src, ct, hadError, output, open>>

Next ==
    \/ CheckArguments
    \/ ReadFile
    \/ CheckForError("check read", "parse")
    \/ Parse
    \/ CheckForError("check parse", "compile")
    \/ Compile
    \/ CheckForError("check compile", "write")
    \/ WriteFile
    \/ Report

Spec == Init /\ [][Next]_vars

-----------------------------------------------------------------------------
(* Properties.                                                             *)

\* The types of the state.
TypeOK ==
    /\ src \in SourceLengths \cup {-1}
    /\ ct \in CodeLengths \cup {0}
    /\ hadError \in BOOLEAN
    /\ output \in -1 .. ct
    /\ open \subseteq {"source", "output"}
    /\ success \in BOOLEAN
    /\ status \in -2 .. 0

\* A phase runs only on the complete result of the phases before it: lexer and
\* parser never see the NULL that read_file returns, no file is written from a
\* program with an error.
PhasesRunClean ==
    pc \in {"parse", "compile", "write"} => src = len /\ ~hadError

\* The output file of an earlier compilation survives every error that was
\* raised before it is opened.
OldOutputSurvives == [][output' # output => ~hadError]_vars

\* "Compilation successful: written file %s (%d bytes long)": what the message
\* says is so.
SuccessMeansWritten == success => output = ct /\ ~hadError
=============================================================================

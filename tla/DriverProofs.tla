---------------------------- MODULE DriverProofs ----------------------------
(***************************************************************************)
(* What the error flag of the driver guarantees, for sources and programs  *)
(* of any length.                                                          *)
(***************************************************************************)
EXTENDS Driver, TLAPS

(***************************************************************************)
(* The flag is clear while the compiler is in a phase that needs the       *)
(* results of the ones before; between two phases it may be set.  Once the *)
(* source has been read, either it is all there or the flag is set.        *)
(***************************************************************************)
DriverInv ==
    /\ hadError \in BOOLEAN
    /\ pc \in {"args", "read", "parse", "compile", "write"} => hadError = FALSE
    /\ pc = "check read" => src = len \/ hadError = TRUE
    /\ pc \in {"parse", "check parse", "compile", "check compile", "write"} => src = len

\* No error has been raised in the beginning.
LEMMA InitInv == Init => DriverInv
  BY DEF Init, DriverInv

\* check_for_error goes on with a clear flag, or leaves.
LEMMA CheckKeeps ==
    ASSUME DriverInv,
           NEW here, NEW next, CheckForError(here, next),
           <<here, next>> \in { <<"check read", "parse">>, <<"check parse", "compile">>,
                                <<"check compile", "write">> }
    PROVE  DriverInv'
<1>1. CASE hadError = TRUE
  <2>1. pc' = "exit" /\ hadError' = hadError
    BY <1>1 DEF CheckForError, Goes
  <2> QED BY <2>1 DEF DriverInv
<1>2. CASE hadError = FALSE
  <2>1. pc = here /\ pc' = next /\ src' = src /\ len' = len /\ hadError' = FALSE
    BY <1>2 DEF CheckForError, Goes
  <2>2. src = len
    BY <1>2, <2>1 DEF DriverInv
  <2> QED BY <2>1, <2>2 DEF DriverInv
<1> QED BY <1>1, <1>2 DEF DriverInv

\* Every step keeps the invariant.
LEMMA StepKeeps == DriverInv /\ [Next]_vars => DriverInv'
<1> SUFFICES ASSUME DriverInv, [Next]_vars PROVE DriverInv'
  OBVIOUS
<1>1. CASE CheckArguments
  BY <1>1 DEF DriverInv, CheckArguments, Goes
<1>2. CASE ReadFile
  BY <1>2 DEF DriverInv, ReadFile, Goes, RaiseError
<1>3. CASE CheckForError("check read", "parse")
  BY <1>3, CheckKeeps
<1>4. CASE Parse
  BY <1>4 DEF DriverInv, Parse, Goes, RaiseError
<1>5. CASE CheckForError("check parse", "compile")
  BY <1>5, CheckKeeps
<1>6. CASE Compile
  BY <1>6 DEF DriverInv, Compile, Goes, RaiseError
<1>7. CASE CheckForError("check compile", "write")
  BY <1>7, CheckKeeps
<1>8. CASE WriteFile
  BY <1>8 DEF DriverInv, WriteFile, Goes, RaiseError
<1>9. CASE Report
  BY <1>9 DEF DriverInv, Report, Goes
<1>10. CASE UNCHANGED vars
  BY <1>10 DEF DriverInv, vars
<1> QED
  BY <1>1, <1>2, <1>3, <1>4, <1>5, <1>6, <1>7, <1>8, <1>9, <1>10 DEF Next

\* The invariant holds in every state.
LEMMA InvHolds == Spec => []DriverInv
  BY InitInv, StepKeeps, PTL DEF Spec

\* No phase of main() runs on the result of one that has failed, whichever
\* calls of the library fail and whatever lengths the files have.
THEOREM PhasesClean == Spec => []PhasesRunClean
<1>1. DriverInv => PhasesRunClean
  BY DEF DriverInv, PhasesRunClean
<1> QED BY <1>1, InvHolds, PTL

\* Until write_file opens it, no error touches the output of an earlier
\* compilation.
THEOREM OldOutputKept == Spec => OldOutputSurvives
<1>1. DriverInv /\ [Next]_vars => [output' # output => ~hadError]_vars
  <2> SUFFICES ASSUME DriverInv, Next, output' # output PROVE ~hadError
    OBVIOUS
  <2>1. WriteFile
    BY DEF Next, CheckArguments, ReadFile, CheckForError, Parse, Compile, Report
  <2>2. pc = "write"
    BY <2>1 DEF WriteFile, Goes
  <2> QED BY <2>2 DEF DriverInv
<1> QED BY <1>1, InvHolds, PTL DEF Spec, OldOutputSurvives
=============================================================================

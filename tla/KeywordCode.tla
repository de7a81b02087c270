----------------------------- MODULE KeywordCode -----------------------------
(***************************************************************************)
(* The templates of back/keyword.c: the code of a keyword statement from   *)
(* the Node that the keyword parser has made of it.  Distances of jumps    *)
(* are the ones written into the templates.                                *)
(*                                                                         *)
(* The jumps and calls between statements (GOTO, GOSUB) are in Codegen.    *)
(***************************************************************************)
EXTENDS KeywordParser, Machine, TLC

E == INSTANCE ExpressionCode

Op1(n) == n.kids[1]
Op2(n) == n.kids[2]

\* val of a Node: the number of a variable, or the number itself.
Val == ("A" :> 0) @@ ("B" :> 1) @@ ("C" :> 2) @@ ("$1" :> 0) @@ ("$2" :> 1)
       @@ ("1" :> 1) @@ ("2" :> 2) @@ ("1200" :> 1200) @@ ("9600" :> 9600) @@ ("'x'" :> 120)

Cell(v) == VARS + 2 * Val[v]
Text(s) == IF s \in StringVariables THEN STRVARS + 128 * Val[s] ELSE LOAD + RUNTIMELEN
RVar    == VARS + 2 * 17
SVar    == VARS + 2 * 18

\* An operand as compile_expression gets it: one value, a leaf.
Tree(n) ==
    CASE n.op \in NumericVariables                  -> E!Leaf("cell", Cell(n.op))
      [] n.op \in StringVariables \cup StringLiterals -> E!StringAt(Text(n.op))
      [] n.op \in NumericLiterals \cup CharLiterals -> E!Number(Val[n.op])
      [] n.op = "PROGSTART"                         -> E!Number(LOAD)
      [] n.op = "INK"                               -> E!Leaf("cell", INKADDR)
      [] n.op = "TIMER"                             -> E!Timer

Load(n) == E!LeafCode(Tree(n)).code

\* emit_call with the routine of the kernel that a comment names.
Call(routine) == Ins("CALL", None, Imm(routine), 3)
Store(n, o)   == Mov(At(Cell(n.op)), o)

MovSpBp == Ins("MOV SP,BP", None, None, 2)

\* Faulty variant: whatever is on the stack stays there.
MakeExitOnTop == <<Mov(AX, Imm(\h0500)), Int10, Ret>>

\* make_exit, back to page 0.
MakeExit == <<Mov(AX, Imm(\h0500)), Int10, MovSpBp, Ret>>

-----------------------------------------------------------------------------
(* Screen and sound.                                                       *)

ReadCharacter == <<Mov(AX, Imm(\h0800)), Mov(BX, At(WORKPAGE)), Int10>>

CompileCls == <<Call("os_clear_screen")>>

CompileCursor(n) == <<Call(IF Op1(n).op = "ON" THEN "os_show_cursor" ELSE "os_hide_cursor")>>

CompileCurschar(n) == ReadCharacter \o <<AndAx(\hFF), Store(Op1(n), AX)>>

CompileCurscol(n) == ReadCharacter \o <<ShrAx8, Store(Op1(n), AX)>>

CompileCurspos(n) ==
    <<Call("os_get_cursor_pos"), Mov(AX, DX), AndAx(\hFF), Store(Op1(n), AX),
      Mov(AX, DX), ShrAx8, Store(Op2(n), AX)>>

CompileInk(n) == Load(Op1(n)) \o <<Mov(At(INKADDR), AX)>>

CompileMove(n) ==
    Load(Op2(n)) \o <<Mov(DX, AX), ShlDx8>> \o Load(Op1(n)) \o <<Add(DX, AX), Call("os_move_cursor")>>

CompilePage(n) ==
    Load(Op1(n)) \o <<Mov(At(WORKPAGE), AX)>>
    \o Load(Op2(n)) \o <<Mov(At(ACTIVEPAGE), AX), Mov(AX, Imm(\h0500)), Or(AX, At(ACTIVEPAGE)), Int10>>

CompilePause(n) == Load(Op1(n)) \o <<Call("os_pause")>>

CompileSound(n) ==
    Load(Op1(n)) \o <<Call("os_speaker_tone")>> \o Load(Op2(n)) \o <<Call("os_pause"), Call("os_speaker_off")>>

\* What PRINT puts into SI.
Conversion(mod, n) ==
    CASE ~E!LeafCode(Tree(n)).numeric -> <<>>
      [] mod = "NULL" -> <<Call("os_int_to_string"), Mov(SI, AX)>>
      [] mod = "CHR"  -> <<AndAx(\hFF), Mov(At(STRBUF), AX), Mov(SI, Imm(STRBUF))>>
      [] mod = "HEX"  -> <<Xor(DX, DX), Mov(BX, Imm(16)), Mov(DI, Imm(STRBUF)),
                           Call("os_long_int_to_string"), Mov(SI, DI)>>

NewLine == <<Mov(AX, Imm(\h0A)), Mov(At(STRBUF), AX), Mov(SI, Imm(STRBUF)), Call("print_string")>>

CompilePrint(n) ==
    Load(Op1(Op2(n))) \o Conversion(Op1(n).op, Op1(Op2(n))) \o <<Call("print_string")>>
    \o (IF Op2(Op2(n)) = NULL THEN NewLine ELSE <<>>)

-----------------------------------------------------------------------------
(* Keyboard and dialogs.                                                   *)

CompileAlert(n) ==
    Load(Op1(n)) \o <<Mov(AX, SI), Xor(BX, BX), Xor(CX, CX), Xor(DX, DX), Call("os_dialog_box")>>

CopyTo(v) == <<Mov(SI, AX), Mov(DI, Imm(Text(v))), Call("os_string_copy")>>

CompileAskfile(n) == <<Call("os_file_selector")>> \o CopyTo(Op1(n).op)

\* What GETKEY and WAITKEY make of the kernel's answer.
KeyCode(n) ==
    << CmpAx(\h48E0), Jz(24), CmpAx(\h50E0), Jz(25), CmpAx(\h4BE0), Jz(26), CmpAx(\h4DE0), Jz(27),
       AndAx(\hFF), Store(n, AX), JmpShort(24),
       Mov(AX, Imm(1)), JmpShort(-15), Mov(AX, Imm(2)), JmpShort(-21),
       Mov(AX, Imm(3)), JmpShort(-27), Mov(AX, Imm(4)), JmpShort(-33) >>

CompileGetkey(n)  == <<Call("os_check_for_key")>> \o KeyCode(Op1(n))
CompileWaitkey(n) == <<Call("os_wait_for_key")>> \o KeyCode(Op1(n))

CompileInput(n) ==
    LET v == Op1(n) IN
    IF v.op \in StringVariables
    THEN <<Mov(AX, Imm(Text(v.op))), Call("os_input_string"), Call("os_print_newline")>>
    ELSE <<Mov(AX, Imm(STRBUF)), Call("os_input_string"), Call("os_string_length"), TestAx, Jne(8),
           Mov(AX, Imm(\h30)), Mov(At(STRBUF), AX), Mov(SI, Imm(STRBUF)), Call("os_string_to_int"),
           Store(v, AX), Call("os_print_newline")>>

\* Faulty variant: ESC goes back behind the store.
ListboxCodePast(n) ==
    << Call("os_list_dialog"), Jc(6), Store(n, AX), JmpShort(4), Xor(AX, AX), JmpShort(-6) >>

ListboxCode(n) ==
    << Call("os_list_dialog"), Jc(6), Store(n, AX), JmpShort(4), Xor(AX, AX), JmpShort(-10) >>

CompileListbox(n) ==
    LET last == Op2(Op2(n)) IN
    Load(Op1(n)) \o <<Mov(AX, SI)>> \o Load(Op1(Op2(n))) \o <<Mov(BX, SI)>>
    \o Load(Op1(last)) \o <<Mov(CX, SI)>> \o ListboxCode(Op2(last))

-----------------------------------------------------------------------------
(* Files: R and S hold the outcome.                                        *)

Name(n)    == Load(n) \o <<Mov(AX, SI)>>
FileExists == Call("os_file_exists")
Report(o)  == <<Mov(At(RVar), o)>>
SetAx(w)   == Mov(AX, Imm(w))

CompileDelete(n) ==
    Name(Op1(n)) \o <<FileExists, Jc(17), Call("os_remove_file"), Jc(4), Xor(AX, AX), JmpShort(14)>>
    \o Report(Imm(1)) \o <<JmpShort(6)>> \o Report(Imm(2))

\* Faulty variant: the last jump stays behind the byte it has replaced.
FilesLoopStuck ==
    <<Lodsb, TestAx, Jz(16), CmpAx(\h2C), Jne(-10), SetAx(\h0A), Mov(DI, SI), Dec(DI), Stosb,
      JmpShort(-11)>>

\* Every comma of the list becomes a line feed.
FilesLoop ==
    <<Lodsb, TestAx, Jz(16), CmpAx(\h2C), Jne(-10), SetAx(\h0A), Mov(DI, SI), Dec(DI), Stosb,
      JmpShort(-21)>>

CompileFiles ==
    <<Mov(AX, Imm(STRBUF)), Call("os_get_file_list"), Mov(SI, AX), Push(SI), AndAx(\hFF)>>
    \o FilesLoop \o <<Pop(SI), Call("print_string")>> \o NewLine

\* Faulty variant: the jump to the failure counts JMP SHORT as one byte.
SizeReportShort(zero) ==
    <<Jc(7), Mov(At(SVar), BX), zero, JmpShort(4), Mov(BX, Imm(1))>> \o Report(BX)

\* The success branch of LOAD and SIZE, with what it does to BX; and the other.
SizeReport(zero) == <<Jc(8), Mov(At(SVar), BX), zero, JmpShort(4), Mov(BX, Imm(1))>> \o Report(BX)

CompileLoad(n) ==
    Load(Op2(n)) \o <<Mov(CX, AX)>> \o Name(Op1(n)) \o <<Call("os_load_file")>> \o SizeReport(Xor(BX, AX))

CompileSize(n) == Name(Op1(n)) \o <<Call("os_get_file_size")>> \o SizeReport(Xor(BX, BX))

Renaming(n) ==
    Name(Op1(n)) \o <<FileExists, Jc(9), Call("os_rename_file"), Jc(10), Xor(AX, AX), JmpShort(10),
                      SetAx(1), JmpShort(4), SetAx(2)>>

\* Faulty variant: the name in BX is not kept for the renaming.
CompileRenameUnkept(n) ==
    Name(Op2(n)) \o <<FileExists, Jc(6), SetAx(3), JmpShort(Size(Renaming(n)))>>
    \o Renaming(n) \o Report(AX)

\* The jump over the renaming is patched once its length is known.
CompileRename(n) ==
    Name(Op2(n)) \o <<Mov(BX, SI), FileExists, Jc(6), SetAx(3), JmpShort(Size(Renaming(n)))>>
    \o Renaming(n) \o Report(AX)

CompileSave(n) ==
    Load(Op1(Op2(n))) \o <<Mov(BX, AX)>> \o Load(Op2(Op2(n))) \o <<Mov(CX, AX)>> \o Name(Op1(n))
    \o <<FileExists, Jc(2), JmpShort(9), Call("os_write_file"), Jc(10), Xor(AX, AX), JmpShort(10),
         SetAx(2), JmpShort(4), SetAx(1)>>
    \o Report(AX)

-----------------------------------------------------------------------------
(* Memory, strings and ports.                                              *)

CompileCase(n) ==
    <<SetAx(Text(Op2(n).op)),
      Call(IF Op1(n).op = "LOWER" THEN "os_string_lowercase" ELSE "os_string_uppercase")>>

CompileLen(n) == Load(Op1(n)) \o <<Call("os_string_length"), Store(Op2(n), AX)>>

CompileNumber(n) ==
    Load(Op1(n)) \o (IF Op1(n).op \in NumericVariables
                     THEN <<Call("os_int_to_string")>> \o CopyTo(Op2(n).op)
                     ELSE <<Call("os_string_to_int"), Store(Op2(n), AX)>>)

CompilePeek(n)    == Load(Op2(n)) \o <<Mov(BX, AX), Mov(AX, ByBx), AndAx(\hFF), Store(Op1(n), AX)>>
CompilePeekint(n) == Load(Op2(n)) \o <<Mov(BX, AX), Mov(AX, ByBx), Store(Op1(n), AX)>>

CompilePoke(n) ==
    Load(Op2(n)) \o <<Mov(BX, AX), Mov(AX, ByBx), AndAx(\hFF00), Mov(CX, AX)>>
    \o Load(Op1(n)) \o <<AndAx(\hFF), Add(CX, AX), Mov(ByBx, CX)>>

CompilePokeint(n) == Load(Op2(n)) \o <<Mov(BX, AX)>> \o Load(Op1(n)) \o <<Mov(ByBx, AX)>>

CompileRand(n) ==
    Load(Op2(Op2(n))) \o <<Mov(BX, AX)>> \o Load(Op1(Op2(n))) \o <<Call("os_get_random"), Store(Op1(n), CX)>>

CompileString(n) ==
    LET value == Op2(Op2(Op2(n))) IN
    Load(Op1(Op2(n))) \o Load(Op1(Op2(Op2(n)))) \o <<Add(SI, AX), Dec(SI)>>
    \o (IF Op1(n).op = "GET" THEN <<Lodsb, AndAx(\hFF), Store(value, AX)>>
        ELSE <<Mov(DI, SI)>> \o Load(value) \o <<Stosb>>)

CompilePort(n) ==
    Load(Op1(Op2(n))) \o <<Mov(DX, AX)>>
    \o (IF Op1(n).op = "OUT" THEN Load(Op2(Op2(n))) \o <<Call("os_port_byte_out")>>
        ELSE <<Call("os_port_byte_in"), AndAx(\hFF), Store(Op2(Op2(n)), AX)>>)

\* A mode that SERIAL ON does not know is an error (Refused).
SerialMode(mode) ==
    CASE mode = "1200" -> <<Xor(AX, AX)>> [] mode = "9600" -> <<SetAx(1)>> [] OTHER -> <<>>

CompileSerial(n) ==
    CASE Op1(n).op = "SEND" -> Load(Op2(n)) \o <<Call("os_send_via_serial")>>
      [] Op1(n).op = "REC"  -> <<Call("os_get_via_serial"), AndAx(\hFF), Store(Op2(n), AX)>>
      [] Op1(n).op = "ON"   -> SerialMode(Op2(n).op) \o <<Call("os_serial_port_enable")>>

-----------------------------------------------------------------------------
(* Ends, calls, and compile_keyword.                                       *)

\* The message that BREAK puts behind MakeExit is not code.
CompileBreak   == <<Mov(SI, Imm(LOAD + 9)), Call("os_print_string")>> \o MakeExit
CompileCall(n) == Load(Op1(n)) \o <<CallAx>>
CompileEnd     == MakeExit
CompileReturn  == <<Ret>>

Refused(n) ==
    \/ n.op = "PRINT" /\ Op1(n) # NULL /\ ~E!LeafCode(Tree(Op1(Op2(n)))).numeric
    \/ n.op = "SERIAL" /\ Op1(n).op = "ON" /\ Op2(n).op \notin {"1200", "9600"}

CompileKeyword(n) ==
    CASE n.op = "ALERT"    -> CompileAlert(n)    [] n.op = "ASKFILE"  -> CompileAskfile(n)
      [] n.op = "BREAK"    -> CompileBreak       [] n.op = "CALL"     -> CompileCall(n)
      [] n.op = "CASE"     -> CompileCase(n)     [] n.op = "CLS"      -> CompileCls
      [] n.op = "CURSOR"   -> CompileCursor(n)   [] n.op = "CURSCHAR" -> CompileCurschar(n)
      [] n.op = "CURSCOL"  -> CompileCurscol(n)  [] n.op = "CURSPOS"  -> CompileCurspos(n)
      [] n.op = "DELETE"   -> CompileDelete(n)   [] n.op = "END"      -> CompileEnd
      [] n.op = "FILES"    -> CompileFiles       [] n.op = "GETKEY"   -> CompileGetkey(n)
      [] n.op = "INK"      -> CompileInk(n)      [] n.op = "INPUT"    -> CompileInput(n)
      [] n.op = "LEN"      -> CompileLen(n)      [] n.op = "LISTBOX"  -> CompileListbox(n)
      [] n.op = "LOAD"     -> CompileLoad(n)     [] n.op = "MOVE"     -> CompileMove(n)
      [] n.op = "NUMBER"   -> CompileNumber(n)   [] n.op = "PAGE"     -> CompilePage(n)
      [] n.op = "PAUSE"    -> CompilePause(n)    [] n.op = "PEEK"     -> CompilePeek(n)
      [] n.op = "PEEKINT"  -> CompilePeekint(n)  [] n.op = "POKE"     -> CompilePoke(n)
      [] n.op = "POKEINT"  -> CompilePokeint(n)  [] n.op = "PORT"     -> CompilePort(n)
      [] n.op = "PRINT" /\ ~Refused(n)           -> CompilePrint(n)
      [] n.op = "PRINT" /\ Refused(n)            -> <<>>
      [] n.op = "RAND"     -> CompileRand(n)     [] n.op = "RENAME"   -> CompileRename(n)
      [] n.op = "RETURN"   -> CompileReturn      [] n.op = "SAVE"     -> CompileSave(n)
      [] n.op = "SERIAL"   -> CompileSerial(n)   [] n.op = "SIZE"     -> CompileSize(n)
      [] n.op = "SOUND"    -> CompileSound(n)    [] n.op = "STRING"   -> CompileString(n)
      [] n.op = "WAITKEY"  -> CompileWaitkey(n)
=============================================================================

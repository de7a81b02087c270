------------------------------ MODULE Keywords -------------------------------
(***************************************************************************)
(* Keyword statements at work: a behaviour parses one statement, compiles  *)
(* it and runs its code, an instruction a step.  The kernel and the BIOS   *)
(* may answer anything; they preserve what is not part of the answer.      *)
(* trace records the calls, with their arguments and answers.              *)
(***************************************************************************)
EXTENDS KeywordCode

D == INSTANCE Disassembler

CONSTANTS
    Lines,      \* the statements, as tokens
    Words,      \* the values of the variable A
    Junk,       \* what the registers may hold when the code begins
    WorkPages,  \* the values of the word at WORKPAGE
    Failing     \* routines that never succeed

VARIABLES
    code,       \* the instructions, by their offsets
    size,       \* the length of the code
    start,      \* the machine when the code begins
    m,          \* the machine
    ip,         \* the offset of the next instruction
    trace,      \* the calls so far
    status      \* "run", "refused" by compile_error, "end" of the code reached,
                \* "fault", or where a RET has led

vars == <<tokens, code, size, start, m, ip, trace, status>>

Places == {"GOSUB", "MikeOS"}       \* the return addresses on the stack
Ended  == {"end"} \cup Places

Word(a, w) == (a :> w % 256) @@ (a + 1 :> w \div 256)
Text1      == (STRVARS :> 72) @@ (STRVARS + 1 :> 73) @@ (STRVARS + 2 :> 0)
Scratch    == STRBUF .. STRBUF + 4

\* B holds the address of C.
Machines ==
    { [ ax |-> junk, bx |-> junk, cx |-> junk, dx |-> junk, si |-> junk, di |-> junk,
        cmp |-> <<junk, 0>>, carry |-> FALSE, ticks |-> 7777, hours |-> 9,
        stack |-> <<"GOSUB", "MikeOS">>,
        mem |-> Word(Cell("A"), a) @@ Word(Cell("B"), Cell("C")) @@ Word(Cell("C"), \hABCD)
                @@ Word(RVar, \hDDDD) @@ Word(SVar, \hDDDD) @@ Word(INKADDR, 7)
                @@ Word(WORKPAGE, page) @@ Word(ACTIVEPAGE, 0) @@ Text1 @@ [i \in Scratch |-> 0] ] :
          junk \in Junk, a \in Words, page \in WorkPages }

Init ==
    /\ tokens \in Lines
    /\ \E node \in {Keyword(1).node} : \E c \in {CompileKeyword(node)} :
          /\ code = Placed(c)
          /\ size = Size(c)
          /\ status = IF Refused(node) THEN "refused" ELSE "run"
    /\ m \in Machines
    /\ start = m
    /\ ip = 0
    /\ trace = <<>>

-----------------------------------------------------------------------------
(* The kernel.                                                             *)

\* The text that begins at a; elsewhere than in STRBUF the address stands for it.
TextAt(mem, a) ==
    IF a # STRBUF THEN <<a>>
    ELSE LET nul == CHOOSE k \in 0 .. 4 : mem[a + k] = 0 /\ \A j \in 0 .. k - 1 : mem[a + j] # 0
         IN [k \in 1 .. nul |-> mem[a + k - 1]]

Low(w)  == w % 256
High(w) == w \div 256

NoArguments == {"os_clear_screen", "os_print_newline", "os_show_cursor", "os_hide_cursor",
                "os_speaker_off", "os_get_cursor_pos", "os_wait_for_key", "os_check_for_key",
                "os_file_selector", "os_get_via_serial"}

\* What a routine is given; AH = 8 of the BIOS takes a page, AH = 5 has it in AL.
Arguments(routine) ==
    CASE routine \in NoArguments                            -> <<>>
      [] routine = "os_dialog_box"                          -> <<m.ax, m.bx, m.cx, m.dx>>
      [] routine \in {"os_list_dialog", "os_write_file"}    -> <<m.ax, m.bx, m.cx>>
      [] routine \in {"os_rename_file", "os_get_random"}    -> <<m.ax, m.bx>>
      [] routine = "os_load_file"                           -> <<m.ax, m.cx>>
      [] routine = "os_string_copy"                         -> <<m.si, m.di>>
      [] routine = "os_long_int_to_string"                  -> <<m.dx, m.ax, m.bx, m.di>>
      [] routine \in {"os_move_cursor", "os_port_byte_in"}  -> <<m.dx>>
      [] routine = "os_port_byte_out"                       -> <<m.dx, Low(m.ax)>>
      [] routine = "os_send_via_serial"                     -> <<Low(m.ax)>>
      [] routine \in {"print_string", "os_string_to_int"}   -> <<TextAt(m.mem, m.si)>>
      [] routine = "os_print_string"                        -> <<m.si>>
      [] routine = "INT 10" /\ High(m.ax) = 8               -> <<8, High(m.bx)>>
      [] OTHER                                              -> <<m.ax>>

Keys == {\h48E0, \h50E0, \h4BE0, \h4DE0, \h1E61}

Carry(routine) == IF routine \in Failing THEN {TRUE} ELSE BOOLEAN

\* A text that a routine writes at a, as an answer.
Writing(a, text) == "mem" :> ([i \in a .. a + Len(text) - 1 |-> text[i - a + 1]] @@ m.mem)

\* What a routine may change.
Answers(routine) ==
    CASE routine = "os_wait_for_key"      -> {"ax" :> k : k \in Keys}
      [] routine = "os_check_for_key"     -> {"ax" :> k : k \in Keys \cup {0}}
      [] routine \in {"os_file_selector", "os_int_to_string"} -> {"ax" :> \h6000}
      [] routine = "os_string_length"     -> {"ax" :> IF m.ax = STRBUF THEN Len(TextAt(m.mem, m.ax)) ELSE 2}
      [] routine = "os_string_to_int"     -> {"ax" :> 1234}
      [] routine = "os_get_cursor_pos"    -> {"dx" :> \h0C27}
      [] routine = "os_list_dialog"       -> {("carry" :> c) @@ ("ax" :> 3) : c \in BOOLEAN}
      [] routine = "os_get_random"        -> {"cx" :> 17}
      [] routine \in {"os_port_byte_in", "os_get_via_serial"} -> {"ax" :> (m.ax - Low(m.ax)) + 77}
      [] routine \in {"os_file_exists", "os_remove_file", "os_rename_file", "os_write_file"} ->
            {"carry" :> c : c \in Carry(routine)}
      [] routine \in {"os_load_file", "os_get_file_size"} ->
            {("carry" :> c) @@ ("bx" :> 1000) : c \in Carry(routine)}
      [] routine = "os_get_file_list"     -> {Writing(m.ax, l) : l \in {<<0>>, <<70, 0>>, <<70, 44, 71, 0>>}}
      [] routine = "os_input_string" /\ m.ax = STRBUF -> {Writing(m.ax, l) : l \in {<<0>>, <<53, 0>>}}
      [] routine = "os_long_int_to_string" -> {Writing(m.di, <<70, 0>>)}
      [] routine = "INT 10" /\ High(m.ax) = 8 -> {"ax" :> \h0741}
      [] OTHER                            -> {<<>>}

-----------------------------------------------------------------------------
(* Running the code.                                                       *)

Fetched(ops) ==
    /\ status = "run"
    /\ ip \in DOMAIN code
    /\ code[ip].op \in ops
    /\ UNCHANGED <<tokens, code, size, start>>

Jump ==
    /\ Fetched(Jumps)
    /\ ip' = JumpsTo(m, ip, code[ip])
    /\ UNCHANGED <<m, trace, status>>

CallKernel ==
    LET i       == code[ip]
        routine == CASE i.op = "INT 10" -> "INT 10"
                     [] i.src = AX      -> "CALL AX"
                     [] OTHER           -> i.src.val
    IN
    /\ Fetched({"CALL", "INT 10"})
    /\ \E answer \in Answers(routine) :
          /\ m' = answer @@ m
          /\ trace' = Append(trace, [routine |-> routine, args |-> Arguments(routine), answer |-> answer])
    /\ ip' = ip + i.size
    /\ UNCHANGED status

\* A RET to anything but a return address leads nowhere.
Leave ==
    /\ Fetched({"RET"})
    /\ status' = IF Len(m.stack) <= 2 THEN Head(m.stack) ELSE "fault"
    /\ m' = [m EXCEPT !.stack = Tail(@)]
    /\ UNCHANGED <<ip, trace>>

\* The memory that an instruction uses.
Used(i) ==
    CASE i.op = "LODSB" -> {m.si}
      [] i.op = "STOSB" -> {m.di}
      [] "by bx" \in {i.dst.kind, i.src.kind} -> {m.bx, m.bx + 1}
      [] OTHER -> {}

Execute ==
    LET i == code[ip] IN
    /\ Fetched({code[k].op : k \in DOMAIN code} \ (Jumps \cup {"CALL", "INT 10", "RET"}))
    /\ Used(i) \subseteq DOMAIN m.mem
    /\ m' = IF i = MovSpBp THEN [m EXCEPT !.stack = <<"MikeOS">>] ELSE Moved(m, i)
    /\ ip' = ip + i.size
    /\ UNCHANGED <<trace, status>>

\* The code has been run to its end, or execution is off the instructions.
Stop ==
    /\ status = "run"
    /\ ~(ip \in DOMAIN code /\ Used(code[ip]) \subseteq DOMAIN m.mem)
    /\ status' = IF ip = size THEN "end" ELSE "fault"
    /\ UNCHANGED <<tokens, code, size, start, m, ip, trace>>

Next == Jump \/ CallKernel \/ Leave \/ Execute \/ Stop

\* The processor does not stop between two instructions.
Spec == Init /\ [][Next]_vars /\ WF_vars(Next)

-----------------------------------------------------------------------------
(* What a statement is to do, by its tokens (list.md and the comments of   *)
(* keyword.c).                                                             *)

\* The value of the i-th token: a number, or the address of a text.
V(i) ==
    LET t == tokens[i] IN
    CASE t \in NumericVariables                    -> WordAt(start.mem, Cell(t))
      [] t \in StringVariables \cup StringLiterals -> Text(t)
      [] t \in NumericLiterals \cup CharLiterals   -> Val[t]
      [] t = "PROGSTART"                           -> LOAD
      [] t = "INK"                                 -> WordAt(start.mem, INKADDR)
      [] t = "TIMER"                               -> start.ticks

C(routine, args) == [routine |-> routine, args |-> args]

\* The answer of the i-th call in one register, and its carry flag.
Out(i, register) ==
    IF i \in DOMAIN trace /\ register \in DOMAIN trace[i].answer
    THEN trace[i].answer[register] ELSE 0
Fails(i) == Out(i, "carry") = TRUE

\* The text in STRBUF after the i-th call.
Answered(i) ==
    IF i \in DOMAIN trace /\ "mem" \in DOMAIN trace[i].answer
    THEN TextAt(trace[i].answer["mem"], STRBUF) ELSE <<>>

PrintCalls ==
    LET value == IF tokens[2] \in {"CHR", "HEX"} THEN 3 ELSE 2 IN
    (CASE tokens[value] \in StringVariables \cup StringLiterals -> <<C("print_string", <<<<V(2)>>>>)>>
       [] value = 2        -> <<C("os_int_to_string", <<V(2)>>), C("print_string", <<<<Out(1, "ax")>>>>)>>
       [] tokens[2] = "CHR" -> <<C("print_string", <<<<Low(V(3))>>>>)>>
       [] tokens[2] = "HEX" -> <<C("os_long_int_to_string", <<0, V(3), 16, STRBUF>>),
                                 C("print_string", <<Answered(1)>>)>>)
    \o (IF tokens[Len(tokens)] = ";" THEN <<>> ELSE <<C("print_string", <<<<10>>>>)>>)

PromisedCalls ==
    LET op == tokens[1] IN
    CASE op = "ALERT"   -> <<C("os_dialog_box", <<V(2), 0, 0, 0>>)>>
      [] op = "ASKFILE" -> <<C("os_file_selector", <<>>), C("os_string_copy", <<Out(1, "ax"), V(2)>>)>>
      [] op = "BREAK"   -> <<C("os_print_string", <<LOAD + 16>>), C("INT 10", <<\h0500>>)>>
      [] op = "CALL"    -> <<C("CALL AX", <<V(2)>>)>>
      [] op = "CASE"    -> <<C(IF tokens[2] = "LOWER" THEN "os_string_lowercase"
                               ELSE "os_string_uppercase", <<V(3)>>)>>
      [] op = "CLS"     -> <<C("os_clear_screen", <<>>)>>
      [] op = "CURSOR"  -> <<C(IF tokens[2] = "ON" THEN "os_show_cursor" ELSE "os_hide_cursor", <<>>)>>
      [] op \in {"CURSCHAR", "CURSCOL"} -> <<C("INT 10", <<8, WordAt(start.mem, WORKPAGE)>>)>>
      [] op = "CURSPOS" -> <<C("os_get_cursor_pos", <<>>)>>
      [] op = "DELETE"  -> <<C("os_file_exists", <<V(2)>>)>>
                           \o (IF Fails(1) THEN <<>> ELSE <<C("os_remove_file", <<V(2)>>)>>)
      [] op = "END"     -> <<C("INT 10", <<\h0500>>)>>
      [] op = "FILES"   -> <<C("os_get_file_list", <<STRBUF>>),
                             C("print_string", <<[k \in DOMAIN Answered(1) |->
                                   IF Answered(1)[k] = 44 THEN 10 ELSE Answered(1)[k]]>>),
                             C("print_string", <<<<10>>>>)>>
      [] op = "GETKEY"  -> <<C("os_check_for_key", <<>>)>>
      [] op = "WAITKEY" -> <<C("os_wait_for_key", <<>>)>>
      [] op = "INPUT"   -> (IF tokens[2] \in StringVariables THEN <<C("os_input_string", <<V(2)>>)>>
                            ELSE <<C("os_input_string", <<STRBUF>>), C("os_string_length", <<STRBUF>>),
                                   C("os_string_to_int",
                                     <<IF Answered(1) = <<>> THEN <<48>> ELSE Answered(1)>>)>>)
                           \o <<C("os_print_newline", <<>>)>>
      [] op = "LEN"     -> <<C("os_string_length", <<V(2)>>)>>
      [] op = "LISTBOX" -> <<C("os_list_dialog", <<V(2), V(3), V(4)>>)>>
      [] op = "LOAD"    -> <<C("os_load_file", <<V(2), V(3)>>)>>
      [] op = "MOVE"    -> <<C("os_move_cursor", <<Wrap(256 * V(3) + V(2))>>)>>
      [] op = "NUMBER"  -> IF tokens[2] \in StringVariables THEN <<C("os_string_to_int", <<<<V(2)>>>>)>>
                           ELSE <<C("os_int_to_string", <<V(2)>>),
                                  C("os_string_copy", <<Out(1, "ax"), V(3)>>)>>
      [] op = "PAGE"    -> <<C("INT 10", <<\h0500 + V(3)>>)>>
      [] op = "PAUSE"   -> <<C("os_pause", <<V(2)>>)>>
      [] op = "PORT"    -> IF tokens[2] = "IN" THEN <<C("os_port_byte_in", <<V(3)>>)>>
                           ELSE <<C("os_port_byte_out", <<V(3), Low(V(4))>>)>>
      [] op = "PRINT"   -> PrintCalls
      [] op = "RAND"    -> <<C("os_get_random", <<V(3), V(4)>>)>>
      [] op = "RENAME"  -> <<C("os_file_exists", <<V(3)>>)>>
                           \o (IF ~Fails(1) THEN <<>> ELSE <<C("os_file_exists", <<V(2)>>)>>
                               \o (IF Fails(2) THEN <<>> ELSE <<C("os_rename_file", <<V(2), V(3)>>)>>))
      [] op = "SAVE"    -> <<C("os_file_exists", <<V(2)>>)>>
                           \o (IF Fails(1) THEN <<C("os_write_file", <<V(2), V(3), V(4)>>)>> ELSE <<>>)
      [] op = "SERIAL"  -> <<CASE tokens[2] = "ON" -> C("os_serial_port_enable", <<IF V(3) = 1200 THEN 0 ELSE 1>>)
                               [] tokens[2] = "SEND" -> C("os_send_via_serial", <<Low(V(3))>>)
                               [] tokens[2] = "REC"  -> C("os_get_via_serial", <<>>)>>
      [] op = "SIZE"    -> <<C("os_get_file_size", <<V(2)>>)>>
      [] op = "SOUND"   -> <<C("os_speaker_tone", <<V(2)>>), C("os_pause", <<V(3)>>), C("os_speaker_off", <<>>)>>
      [] OTHER          -> <<>>

KeyValue(w) ==
    CASE w = \h48E0 -> 1 [] w = \h50E0 -> 2 [] w = \h4BE0 -> 3 [] w = \h4DE0 -> 4 [] OTHER -> Low(w)

\* R after a file operation whose calls may fail, by the call that failed.
Outcome(w)    == Word(RVar, w)
Sized         == IF Fails(1) THEN Outcome(1) ELSE Outcome(0) @@ Word(SVar, Out(1, "bx"))
Target(i, w)  == Word(Cell(tokens[i]), w)

\* The bytes of memory that a statement changes, with their new values.
PromisedStores ==
    LET op == tokens[1] IN
    CASE op = "CURSCHAR" -> Target(2, Low(Out(1, "ax")))
      [] op = "CURSCOL"  -> Target(2, High(Out(1, "ax")))
      [] op = "CURSPOS"  -> Target(3, High(Out(1, "dx"))) @@ Target(2, Low(Out(1, "dx")))
      [] op = "DELETE"   -> Outcome(IF Fails(1) THEN 2 ELSE IF Fails(2) THEN 1 ELSE 0)
      [] op \in {"GETKEY", "WAITKEY"} -> Target(2, KeyValue(Out(1, "ax")))
      [] op = "INK"      -> Word(INKADDR, V(2))
      [] op = "INPUT" /\ tokens[2] \in NumericVariables -> Target(2, Out(3, "ax"))
      [] op = "LEN"      -> Target(3, Out(1, "ax"))
      [] op = "LISTBOX"  -> Target(5, IF Fails(1) THEN 0 ELSE Out(1, "ax"))
      [] op \in {"LOAD", "SIZE"} -> Sized
      [] op = "NUMBER" /\ tokens[2] \in StringVariables -> Target(3, Out(1, "ax"))
      [] op = "PAGE"     -> Word(WORKPAGE, V(2)) @@ Word(ACTIVEPAGE, V(3))
      [] op = "PEEK"     -> Target(2, start.mem[V(3)])
      [] op = "PEEKINT"  -> Target(2, WordAt(start.mem, V(3)))
      [] op = "POKE"     -> V(3) :> Low(V(2))
      [] op = "POKEINT"  -> Word(V(3), V(2))
      [] op = "PORT" /\ tokens[2] = "IN"    -> Target(4, Low(Out(1, "ax")))
      [] op = "RAND"     -> Target(2, Out(1, "cx"))
      [] op = "RENAME"   -> Outcome(IF ~Fails(1) THEN 3 ELSE IF Fails(2) THEN 1 ELSE IF Fails(3) THEN 2 ELSE 0)
      [] op = "SAVE"     -> Outcome(IF ~Fails(1) THEN 2 ELSE IF Fails(2) THEN 1 ELSE 0)
      [] op = "SERIAL" /\ tokens[2] = "REC" -> Target(3, Low(Out(1, "ax")))
      [] op = "STRING"   -> IF tokens[2] = "GET" THEN Target(5, start.mem[V(3) + V(4) - 1])
                            ELSE (V(3) + V(4) - 1) :> Low(V(5))
      [] OTHER           -> <<>>

-----------------------------------------------------------------------------
(* Properties.                                                             *)

\* The types of the state.
TypeOK ==
    /\ status \in Ended \cup {"run", "refused", "fault"}
    /\ ip \in Int
    /\ \A r \in {"ax", "bx", "cx", "dx", "si", "di"} : m[r] \in Word16
    /\ \A a \in DOMAIN m.mem : m.mem[a] \in 0 .. 255
    /\ DOMAIN m.mem = DOMAIN start.mem

\* Each statement makes the calls it is for, in their order, with the values of
\* its own operands in the registers where the routine looks for them, whatever
\* the calls before have answered and the registers held.
CallsOfTheStatement ==
    status \in Ended =>
       [i \in DOMAIN trace |-> C(trace[i].routine, trace[i].args)] = PromisedCalls

\* The answers reach the target variables, R and S; nothing else in memory
\* changes but the buffer for strings.
ResultsStored ==
    status \in Ended =>
       \A a \in DOMAIN m.mem \ Scratch : m.mem[a] = (PromisedStores @@ start.mem)[a]

\* Every jump of a template, its distance counted by hand, lands on an
\* instruction, and pointers stay in the memory of the statement.
StaysOnInstructions == status # "fault"

\* The lengths that the disassembler has for the templates are those of their
\* instructions, so that it shows the code from its first byte to its last one.
DisassemblyInStep == D!InStep(code)

\* END and BREAK go back to MikeOS from wherever they are, RETURN to its GOSUB;
\* every other statement comes to its end with the stack as it was.
LeavesRightly ==
    status \in Ended =>
       /\ status = CASE tokens[1] \in {"BREAK", "END"} -> "MikeOS"
                     [] tokens[1] = "RETURN"          -> "GOSUB"
                     [] OTHER                         -> "end"
       /\ status = "end" => m.stack = start.stack

\* No statement runs for ever: FILES comes to the end of its list, LISTBOX and
\* the keys go back to their store once.
Finishes == <>(status # "run")
=============================================================================

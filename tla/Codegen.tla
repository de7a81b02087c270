------------------------------ MODULE Codegen -------------------------------
(***************************************************************************)
(* The statement compiler (back/codegen.c, GOTO/GOSUB/END/RETURN/PRINT of  *)
(* back/keyword.c) over the byte container and the patch table of          *)
(* util/compiletarget.c: one pass over the tree, jumps emitted before their*)
(* destination is known and patched in place once it is.                   *)
(*                                                                         *)
(* One step compiles one node up to its first child, or resumes a node     *)
(* after a child: the C call stack of compile_ast is the stack todo.  The  *)
(* bytes of straight-line code are only counted; the rel16 words of jumps  *)
(* and calls are kept, because they are read, rewritten and executed.      *)
(***************************************************************************)
EXTENDS Layout, Sequences

CONSTANTS
    Programs,   \* the parsed programs the compiler may be given
    Nodes,      \* the statement nodes of their trees
    NULL,       \* the null Node pointer
    Labels      \* the indices of the symbol table

Leaves    == {"assign", "copy", "print", "println", "goto", "gosub", "end",
              "return"}
Compounds == {"if", "do", "for"}
Kinds     == Leaves \cup Compounds

\* The modifiers of LOOP and the ways PRINT shows its operand.
Forms == {"ENDLESS", "WHILE", "UNTIL"} \cup {"string", "number", "chr", "hex"}

\* The bytes compile_print puts between the operand and the call.
Conversion ==
    [f \in Forms |-> CASE f = "number" -> 5
                       [] f = "chr"    -> 11
                       [] f = "hex"    -> 15
                       [] OTHER        -> 0]

\* What the front end hands to compile(): per statement its kind, the branches
\* of an IF, the body of a loop, the bytes of its first and second expression,
\* whether either is ill-typed and the label it names; per label the fields
\* target and isreal; the length of the strings.
ProgramType ==
    [ kind   : [Nodes -> Kinds],
      then   : [Nodes -> Nodes \cup {NULL}],
      else   : [Nodes -> Nodes \cup {NULL}],
      body   : [Nodes -> Seq(Nodes \cup {NULL})],
      top    : Seq(Nodes \cup {NULL}),
      form   : [Nodes -> Forms],
      expr   : [Nodes -> Nat],
      to     : [Nodes -> Nat],
      ill    : [Nodes -> BOOLEAN],
      illTo  : [Nodes -> BOOLEAN],
      label  : [Nodes -> Labels],
      target : [Labels -> Nodes \cup {NULL}],
      isreal : [Labels -> BOOLEAN],
      blob   : Nat ]

\* The statements that compile_ast reaches from n, in order; from NULL, those of
\* the top level.
Children(p, n) ==
    IF n = NULL THEN p.top
    ELSE CASE p.kind[n] = "if"           -> <<p.then[n], p.else[n]>>
           [] p.kind[n] \in {"do", "for"} -> p.body[n]
           [] OTHER                      -> <<>>

\* init_node makes a new node, and its caller hangs it into the tree at one place.
OnePlaceEach(p) ==
    \A m, n \in Nodes \cup {NULL} :
       \A i \in DOMAIN Children(p, m), j \in DOMAIN Children(p, n) :
          Children(p, m)[i] = Children(p, n)[j] /\ Children(p, m)[i] # NULL
          => m = n /\ i = j

\* n is in every set that holds the top level and the children of its members.
InTree(p, n) ==
    \A S \in SUBSET (Nodes \cup {NULL}) :
       NULL \in S /\ (\A m \in S : \A i \in DOMAIN Children(p, m) : Children(p, m)[i] \in S)
       => n \in S

\* statement() returns the node after a label both as the target of the label
\* and as a part of the tree.
IsTree(p) == OnePlaceEach(p) /\ \A l \in Labels : InTree(p, p.target[l])

ASSUME NullAssumption == NULL \notin Nodes
ASSUME ProgramsAssumption == Programs \subseteq ProgramType
ASSUME TreesAssumption == \A p \in Programs : IsTree(p)

VARIABLES
    prog,       \* the program being compiled (never changes)
    todo,       \* the pending calls of compile_ast and their callers
    length,     \* CompileTarget.length
    word,       \* the rel16 words in CompileTarget.code, by site
    tail,       \* the last byte emitted outside such a word
    patches,    \* the PatchTable
    addr,       \* SymbolTableEntry.addr, by label
    err,        \* had_error
    phase,      \* "ast", then "done" when compile() has returned
    ramstart,   \* the word at RAMSTART
    mark,       \* history: the offset at which each point of the tree begins
    jumps       \* history: each jump emitted, and the point it is meant for

vars == <<prog, todo, length, word, tail, patches, addr, err, phase, ramstart,
          mark, jumps>>

\* The points of the tree a jump is meant for.  <<"fi", NULL>> is the end of
\* the program; a mark of 0 says that the point is not compiled yet.
Points == {"start", "else", "fi", "body"} \X (Nodes \cup {NULL})

\* A pending call of compile_ast, or a caller (compile_if, compile_do,
\* compile_for) with the local variable it will read: patch or start.
Frame == [op : {"ast"}, n : Nodes \cup {NULL}, at : {0}]
         \cup [op : {"else", "fi", "loop", "next"}, n : Nodes, at : Nat]

Call(n) == [op |-> "ast", n |-> n, at |-> 0]

Calls(ns) == [i \in DOMAIN ns |-> Call(ns[i])]

SetWord(w, site, rel) ==
    [s \in DOMAIN w \cup {site} |-> IF s = site THEN rel ELSE w[s]]

\* compile() up to compile_ast: make_entry has emitted the runtime, the
\* strings and the 24 bytes that clear the variables and save the stack.
EntryLength(p) == RUNTIMELEN + p.blob + 24

Init ==
    /\ prog \in Programs
    /\ todo = Calls(prog.top)
    /\ length = EntryLength(prog)
    /\ word = [s \in {} |-> 0]
    /\ tail = 236                               \* 0xEC of MOV BP, SP
    /\ patches = {}
    /\ addr = [l \in Labels |-> 0]
    /\ err = FALSE
    /\ phase = "ast"
    /\ ramstart = 0
    /\ mark = [p \in Points |-> 0]
    /\ jumps = {}

-----------------------------------------------------------------------------
(***************************************************************************)
(* patch_jumps: every label whose target is n gets the current offset, and *)
(* every patch entry of such a label is resolved.  A patch address and a   *)
(* label address are uint16_t; a word at an offset of Segment or more is   *)
(* out of its reach.                                                       *)
(***************************************************************************)

\* Faulty variants: only the label on a statement without children gets its
\* address; patch_jumps stops at the first entry.
PatchedAddrOfLeaf(n) ==
    [l \in Labels |-> IF prog.target[l] = n /\ prog.kind[n] \in Leaves
                      THEN Wrap(length) ELSE addr[l]]

PatchedWordOnce(n) ==
    LET due == {e \in patches : prog.target[e.id] = n} IN
    [s \in DOMAIN word |->
        IF \E e \in due : e.addr = s /\ \A o \in due : e.addr <= o.addr
        THEN Rel16(Wrap(length), s)
        ELSE word[s]]

PatchedAddr(n) ==
    [l \in Labels |-> IF prog.target[l] = n THEN Wrap(length) ELSE addr[l]]

PatchedWord(n) ==
    [s \in DOMAIN word |->
        IF \E e \in patches : e.addr = s /\ prog.target[e.id] = n
        THEN Rel16(Wrap(length), s)
        ELSE word[s]]

\* compile_ast is called on a node of one of the given kinds.
Called(n, kinds) ==
    /\ phase = "ast"
    /\ todo # <<>>
    /\ Head(todo).op = "ast"
    /\ Head(todo).n = n
    /\ prog.kind[n] \in kinds
    /\ addr' = PatchedAddr(n)
    /\ UNCHANGED <<prog, phase, ramstart>>

\* compile_ast(NULL): an absent branch, or the front of a body.
CompileNothing ==
    /\ phase = "ast"
    /\ todo # <<>>
    /\ Head(todo).op = "ast"
    /\ Head(todo).n = NULL
    /\ todo' = Tail(todo)
    /\ UNCHANGED <<prog, length, word, tail, patches, addr, err, phase,
                   ramstart, mark, jumps>>

-----------------------------------------------------------------------------
(* Statements without children.                                            *)

\* compile_assign to a numeric variable: expression, MOV [addr], AX.
AssignLength(n) == prog.expr[n] + (IF prog.ill[n] THEN 0 ELSE 4)

CompileAssign(n) ==
    /\ Called(n, {"assign"})
    /\ todo' = Tail(todo)
    /\ length' = length + AssignLength(n)
    /\ word' = PatchedWord(n)
    /\ tail' = 73                               \* 0x49, high byte of VARS
    /\ err' = (err \/ prog.ill[n])
    /\ mark' = [mark EXCEPT ![<<"start", n>>] = length]
    /\ UNCHANGED <<patches, jumps>>

\* compile_assign to a string variable: MOV DI, addr; CALL os_string_copy.  A
\* number is rejected; an expression ill-typed in itself counts as a string.
CompileCopy(n) ==
    LET call == length + prog.expr[n] + 4 IN
    /\ Called(n, {"copy"})
    /\ todo' = Tail(todo)
    /\ \/ /\ prog.ill[n]
          /\ length' = length + prog.expr[n]
          /\ word' = PatchedWord(n)
       \/ /\ length' = call + 3
          /\ word' = SetWord(PatchedWord(n), call + 1, EmitRel(57, call))
    /\ err' = (err \/ prog.ill[n])
    /\ mark' = [mark EXCEPT ![<<"start", n>>] = length]
    /\ UNCHANGED <<tail, patches, jumps>>

\* An expression that is ill-typed counts as a string here too: it is printed
\* without conversion, and rejected only under a modifier.
PrintRejects(n) == prog.ill[n] /\ prog.form[n] \in {"chr", "hex"}

ConversionOf(n) == IF prog.ill[n] THEN 0 ELSE Conversion[prog.form[n]]

\* compile_print: CALL print_string, and a second call for the new line
\* (12 bytes put it into STRBUF) unless the statement ends in a semicolon.
CompilePrint(n) ==
    LET call  == length + prog.expr[n] + ConversionOf(n)
        first == SetWord(PatchedWord(n), call + 1, EmitRel(PRINTSTR, call))
        again == call + 15
    IN
    /\ Called(n, {"print", "println"})
    /\ todo' = Tail(todo)
    /\ \/ /\ PrintRejects(n)
          /\ length' = length + prog.expr[n]
          /\ word' = PatchedWord(n)
       \/ /\ ~PrintRejects(n) /\ prog.kind[n] = "print"
          /\ length' = call + 3
          /\ word' = first
       \/ /\ ~PrintRejects(n) /\ prog.kind[n] = "println"
          /\ length' = again + 3
          /\ word' = SetWord(first, again + 1, EmitRel(PRINTSTR, again))
    /\ err' = (err \/ prog.ill[n])
    /\ mark' = [mark EXCEPT ![<<"start", n>>] = length]
    /\ UNCHANGED <<tail, patches, jumps>>

\* compile_end and compile_return: make_exit is 9 bytes, RET one; both end
\* in 0xC3.
ExitLength == 9

CompileEnd(n) ==
    /\ Called(n, {"end", "return"})
    /\ todo' = Tail(todo)
    /\ length' = length + (IF prog.kind[n] = "end" THEN ExitLength ELSE 1)
    /\ word' = PatchedWord(n)
    /\ tail' = 195
    /\ mark' = [mark EXCEPT ![<<"start", n>>] = length]
    /\ UNCHANGED <<patches, err, jumps>>

-----------------------------------------------------------------------------
(* compile_goto and compile_gosub; they read the symbol table as           *)
(* patch_jumps has just left it.                                           *)

Jump(n) ==
    /\ length' = length + 3
    /\ jumps' = jumps \cup {[site |-> length + 1,
                             to |-> <<"start", prog.target[prog.label[n]]>>]}
    /\ UNCHANGED err

CompileGoto(n) ==
    LET id == prog.label[n] IN
    /\ Called(n, {"goto", "gosub"})
    /\ todo' = Tail(todo)
    /\ mark' = [mark EXCEPT ![<<"start", n>>] = length]
    /\ UNCHANGED tail
    /\ \/ /\ ~prog.isreal[id]
          /\ err' = TRUE
          /\ word' = PatchedWord(n)
          /\ UNCHANGED <<length, patches, jumps>>
       \/ /\ prog.isreal[id]
          /\ PatchedAddr(n)[id] # 0
          /\ Jump(n)
          /\ word' = SetWord(PatchedWord(n), length + 1,
                             EmitRel(PatchedAddr(n)[id], length))
          /\ UNCHANGED patches
       \/ /\ prog.isreal[id]
          /\ PatchedAddr(n)[id] = 0
          /\ Jump(n)
          /\ word' = SetWord(PatchedWord(n), length + 1, 0)
          /\ patches' = patches \cup {[id |-> id, addr |-> Wrap(length + 1)]}

-----------------------------------------------------------------------------
(* compile_if: condition, TEST, JZ else; THEN; JMP fi; else: ELSE; fi:     *)

CompileIf(n) ==
    LET site == length + prog.expr[n] + 4 IN
    /\ Called(n, {"if"})
    /\ todo' = << Call(prog.then[n]),
                  [op |-> "else", n |-> n, at |-> site] >> \o Tail(todo)
    /\ length' = site + 2
    /\ word' = SetWord(PatchedWord(n), site, 0)
    /\ err' = (err \/ prog.ill[n])
    /\ mark' = [mark EXCEPT ![<<"start", n>>] = length]
    /\ jumps' = jumps \cup {[site |-> site, to |-> <<"else", n>>]}
    /\ UNCHANGED <<tail, patches>>

\* The caller of a child is on top of the stack again.
Resumed(op) ==
    /\ phase = "ast"
    /\ todo # <<>>
    /\ Head(todo).op = op
    /\ UNCHANGED <<prog, addr, patches, phase, ramstart>>

\* Faulty variant: the JZ is patched before the JMP over ELSE is emitted.
ElseRelBeforeJmp(at) == Wrap(length - (at + 2))

\* The JZ is patched after the JMP over ELSE has been emitted.
ElseRel(at) == Wrap(length + 3 - (at + 2))

ResumeIfWithElse ==
    LET f == Head(todo) IN
    /\ Resumed("else")
    /\ todo' = << Call(prog.else[f.n]),
                  [op |-> "fi", n |-> f.n, at |-> length + 1] >> \o Tail(todo)
    /\ length' = length + 3
    /\ word' = SetWord(SetWord(word, length + 1, 0), f.at, ElseRel(f.at))
    /\ mark' = [mark EXCEPT ![<<"else", f.n>>] = length + 3]
    /\ jumps' = jumps \cup {[site |-> length + 1, to |-> <<"fi", f.n>>]}
    /\ UNCHANGED <<tail, err>>

FiRel(at) == Wrap(length - (at + 2))

ResumeIfAtEnd ==
    LET f == Head(todo) IN
    /\ Resumed("fi")
    /\ todo' = Tail(todo)
    /\ word' = SetWord(word, f.at, FiRel(f.at))
    /\ mark' = [mark EXCEPT ![<<"fi", f.n>>] = length]
    /\ UNCHANGED <<length, tail, err, jumps>>

-----------------------------------------------------------------------------
(* compile_do: the body, then either JMP start or condition, TEST, JNE or  *)
(* JE start.  start is a uint16_t.                                         *)

CompileDo(n) ==
    /\ Called(n, {"do"})
    /\ todo' = Calls(prog.body[n])
               \o << [op |-> "loop", n |-> n, at |-> Wrap(length)] >>
               \o Tail(todo)
    /\ word' = PatchedWord(n)
    /\ mark' = [mark EXCEPT ![<<"start", n>>] = length, ![<<"body", n>>] = length]
    /\ UNCHANGED <<length, tail, patches, err, jumps>>

LoopRel(n, start) == Wrap(start - (length + prog.expr[n] + 6))

ResumeDo ==
    LET f    == Head(todo)
        site == IF prog.form[f.n] = "ENDLESS"
                THEN length + 1
                ELSE length + prog.expr[f.n] + 4
        rel  == IF prog.form[f.n] = "ENDLESS"
                THEN EmitRel(LOAD + f.at, length)
                ELSE LoopRel(f.n, f.at)
    IN
    /\ Resumed("loop")
    /\ todo' = Tail(todo)
    /\ length' = site + 2
    /\ word' = SetWord(word, site, rel)
    /\ err' = (err \/ (prog.form[f.n] # "ENDLESS" /\ prog.ill[f.n]))
    /\ jumps' = jumps \cup {[site |-> site, to |-> <<"body", f.n>>]}
    /\ UNCHANGED <<tail, mark>>

-----------------------------------------------------------------------------
(* compile_for: initializer; body; INC var (4 bytes), the TO expression,   *)
(* MOV BX, AX; MOV AX, [var]; CMP BX, AX (8 bytes), JGE body.              *)

CompileFor(n) ==
    LET start == length + AssignLength(n) IN
    /\ Called(n, {"for"})
    /\ todo' = Calls(prog.body[n])
               \o << [op |-> "next", n |-> n, at |-> Wrap(start)] >>
               \o Tail(todo)
    /\ length' = start
    /\ word' = PatchedWord(n)
    /\ tail' = 73
    /\ err' = (err \/ prog.ill[n])
    /\ mark' = [mark EXCEPT ![<<"start", n>>] = length, ![<<"body", n>>] = start]
    /\ UNCHANGED <<patches, jumps>>

NextRel(site, start) == Wrap(start - (site + 2))

ResumeFor ==
    LET f    == Head(todo)
        site == length + 4 + prog.to[f.n] + 8 + 2
    IN
    /\ Resumed("next")
    /\ todo' = Tail(todo)
    /\ IF prog.illTo[f.n]
       THEN /\ length' = length + 4 + prog.to[f.n]
            /\ err' = TRUE
            /\ UNCHANGED <<word, jumps>>
       ELSE /\ length' = site + 2
            /\ word' = SetWord(word, site, NextRel(site, f.at))
            /\ jumps' = jumps \cup {[site |-> site, to |-> <<"body", f.n>>]}
            /\ UNCHANGED err
    /\ UNCHANGED <<tail, mark>>

-----------------------------------------------------------------------------
(* The end of compile(): an exit is added when the last byte is not 0xC3   *)
(* (RET), and the address after the program is stored at RAMSTART.         *)

LastByte == IF length - 2 \in DOMAIN word THEN word[length - 2] \div 256
                                          ELSE tail

EndsInRet == LastByte = 195

\* Faulty variant: the exit is added when there is one already.
FinishedLengthSwapped == IF EndsInRet THEN length + ExitLength ELSE length

FinishedLength == IF EndsInRet THEN length ELSE length + ExitLength

Finish ==
    /\ phase = "ast"
    /\ todo = <<>>
    /\ length' = FinishedLength
    /\ tail' = 195
    /\ ramstart' = Wrap(LOAD + FinishedLength)
    /\ mark' = [mark EXCEPT ![<<"fi", NULL>>] = length]
    /\ phase' = "done"
    /\ UNCHANGED <<prog, todo, word, patches, addr, err, jumps>>

Next ==
    \/ CompileNothing
    \/ \E n \in Nodes :
          \/ CompileAssign(n)
          \/ CompileCopy(n)
          \/ CompilePrint(n)
          \/ CompileEnd(n)
          \/ CompileGoto(n)
          \/ CompileIf(n)
          \/ CompileDo(n)
          \/ CompileFor(n)
    \/ ResumeIfWithElse
    \/ ResumeIfAtEnd
    \/ ResumeDo
    \/ ResumeFor
    \/ Finish

Spec == Init /\ [][Next]_vars

-----------------------------------------------------------------------------
(* Properties.                                                             *)

\* The types of the state.
TypeOK ==
    /\ prog \in ProgramType
    /\ todo \in Seq(Frame)
    /\ length \in Nat
    /\ DOMAIN word \subseteq Nat
    /\ \A s \in DOMAIN word : word[s] \in Word16
    /\ tail \in 0 .. 255
    /\ patches \subseteq [id : Labels, addr : Word16]
    /\ addr \in [Labels -> Word16]
    /\ err \in BOOLEAN
    /\ phase \in {"ast", "done"}
    /\ ramstart \in Word16
    /\ mark \in [Points -> Nat]
    /\ jumps \subseteq [site : Nat, to : Points]

\* The compiler keeps addresses in 16 bits and never checks the length.
Fits == length < Segment

\* Where the processor goes from the jump at site s.
Goes(s) == Land(s, word[s])

Done == phase = "done" /\ ~err

\* The jumps of IF, DO and FOR go to the ELSE branch, past the IF and to the
\* body, whatever was compiled (and patched) between the jump and its target.
StructuredJumpsLand ==
    Fits => \A j \in jumps :
               j.to[1] # "start" /\ mark[j.to] # 0 => Goes(j.site) = mark[j.to]

\* A GOTO or GOSUB compiled before its label goes to the statement of the
\* label from the moment that statement is compiled (patch_jumps).
ForwardJumpsLand ==
    Fits => \A e \in patches :
               LET p == <<"start", prog.target[e.id]>>
               IN  prog.target[e.id] # NULL /\ mark[p] # 0
                   => Goes(e.addr) = mark[p]

\* A GOTO or GOSUB compiled after its label goes there too (codegen_theory.md:
\* addr is the current place in memory).
BackwardJumpsLand ==
    Fits => \A j \in jumps :
               /\ j.to[1] = "start"
               /\ \A e \in patches : e.addr # j.site
               => Goes(j.site) = mark[j.to]

\* When compile() returns without an error every GOTO and GOSUB of the program
\* is a jump in the code, to a place that was compiled, and none still has the
\* zero that compile_goto left to be patched.
NoJumpLeftOpen ==
    Fits /\ Done =>
            /\ \A n \in Nodes :
                  prog.kind[n] \in {"goto", "gosub"} /\ mark[<<"start", n>>] # 0
                  => [ site |-> mark[<<"start", n>>] + 1,
                       to |-> <<"start", prog.target[prog.label[n]]>> ] \in jumps
            /\ \A j \in jumps : mark[j.to] # 0
            /\ \A e \in patches : addr[e.id] # 0

\* "If program doesn't have END, add one": an exit follows a last statement
\* that the processor runs through.
FallThroughExits ==
    Done => \A n \in Nodes :
               /\ prog.top # <<>> /\ prog.top[Len(prog.top)] = n
               /\ prog.kind[n] \in {"assign", "copy", "print", "println", "for"}
               => length = mark[<<"fi", NULL>>] + ExitLength

\* ... and wherever a jump of the program's IFs leads there is code.
JumpsStayInside ==
    Done => \A j \in jumps : j.to[1] # "start" => Goes(j.site) < length

\* The binary and its RAM end below 0x10000 (codegen_theory.md, layout).
BinaryFitsInSegment == Done => LOAD + length <= Segment

\* The patch table and the symbol table implement Fixups.
Placed == {l \in Labels : addr[l] # 0}

Assembler == INSTANCE Fixups WITH
    here    <- length,
    place   <- [l \in Placed |-> addr[l]],
    waiting <- { [site |-> e.addr, label |-> e.id] :
                    e \in {p \in patches : p.id \notin Placed} },
    settled <- { [site |-> e.addr, label |-> e.id, offset |-> Goes(e.addr)] :
                    e \in {p \in patches : p.id \in Placed} }

ImplementsFixups == Assembler!Spec
=============================================================================

# Formal models of mosbc, the MikeOS BASIC compiler

mosbc reads one BASIC source, parses it, and emits a flat 8086 binary that
MikeOS loads at 0x8000. This directory holds TLA+ models of its parts, TLC
configurations that check them, and TLAPS proofs.

    tlc -config MCCodegen.cfg MCCodegen      model-check a run
    tlapm StringTableProofs.tla              check proofs

Paths below are relative to the repository (`src/back/codegen.c`,
`include/codegen.h`, `docs/...`).


## 1. The system

    main.c ---> read_file
           ---> parse()     parser.c  <--get_token/lookahead--  lexer.c
                              |   \-- parse_keyword --> keyword_parser.c
                              |         add_unreal_symbol / add_real_symbol / add_string
                              v
                            Node tree, SymbolTable, StringTable    (table.c)
                              |
           ---> compile()   codegen.c --> expression.c, keyword.c, runtime.c
                              |   emit_* / add_patch / patch_jumps
                              v
                            CompileTarget, PatchTable       (compiletarget.c)
           ---> write_file, or disassemble() to look at the result

There is one process and no thread. What is hard is not concurrency but three
things: facts recorded early and read late (a token, a pointer, an index, an
offset, a register) while other code runs in between; hand-counted bytes and
16-bit arithmetic; and a global error flag that lets the compiler go on, with
null pointers and half-compiled trees, until someone looks at it. The compiled
binary is a second program with the same difficulties, run by the processor.

| Component | State | Operations | What makes it correct | Hard behaviour |
|---|---|---|---|---|
| Driver, error flag (`main.c`, `util.c`) | `had_error`, source buffer, output file | `main`, `read_file`, `write_file`, `raise_error`, `check_for_error` | no phase runs on the result of a failed one; an earlier output survives an error; success means a file | every library call may fail |
| Lexer, INCLUDE (`lexer.c`) | `beginning`, `current`, `line`, the pending token, the source buffer | `init_lexer`, `include`, `get_token`, `lookahead` | the tokens are the lexemes of the source, with their lines; the second pass begins afresh | buffer replaced while pointers into it live; texts that nothing closes |
| Parser (`parser.c`) | the C call stack, the lookahead, `had_error` | `parse`, `statement` and the functions below it, `synchronize` | error exactly outside the grammar, where code and grammar read a source in one way; the tree is the source; it ends | recovery, null results, nested ELSE |
| Keyword parser (`keyword_parser.c`) | none of its own | `parse_keyword`, one function for each keyword | the operands of each statement in order, with what may be left out | 41 operand lists, INCLUDE as a statement |
| Symbol table (`table.c`) | `table`, `len`, `capacity` | `add_unreal_symbol`, `add_real_symbol`, `get_symbol`, `is_symbol_real`, `find_symbol` | one entry per name; a reference finds its definition | any order of references and definitions, growth |
| String table (`table.c`) | `table`, `blob`, `blob_len` | `add_string`, `get_offset_string` | text and address agree in the binary | offsets kept over `realloc` |
| Byte container, patch table (`compiletarget.c`) | `code`, `length`; patch entries | `emit_*`, `add_patch`, `patch_jumps` | an open jump is patched once, to its label | sites kept over emission |
| Statement compiler (`codegen.c`) | C stack, `addr` of labels | `compile`, `compile_ast`, `compile_if/do/for/assign` | every jump lands where the tree says; the code does what the tree means | nested patches, errors in mid-tree, signed loops |
| Keyword code (`keyword.c`) | none of its own | one function for each keyword | each template does what its keyword means | hand-counted branches, registers kept over operands, kernel calls that fail |
| Expression compiler (`expression.c`) | registers AX, BX, SI, DI of the target | `compile_expression` | the code computes the meaning; ill-typed trees rejected | registers shared by the recursion |
| Runtime (`runtime.c`) | the first bytes of a binary | `make_entry`, `make_exit`, three handlers | fixed addresses of `codegen.h` hold | counts kept in comments |
| Disassembler (`disassembler.c`) | none | `disassemble`, `disassemble_instruction` | its lengths agree with the templates; it skips the runtime and the strings | a second table of lengths, kept by hand |
| MikeOS, BIOS | external | kernel calls below LOAD, INT 10h, INT 1Ah | - | any answer, the carry flag |

Every hazard, at its line and with the properties that look for it, is in
`PROJECT.json`, "hazards".


## 2. The modules

| Module | Models | Extends / instantiates |
|---|---|---|
| `Layout` | the constants of `include/codegen.h`, 16-bit arithmetic, rel16 | - |
| `Fixups` | abstract: what a one-pass assembler promises | - |
| `Codegen` | `codegen.c`, jumps/PRINT/END of `keyword.c`, `compiletarget.c` | `Layout`, `Fixups` (refinement) |
| `SymbolTable` | labels in `table.c` with their callers in the parser | - |
| `StringTable` | strings in `table.c`, their copy by `make_entry`, their addresses | `Layout` |
| `Machine` | the 8086: instructions with lengths, registers, flags, memory | `Layout` |
| `ExpressionCode` | `expression.c`: from a tree to instructions | `Machine` |
| `Expression` | the execution of a compiled expression | `ExpressionCode` |
| `ControlCode` | assignment, IF, DO, FOR of `codegen.c` as instructions | `ExpressionCode` |
| `Control` | the execution of a compiled program of them | `ControlCode`, `Disassembler` |
| `Runtime` | `runtime.c`: emission, then the entry code; where `disassemble` goes on | `Layout` |
| `PrintString` | the machine code of `print_string`, an instruction group a step | - |
| `Lexer` | `lexer.c` | - |
| `Terms` | tokens, and `parser.c` below a statement: expressions, `synchronize` | - |
| `KeywordParser` | `keyword_parser.c` | `Terms` |
| `Parser`, `ParserTrees` | `parser.c`: `statement` and `parse`; the grammar, and what the tree says of the source | `KeywordParser`, `Parser` |
| `KeywordCode` | `keyword.c`: a template for each statement | `KeywordParser`, `Machine`, `ExpressionCode` |
| `Keywords` | the execution of a keyword statement on an external kernel | `KeywordCode`, `Disassembler` |
| `Disassembler` | `disassembler.c`: the length of each instruction | `Machine` |
| `Driver` | `main.c`, `util.c` | - |
| `CodegenProofs`, `SymbolTableProofs`, `StringTableProofs`, `RuntimeProofs`, `PrintStringProofs`, `DriverProofs`, `LexerProofs`, `ParserProofs` | theorems | `TLAPS` and the module named |
| `MC*` | the instances that TLC checks | the module named |

How the models compose: `Fixups` is the contract of label resolution, and
`Codegen` (statement compiler, patch table, addresses of symbols) is shown to
implement it. `Keywords` is the whole way of a statement: `KeywordParser` makes a
Node of its tokens, `KeywordCode` makes instructions of the Node with the leaves of
`ExpressionCode`, `Machine` runs them, and `Disassembler` shows them. `Control` does
the same for structured statements. `Codegen` and `ControlCode` model the same
functions from two sides: the first keeps the jumps as words that are emitted,
patched and executed, and counts all other bytes; the second has all instructions
and the jumps with their final distances. `StringTable` and `Runtime` meet in
`RUNTIMELEN` and `make_entry`.

### How state and steps correspond

**Codegen.** A statement tree is a constant function from nodes to kinds and
children (`ProgramType`), as the front end hands it over. The C stack of
`compile_ast` is `todo`: a frame `ast` is a pending call, the frames `else`,
`fi`, `loop` and `next` are `compile_if`, `compile_do` and `compile_for`
suspended in a call, with the local variable (`patch`, `start`) they will read.
One action compiles a node up to its first child, one more resumes it after
each. `compile_ast` calls `patch_jumps` first, so that is part of every action
that begins a node. Straight-line code is counted in `length`; the rel16 word of
each jump and call is kept in `word`, since it is read, rewritten and at last
executed: `Goes(site)` is where the processor lands. `tail` is the last byte,
which `compile` compares with `RET`. `mark` and `jumps` are history: where each
point of the tree begins and which point each jump is meant for.

**SymbolTable.** `Refer` is `label()` of the keyword parser, `ParseStatement` and
`ParseEndOfFile` are the ways `statement()` returns, `Define` is its end for a
label, which gets the node just returned: NULL after the end of the file.
`IndexOf` compares as `strncmp` over the length of the entry does. Indices are one
higher than in C.

**StringTable.** The text handed to `add_string` is a pointer into the source,
so the C string is the literal, a quote, and the rest of the source.
`EmitBlob` is the copy into the binary.

**Expression.** A behaviour compiles one tree (`CompileExpression`, with the saves
and the exchange), then runs the code one instruction a step: `Jump` follows byte
distances, so a wrong distance lands inside an instruction. `Meaning` and `TypeOf`
are the reference: what a tree means and whether it is well-typed.

**Control.** A behaviour compiles a sequence of statements and runs it from any
contents of its variables, an instruction a step. The reference is `Run`, an
interpreter of the tree; it is given `Fuel`, and a program that is left without
is one that runs for ever, of which nothing is asked but its values on the way.

**Keywords.** A behaviour takes the tokens of one statement, parses and compiles
them and runs the code. Each call of the kernel or the BIOS is one step that
records the routine and its arguments in `trace` and may answer anything, with
the carry flag either way (`Failing` names routines that never succeed). The
stack begins with the return address of a GOSUB above that of MikeOS. The
reference is written from the meaning of the statements, not from the templates:
`PromisedCalls`, the calls with the values of the operands, and `PromisedStores`,
the bytes of memory that change. Operands are the leaves that the statements
allow; their compound forms are those of `Expression`. String contents that only
the kernel looks at are kept whole.

**Runtime.** One step for each function or commented block of `make_entry`; `at`
records where each part begins, `calls` the rel16 words. A last step runs the
entry code and records which bytes it clears. `ShownFrom` is what `disassemble`
computes from the operand of the entry jump.

**PrintString.** The handler itself, by offsets and displacement bytes of the
source. BIOS functions 3, 5, 9 and 0Eh are external; function 3 overwrites
CX and DX.

**Lexer.** A source is a sequence of symbols: single characters, and runs of
letters that stand for longer words (`Runs`); the quotation mark and the blank go by name. `phase` is where `init_lexer` is:
the first pass, in which INCLUDE extends the source (`Pass`, `PassInclude`), and
after `Reset` the second, in which the parser asks for tokens in any mix of
`Lookahead`, `TakePending` and `TakeNext`. `text` is the memory that
`lexer.current` points into. `include()` frees it and the first pass reads on in
it, so from then on it is the old text or any of `Memory`. A read behind the NUL
ends the behaviour in the phase `past`, the `strlen` of the NULL that `read_file`
returns for a missing file in `crashed`. `IsLexeme` says what a lexeme is without
scanning, and is the reference. An INCLUDE takes the token behind it,
another INCLUDE too, so of several in a row every second one is not looked at (`Takes`).

**Parser.** The stack `calls` holds the functions suspended in `statement()`.
What has no such call (`expr`, `comparison`, `synchronize`, the keyword
statements) is an operator from the position of the next token to a result: the
position after it, the Node, and whether an error was raised. `Rule` of
`KeywordParser` lists the operands of a keyword in the order in which its
function takes them. `IsProgram` is the grammar
(`docs/grammar.ebnf`) as the reference, written on ranges of tokens and not as a
parser: `Ends[i]` has all places where a statement that begins at token i, and
statements one after the other, may end, without choosing among them. It is the
grammar's rules and not the code's: a program has a statement, a comparison has a
variable on its left, THEN and ELSE have a statement behind them, a label and an
INCLUDE are statements of their own. In five places the text is read by what else
the repository says: `( "&" )` is the sign itself (the alternative without it stands
next to it); `( CHR | HEX )` and `( ";" )` of PRINT may be left out, as
`additional/test.bas` does; the LABEL of GOTO and GOSUB is a name without its
colon; NEXT has the variable of its FOR, and READ "doesn't work"
(`differences.md`). Where code and grammar part, five predicates on a source say so:
`NoMoreThanTheGrammar` excludes what only the code takes (`HasBranches`,
`ComparesVariables`, `BranchesAreSingle`: a label or an INCLUDE with the statement
behind it as the branch of an IF that goes on with ELSE), `NoMoreThanTheCode` what
only the grammar takes (`LabelsHaveStatements`, `IncludesLeadKeywords`). The mode `crashed`
stands for the null pointer that NEXT dereferences, and for the null in the table of
keyword functions. `ParserTrees` has what the tree must be, as recursive operators.

**Disassembler.** `Encoded` is the first byte and the ModR/M fields with which a
template encodes an instruction, `ShownLength` the distance by which
`disassemble_instruction` moves on.

**Driver.** One step for each library call `main` looks at; each may fail.

`TypeOK` of every module holds on the instances below (add it to the INVARIANTS of
a configuration to see it); of `Codegen`, `Lexer` and `Parser` it is proved, and no run
spends a property on it.


## 3. What TLC checks

Passing runs:

| Run | States | Shows |
|---|---|---|
| `codegen` | 216316 | On small trees with every mix of loops, branches and forward GOTO and GOSUB, every jump of the finished code goes where the tree says, no placeholder is left, and the patching implements an abstract assembler. |
| `symbols` | 375521 | While no label name begins another one, references and definitions in any order meet in one entry each, inside the allocated table; a label is real exactly if it is found, and one found once resolves to its statement. |
| `strings` | 2729 | Literals keep their text in the blob and in the binary, at the address the code loads, over the growth of the table. |
| `expression` | 148784 | For every operator, over simple right operands, the emitted instructions compute what the tree means on edge values of 16 bits, and reject exactly the ill-typed trees. |
| `runtime` | 252 | For every length of the strings, each handler and word is at the address codegen.h gives it, the handlers reach the kernel, the entry jump arrives at code that clears the string variables, and the disassembler goes on there. |
| `print` | 15080 | The printing handler writes every character of a text once, in the ink and page set, moves to a new line at each line feed, keeps the stack and returns. |
| `driver` | 528 | Whichever call of the C library fails, no phase of main runs on the result of a failed one. |
| `parser` | 79378 | Over programs, every keyword statement and what one changed, missing or additional token makes of them, as far as grammar.ebnf and the code read them in one way: an error is reported exactly outside the grammar, the tree is the source, labels name the statement behind them, and every step leaves less to do. |
| `keywords` | 5308 | For every keyword statement but BREAK and LEN, whatever the kernel answers short of success to DELETE and LOAD, the code makes the calls of the statement with its operands, stores the answers in its variables and nowhere else, and leaves as it should. |
| `lexer` | 137226 | Over all short texts of the symbols that get_token tells apart and texts with INCLUDE, the parser gets exactly the lexemes of the source with the lines they are on, through both passes and any use of lookahead, and EOF at last. |
| `control` | 48663 | Each of IF, DO and FOR with each of them inside runs to the values its source means, and ends exactly where the source does. |

One listed run has TLC find what the code does against what a doc of the
repository says: `codegen_backward` (property `BackwardJumpsLand`). `patch_jumps`
stores the offset of a label, `emit_jump` takes an address and subtracts LOAD:
a GOTO to a label before it goes 0x8000 bytes away from it
(`codegen_theory.md:81`).

### Further instances

The same models show more disagreements, each on one small program. Five of
them have a configuration here (`tlc -config MCCodegen_trailing.cfg MCCodegen`);
for the others put the constants and the property of the row in place of those
of the module's passing configuration. TLC stops at the violation.

| Module | Constants (or configuration) | Property | The code | The text |
|---|---|---|---|---|
| `MCCodegen` | `MCCodegen_trailing.cfg` | `NoJumpLeftOpen` | a forward GOTO to a label that ends the file is never patched | `codegen_theory.md:83` |
| | `Programs <- ElseEnd` | `JumpsStayInside` | after IF .. ELSE END no exit is added, and THEN jumps past the binary | `codegen.c:213` |
| | `Programs <- PrintAfter15300` | `FallThroughExits` | an operand byte 0xC3 is taken for RET | `codegen.c:213` |
| | `Programs <- PrintAfter33000` | `BinaryFitsInSegment` | no length is compared with the segment | `differences.md:6`, `codegen_theory.md:37` |
| `MCSymbolTable` | `Names <- Prefixed`, `InitialRoom = 8`, `MaxStatements = 2`, `MaxLabels = 2` | `OneIndexPerName` | an entry L matches the name L2 | `table.c:31` |
| | `MCSymbolTable_redefined.cfg` | `FirstDefinitionStays` | a label that is found again moves to its second statement; for an entry that "is present and real" the doc has `add_real_symbol` do nothing | `parsing_theory.md:162` |
| `MCStringTable` | `InitialRoom = 8`, `MaxStrings = 2` | `EqualStringsShared` | equal literals are stored twice | `table.c:120` |
| `MCExpression` | `Trees <- CompoundNumbers` | `ResultIsMeaning` | A = B + C overwrites the saved A | `expression.c:303` |
| | `Trees <- CompoundStrings` | `ResultIsMeaning` | a comparison of two joins compares the second with itself | `expression.c:303` |
| `MCRuntime` | as it is | `MessageIsPrinted` | SI is six bytes before the message | `runtime.c:30` |
| | as it is | `NumbersCleared` | X, Y, Z are not cleared | `runtime.c:182` |
| `MCDriver` | as it is | `SuccessMeansWritten` | success is reported after a failed write | `main.c:119` |
| `MCParser` | `Sources <- NextAlone` | `NextIsChecked` | NEXT without a variable reads through NULL | `parsing_theory.md:119` |
| | `Sources <- EatenKeyword` | `SynchronizesOnKeyword` | the second token is taken unseen | `parser.c:99` |
| | `Sources <- Nothing` | `AcceptsOnlyPrograms` | the empty source is no error | `grammar.ebnf:5` |
| | `Sources <- ThenAtTheEnd` | `AcceptsOnlyPrograms`, `NoNullOnSuccess` | IF .. THEN at the end of a file is no error and has no branch | `grammar.ebnf:11`, `parsing_theory.md:25` |
| | `Sources <- ComparedLiteral` | `AcceptsOnlyPrograms` | a comparison may begin with any expression, IF 1 < 1 | `grammar.ebnf:118` |
| | `Sources <- LabelledBranch` | `AcceptsOnlyPrograms` | a label and the statement behind it are one branch of an IF | `grammar.ebnf:7`, `grammar.ebnf:11` |
| | `Sources <- LabelAtTheEnd` | `AcceptsAllPrograms` | a label before LOOP takes LOOP for its statement | `grammar.ebnf:7` |
| | `Sources <- IncludedFirst` | `AcceptsAllPrograms` | what follows an INCLUDE is parsed as a keyword statement, whatever it is | `grammar.ebnf:80` |
| `MCKeywords` | `MCKeywords_break.cfg` | `CallsOfTheStatement` | the address BREAK passes lies seven bytes before its message | `keyword.c:62` |
| | `Lines <- LoadSuccess`, `Failing = {}` | `ResultsStored` | a LOAD that succeeds does not set R to 0: the bytes 33 D8 are XOR BX,AX | `keyword.c:543`, `keyword.c:548` |
| | `Lines <- DeleteSuccess`, `Failing = {}` | `ResultsStored` | a DELETE that succeeds clears AX and never stores it to R | `keyword.c:205` |
| | `Lines <- Length` | `CallsOfTheStatement` | LEN leaves the string in SI, every other statement hands it to the kernel in AX | `keyword.c:472` |
| | `Lines <- Character`, `WorkPages = {1}` | `CallsOfTheStatement` | MOV BX, [WORKPAGE] puts the page in BL; the BIOS reads BH | `keyword.c:124` |
| | `Lines <- TimerColumn`, or `TimerToPort` | `CallsOfTheStatement` | TIMER overwrites CX and DX, where an operand is kept | `differences.md:15` |
| | `Lines <- TimerPoked` | `ResultsStored` | the same for POKE | `differences.md:15` |
| `MCLexer` | `MCLexer_include.cfg` | `EveryIncludeIsRead` | the second INCLUDE is looked for in freed memory | `lexer.c:112` |
| | `Texts <- Unclosed` | `EndsAtTheNul` | REM at the end of a source and an unclosed string read on behind the NUL | `lexer.c:214` |
| | `Texts <- TwoLines` | `TokensKnowTheirLine` | a new line right after an opening quote is taken and not counted | `lexer.h` (Token) |
| `MCControl` | `MCControl_for.cfg` | `EndsWhenMeant` | FOR .. TO 32767 never ends: the iterator wraps and is compared signed (a loop of 393223 states, too long for TLC to print) | `differences.md:21` |

Where the same property also appears in a passing run, that run's instance
leaves out the one construct that breaks it: label names of which none begins
another, and the statement of a label only if it is found once (`symbols`), the
sources in which code and grammar part (`parser`: the instances of `AcceptsOnlyPrograms`
and `AcceptsAllPrograms` above and all like them; on those too the other three
properties of the run hold, which `MCParser_all.cfg` checks, 93678 states),
right operands that are not compound (`expression`), labels with a statement
(`codegen`), BREAK, LEN, pages other than 0, the answers that
let DELETE and LOAD succeed, and TIMER where a register is lost (`keywords`), the
word 32767 and bodies that chase the bound of their own loop (`control`). The
lexer's properties except for `EofIsReached` say nothing of a source once it
has been read past its end, and `TokensAreTheLexemes` nothing of one whose string
begins with a new line.

One more thing the model makes plain: a word ends only at a blank, an operator
or a quote, so `PRINT$1` and `A$1` are one identifier each, though
`differences.md:7` says that tokens need no whitespace between them.

### Bounds

* `codegen`: eight statement trees of at most five nodes, which hold every
  compound (IF with and without ELSE, DO, FOR) and one inside another, every
  filling of their leaves with an assignment, GOTO a, GOSUB b and END, a label a
  on any node and b on none or one of two. A jump and its label can be in the
  same branch, in two branches, inside and outside a loop, in either order, and
  two labels and several jumps share the patch table: the shapes that the code
  tells apart. `FormPrograms` adds the other leaves, with a type error in
  any position.
* `symbols`: three names, three statements, four labels, a capacity that begins
  at 1 (8 in the code), so that the table doubles twice within the bound.
* `strings`: four literals, the same capacity; texts that are empty, equal, and
  the beginning of one another.
* `expression`: expressions of up to three operands (four with AND), all that
  the grammar's left-nesting produces at that size; variables over
  {0, 1, 3, 32767, 32768, 65535}, the edges of signed and unsigned comparison,
  overflow and division; registers that begin with 0xFFFF.
* `control`: each of IF, DO and FOR with each other one inside, bodies that
  change the iterator or the bound, variables that begin with 0, 2 or -1 (a
  loop is skipped over, entered, and counts across zero). `Fuel` 60 is more
  than any of the terminating programs needs.
* `keywords`: every statement with each kind of operand it takes (variable,
  literal, state word, TIMER) and each modifier; registers that begin with 0 or
  0xCAFE, one variable with a value below and one above 255. The kernel answers
  with words that differ in both bytes, and every call may fail.
* `lexer`: all sources of up to three symbols over the classes that
  `get_token` tells apart; of five over what can stay open (quotes, REM, new
  lines); and sources with INCLUDE of a file that is there, one that includes
  another, one that ends in a comment, and one that is missing, alone and
  followed by more. Memory that was freed is kept, ends at once, is blank, or holds
  another text with an INCLUDE where the first pass goes on.
* `runtime`: string lengths 0..12, and lengths that move every address by a
  carry or to the end of the segment.
* `print`: texts of up to four characters over two letters and the line feed,
  two pages.
* `parser`: 14 programs that nest each statement in each other one, every
  keyword statement, and every source one changed, missing or additional
  token, or a cut, makes of them. Recovery starts from each error the parser can
  raise, at each depth. Two operators of each kind stand for the others.
  Of these 10181 sources the run has the 8974 in which nothing is disputed between
  code and grammar (both predicates hold, or, after an INCLUDE, both refuse).
* `driver`: sources of 0..3 bytes and binaries of 1..4, with a failure of every
  call; short reads and writes need no more.

### Fairness and deadlock

The programs are sequential and nothing preempts them, so weak fairness of
`Next` says no more than that the lexer, or the processor, takes its next
step. `Finishes`, `ProgramBegins`, `Returns`, `EofIsReached` and `EndsWhenMeant` rest
on it; `Codegen`, the tables and `Driver` state none. `Parser` needs none:
`EveryStepLeavesLess` gives a rank that each step decreases. `CHECK_DEADLOCK
FALSE` stands where the process ends (a compiler that has returned, code that
has come to its end) or, in the two tables, at the bound on what is added.


## 4. What is proved

* `CodegenProofs`, **TypeCorrect**: `Spec => []TypeOK`. For every set of programs,
  nodes and labels, frames carry offsets, patched words are words, addresses of
  labels are 16-bit.
* `CodegenProofs`, **ForwardJumpsCorrect**: `Spec => []ForwardJumpsLand`. A
  GOTO or GOSUB that was compiled before its label goes to the statement of the
  label from the moment that statement is compiled. `ForwardJumpsLand` is not
  inductive: nothing in it says what an unresolved entry is. The inductive
  invariant is

      JumpInv == TypeOK /\ (Fits => Linked)

  where `Linked` says that every word lies inside the code emitted so far, that two
  entries of the patch table never name one word, that no frame of `todo` is about
  to patch a word that an entry names (otherwise resuming an IF would undo a
  GOTO), that the address of a label is where its statement was compiled, and
  that the word of an entry whose label has an address is the distance to it.
  `Fits` (the code is within the segment) is a hypothesis of the property because
  the code does not check it: past 0xFFFF addresses wrap. The proof has one
  lemma for `patch_jumps` (`PatchedLinked`), two for what every call and every
  resumption keeps (`CalledKeeps`, `ResumedKeeps`), one for each action, and
  `LengthGrows`, by which code that fits after a step fitted before it.
* `CodegenProofs`, **StructuredJumpsCorrect**: `Spec => []StructuredJumpsLand`.
  The jumps of IF, DO and FOR go to the ELSE branch, past the IF and to the body,
  however deep the statements are nested. The inductive invariant is

      TreeInv == TypeOK /\ Walk /\ (Fits => Linked /\ JumpsKnown)

  `Walk` is about `compile_ast` alone: what is pending on the stack has not been
  compiled, is pending once, and its parent has been opened; no two frames belong to
  one statement. Without it a second pass over a node would give it a second place
  and move the destination of a jump that has been patched. It holds because the
  program is a tree (`TreesAssumption`). `JumpsKnown` then says of each jump of a
  statement that it goes to its destination, or that the frame that will patch it is
  on the stack and names this jump and no other, and of each frame of a loop that
  it remembers where its body begins. `Linked` is needed once more: no patch entry
  names such a jump, so that `patch_jumps` never rewrites one.
* `CodegenProofs`, **NoJumpLeftOpenCorrect**: `Spec => [](NoLabelAtEnd =>
  NoJumpLeftOpen)`. When `compile` returns without an error every GOTO and GOSUB is a
  jump, every point a jump is meant for has been compiled, and no entry of the patch
  table is unresolved. `Reached` adds to `TreeInv` that each child of an opened
  statement is opened or pending; when the stack is empty the opened statements are
  closed under children, and a label, which names a part of the tree, names one of
  them. `NoLabelAtEnd` (each label of the source has a statement after it) is
  needed: `MCCodegen_trailing.cfg` has the code leave a jump open without it. So is
  `Fits`, now a premise of the property: a label at an offset that wraps to 0 would
  look as if it had no address.
* `CodegenProofs`, **ShortCodeExits**: `Spec => [](length <= 15360 =>
  FallThroughExits)`. `compile` takes the last byte for an instruction. For a last
  statement that the processor runs through, that byte is the high byte of the
  address of a variable, or of a distance: of a call of `print_string` or of a kernel
  routine, or of the jump back of a FOR. In code of at most 15360 bytes none of these
  distances has the high byte 0xC3, and the exit is added. The bound is close: the
  call that prints the last operand in `PrintAfter15300` (further instances) ends in
  0xC3. The invariant `ExitDue` says that the frame of the last statement is at
  the bottom of the stack, so that nothing is emitted after it.
* `CodegenProofs`, **CompilerImplementsFixups**: `Spec /\ []Fits =>
  ImplementsFixups`. Each step maps to a step of the abstract assembler: a call of
  `compile_ast` on a statement places its labels, which have no place before because
  the statement is compiled once (`Walk`), and settles exactly the references that
  wait for them; GOTO may add one reference; every other step places none
  (`FixupStep`, `StepFixups`). `[]Fits` is a hypothesis since past the segment the
  16-bit addresses of sites and labels are not those of the location counter.
* `CodegenProofs`, **PatchTableSettles**: `Spec /\ []Fits => []Assembler!Settled`. What
  the patch table inherits through the refinement: an entry is unresolved only while
  its label has no address, and a resolved one goes to that address.
* `SymbolTableProofs`, **NamesKeptApart**, **TableInBounds**, **AnswersAreRight**:
  the three invariants of `symbols`, for any first capacity and any number of labels
  and statements. NamesKeptApart and AnswersAreRight are under `PrefixFree`: the
  comparison of the code tells the names apart. That hypothesis is needed: with
  `Names <- Prefixed` (further instances) two names share an entry. Neither is
  inductive; `TableInv` adds that entries have distinct names, that every reference holds
  the index of the entry with its name, that every label found has an entry, and
  that an entry is real and has its target exactly as the labels found so far say
  (`EntriesTellLabels`: the statement found last, as the code has it; the theorem
  speaks of labels found once, where this is the only one). TableInBounds is for any
  names: whichever entry the search stops at, it is an entry of the table or the one
  added behind it (`SearchEnds`), which `BoundsInv` keeps within the capacity.
  `Search` is
  the lemma about the search loop, `Grown` about the table after it, `RoomMade`
  about the doubling.
* `StringTableProofs`, **LiteralsStayWhole** and **LiteralsAreFound**: both
  invariants of `strings`, for any texts, any number of literals and any first
  capacity. `StringInv` says that each literal has an entry of its own, that its text
  and a NUL stand in the blob where the entry says, and that the entries lie end to
  end. Two lemmas carry the proof: `ReadsTheText`, that a C string read from an
  entry's offset ends at that entry's NUL, and `NothingMatches`, that no entry is
  ever equal to what follows in the source, which goes on with the closing quote. So
  every call of `add_string` stores: `EqualStringsShared` fails for any two equal literals.
  LiteralsAreFound has the hypothesis `StringsFit` (runtime and strings end within
  the segment), which the code does not check.
* `RuntimeProofs`, **RuntimeStaysInPlace**: every handler and state word is at the
  address of `codegen.h`, for string tables of any length. The invariant is that the
  first k parts, and no others, have been emitted, each at the sum of the lengths
  before it (`Stage`). **RuntimeCallsLand** and **RuntimeIsSkipped** add that the
  calls of the handlers and the entry jump land where they are meant to, and that
  the disassembler goes on behind the strings, as long as the strings end in the
  segment (`Addressable`).
* `PrintStringProofs`, **TextIsPrinted** and **StackIsBalanced**: the safety of
  `print_string`, for texts of any length. `HandlerInv` annotates the machine code: for
  each offset it says what the registers and the stack hold (`Registers`), how many
  characters are read and written (`Reading`), where the cursor is (`Cursor`) and
  what is on the screen (`Shown`). Both ways through the loop call BIOS functions that
  change AX and CX; the annotation says at which offset each of them is right again.
* `DriverProofs`, **PhasesClean** and **OldOutputKept**: no phase runs on the result
  of a failed one, and no step that changes the output begins with an error raised,
  for files of any length. The invariant ties the flag to where `main` is. No run
  checks `OldOutputSurvives`, which is the second of these.
* `LexerProofs`, **LexemesInOrder**, **RefusesTheMalformed**, **IncludesTheFirst**:
  the three invariants of `lexer`, for any source, any files and any contents of the
  memory that `include()` frees. Two parts. The first is about `get_token` alone.
  `Next1`, `Newlines` and `ScanTokens` are recursive functions of a whole text, so
  each fact about them is an induction, stated with sets: a set of naturals that is not empty has
  a least element (`LeastElement`), and the least counterexample is refuted.
  From these follow what is passed between two tokens (blanks and comments, no less
  and no more), that what `GetToken` returns is a lexeme as long as it can be
  (`TokenParts`), that an ERROR is no lexeme of any type (`RefusedIsNone`), and where
  the line of a token comes from (`NewlinesAdd`). The second part is
  about the state. `PassesInv` says that the tokens seen, those given to the parser and the
  one that `lookahead` keeps, are the results of calls of `get_token` one after the other from
  the first character and line 1 (`InOrder`), which no property of the
  text alone says: it needs that the first pass leaves no pending token and no position
  behind. `FilesInv` is about INCLUDE: the first pass has read main's text without one, or
  the source begins with main, a new line, and the file of the first one (`FirstRead`). To
  show that main's tokens are found again in the longer source, `SameTokens` proves that
  `get_token` over a text and over a longer one agree as long as the token ends in the shorter one
  (`Longer`, `SameNext`, `SameGet`), with the end of main's text (`EofAgain`, `BehindEof`) as
  the case in which they do not. **LexerTypes** adds that the types hold.

* `ParserProofs`, **ParserAcceptsPrograms**: `Spec => []AcceptsOnlyPrograms`, for any
  set of sources that satisfy `NoMoreThanTheGrammar`, and
  **ParserAcceptsEveryProgram**: `Spec => []AcceptsAllPrograms`, for any that satisfy
  `NoMoreThanTheCode`. Between the parser and the grammar stands the language of the
  code, `CodeStatements`, which differs from `IsProgram` in what the section "The
  language of the code" says. Two lemmas are about the parser and that language, for every source and
  without a hypothesis (`ParserTakesOnlyCode`, `ParserTakesAllCode`); the last part shows that the
  two languages agree where the hypotheses hold.
* `ParserTakesOnlyCode`: what the parser ends without an error is in the language of the
  code. Three layers.
  The first is about the functions below a statement: `ExprOn`, `BooleanExprOn`,
  `AssignOn`, `OperandsOn` and `KeywordStatement` say of each that what it took
  without an error has the form that this language gives it. Their loops are functions
  of the number of rounds (`Loop`), the grammar's parts are separated by operators
  (`Separated`), and `SpacedMore` joins the two: what has been taken, an operator
  and one more part is again of the form. The second is that the language of statements is
  well defined: `CodeEnds` is a recursion on what begins later in the source, and
  `EndsExist` shows that it has a solution. The third is the invariant of the state,

      TypeInv /\ (~hadError /\ mode # "crashed" => \E b : Chain(calls, b) /\ CursorAt(pos, mode, b[0]))

  in which b[k] is the token at which the k-th caller on the stack began its statement:
  a THEN stands behind a condition that begins there, a body of FOR behind its header,
  whose iterator is still in the Node (`FrameFits`), and the outermost statement
  begins where a program may. `ChainPush`, `ChainPop` and `ChainOn` are the three
  things a step does to the stack; `OneMore` adds a statement to those before it.
* `ParserTakesAllCode`: in a source of the language of the code the parser reports no
  error and does not crash. The language is ambiguous and the parser takes one reading,
  so the argument looks ahead: in such a source (`CodeStatements(1, EndOfFile)`) the invariant is

      ~hadError /\ mode # "crashed" /\ \E e : Expected(calls, e) /\ ReadyAt(pos, mode, e[0])

  in which e[k] are the places where the statement of the k-th caller may end so that
  all callers around it can go on to the end of the file; `Before` computes e[k - 1]
  from e[k] and the frame between them. `Sound` is what makes the greedy parser right: no token at such a
  place continues an expression, a condition or a PRINT, and an ELSE there begins a
  branch that ends at another such place. So the innermost IF may take an ELSE that
  another reading gives to an outer one: the outer one goes on without it. Below a
  statement, a span of the grammar with such a token behind it is taken to its end and
  without an error (`ExprTakes`, `BooleanTakes`, `OperandsTake`,
  `KeywordStatementTakes`); `FirstOf` tells a statement by its first token. TLC
  checked the invariant on the sources of the run `parser` before it was proved.
* The code's language and the grammar (`CodeIsGrammar`, `GrammarIsCode`): by induction
  from the end of the source to its beginning (`Downward`), since what a statement may be
  depends on what begins behind it. `Sounds(i)` says that every place where the code
  lets a statement from i on end is one that statements of the grammar, one after
  the other, reach; for the branch of an IF that an ELSE follows it must be one statement,
  which is what `BranchesAreSingle` is for (`SoundBranch`). `Covers(i)` says the
  converse, for statements that end where a body or the source does (`Closing`), and for
  one that an ELSE follows: in between, the grammar can end a statement behind a
  label, where the code cannot. The hypotheses are needed: each of the last six
  instances of `MCParser` (further instances) violates a property by one part of them alone.
  `SourcesStay` carries the hypothesis about `Sources` to every state.
* `ParserProofs`, **ParserEnds**: `Spec => EveryStepLeavesLess /\ [](Left \in Nat)`.
  On every source, with or without errors, each step lowers a rank that is a natural, so
  there are finitely many. It rests on `Onward`: each function leaves off behind the
  token it was called at unless the file has ended, error recovery included
  (`SynchronizedOn`). The weights count what is left: eight for a token, four for a
  caller, up to three for what happens next. **ParserTypes** is the type invariant
  of both.

Assumptions: `NullAssumption` (NULL is no node), `ProgramsAssumption` (a program is
of `ProgramType`), `TreesAssumption` (a program is a tree: `init_node` makes a new
node for each statement and its caller hangs it at one place, `parser.c:50`, and
`statement` returns the node behind a label both to the tree and as the target of
the label, `parser.c:410`), `RoomAssumption` and `BoundAssumption` (a first capacity that is
not zero, a number of statements), `BlobAssumption` (lengths are naturals),
`TextsAssumption` of `StringTable` (the lexer ends a literal at its first quote, and
a source has no NUL before its end), of `PrintString` (a string ends at its NUL,
and its characters are bytes) and of `Lexer` (sources, files and memory are
sequences of its symbols), `SourcesAssumption` of `Parser` (sources are sequences of
tokens: an ERROR of the lexer is left out), `RunsApart` (a run of letters is one symbol: a source in which
the lexer would take a single character of one is left out); TLC
evaluates each in the runs of its module. `PrefixFree`, `Addressable`,
`StringsFit`, `Fits`, `NoLabelAtEnd`, `NoMoreThanTheGrammar` and `NoMoreThanTheCode` are hypotheses of the theorems that need them.

Only model-checked: liveness (`Returns`, `ProgramBegins`, `EofIsReached`, `Finishes`,
`EndsWhenMeant`), which is beyond this use of the prover, and everything about
`Expression`, `Control` and `Keywords`. What these promise is stated by
functions of a whole tree written as recursive operators, and they run on `Machine`,
which needs `Bitwise`: the provers see neither. Of `Parser`
there remain the two properties of `ParserTrees`, whose operators recur on the tree.
A recursive function of a number is within reach, by a least
counterexample, as the lexer and `Ends` show.


## 5. Not modelled

* The text that the disassembler shows, and `print_node`: they print and change
  nothing. `free_*`, `find_symbol` (which nothing calls) and the exit paths of
  `malloc`.
* `emit_byte` and `add_patch` as growing arrays: the doubling is the one
  checked in the two tables.
* All operators at once: the lexer has two of eleven, the parser two of each kind;
  the functions treat them alike, and `Expression` has them all.
* GOTO and GOSUB as instructions that are executed: `Codegen` checks where they
  land, and `Control` runs programs without them.
* BP: no instruction that the templates emit names it but MOV BP, SP at the entry
  and MOV SP, BP at an exit, which `Keywords` executes as what it does: the stack
  is the one that the entry found. That the kernel keeps BP is taken as given.
* The text of the message of BREAK, whose buffer a line number of six digits
  fills, and what lies behind the buffer in which `match_keyword` looks for a NUL.
* MikeOS and the BIOS: external, a source of answers.
* Makefile, editor files, documentation: no behaviour.


## 6. Plan

Written, in this order: `Layout`, `Fixups`, `Codegen` (the core), the two tables,
`Expression`, `Runtime`, `PrintString`, `Driver`, `Parser`, the first proofs;
then the keyword statements (`Terms`, `KeywordParser`, `KeywordCode`, `Keywords`, a
general `Machine`), `Control`, `Disassembler`, `Lexer`, the proofs about the
symbol table, the runtime and the driver, those about the statement compiler,
those about the string table and the printing handler, those about the lexer and
those about the parser.

What is left, in order of weight:

1. GOTO and GOSUB in `Control`, as a composition with `Codegen`.

----------------------------- MODULE PrintString -----------------------------
(***************************************************************************)
(* The print handler of the runtime (print_string of back/runtime.c), run  *)
(* an instruction a step on the string at SI: every PRINT of a compiled    *)
(* program calls it at PRINTSTR.  The short jumps are the displacement     *)
(* bytes of the source; a jump is relative to the next instruction.        *)
(***************************************************************************)
EXTENDS Integers, Sequences, SequencesExt

CONSTANTS
    Texts,      \* the strings printed: sequences of characters, none NUL
    Inks,       \* the values of the word at INKADDR
    Pages       \* the values of the words at WORKPAGE and ACTIVEPAGE

\* A string ends at its NUL.
ASSUME TextsAssumption == \A t \in Texts : t \in Seq(1 .. 255)

VARIABLES
    text,       \* the string at SI
    ink, page,  \* the words at INKADDR and WORKPAGE
    ip,         \* offset in the handler of the next instruction
    ah, al,     \* the halves of AX
    bx,         \* page (BH) and ink (BL)
    cx,         \* the count of BIOS function 9
    column,     \* the cursor's column on the line
    read,       \* SI: how many characters have been read
    stack,      \* what the handler has pushed
    active,     \* the page the display shows
    screen      \* what was written, in order: characters and new lines

vars == <<text, ink, page, ip, ah, al, bx, cx, column, read, stack, active, screen>>

NUL     == 0
NEWLINE == 10
Unknown == -1       \* a register that the handler has not set
Shape   == 1543     \* the cursor shape that BIOS function 3 leaves in CX

Init ==
    /\ text \in Texts
    /\ ink \in Inks
    /\ page \in Pages
    /\ ip = 0
    /\ ah = Unknown /\ al = Unknown
    /\ bx = [page |-> Unknown, ink |-> Unknown]
    /\ cx = Unknown
    /\ column = 0
    /\ read = 0
    /\ stack = <<>>
    /\ active \in Pages
    /\ screen = <<>>

\* The instruction at offset off is executed, and then the one size bytes on.
At(off, size) ==
    /\ ip = off
    /\ ip' = off + size
    /\ UNCHANGED <<text, ink, page>>

\* The conditional or unconditional short jump at offset off.
JumpAt(off, taken, rel) ==
    /\ ip = off
    /\ ip' = off + 2 + (IF taken THEN rel ELSE 0)
    /\ UNCHANGED <<text, ink, page, ah, al, bx, cx, column, read, stack, active, screen>>

\* MOV AX, 0x900; BX = page in BH, ink in BL (SHL and OR); MOV CX, 1.
Prepare ==
    /\ At(0, 19)
    /\ ah' = 9 /\ al' = 0
    /\ bx' = [page |-> page, ink |-> ink]
    /\ cx' = 1
    /\ UNCHANGED <<column, read, stack, active, screen>>

\* LODSB: AH stays 9.
LoadChar ==
    /\ At(19, 1)
    /\ al' = IF read < Len(text) THEN text[read + 1] ELSE NUL
    /\ read' = read + 1
    /\ UNCHANGED <<ah, bx, cx, column, stack, active, screen>>

\* CMP AX, 0x900; JE +53.  CMP AX, 0x90A; JE +22.
Compared(off, char) ==
    /\ At(off, 3)
    /\ UNCHANGED <<ah, al, bx, cx, column, read, stack, active, screen>>

TestEnd == Compared(20, NUL) \/ JumpAt(23, ah = 9 /\ al = NUL, 53)
TestNewline == Compared(25, NEWLINE) \/ JumpAt(28, ah = 9 /\ al = NEWLINE, 22)

\* INT 0x10 with AH = 9 writes CX times AL at the cursor.
WriteChar ==
    /\ At(30, 2)
    /\ screen' = Append(screen, [char |-> al, column |-> column, ah |-> ah,
                                 look |-> bx, count |-> cx])
    /\ UNCHANGED <<ah, al, bx, cx, column, read, stack, active>>

\* PUSH AX; PUSH CX.
SaveForCursor ==
    /\ At(32, 2)
    /\ stack' = <<cx, [ah |-> ah, al |-> al]>> \o stack
    /\ UNCHANGED <<ah, al, bx, cx, column, read, active, screen>>

\* BIOS function 3 reads the cursor into DX (and its shape into CX), INC DX,
\* function 2 sets it; both on page BH.
AdvanceCursor ==
    /\ At(34, 14)
    /\ ah' = 2 /\ al' = 0
    /\ cx' = Shape
    /\ column' = column + 1
    /\ UNCHANGED <<bx, read, stack, active, screen>>

\* POP CX; POP AX.
RestoreFromCursor ==
    /\ At(48, 2)
    /\ cx' = stack[1]
    /\ ah' = stack[2].ah /\ al' = stack[2].al
    /\ stack' = SubSeq(stack, 3, Len(stack))
    /\ UNCHANGED <<bx, column, read, active, screen>>

\* Faulty variant: the displacement of a jump to itself.
BackToItself == JumpAt(50, TRUE, -2)

\* JMP -33.
BackToLoop == JumpAt(50, TRUE, -33)

\* Faulty variant: CX is pushed too, like before the cursor calls.
SaveForNewlineCx ==
    /\ At(52, 2)
    /\ stack' = <<bx, [ah |-> ah, al |-> al], cx>> \o stack
    /\ UNCHANGED <<ah, al, bx, cx, column, read, active, screen>>

\* PUSH AX; PUSH BX.
SaveForNewline ==
    /\ At(52, 2)
    /\ stack' = <<bx, [ah |-> ah, al |-> al]>> \o stack
    /\ UNCHANGED <<ah, al, bx, cx, column, read, active, screen>>

\* BIOS function 5 shows page AL = WORKPAGE.
ShowPage ==
    /\ At(54, 10)
    /\ ah' = 5 /\ al' = page
    /\ active' = page
    /\ UNCHANGED <<bx, cx, column, read, stack, screen>>

\* BX = WORKPAGE SHL 8; CALL os_print_newline.
PrintNewline ==
    /\ At(64, 10)
    /\ bx' = [page |-> page, ink |-> 0]
    /\ column' = 0
    /\ screen' = Append(screen, [char |-> NEWLINE, column |-> column, ah |-> 9,
                                 look |-> [page |-> active, ink |-> ink], count |-> 1])
    /\ UNCHANGED <<ah, al, cx, read, stack, active>>

\* POP BX; POP AX.
RestoreFromNewline ==
    /\ At(74, 2)
    /\ bx' = stack[1]
    /\ ah' = stack[2].ah /\ al' = stack[2].al
    /\ stack' = SubSeq(stack, 3, Len(stack))
    /\ UNCHANGED <<cx, column, read, active, screen>>

\* Faulty variant: the jump goes past LODSB.
BackFromNewlinePast == JumpAt(76, TRUE, -58)

\* JMP -59.
BackFromNewline == JumpAt(76, TRUE, -59)

Next ==
    \/ Prepare
    \/ LoadChar
    \/ TestEnd
    \/ TestNewline
    \/ WriteChar
    \/ SaveForCursor
    \/ AdvanceCursor
    \/ RestoreFromCursor
    \/ BackToLoop
    \/ SaveForNewline
    \/ ShowPage
    \/ PrintNewline
    \/ RestoreFromNewline
    \/ BackFromNewline

Spec == Init /\ [][Next]_vars

FairSpec == Spec /\ WF_vars(Next)

\* RET, at offset 78.
Returned == ip = 78

-----------------------------------------------------------------------------
(* Properties.                                                             *)

Written == [k \in DOMAIN screen |-> screen[k].char]

\* The types of the state.
TypeOK ==
    /\ text \in Texts
    /\ ip \in 0 .. 78
    /\ {ah, al} \subseteq -1 .. 255
    /\ bx.page \in Pages \cup {Unknown}
    /\ active \in Pages
    /\ read \in 0 .. Len(text) + 1

\* What has been written is always a beginning of the text, in order and
\* without repetition, and all of it when the handler returns; the characters
\* have the colour and the page set by INK and PAGE, one each, left to right.
PrintsTheText ==
    /\ IsPrefix(Written, text)
    /\ Returned => Written = text
    /\ \A k \in DOMAIN screen :
          /\ screen[k].ah = 9 /\ screen[k].count = 1
          /\ screen[k].look = [page |-> page, ink |-> ink]
          /\ k > 1 => screen[k].column = IF screen[k - 1].char = NEWLINE
                                         THEN 0 ELSE screen[k - 1].column + 1

\* RET finds the return address: everything pushed in the loop was popped.
StackBalanced ==
    ip \in {19, 78} => stack = <<>>

\* The handler returns.
Returns == <>Returned
=============================================================================

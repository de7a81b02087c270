-------------------------- MODULE PrintStringProofs --------------------------
(***************************************************************************)
(* The print handler writes every text, of any length, once and in order,  *)
(* and leaves the stack as it found it.                                    *)
(*                                                                         *)
(* The invariant is an annotation of the machine code: for each offset the *)
(* registers and the stack (Registers), how far the text has been read and *)
(* written (Reading), where the cursor is (Cursor) and what has been       *)
(* written (Shown).                                                        *)
(***************************************************************************)
EXTENDS PrintString, TLAPS

\* Where an instruction of the model begins, and the RET.
Offsets == {0, 19, 20, 23, 25, 28, 30, 32, 34, 48, 50, 52, 54, 64, 74, 76, 78}

Own == [page |-> page, ink |-> ink]

\* What SaveForCursor and SaveForNewline have pushed.
CursorSaved(s)  == \E a : s = <<1, [ah |-> 9, al |-> a]>>
NewlineSaved(s) == \E a : s = <<Own, [ah |-> 9, al |-> a]>>

Registers ==
    /\ ip \in Offsets
    /\ ip \in {0, 19, 20, 23, 25, 28, 30, 32, 50, 52, 76, 78} => stack = <<>>
    /\ ip \in {19, 20, 23, 25, 28, 30, 32, 50, 52, 76} => ah = 9 /\ bx = Own /\ cx = 1
    /\ ip \in {34, 48} => bx = Own /\ CursorSaved(stack)
    /\ ip \in {54, 64, 74} => cx = 1 /\ NewlineSaved(stack)
    /\ ip = 64 => active = page

\* The character that comes next, or the NUL at the end of the text.
Following == IF Len(screen) < Len(text) THEN text[Len(screen) + 1] ELSE NUL

\* At offset i: r characters are read and w of n written, a is in AL, f follows.
ReadAt(i, r, a, w, f, n) ==
    /\ i \in {0, 19, 32, 34, 48, 50, 74, 76} => r = w
    /\ i \in {20, 23, 25, 28, 30, 52, 54, 64} => r = w + 1
    /\ i \in {20, 23, 25, 28, 30} => a = f
    /\ i \in {25, 28, 30, 52, 54, 64} => w < n
    /\ i = 30 => f # NEWLINE
    /\ i \in {52, 54, 64} => f = NEWLINE
    /\ i = 78 => w = n

Reading == ReadAt(ip, read, al, Len(screen), Following, Len(text))

\* The column after the character k of the screen.
After(k) == IF k = 0 \/ screen[k].char = NEWLINE THEN 0 ELSE screen[k].column + 1

Cursor ==
    /\ column \in Nat
    /\ ip \notin {32, 34} => column = After(Len(screen))
    /\ ip \in {32, 34} => Len(screen) > 0 /\ column + 1 = After(Len(screen))

Glyph == [char : 1 .. 255, column : Nat, ah : {9}, look : {Own}, count : {1}]

Shown ==
    /\ screen \in Seq(Glyph)
    /\ Len(screen) <= Len(text)
    /\ \A k \in 1 .. Len(screen) : screen[k].char = text[k]
    /\ \A k \in 1 .. Len(screen) : k > 1 => screen[k].column = After(k - 1)

HandlerInv == text \in Seq(1 .. 255) /\ Registers /\ Reading /\ Cursor /\ Shown

-----------------------------------------------------------------------------
\* What is left of the stack when the two words of a PUSH pair are popped.
LEMMA PopBoth ==
  ASSUME NEW s, NEW x, NEW y, s = <<x, y>>
  PROVE  s[1] = x /\ s[2] = y /\ SubSeq(s, 3, Len(s)) = <<>>
  <1>1. s \in Seq({x, y}) /\ Len(s) = 2
    OBVIOUS
  <1> QED
    BY <1>1

\* What is in a sequence over S is in S.
LEMMA ElementOf ==
  ASSUME NEW S, NEW s \in Seq(S)
  PROVE  Len(s) \in Nat /\ \A i \in 1 .. Len(s) : s[i] \in S
  OBVIOUS

\* As long as text is left, a character of it follows, which is no NUL.
LEMMA FollowingChar ==
  ASSUME text \in Seq(1 .. 255), Shown
  PROVE  /\ Len(screen) \in Nat /\ Len(text) \in Nat /\ Len(screen) <= Len(text)
         /\ Len(screen) < Len(text) =>
               Following = text[Len(screen) + 1] /\ Following \in 1 .. 255 /\ Following # NUL
         /\ Len(screen) >= Len(text) => Following = NUL
  <1>1. Len(screen) \in Nat /\ Len(text) \in Nat /\ Len(screen) <= Len(text)
    BY ElementOf DEF Shown
  <1>2. Len(screen) >= Len(text) => Following = NUL
    BY <1>1 DEF Following
  <1>3. ASSUME Len(screen) < Len(text)
        PROVE  Following = text[Len(screen) + 1] /\ Following \in 1 .. 255 /\ Following # NUL
    <2>1. Following = text[Len(screen) + 1]
      BY <1>3 DEF Following
    <2>2. Len(screen) + 1 \in 1 .. Len(text)
      BY <1>1, <1>3
    <2>3. text[Len(screen) + 1] \in 1 .. 255
      BY <2>2, ElementOf
    <2>4. \A x \in 1 .. 255 : x # NUL
      BY DEF NUL
    <2> QED
      BY <2>1, <2>3, <2>4
  <1> QED
    BY <1>1, <1>2, <1>3

\* Every instruction leaves the registers as the next one needs them.
LEMMA StepRegisters ==
  ASSUME HandlerInv, Next
  PROVE  Registers'
  <1>1. Registers
    BY DEF HandlerInv
  <1>2. CASE Prepare \/ LoadChar \/ TestEnd \/ TestNewline \/ WriteChar
    BY <1>1, <1>2 DEF Registers, Offsets, Own, Prepare, LoadChar, TestEnd, TestNewline, WriteChar,
                      At, JumpAt, Compared
  <1>3. CASE SaveForCursor
    <2>1. stack' = <<1, [ah |-> 9, al |-> al]>> \o <<>>
      BY <1>1, <1>3 DEF Registers, SaveForCursor, At
    <2>2. stack' = <<1, [ah |-> 9, al |-> al]>>
      BY <2>1
    <2>3. ip' = 34 /\ bx' = Own'
      BY <1>1, <1>3 DEF Registers, Own, SaveForCursor, At
    <2>4. CursorSaved(stack)'
      BY <2>2, Zenon DEF CursorSaved
    <2> QED
      BY <2>3, <2>4 DEF Registers, Offsets
  <1>4. CASE AdvanceCursor
    BY <1>1, <1>4 DEF Registers, Offsets, Own, CursorSaved, AdvanceCursor, At
  <1>5. CASE RestoreFromCursor
    <2>1. PICK a : stack = <<1, [ah |-> 9, al |-> a]>>
      BY <1>1, <1>5 DEF Registers, RestoreFromCursor, CursorSaved, At
    <2>2. stack[1] = 1 /\ stack[2] = [ah |-> 9, al |-> a] /\ SubSeq(stack, 3, Len(stack)) = <<>>
      BY <2>1, PopBoth
    <2> QED
      BY <1>1, <1>5, <2>2 DEF Registers, Offsets, Own, RestoreFromCursor, At
  <1>6. CASE BackToLoop \/ BackFromNewline
    BY <1>1, <1>6 DEF Registers, Offsets, Own, BackToLoop, BackFromNewline, JumpAt
  <1>7. CASE SaveForNewline
    <2>1. stack' = <<Own, [ah |-> 9, al |-> al]>> \o <<>>
      BY <1>1, <1>7 DEF Registers, SaveForNewline, At
    <2>2. stack' = <<Own, [ah |-> 9, al |-> al]>>
      BY <2>1
    <2>3. ip = 52 /\ ip' = 54 /\ Own' = Own /\ cx' = 1
      BY <1>1, <1>7 DEF Registers, Own, SaveForNewline, At
    <2>4. NewlineSaved(stack)'
      BY <2>2, <2>3, Zenon DEF NewlineSaved
    <2> QED
      BY <2>3, <2>4 DEF Registers, Offsets
  <1>8. CASE ShowPage \/ PrintNewline
    BY <1>1, <1>8 DEF Registers, Offsets, Own, NewlineSaved, ShowPage, PrintNewline, At
  <1>9. CASE RestoreFromNewline
    <2>1. PICK a : stack = <<Own, [ah |-> 9, al |-> a]>>
      BY <1>1, <1>9 DEF Registers, RestoreFromNewline, NewlineSaved, At
    <2>2. stack[1] = Own /\ stack[2] = [ah |-> 9, al |-> a] /\ SubSeq(stack, 3, Len(stack)) = <<>>
      BY <2>1, PopBoth
    <2> QED
      BY <1>1, <1>9, <2>2 DEF Registers, Offsets, Own, RestoreFromNewline, At
  <1> QED
    BY <1>2, <1>3, <1>4, <1>5, <1>6, <1>7, <1>8, <1>9 DEF Next

\* A character behind the others: what it is, and that the others stay.
LEMMA OneMore ==
  ASSUME HandlerInv, NEW e \in Glyph, screen' = Append(screen, e),
         Len(screen) < Len(text), e.char = text[Len(screen) + 1],
         e.column = After(Len(screen)), UNCHANGED <<text, ink, page>>
  PROVE  /\ Shown'
         /\ Len(screen') = Len(screen) + 1
         /\ After(Len(screen))' = IF e.char = NEWLINE THEN 0 ELSE e.column + 1
  <1> DEFINE n == Len(screen)
  <1>1. screen \in Seq(Glyph) /\ n \in Nat /\ Len(text) \in Nat
    BY DEF HandlerInv, Shown
  <1>2. /\ screen' \in Seq(Glyph) /\ Len(screen') = n + 1
        /\ screen'[n + 1] = e
        /\ \A k \in 1 .. n : screen'[k] = screen[k]
    BY <1>1
  <1>3. Glyph' = Glyph /\ text' = text
    BY DEF Glyph, Own
  <1>4. \A k \in 1 .. n + 1 : k # n + 1 => k \in 1 .. n
    BY <1>1
  <1>5. \A k \in 1 .. n : k > 1 => k - 1 \in 1 .. n
    BY <1>1
  <1>6. n + 1 > 1 => n \in 1 .. n
    BY <1>1
  <1> HIDE DEF n
  <1>7. \A k \in 1 .. n + 1 : screen'[k].char = text[k]
    BY <1>2, <1>4 DEF HandlerInv, Shown, n
  <1>8. \A k \in 1 .. n + 1 : k > 1 => screen'[k].column = After(k - 1)'
    <2> SUFFICES ASSUME NEW k \in 1 .. n + 1, k > 1
                 PROVE  screen'[k].column = After(k - 1)'
      OBVIOUS
    <2>1. CASE k = n + 1
      <3>1. k - 1 = n /\ n \in 1 .. n
        BY <1>1, <2>1 DEF n
      <3>2. screen'[k].column = After(n) /\ screen'[n] = screen[n]
        BY <1>2, <2>1, <3>1 DEF n
      <3> QED
        BY <3>1, <3>2 DEF After
    <2>2. CASE k # n + 1
      <3>1. k \in 1 .. n /\ k - 1 \in 1 .. n
        BY <1>4, <1>5, <2>2
      <3>2. screen[k].column = After(k - 1) /\ screen'[k] = screen[k] /\ screen'[k - 1] = screen[k - 1]
        BY <1>2, <3>1 DEF HandlerInv, Shown, n
      <3> QED
        BY <3>2 DEF After
    <2> QED
      BY <2>1, <2>2
  <1>9. Shown'
    <2>1. n + 1 <= Len(text)
      BY <1>1 DEF n
    <2> QED
      BY <1>2, <1>3, <1>7, <1>8, <2>1 DEF Shown
  <1>10. After(Len(screen))' = IF e.char = NEWLINE THEN 0 ELSE e.column + 1
    <2>1. n + 1 # 0
      BY <1>1 DEF n
    <2>2. After(Len(screen))' = IF n + 1 = 0 \/ screen'[n + 1].char = NEWLINE
                               THEN 0 ELSE screen'[n + 1].column + 1
      BY <1>2 DEF After
    <2> QED
      BY <1>2, <2>1, <2>2
  <1> QED
    BY <1>2, <1>9, <1>10 DEF n

\* An instruction that writes nothing leaves the screen as it is.
LEMMA SameScreen ==
  ASSUME Shown, UNCHANGED <<text, ink, page, screen>>
  PROVE  /\ Shown' /\ Following' = Following /\ Len(screen') = Len(screen)
         /\ After(Len(screen))' = After(Len(screen))
  BY DEF Shown, Glyph, Own, Following, After

\* The instructions that write nothing and do not move the cursor.
Quiet == Prepare \/ LoadChar \/ TestEnd \/ TestNewline \/ SaveForCursor \/ RestoreFromCursor
         \/ BackToLoop \/ SaveForNewline \/ ShowPage \/ RestoreFromNewline \/ BackFromNewline

\* They keep the text, the cursor and the screen in step.
LEMMA QuietStep ==
  ASSUME HandlerInv, Quiet
  PROVE  Reading' /\ Cursor' /\ Shown'
  <1>1. text \in Seq(1 .. 255) /\ Reading /\ Cursor /\ Shown /\ ip \in Offsets
    BY DEF HandlerInv, Registers
  <1>2. UNCHANGED <<text, ink, page, screen, column>>
    BY DEF Quiet, Prepare, LoadChar, TestEnd, TestNewline, SaveForCursor, RestoreFromCursor,
           BackToLoop, SaveForNewline, ShowPage, RestoreFromNewline, BackFromNewline, At, JumpAt,
           Compared
  <1>3. /\ Shown' /\ Following' = Following /\ Len(screen') = Len(screen)
        /\ After(Len(screen))' = After(Len(screen))
    BY <1>1, <1>2, SameScreen
  <1>4. /\ Len(screen) \in Nat /\ Len(text) \in Nat /\ Len(screen) <= Len(text)
        /\ Len(screen) < Len(text) => Following # NUL
        /\ Len(screen) >= Len(text) => Following = NUL
    BY <1>1, FollowingChar
  <1>5. Cursor'
    <2>1. ip' \in {32, 34} <=> ip \in {32, 34}
      BY <1>1 DEF Offsets, Quiet, Prepare, LoadChar, TestEnd, TestNewline, SaveForCursor, RestoreFromCursor,
           BackToLoop, SaveForNewline, ShowPage, RestoreFromNewline, BackFromNewline, At, JumpAt,
           Compared
    <2> QED
      BY <1>1, <1>2, <1>3, <2>1 DEF Cursor
  <1>6. Reading'
    <2>1. PICK w, f, n : w = Len(screen) /\ f = Following /\ n = Len(text)
      OBVIOUS
    <2>2. ReadAt(ip, read, al, w, f, n) /\ w \in Nat /\ n \in Nat /\ w <= n
          /\ (w < n => f # NUL) /\ (w >= n => f = NUL)
      BY <1>1, <1>4, <2>1 DEF Reading
    <2>3. Reading' = ReadAt(ip', read', al', w, f, n)
      BY <1>2, <1>3, <2>1 DEF Reading
    <2>4. ip \in {23, 28} => ah = 9
      BY DEF HandlerInv, Registers
    <2>5. CASE Prepare \/ SaveForCursor \/ RestoreFromCursor \/ BackToLoop \/ SaveForNewline
               \/ ShowPage \/ RestoreFromNewline \/ BackFromNewline
      <3>1. /\ read' = read
            /\ <<ip, ip'>> \in { <<0, 19>>, <<32, 34>>, <<48, 50>>, <<50, 19>>, <<52, 54>>,
                                 <<54, 64>>, <<74, 76>>, <<76, 19>> }
        BY <2>5 DEF Prepare, SaveForCursor, RestoreFromCursor, BackToLoop, SaveForNewline,
                    ShowPage, RestoreFromNewline, BackFromNewline, At, JumpAt
      <3> QED
        BY <2>2, <2>3, <3>1 DEF ReadAt
    <2>6. CASE LoadChar
      <3>1. ip = 19 /\ ip' = 20 /\ read' = read + 1
        BY <2>6 DEF LoadChar, At
      <3>2. al' = f
        <4>1. read = Len(screen)
          BY <2>1, <2>2, <3>1 DEF ReadAt
        <4> QED
          BY <2>1, <2>6, <4>1 DEF LoadChar, Following
      <3> QED
        BY <2>2, <2>3, <3>1, <3>2 DEF ReadAt
    <2>7. CASE TestEnd \/ TestNewline
      <3>1. /\ read' = read /\ al' = al
            /\ \/ ip = 20 /\ ip' = 23
               \/ ip = 25 /\ ip' = 28
               \/ ip = 23 /\ ip' = (IF ah = 9 /\ al = NUL THEN 78 ELSE 25)
               \/ ip = 28 /\ ip' = (IF ah = 9 /\ al = NEWLINE THEN 52 ELSE 30)
        BY <2>7 DEF TestEnd, TestNewline, Compared, At, JumpAt
      <3> QED
        BY <2>2, <2>3, <2>4, <3>1 DEF ReadAt
    <2> QED
      BY <2>5, <2>6, <2>7 DEF Quiet
  <1> QED
    BY <1>3, <1>5, <1>6

\* INT 0x10 writes the character that follows, in the colours of the program.
LEMMA WriteStep ==
  ASSUME HandlerInv, WriteChar
  PROVE  Reading' /\ Cursor' /\ Shown'
  <1> DEFINE e == [char |-> al, column |-> column, ah |-> ah, look |-> bx, count |-> cx]
  <1>1. ip = 30 /\ ip' = 32 /\ UNCHANGED <<text, ink, page, read, column>>
        /\ screen' = Append(screen, e)
    BY DEF WriteChar, At
  <1>2. ah = 9 /\ bx = Own /\ cx = 1
    BY <1>1 DEF HandlerInv, Registers
  <1>3. read = Len(screen) + 1 /\ al = Following /\ Len(screen) < Len(text) /\ Following # NEWLINE
    BY <1>1 DEF HandlerInv, Reading, ReadAt
  <1>4. Following = text[Len(screen) + 1] /\ Following \in 1 .. 255
    BY <1>3, FollowingChar DEF HandlerInv
  <1>5. column \in Nat /\ column = After(Len(screen))
    BY <1>1 DEF HandlerInv, Cursor
  <1>6. e \in Glyph
    BY <1>2, <1>3, <1>4, <1>5 DEF Glyph
  <1>7. e.char = Following /\ e.column = column
    BY <1>3
  <1> HIDE DEF e
  <1>8. /\ Shown'
        /\ Len(screen') = Len(screen) + 1
        /\ After(Len(screen))' = column + 1
    BY <1>1, <1>3, <1>4, <1>5, <1>6, <1>7, OneMore
  <1>9. Len(screen) \in Nat
    BY ElementOf DEF HandlerInv, Shown
  <1>10. Cursor'
    BY <1>1, <1>5, <1>8, <1>9 DEF Cursor
  <1>11. Reading'
    BY <1>1, <1>3, <1>8 DEF Reading, ReadAt
  <1> QED
    BY <1>8, <1>10, <1>11

\* BIOS functions 3 and 2 move the cursor behind the character.
LEMMA AdvanceStep ==
  ASSUME HandlerInv, AdvanceCursor
  PROVE  Reading' /\ Cursor' /\ Shown'
  <1>1. ip = 34 /\ ip' = 48 /\ UNCHANGED <<text, ink, page, read, screen>> /\ column' = column + 1
    BY DEF AdvanceCursor, At
  <1>2. Shown' /\ Len(screen') = Len(screen) /\ After(Len(screen))' = After(Len(screen))
    BY <1>1, SameScreen DEF HandlerInv
  <1>3. column \in Nat /\ column + 1 = After(Len(screen))
    BY <1>1 DEF HandlerInv, Cursor
  <1>4. Cursor'
    BY <1>1, <1>2, <1>3 DEF Cursor
  <1>5. Reading'
    BY <1>1, <1>2 DEF HandlerInv, Reading, ReadAt
  <1> QED
    BY <1>2, <1>4, <1>5

\* os_print_newline begins a new line on the page that ShowPage has shown.
LEMMA NewlineStep ==
  ASSUME HandlerInv, PrintNewline
  PROVE  Reading' /\ Cursor' /\ Shown'
  <1> DEFINE e == [char |-> NEWLINE, column |-> column, ah |-> 9,
                   look |-> [page |-> active, ink |-> ink], count |-> 1]
  <1>1. ip = 64 /\ ip' = 74 /\ UNCHANGED <<text, ink, page, read>> /\ column' = 0
        /\ screen' = Append(screen, e)
    BY DEF PrintNewline, At
  <1>2. active = page
    BY <1>1 DEF HandlerInv, Registers
  <1>3. read = Len(screen) + 1 /\ Len(screen) < Len(text) /\ Following = NEWLINE
    BY <1>1 DEF HandlerInv, Reading, ReadAt
  <1>4. Following = text[Len(screen) + 1] /\ Following \in 1 .. 255
    BY <1>3, FollowingChar DEF HandlerInv
  <1>5. column \in Nat /\ column = After(Len(screen))
    BY <1>1 DEF HandlerInv, Cursor
  <1>6. e \in Glyph
    BY <1>2, <1>3, <1>4, <1>5 DEF Glyph, Own
  <1>7. e.char = Following /\ e.column = column /\ e.char = NEWLINE
    BY <1>3
  <1> HIDE DEF e
  <1>8. /\ Shown'
        /\ Len(screen') = Len(screen) + 1
        /\ After(Len(screen))' = 0
    BY <1>1, <1>3, <1>4, <1>5, <1>6, <1>7, OneMore
  <1>9. Cursor'
    BY <1>1, <1>8 DEF Cursor
  <1>10. Reading'
    BY <1>1, <1>3, <1>8 DEF Reading, ReadAt
  <1> QED
    BY <1>8, <1>9, <1>10

\* HandlerInv holds in every state.
LEMMA HandlerInvariant == Spec => []HandlerInv
  <1>1. Init => HandlerInv
    <2> SUFFICES ASSUME Init PROVE HandlerInv
      OBVIOUS
    <2>1. text \in Seq(1 .. 255)
      BY TextsAssumption DEF Init
    <2>2. screen = <<>> /\ Len(screen) = 0 /\ ip = 0 /\ column = 0 /\ read = 0 /\ stack = <<>>
      BY DEF Init
    <2>3. Registers
      BY <2>2 DEF Registers, Offsets
    <2>4. Reading
      BY <2>2 DEF Reading, ReadAt
    <2>5. Cursor
      BY <2>2 DEF Cursor, After
    <2>6. Shown
      <3>1. screen \in Seq(Glyph) /\ Len(text) \in Nat
        BY <2>1, <2>2
      <3> QED
        BY <2>2, <3>1 DEF Shown
    <2> QED
      BY <2>1, <2>3, <2>4, <2>5, <2>6 DEF HandlerInv
  <1>2. HandlerInv /\ [Next]_vars => HandlerInv'
    <2> SUFFICES ASSUME HandlerInv, [Next]_vars PROVE HandlerInv'
      OBVIOUS
    <2>1. CASE Next
      <3>1. text' = text
        BY <2>1 DEF Next, Prepare, LoadChar, TestEnd, TestNewline, WriteChar, SaveForCursor,
                    AdvanceCursor, RestoreFromCursor, BackToLoop, SaveForNewline, ShowPage,
                    PrintNewline, RestoreFromNewline, BackFromNewline, At, JumpAt, Compared
      <3>2. Registers'
        BY <2>1, StepRegisters
      <3>3. Reading' /\ Cursor' /\ Shown'
        BY <2>1, QuietStep, WriteStep, AdvanceStep, NewlineStep DEF Next, Quiet
      <3> QED
        BY <3>1, <3>2, <3>3 DEF HandlerInv
    <2>2. CASE UNCHANGED vars
      BY <2>2 DEF vars, HandlerInv, Registers, NewlineSaved, Own, Reading, Following, Cursor, After, Shown, Glyph
    <2> QED
      BY <2>1, <2>2
  <1> QED
    BY <1>1, <1>2, PTL DEF Spec

\* RET finds the return address, and every turn of the loop begins with the stack
\* of the call, for texts of any length.
THEOREM StackIsBalanced == Spec => []StackBalanced
  <1>1. HandlerInv => StackBalanced
    BY DEF HandlerInv, Registers, StackBalanced
  <1> QED
    BY <1>1, HandlerInvariant, PTL

\* The handler writes a text of any length once and in order, in the colours and
\* on the page of the program, left to right, and all of it when it returns.
THEOREM TextIsPrinted == Spec => []PrintsTheText
  <1>1. ASSUME HandlerInv PROVE PrintsTheText
    <2>1. /\ text \in Seq(1 .. 255) /\ screen \in Seq(Glyph) /\ Len(screen) <= Len(text)
          /\ Len(screen) \in Nat /\ Len(text) \in Nat
          /\ \A k \in 1 .. Len(screen) : screen[k].char = text[k]
      BY <1>1, ElementOf DEF HandlerInv, Shown
    <2>2. PICK w : w = Written
      OBVIOUS
    <2>3. /\ w \in Seq(1 .. 255) /\ Len(w) = Len(screen)
          /\ \A k \in 1 .. Len(w) : w[k] = text[k]
      <3>1. w = [k \in 1 .. Len(screen) |-> screen[k].char]
        BY <2>1, <2>2 DEF Written
      <3>2. \A k \in 1 .. Len(screen) : text[k] \in 1 .. 255
        <4>1. \A k \in 1 .. Len(screen) : k \in 1 .. Len(text)
          BY <2>1
        <4> QED
          BY <2>1, <4>1, ElementOf
      <3>3. PICK n \in Nat : n = Len(screen)
        BY <2>1
      <3>4. w = [k \in 1 .. n |-> screen[k].char]
        BY <3>1, <3>3
      <3>5. \A k \in 1 .. n : screen[k].char = text[k] /\ screen[k].char \in 1 .. 255
        BY <2>1, <3>2, <3>3
      <3>6. w \in [1 .. n -> 1 .. 255]
        BY <3>4, <3>5
      <3>7. w \in Seq(1 .. 255) /\ Len(w) = n
        BY <3>6
      <3>8. \A k \in 1 .. n : w[k] = text[k]
        BY <3>4, <3>5
      <3> QED
        BY <3>3, <3>7, <3>8
    <2>4. IsPrefix(w, text)
      BY <2>1, <2>3 DEF IsPrefix
    <2>5. Returned => w = text
      <3>1. Returned => Len(screen) = Len(text)
        BY <1>1 DEF HandlerInv, Reading, ReadAt, Returned
      <3> QED
        BY <2>1, <2>3, <3>1
    <2>6. ASSUME NEW k \in DOMAIN screen
          PROVE  /\ screen[k].ah = 9 /\ screen[k].count = 1
                 /\ screen[k].look = [page |-> page, ink |-> ink]
                 /\ k > 1 => screen[k].column = IF screen[k - 1].char = NEWLINE
                                                THEN 0 ELSE screen[k - 1].column + 1
      <3>1. k \in 1 .. Len(screen) /\ screen[k] \in Glyph
        BY <2>1, ElementOf
      <3>2. k > 1 => screen[k].column = After(k - 1)
        BY <1>1, <3>1 DEF HandlerInv, Shown
      <3>3. k > 1 => k - 1 # 0
        BY <3>1
      <3> QED
        BY <3>1, <3>2, <3>3 DEF Glyph, Own, After
    <2> QED
      BY <2>2, <2>4, <2>5, <2>6 DEF PrintsTheText
  <1> QED
    BY <1>1, HandlerInvariant, PTL
=============================================================================

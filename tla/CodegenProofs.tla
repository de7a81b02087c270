---------------------------- MODULE CodegenProofs ----------------------------
(***************************************************************************)
(* The statement compiler: its types, the jumps of forward GOTO and GOSUB, *)
(* the order in which compile_ast comes to the statements, and what rests  *)
(* on that: that the jumps of IF, DO and FOR land, that no jump is left    *)
(* open when compile() returns without an error, that an exit ends the     *)
(* code, and that the patch table implements the abstract assembler of     *)
(* Fixups.                                                                 *)
(***************************************************************************)
EXTENDS Codegen, TLAPS

-----------------------------------------------------------------------------
(* Facts about 16-bit words and sequences.                                 *)

\* The segment is not empty.
LEMMA SegmentPositive == Segment \in Nat /\ Segment > 0
  BY DEF Segment

\* A remainder lies below the divisor.
LEMMA ModRange ==
  ASSUME NEW n \in Nat, n > 0, NEW x \in Int
  PROVE  x % n \in 0 .. n - 1
  OBVIOUS

\* Quotient and remainder make up the dividend.
LEMMA ModDiv ==
  ASSUME NEW n \in Nat, n > 0, NEW x \in Int
  PROVE  x \div n \in Int /\ x % n = x - n * (x \div n)
  OBVIOUS

\* Whole multiples of the divisor leave the remainder as it is.
LEMMA ModShift ==
  ASSUME NEW n \in Nat, n > 0, NEW t \in 0 .. n - 1, NEW k \in Int
  PROVE  (t - n * k) % n = t
  OBVIOUS

\* Wrap yields a word.
LEMMA WrapWord == \A x \in Int : Wrap(x) \in Word16
  BY SegmentPositive, ModRange DEF Wrap, Word16

\* A number below the segment size is its own word.
LEMMA WrapSmall ==
  ASSUME NEW x \in Nat, x < Segment
  PROVE  Wrap(x) = x /\ x \in Word16
  <1>1. x \in 0 .. Segment - 1
    BY SegmentPositive
  <1>2. (x - Segment * 0) % Segment = x
    BY <1>1, SegmentPositive, ModShift
  <1>3. x - Segment * 0 = x
    BY SegmentPositive
  <1> QED
    BY <1>1, <1>2, <1>3 DEF Wrap, Word16

\* Words are naturals, naturals are integers, zero is a word.
LEMMA WordNat == Word16 \subseteq Nat /\ Nat \subseteq Int /\ 0 \in Word16
  BY DEF Word16, Segment

\* What patch_jumps and emit_call store is a word, for any two addresses.
LEMMA RelWord ==
  /\ \A t, s \in Int : Rel16(t, s) \in Word16
  /\ \A t, a \in Int : EmitRel(t, a) \in Word16
  BY WrapWord DEF Rel16, EmitRel, LOAD

\* A jump whose word is Rel16(target, site) goes to target.
LEMMA LandRel ==
  ASSUME NEW t \in Word16, NEW s \in Nat
  PROVE  Land(s, Rel16(t, s)) = t
  <1> DEFINE x == t - (s + 2)
             q == x \div Segment
  <1>1. t \in 0 .. Segment - 1 /\ t \in Int /\ x \in Int
    BY SegmentPositive DEF Word16
  <1>2. q \in Int /\ x % Segment = x - Segment * q
    BY <1>1, SegmentPositive, ModDiv
  <1> HIDE DEF q
  <1>3. s + 2 + (x - Segment * q) = t - Segment * q
    BY <1>1, <1>2, SegmentPositive
  <1>4. (t - Segment * q) % Segment = t
    BY <1>1, <1>2, SegmentPositive, ModShift
  <1> QED
    BY <1>2, <1>3, <1>4 DEF Land, Rel16, Wrap

\* A sequence over a set is one over any larger set.
LEMMA SeqMono ==
  ASSUME NEW S, NEW T, S \subseteq T, NEW s \in Seq(S)
  PROVE  s \in Seq(T)
  OBVIOUS

\* The top of a stack and what lies below it.
LEMMA SeqParts ==
  ASSUME NEW S, NEW s \in Seq(S), s # <<>>
  PROVE  Head(s) \in S /\ Tail(s) \in Seq(S)
  OBVIOUS

\* Pushing a sequence of frames on a stack gives a stack.
LEMMA SeqJoin ==
  ASSUME NEW S, NEW s \in Seq(S), NEW t \in Seq(S)
  PROVE  s \o t \in Seq(S)
  OBVIOUS

-----------------------------------------------------------------------------
(* Helpers of the compiler.                                                *)

\* The words of the code: offsets to 16-bit values.
Words(w) == DOMAIN w \subseteq Nat /\ \A s \in DOMAIN w : w[s] \in Word16

\* Emitting a word keeps the code well-formed (emit_word).
LEMMA SetWordType ==
  ASSUME NEW w, Words(w), NEW s \in Nat, NEW r \in Word16
  PROVE  Words(SetWord(w, s, r))
  BY DEF SetWord, Words

\* Emitting a word at a site changes no other word (emit_word).
LEMMA SetWordAt ==
  ASSUME NEW w, NEW s, NEW r
  PROVE  /\ DOMAIN SetWord(w, s, r) = DOMAIN w \cup {s}
         /\ SetWord(w, s, r)[s] = r
         /\ \A x \in DOMAIN w : x # s => SetWord(w, s, r)[x] = w[x]
  BY DEF SetWord

\* patch_jumps keeps addresses and code well-formed and adds no word.
LEMMA PatchedType ==
  ASSUME TypeOK, NEW n \in Nodes
  PROVE  /\ PatchedAddr(n) \in [Labels -> Word16]
         /\ DOMAIN PatchedWord(n) = DOMAIN word
         /\ Words(PatchedWord(n))
  <1>1. Wrap(length) \in Word16
    BY WrapWord DEF TypeOK
  <1>2. PatchedAddr(n) \in [Labels -> Word16]
    BY <1>1 DEF TypeOK, PatchedAddr
  <1>3. \A s \in DOMAIN word : Rel16(Wrap(length), s) \in Word16
    BY <1>1, RelWord, WordNat DEF TypeOK
  <1> QED
    BY <1>2, <1>3 DEF TypeOK, PatchedWord, Words

\* The calls of compile_ast on the parts of a sequence are frames.
LEMMA CallsType ==
  ASSUME NEW ns \in Seq(Nodes \cup {NULL})
  PROVE  Calls(ns) \in Seq(Frame)
  <1>1. DOMAIN Calls(ns) = 1 .. Len(ns)
    BY DEF Calls
  <1>2. \A i \in 1 .. Len(ns) : Calls(ns)[i] \in Frame
    BY DEF Calls, Call, Frame
  <1> QED
    BY <1>1, <1>2 DEF Calls

\* The parts of a well-formed program.
LEMMA ProgramParts ==
  ASSUME TypeOK
  PROVE  /\ prog.then \in [Nodes -> Nodes \cup {NULL}]
         /\ prog.else \in [Nodes -> Nodes \cup {NULL}]
         /\ prog.body \in [Nodes -> Seq(Nodes \cup {NULL})]
         /\ prog.top \in Seq(Nodes \cup {NULL})
         /\ prog.form \in [Nodes -> Forms]
         /\ prog.expr \in [Nodes -> Nat]
         /\ prog.to \in [Nodes -> Nat]
         /\ prog.ill \in [Nodes -> BOOLEAN]
         /\ prog.illTo \in [Nodes -> BOOLEAN]
         /\ prog.label \in [Nodes -> Labels]
         /\ prog.target \in [Labels -> Nodes \cup {NULL}]
  BY DEF TypeOK, ProgramType

\* The offsets that a step computes with are naturals.
LEMMA Naturals ==
  ASSUME TypeOK, NEW n \in Nodes
  PROVE  length \in Nat /\ prog.expr[n] \in Nat /\ prog.to[n] \in Nat
  BY ProgramParts DEF TypeOK

\* The frame on top of the stack, and the stack below it.
LEMMA TopFrame ==
  ASSUME TypeOK, todo # <<>>
  PROVE  /\ Head(todo) \in Frame
         /\ Head(todo).op # "ast" => Head(todo).n \in Nodes /\ Head(todo).at \in Nat
         /\ Tail(todo) \in Seq(Frame)
  <1>1. Head(todo) \in Frame /\ Tail(todo) \in Seq(Frame)
    BY SeqParts DEF TypeOK
  <1> QED
    BY <1>1 DEF Frame

\* A call of compile_ast replaces the top frame by frames of its own.
LEMMA PushType ==
  ASSUME TypeOK, todo # <<>>, NEW fs \in Seq(Frame)
  PROVE  fs \o Tail(todo) \in Seq(Frame)
  BY TopFrame, SeqJoin

\* Recording where a point of the tree begins keeps the history typed.
LEMMA MarkType ==
  ASSUME TypeOK, NEW p \in Points, NEW v \in Nat
  PROVE  [mark EXCEPT ![p] = v] \in [Points -> Nat]
  BY DEF TypeOK

\* When make_entry has run and compile_ast has not, the state has its types.
THEOREM InitTypeOK == Init => TypeOK
  <1> SUFFICES ASSUME Init PROVE TypeOK
    OBVIOUS
  <1>1. prog \in ProgramType
    BY ProgramsAssumption DEF Init
  <1>2. prog.top \in Seq(Nodes \cup {NULL}) /\ prog.blob \in Nat
    BY <1>1 DEF ProgramType
  <1>3. todo \in Seq(Frame)
    BY <1>2, CallsType DEF Init
  <1>4. length \in Nat
    BY <1>2 DEF Init, EntryLength, RUNTIMELEN
  <1>5. 0 \in Word16
    BY DEF Word16, Segment
  <1>6. DOMAIN word \subseteq Nat /\ \A s \in DOMAIN word : word[s] \in Word16
    BY DEF Init
  <1>7. addr \in [Labels -> Word16] /\ ramstart \in Word16
    BY <1>5 DEF Init
  <1>8. mark \in [Points -> Nat]
    BY DEF Init
  <1>9. tail \in 0 .. 255 /\ phase \in {"ast", "done"}
    BY DEF Init
  <1>10. err = FALSE /\ patches = {} /\ jumps = {}
    BY DEF Init
  <1> QED
    BY <1>1, <1>3, <1>4, <1>6, <1>7, <1>8, <1>9, <1>10 DEF TypeOK

-----------------------------------------------------------------------------
(* Every step keeps the types: one lemma per action.                       *)

\* What every call of compile_ast does first keeps the types.
LEMMA CalledType ==
  ASSUME TypeOK, NEW n \in Nodes, NEW K, Called(n, K)
  PROVE  /\ todo # <<>>
         /\ prog' \in ProgramType
         /\ addr' \in [Labels -> Word16]
         /\ phase' \in {"ast", "done"}
         /\ ramstart' \in Word16
         /\ [mark EXCEPT ![<<"start", n>>] = length] \in [Points -> Nat]
         /\ Tail(todo) \in Seq(Frame)
  <1>1. <<"start", n>> \in Points
    BY DEF Points
  <1>2. todo # <<>>
    BY DEF Called
  <1> QED
    BY <1>1, <1>2, TopFrame, PatchedType, MarkType DEF Called, TypeOK

\* What a caller finds when its child has returned is typed.
LEMMA ResumedType ==
  ASSUME TypeOK, NEW op \in {"else", "fi", "loop", "next"}, Resumed(op)
  PROVE  /\ todo # <<>>
         /\ prog' \in ProgramType
         /\ addr' \in [Labels -> Word16]
         /\ patches' \subseteq [id : Labels, addr : Word16]
         /\ phase' \in {"ast", "done"}
         /\ ramstart' \in Word16
         /\ Head(todo).n \in Nodes
         /\ Head(todo).at \in Nat
         /\ Tail(todo) \in Seq(Frame)
  <1>1. todo # <<>> /\ Head(todo).op # "ast"
    BY DEF Resumed
  <1> QED
    BY <1>1, TopFrame DEF Resumed, TypeOK

\* compile_ast(NULL) keeps the types.
LEMMA NothingType == TypeOK /\ CompileNothing => TypeOK'
  <1> SUFFICES ASSUME TypeOK, CompileNothing PROVE TypeOK'
    OBVIOUS
  <1>1. todo' \in Seq(Frame)
    BY TopFrame DEF CompileNothing
  <1> QED
    BY <1>1 DEF CompileNothing, TypeOK

\* The length of an assignment is a natural.
LEMMA AssignLengthNat ==
  ASSUME TypeOK, NEW n \in Nodes
  PROVE  AssignLength(n) \in Nat
  BY ProgramParts DEF AssignLength

\* compile_assign to a number keeps the types.
LEMMA AssignType ==
  ASSUME TypeOK, NEW n \in Nodes, CompileAssign(n) PROVE TypeOK'
  <1>1. Called(n, {"assign"})
    BY DEF CompileAssign
  <1>2. todo' \in Seq(Frame) /\ mark' \in [Points -> Nat]
    BY <1>1, CalledType DEF CompileAssign
  <1>3. length' \in Nat /\ tail' \in 0 .. 255
    BY AssignLengthNat DEF CompileAssign, TypeOK
  <1>4. Words(word')
    BY PatchedType DEF CompileAssign
  <1>5. err' \in BOOLEAN
    BY DEF CompileAssign
  <1>6. /\ patches' \subseteq [id : Labels, addr : Word16]
        /\ jumps' \subseteq [site : Nat, to : Points]
    BY DEF CompileAssign, TypeOK
  <1> QED
    BY <1>1, <1>2, <1>3, <1>4, <1>5, <1>6, CalledType DEF TypeOK, Words

\* compile_assign to a string keeps the types.
LEMMA CopyType ==
  ASSUME TypeOK, NEW n \in Nodes, CompileCopy(n) PROVE TypeOK'
  <1>1. Called(n, {"copy"})
    BY DEF CompileCopy
  <1>2. todo' \in Seq(Frame) /\ mark' \in [Points -> Nat]
    BY <1>1, CalledType DEF CompileCopy
  <1>3. length + prog.expr[n] + 4 \in Nat /\ length + prog.expr[n] \in Nat
    BY SMTT(30), ProgramParts DEF TypeOK
  <1>4. length' \in Nat
    BY SMTT(30), <1>3 DEF CompileCopy
  <1>5. EmitRel(57, length + prog.expr[n] + 4) \in Word16
    BY <1>3, RelWord, WordNat
  <1>6. Words(word')
    BY SMTT(30), <1>3, <1>5, PatchedType, SetWordType DEF CompileCopy
  <1>7. err' \in BOOLEAN
    BY DEF CompileCopy
  <1>8. /\ patches' \subseteq [id : Labels, addr : Word16]
        /\ jumps' \subseteq [site : Nat, to : Points]
        /\ tail' \in 0 .. 255
    BY DEF CompileCopy, TypeOK
  <1> QED
    BY <1>1, <1>2, <1>4, <1>6, <1>7, <1>8, CalledType DEF TypeOK, Words

\* compile_print keeps the types.
LEMMA PrintType ==
  ASSUME TypeOK, NEW n \in Nodes, CompilePrint(n) PROVE TypeOK'
  <1> DEFINE call  == length + prog.expr[n] + ConversionOf(n)
             first == SetWord(PatchedWord(n), call + 1, EmitRel(PRINTSTR, call))
             again == call + 15
  <1>1. Called(n, {"print", "println"})
    BY DEF CompilePrint
  <1>2. todo' \in Seq(Frame) /\ mark' \in [Points -> Nat]
    BY <1>1, CalledType DEF CompilePrint
  <1>3. ConversionOf(n) \in Nat
    BY ProgramParts DEF Conversion, ConversionOf
  <1>4. length + prog.expr[n] \in Nat /\ call \in Nat
    BY SMTT(30), <1>3, ProgramParts DEF TypeOK
  <1>5. EmitRel(PRINTSTR, call) \in Word16 /\ EmitRel(PRINTSTR, again) \in Word16
    BY <1>4, RelWord DEF PRINTSTR
  <1>6. call + 1 \in Nat /\ call + 3 \in Nat /\ again + 1 \in Nat /\ again + 3 \in Nat
    BY <1>4
  <1>7. Words(first) /\ Words(SetWord(first, again + 1, EmitRel(PRINTSTR, again)))
    BY <1>5, <1>6, PatchedType, SetWordType
  <1>8. prog.kind[n] \in {"print", "println"}
    BY <1>1 DEF Called
  <1>9. length' \in Nat /\ Words(word')
    <2>1. CASE PrintRejects(n)
      BY <2>1, <1>4, PatchedType DEF CompilePrint
    <2>2. CASE ~PrintRejects(n) /\ prog.kind[n] = "print"
      BY <2>2, <1>6, <1>7 DEF CompilePrint
    <2>3. CASE ~PrintRejects(n) /\ prog.kind[n] = "println"
      BY <2>3, <1>6, <1>7 DEF CompilePrint
    <2> QED
      BY <1>8, <2>1, <2>2, <2>3
  <1>10. err' \in BOOLEAN
    BY DEF CompilePrint
  <1>11. /\ patches' \subseteq [id : Labels, addr : Word16]
         /\ jumps' \subseteq [site : Nat, to : Points]
         /\ tail' \in 0 .. 255
    BY DEF CompilePrint, TypeOK
  <1> QED
    BY <1>1, <1>2, <1>9, <1>10, <1>11, CalledType DEF TypeOK, Words

\* compile_end and compile_return keep the types.
LEMMA EndType ==
  ASSUME TypeOK, NEW n \in Nodes, CompileEnd(n) PROVE TypeOK'
  <1>1. Called(n, {"end", "return"})
    BY DEF CompileEnd
  <1>2. todo' \in Seq(Frame) /\ mark' \in [Points -> Nat]
    BY <1>1, CalledType DEF CompileEnd
  <1>3. length' \in Nat /\ tail' \in 0 .. 255
    BY DEF CompileEnd, TypeOK, ExitLength
  <1>4. Words(word')
    BY PatchedType DEF CompileEnd
  <1>5. /\ patches' \subseteq [id : Labels, addr : Word16]
        /\ jumps' \subseteq [site : Nat, to : Points]
    BY DEF CompileEnd, TypeOK
  <1>6. err' \in BOOLEAN
    BY DEF CompileEnd, TypeOK
  <1> QED
    BY <1>1, <1>2, <1>3, <1>4, <1>5, <1>6, CalledType DEF TypeOK, Words

\* compile_goto and compile_gosub keep the types.
LEMMA GotoType ==
  ASSUME TypeOK, NEW n \in Nodes, CompileGoto(n) PROVE TypeOK'
  <1> DEFINE id == prog.label[n]
  <1>1. Called(n, {"goto", "gosub"})
    BY DEF CompileGoto
  <1>2. todo' \in Seq(Frame) /\ mark' \in [Points -> Nat]
    BY <1>1, CalledType DEF CompileGoto
  <1>3. id \in Labels /\ <<"start", prog.target[id]>> \in Points
    BY ProgramParts DEF Points
  <1>4. length \in Nat /\ length + 1 \in Nat /\ length + 3 \in Nat
    BY DEF TypeOK
  <1>5. Wrap(length + 1) \in Word16 /\ 0 \in Word16
    BY <1>4, WrapWord, WordNat
  <1>6. EmitRel(PatchedAddr(n)[id], length) \in Word16
    BY <1>3, <1>4, PatchedType, RelWord, WordNat
  <1>7. Words(PatchedWord(n))
    BY PatchedType
  <1>8. tail' \in 0 .. 255
    BY DEF CompileGoto, TypeOK
  <1>9. Jump(n) => /\ length' \in Nat
                   /\ jumps' \subseteq [site : Nat, to : Points]
                   /\ err' \in BOOLEAN
    <2>1. Jump(n) => length' \in Nat
      BY <1>4 DEF Jump
    <2>2. Jump(n) => jumps' \subseteq [site : Nat, to : Points]
      <3>1. [site |-> length + 1, to |-> <<"start", prog.target[id]>>]
               \in [site : Nat, to : Points]
        BY <1>3, <1>4
      <3> QED
        BY <3>1 DEF Jump, TypeOK
    <2>3. Jump(n) => err' \in BOOLEAN
      BY DEF Jump, TypeOK
    <2> QED
      BY <2>1, <2>2, <2>3
  <1>10. CASE ~prog.isreal[id]
    <2>1. length' = length /\ patches' = patches /\ jumps' = jumps
          /\ word' = PatchedWord(n) /\ err' = TRUE
      BY <1>10 DEF CompileGoto
    <2> QED
      BY <2>1, <1>1, <1>2, <1>7, <1>8, CalledType DEF TypeOK, Words
  <1>11. CASE prog.isreal[id] /\ PatchedAddr(n)[id] # 0
    <2>1. Jump(n) /\ patches' = patches
          /\ word' = SetWord(PatchedWord(n), length + 1, EmitRel(PatchedAddr(n)[id], length))
      BY <1>11 DEF CompileGoto
    <2>2. Words(word')
      BY <2>1, <1>4, <1>6, <1>7, SetWordType
    <2> QED
      BY <2>1, <2>2, <1>1, <1>2, <1>8, <1>9, CalledType DEF TypeOK, Words
  <1>12. CASE prog.isreal[id] /\ PatchedAddr(n)[id] = 0
    <2>1. Jump(n) /\ patches' = patches \cup {[id |-> id, addr |-> Wrap(length + 1)]}
          /\ word' = SetWord(PatchedWord(n), length + 1, 0)
      BY <1>12 DEF CompileGoto
    <2>2. Words(word')
      BY <2>1, <1>4, <1>5, <1>7, SetWordType
    <2>3. patches' \subseteq [id : Labels, addr : Word16]
      BY <2>1, <1>3, <1>5 DEF TypeOK
    <2> QED
      BY <2>1, <2>2, <2>3, <1>1, <1>2, <1>8, <1>9, CalledType DEF TypeOK, Words
  <1> QED
    BY <1>10, <1>11, <1>12 DEF CompileGoto

\* compile_if up to its THEN branch keeps the types.
LEMMA IfType ==
  ASSUME TypeOK, NEW n \in Nodes, CompileIf(n) PROVE TypeOK'
  <1> DEFINE site == length + prog.expr[n] + 4
             fs   == << Call(prog.then[n]),
                        [op |-> "else", n |-> n, at |-> site] >>
  <1>1. Called(n, {"if"})
    BY DEF CompileIf
  <1>2. site \in Nat /\ site + 2 \in Nat
    BY Naturals
  <1>3. todo' \in Seq(Frame)
    <2>1. prog.then[n] \in Nodes \cup {NULL}
      BY ProgramParts
    <2>2. fs \in Seq(Frame)
      BY <1>2, <2>1 DEF Frame, Call
    <2> QED
      BY <2>2, <1>1, CalledType, PushType DEF CompileIf
  <1>4. mark' \in [Points -> Nat]
    BY <1>1, CalledType DEF CompileIf
  <1>5. Words(word')
    BY <1>2, PatchedType, SetWordType, WordNat DEF CompileIf
  <1>6. length' \in Nat
    BY <1>2 DEF CompileIf
  <1>7. jumps' \subseteq [site : Nat, to : Points]
    BY <1>2 DEF CompileIf, TypeOK, Points
  <1>8. patches' \subseteq [id : Labels, addr : Word16] /\ tail' \in 0 .. 255
    BY DEF CompileIf, TypeOK
  <1>9. err' \in BOOLEAN
    BY DEF CompileIf
  <1> QED
    BY <1>1, <1>3, <1>4, <1>5, <1>6, <1>7, <1>8, <1>9, CalledType DEF TypeOK, Words

\* compile_do up to its body keeps the types.
LEMMA DoType ==
  ASSUME TypeOK, NEW n \in Nodes, CompileDo(n) PROVE TypeOK'
  <1> DEFINE fs == << [op |-> "loop", n |-> n, at |-> Wrap(length)] >>
  <1>1. Called(n, {"do"})
    BY DEF CompileDo
  <1>2. Wrap(length) \in Nat /\ length \in Nat
    BY WrapWord, WordNat DEF TypeOK
  <1>3. todo' \in Seq(Frame)
    <2>1. fs \in Seq(Frame)
      BY <1>2 DEF Frame
    <2>2. Calls(prog.body[n]) \in Seq(Frame)
      BY ProgramParts, CallsType
    <2>3. Calls(prog.body[n]) \o fs \in Seq(Frame)
      BY <2>1, <2>2, SeqJoin
    <2> QED
      BY <2>3, <1>1, CalledType, PushType DEF CompileDo
  <1>4. mark' \in [Points -> Nat]
    BY <1>2 DEF CompileDo, TypeOK
  <1>5. Words(word')
    BY PatchedType DEF CompileDo
  <1>6. length' \in Nat /\ tail' \in 0 .. 255
    BY DEF CompileDo, TypeOK
  <1>7. /\ patches' \subseteq [id : Labels, addr : Word16]
        /\ jumps' \subseteq [site : Nat, to : Points]
    BY DEF CompileDo, TypeOK
  <1>8. err' \in BOOLEAN
    BY DEF CompileDo, TypeOK
  <1> QED
    BY <1>1, <1>3, <1>4, <1>5, <1>6, <1>7, <1>8, CalledType DEF TypeOK, Words

\* compile_for up to its body keeps the types.
LEMMA ForType ==
  ASSUME TypeOK, NEW n \in Nodes, CompileFor(n) PROVE TypeOK'
  <1> DEFINE start == length + AssignLength(n)
             fs    == << [op |-> "next", n |-> n, at |-> Wrap(start)] >>
  <1>1. Called(n, {"for"})
    BY DEF CompileFor
  <1>2. start \in Nat /\ length \in Nat
    BY AssignLengthNat DEF TypeOK
  <1>3. Wrap(start) \in Nat
    BY <1>2, WrapWord, WordNat
  <1>4. todo' \in Seq(Frame)
    <2>1. fs \in Seq(Frame)
      BY <1>3 DEF Frame
    <2>2. Calls(prog.body[n]) \in Seq(Frame)
      BY ProgramParts, CallsType
    <2>3. Calls(prog.body[n]) \o fs \in Seq(Frame)
      BY <2>1, <2>2, SeqJoin
    <2> QED
      BY <2>3, <1>1, CalledType, PushType DEF CompileFor
  <1>5. mark' \in [Points -> Nat]
    BY <1>2 DEF CompileFor, TypeOK
  <1>6. Words(word')
    BY PatchedType DEF CompileFor
  <1>7. length' \in Nat /\ tail' \in 0 .. 255
    BY <1>2 DEF CompileFor
  <1>8. /\ patches' \subseteq [id : Labels, addr : Word16]
        /\ jumps' \subseteq [site : Nat, to : Points]
    BY DEF CompileFor, TypeOK
  <1>9. err' \in BOOLEAN
    BY DEF CompileFor
  <1> QED
    BY <1>1, <1>4, <1>5, <1>6, <1>7, <1>8, <1>9, CalledType DEF TypeOK, Words

\* compile_if between its branches keeps the types.
LEMMA ElseType == TypeOK /\ ResumeIfWithElse => TypeOK'
  <1> SUFFICES ASSUME TypeOK, ResumeIfWithElse PROVE TypeOK'
    OBVIOUS
  <1> DEFINE f  == Head(todo)
             fs == << Call(prog.else[f.n]),
                      [op |-> "fi", n |-> f.n, at |-> length + 1] >>
  <1>1. Resumed("else")
    BY DEF ResumeIfWithElse
  <1>2. f.n \in Nodes /\ f.at \in Nat /\ todo # <<>>
    BY <1>1, ResumedType
  <1>3. length \in Nat /\ length + 1 \in Nat /\ length + 3 \in Nat
    BY DEF TypeOK
  <1>4. todo' \in Seq(Frame)
    <2>1. prog.else[f.n] \in Nodes \cup {NULL}
      BY <1>2, ProgramParts
    <2>2. fs \in Seq(Frame)
      BY <1>2, <1>3, <2>1 DEF Frame, Call
    <2> QED
      BY <2>2, <1>2, PushType DEF ResumeIfWithElse
  <1>5. ElseRel(f.at) \in Word16
    <2>1. length + 3 - (f.at + 2) \in Int
      BY <1>2, <1>3
    <2> QED
      BY <2>1, WrapWord DEF ElseRel
  <1>6. Words(word')
    <2>1. Words(SetWord(word, length + 1, 0))
      BY <1>3, SetWordType, WordNat DEF TypeOK, Words
    <2> QED
      BY <2>1, <1>2, <1>5, SetWordType DEF ResumeIfWithElse
  <1>7. mark' \in [Points -> Nat]
    BY <1>2, <1>3 DEF ResumeIfWithElse, TypeOK
  <1>8. jumps' \subseteq [site : Nat, to : Points]
    BY <1>2, <1>3 DEF ResumeIfWithElse, TypeOK, Points
  <1>9. length' \in Nat /\ tail' \in 0 .. 255
    BY <1>3 DEF ResumeIfWithElse, TypeOK
  <1>10. err' \in BOOLEAN
    BY DEF ResumeIfWithElse, TypeOK
  <1> QED
    BY <1>1, <1>4, <1>6, <1>7, <1>8, <1>9, <1>10, ResumedType DEF TypeOK, Words

\* compile_if after its branches keeps the types.
LEMMA FiType == TypeOK /\ ResumeIfAtEnd => TypeOK'
  <1> SUFFICES ASSUME TypeOK, ResumeIfAtEnd PROVE TypeOK'
    OBVIOUS
  <1> DEFINE f == Head(todo)
  <1>1. Resumed("fi")
    BY DEF ResumeIfAtEnd
  <1>2. f.n \in Nodes /\ f.at \in Nat
    BY <1>1, ResumedType
  <1>3. FiRel(f.at) \in Word16
    BY <1>2, WrapWord DEF FiRel, TypeOK
  <1>4. Words(word')
    BY <1>2, <1>3, SetWordType DEF ResumeIfAtEnd, TypeOK, Words
  <1>5. todo' \in Seq(Frame)
    BY <1>1, ResumedType DEF ResumeIfAtEnd
  <1>6. mark' \in [Points -> Nat]
    BY <1>2 DEF ResumeIfAtEnd, TypeOK
  <1>7. length' \in Nat /\ tail' \in 0 .. 255 /\ jumps' \subseteq [site : Nat, to : Points]
    BY DEF ResumeIfAtEnd, TypeOK
  <1>8. err' \in BOOLEAN
    BY DEF ResumeIfAtEnd, TypeOK
  <1> QED
    BY <1>1, <1>4, <1>5, <1>6, <1>7, <1>8, ResumedType DEF TypeOK, Words

\* compile_do after its body keeps the types.
LEMMA LoopType == TypeOK /\ ResumeDo => TypeOK'
  <1> SUFFICES ASSUME TypeOK, ResumeDo PROVE TypeOK'
    OBVIOUS
  <1> DEFINE f    == Head(todo)
             site == IF prog.form[f.n] = "ENDLESS"
                     THEN length + 1
                     ELSE length + prog.expr[f.n] + 4
             rel  == IF prog.form[f.n] = "ENDLESS"
                     THEN EmitRel(LOAD + f.at, length)
                     ELSE LoopRel(f.n, f.at)
  <1>1. Resumed("loop")
    BY DEF ResumeDo
  <1>2. f.n \in Nodes /\ f.at \in Nat
    BY <1>1, ResumedType
  <1>3. length \in Nat /\ prog.expr[f.n] \in Nat
    BY <1>2, Naturals
  <1>4. site \in Nat /\ site + 2 \in Nat
    BY <1>3
  <1>5. EmitRel(LOAD + f.at, length) \in Word16
    BY <1>2, <1>3, RelWord DEF LOAD
  <1>6. LoopRel(f.n, f.at) \in Word16
    BY SMTT(30), <1>2, <1>3, WrapWord DEF LoopRel
  <1>7. Words(word')
    <2>1. rel \in Word16
      BY <1>5, <1>6
    <2>2. word' = SetWord(word, site, rel)
      BY DEF ResumeDo
    <2> QED
      BY <2>1, <2>2, <1>4, SetWordType DEF TypeOK, Words
  <1>8. todo' \in Seq(Frame)
    BY <1>1, ResumedType DEF ResumeDo
  <1>9. jumps' \subseteq [site : Nat, to : Points]
    <2>1. [site |-> site, to |-> <<"body", f.n>>] \in [site : Nat, to : Points]
      BY <1>2, <1>4 DEF Points
    <2>2. jumps' = jumps \cup {[site |-> site, to |-> <<"body", f.n>>]}
      BY DEF ResumeDo
    <2> QED
      BY <2>1, <2>2 DEF TypeOK
  <1>10. length' \in Nat
    BY SMTT(30), <1>4 DEF ResumeDo
  <1>11. tail' \in 0 .. 255 /\ mark' \in [Points -> Nat]
    BY SMTT(30) DEF ResumeDo, TypeOK
  <1>12. err' \in BOOLEAN
    BY DEF ResumeDo
  <1> QED
    BY SMTT(30), <1>1, <1>7, <1>8, <1>9, <1>10, <1>11, <1>12, ResumedType DEF TypeOK, Words

\* compile_for after its body keeps the types.
LEMMA NextType == TypeOK /\ ResumeFor => TypeOK'
  <1> SUFFICES ASSUME TypeOK, ResumeFor PROVE TypeOK'
    OBVIOUS
  <1> DEFINE f    == Head(todo)
             site == length + 4 + prog.to[f.n] + 8 + 2
  <1>1. Resumed("next")
    BY DEF ResumeFor
  <1>2. f.n \in Nodes /\ f.at \in Nat
    BY <1>1, ResumedType
  <1>3. length \in Nat /\ prog.to[f.n] \in Nat
    BY <1>2, Naturals
  <1>4. site \in Nat /\ site + 2 \in Nat /\ length + 4 + prog.to[f.n] \in Nat
    BY <1>3
  <1>5. NextRel(site, f.at) \in Word16
    BY <1>2, <1>4, WrapWord DEF NextRel
  <1>6. todo' \in Seq(Frame)
    BY <1>1, ResumedType DEF ResumeFor
  <1>7. tail' \in 0 .. 255 /\ mark' \in [Points -> Nat]
    BY DEF ResumeFor, TypeOK
  <1>8. CASE prog.illTo[f.n]
    <2>1. length' \in Nat /\ word' = word /\ jumps' = jumps /\ err' = TRUE
      BY <1>4, <1>8 DEF ResumeFor
    <2> QED
      BY <2>1, <1>1, <1>6, <1>7, ResumedType DEF TypeOK
  <1>9. CASE ~prog.illTo[f.n]
    <2>1. length' \in Nat
      BY SMTT(30), <1>4, <1>9 DEF ResumeFor
    <2>2. Words(word')
      BY <1>4, <1>5, <1>9, SetWordType DEF ResumeFor, TypeOK, Words
    <2>3. jumps' \subseteq [site : Nat, to : Points]
      <3>1. [site |-> site, to |-> <<"body", f.n>>] \in [site : Nat, to : Points]
        BY <1>2, <1>4 DEF Points
      <3>2. jumps' = jumps \cup {[site |-> site, to |-> <<"body", f.n>>]}
        BY <1>9 DEF ResumeFor
      <3> QED
        BY <3>1, <3>2 DEF TypeOK
    <2>4. err' \in BOOLEAN
      BY <1>9 DEF ResumeFor, TypeOK
    <2> QED
      BY <2>1, <2>2, <2>3, <2>4, <1>1, <1>6, <1>7, ResumedType DEF TypeOK, Words
  <1> QED
    BY <1>8, <1>9

\* The end of compile() keeps the types.
LEMMA FinishType == TypeOK /\ Finish => TypeOK'
  <1> SUFFICES ASSUME TypeOK, Finish PROVE TypeOK'
    OBVIOUS
  <1>1. FinishedLength \in Nat /\ length \in Nat
    BY DEF TypeOK, FinishedLength, ExitLength
  <1>2. ramstart' \in Word16
    BY <1>1, WrapWord DEF Finish, LOAD
  <1>3. mark' \in [Points -> Nat]
    BY <1>1 DEF Finish, TypeOK
  <1>4. length' \in Nat /\ tail' \in 0 .. 255 /\ phase' \in {"ast", "done"}
    BY <1>1 DEF Finish
  <1>5. err' \in BOOLEAN
    BY DEF Finish, TypeOK
  <1> QED
    BY <1>2, <1>3, <1>4, <1>5 DEF Finish, TypeOK

\* The state of the statement compiler always has its types.
THEOREM TypeCorrect == Spec => []TypeOK
  <1>1. Init => TypeOK
    BY InitTypeOK
  <1>2. TypeOK /\ [Next]_vars => TypeOK'
    <2> SUFFICES ASSUME TypeOK, [Next]_vars PROVE TypeOK'
      OBVIOUS
    <2>1. CASE CompileNothing
      BY <2>1, NothingType
    <2>2. CASE \E n \in Nodes : CompileAssign(n) \/ CompileCopy(n) \/ CompilePrint(n)
                                \/ CompileEnd(n) \/ CompileGoto(n)
      BY <2>2, AssignType, CopyType, PrintType, EndType, GotoType
    <2>3. CASE \E n \in Nodes : CompileIf(n) \/ CompileDo(n) \/ CompileFor(n)
      BY <2>3, IfType, DoType, ForType
    <2>4. CASE ResumeIfWithElse
      BY <2>4, ElseType
    <2>5. CASE ResumeIfAtEnd
      BY <2>5, FiType
    <2>6. CASE ResumeDo
      BY <2>6, LoopType
    <2>7. CASE ResumeFor
      BY <2>7, NextType
    <2>8. CASE Finish
      BY <2>8, FinishType
    <2>9. CASE UNCHANGED vars
      BY <2>9 DEF vars, TypeOK
    <2> QED
      BY <2>1, <2>2, <2>3, <2>4, <2>5, <2>6, <2>7, <2>8, <2>9 DEF Next
  <1> QED
    BY <1>1, <1>2, PTL DEF Spec

-----------------------------------------------------------------------------
(***************************************************************************)
(* Every GOTO and GOSUB compiled before its label goes to the label.       *)
(*                                                                         *)
(* ForwardJumpsLand speaks of the code and of the history variable mark;   *)
(* what makes it inductive is Linked: patch entries name distinct words of *)
(* the code, no word that an IF still has to patch is one of them, addr is *)
(* the place where the target of a label was compiled, and a patch entry   *)
(* of a label with an addr holds the distance to it.                       *)
(***************************************************************************)

SafeFrames ==
    { f \in Frame : f.op \in {"else", "fi"} =>
                       f.at \in DOMAIN word /\ \A e \in patches : e.addr # f.at }

SitesInside == \A s \in DOMAIN word : s + 2 <= length

PatchesAreWords ==
    /\ \A e \in patches : e.addr \in DOMAIN word
    /\ \A e, f \in patches : e.addr = f.addr => e = f

AddrIsMark ==
    \A l \in Labels :
       addr[l] = IF prog.target[l] = NULL THEN 0
                 ELSE mark[<<"start", prog.target[l]>>]

PatchedOnceKnown ==
    \A e \in patches : addr[e.id] # 0 => word[e.addr] = Rel16(addr[e.id], e.addr)

Linked ==
    /\ todo \in Seq(SafeFrames)
    /\ SitesInside
    /\ PatchesAreWords
    /\ AddrIsMark
    /\ PatchedOnceKnown

JumpInv == TypeOK /\ (Fits => Linked)

-----------------------------------------------------------------------------
\* The invariant says what is claimed.
LEMMA LinkedLands == JumpInv => ForwardJumpsLand
  <1> SUFFICES ASSUME TypeOK, Linked, Fits, NEW e \in patches,
                      prog.target[e.id] # NULL,
                      mark[<<"start", prog.target[e.id]>>] # 0
               PROVE  Goes(e.addr) = mark[<<"start", prog.target[e.id]>>]
    BY DEF JumpInv, ForwardJumpsLand
  <1>1. e.id \in Labels /\ e.addr \in Nat
    BY WordNat DEF TypeOK
  <1>2. addr[e.id] = mark[<<"start", prog.target[e.id]>>]
    BY <1>1 DEF Linked, AddrIsMark
  <1>3. word[e.addr] = Rel16(addr[e.id], e.addr)
    BY <1>2 DEF Linked, PatchedOnceKnown
  <1>4. addr[e.id] \in Word16
    BY <1>1 DEF TypeOK
  <1> QED
    BY <1>1, <1>2, <1>3, <1>4, LandRel DEF Goes

\* The frames of a fresh program name no word, so they are safe.
LEMMA TopCallsAreSafe ==
  ASSUME NEW ns \in Seq(Nodes \cup {NULL})
  PROVE  Calls(ns) \in Seq(SafeFrames)
  <1>1. DOMAIN Calls(ns) = 1 .. Len(ns) /\ Len(ns) \in Nat
    BY DEF Calls
  <1>2. \A i \in 1 .. Len(ns) : Calls(ns)[i] \in SafeFrames
    BY DEF Calls, Call, Frame, SafeFrames
  <1> QED
    BY <1>1, <1>2 DEF Calls

\* Before the first statement nothing is patched or waits to be.
LEMMA InitLinked == Init => Linked
  <1> SUFFICES ASSUME Init PROVE Linked
    OBVIOUS
  <1>1. prog.top \in Seq(Nodes \cup {NULL}) /\ prog.target \in [Labels -> Nodes \cup {NULL}]
    BY InitTypeOK, ProgramParts
  <1>2. todo \in Seq(SafeFrames)
    BY <1>1, TopCallsAreSafe DEF Init
  <1>3. SitesInside /\ PatchesAreWords /\ PatchedOnceKnown
    BY DEF Init, SitesInside, PatchesAreWords, PatchedOnceKnown
  <1>4. AddrIsMark
    BY <1>1 DEF Init, AddrIsMark, Points
  <1> QED
    BY <1>2, <1>3, <1>4 DEF Linked

-----------------------------------------------------------------------------
(* What a step may do without disturbing Linked.                           *)

\* Frames stay safe when words are only added and the new patch entries are
\* at new words.
LEMMA FramesStaySafe ==
  ASSUME DOMAIN word \subseteq DOMAIN word',
         \A e \in patches' : e \in patches \/ e.addr \notin DOMAIN word
  PROVE  SafeFrames \subseteq SafeFrames'
  BY DEF SafeFrames

\* Words at new sites leave the others as they are.
LEMMA SitesAreOld ==
  ASSUME TypeOK, Linked, NEW s \in Nat, s >= length
  PROVE  s \notin DOMAIN word /\ \A e \in patches : e.addr # s
  <1>1. \A x \in DOMAIN word : x \in Nat /\ x + 2 <= length
    BY DEF TypeOK, Linked, SitesInside
  <1>2. s \notin DOMAIN word
    BY <1>1 DEF TypeOK
  <1> QED
    BY <1>2 DEF Linked, PatchesAreWords

\* patch_jumps resolves every entry of the labels on n, and gives them n's place.
LEMMA PatchedLinked ==
  ASSUME TypeOK, Linked, Fits, NEW n \in Nodes
  PROVE  /\ \A e \in patches : PatchedAddr(n)[e.id] # 0 =>
               PatchedWord(n)[e.addr] = Rel16(PatchedAddr(n)[e.id], e.addr)
         /\ \A l \in Labels : PatchedAddr(n)[l] =
               IF prog.target[l] = n THEN length ELSE addr[l]
  <1>1. Wrap(length) = length
    BY WrapSmall DEF TypeOK, Fits
  <1>2. \A l \in Labels : PatchedAddr(n)[l] =
               IF prog.target[l] = n THEN length ELSE addr[l]
    BY <1>1 DEF PatchedAddr
  <1>3. ASSUME NEW e \in patches, PatchedAddr(n)[e.id] # 0
        PROVE  PatchedWord(n)[e.addr] = Rel16(PatchedAddr(n)[e.id], e.addr)
    <2>1. e.id \in Labels /\ e.addr \in DOMAIN word
      BY DEF TypeOK, Linked, PatchesAreWords
    <2>2. CASE prog.target[e.id] = n
      BY <1>1, <1>2, <2>1, <2>2 DEF PatchedWord
    <2>3. CASE prog.target[e.id] # n
      <3>1. ~ \E d \in patches : d.addr = e.addr /\ prog.target[d.id] = n
        BY <2>3 DEF Linked, PatchesAreWords
      <3>2. PatchedWord(n)[e.addr] = word[e.addr]
        BY <2>1, <3>1 DEF PatchedWord
      <3> QED
        BY <1>2, <1>3, <2>1, <2>3, <3>2 DEF Linked, PatchedOnceKnown
    <2> QED
      BY <2>2, <2>3
  <1> QED
    BY <1>2, <1>3

\* A call of compile_ast on n that adds words after the old code, and patch
\* entries for some of them to labels without an addr, keeps Linked.
LEMMA CalledKeeps ==
  ASSUME TypeOK, TypeOK', Linked, Fits,
         NEW n \in Nodes, NEW K, Called(n, K),
         \A m \in Nodes : mark'[<<"start", m>>] =
                             IF m = n THEN length ELSE mark[<<"start", m>>],
         DOMAIN word \subseteq DOMAIN word',
         \A s \in DOMAIN word : word'[s] = PatchedWord(n)[s],
         \A s \in DOMAIN word' : s \in DOMAIN word \/ (s >= length /\ s + 2 <= length'),
         length <= length',
         patches \subseteq patches',
         \A e \in patches' \ patches :
            /\ e.addr \in DOMAIN word'
            /\ e.addr >= length
            /\ addr'[e.id] = 0,
         \A d, e \in patches' \ patches : d = e,
         todo' \in Seq(SafeFrames')
  PROVE  Linked'
  <1>1. SitesInside'
    BY DEF TypeOK, Linked, SitesInside
  <1>2. \A e \in patches' \ patches : e.addr \notin DOMAIN word
                                      /\ \A d \in patches : d.addr # e.addr
    <2> SUFFICES ASSUME NEW e \in patches' \ patches
                 PROVE  e.addr \notin DOMAIN word /\ \A d \in patches : d.addr # e.addr
      OBVIOUS
    <2>1. e.addr \in Nat /\ e.addr >= length
      BY WordNat DEF TypeOK
    <2> QED
      BY <2>1, SitesAreOld
  <1>3. PatchesAreWords'
    BY <1>2 DEF Linked, PatchesAreWords
  <1>4. addr' = PatchedAddr(n) /\ prog' = prog
    BY DEF Called
  <1>5. AddrIsMark'
    <2> SUFFICES ASSUME NEW l \in Labels
                 PROVE  addr'[l] = IF prog.target[l] = NULL THEN 0
                                   ELSE mark'[<<"start", prog.target[l]>>]
      BY <1>4 DEF AddrIsMark
    <2>1. prog.target[l] \in Nodes \cup {NULL}
      BY ProgramParts
    <2>2. addr'[l] = IF prog.target[l] = n THEN length ELSE addr[l]
      BY <1>4, PatchedLinked
    <2>3. addr[l] = IF prog.target[l] = NULL THEN 0
                    ELSE mark[<<"start", prog.target[l]>>]
      BY DEF Linked, AddrIsMark
    <2> QED
      BY <2>1, <2>2, <2>3, NullAssumption
  <1>6. PatchedOnceKnown'
    <2> SUFFICES ASSUME NEW e \in patches', addr'[e.id] # 0
                 PROVE  word'[e.addr] = Rel16(addr'[e.id], e.addr)
      BY DEF PatchedOnceKnown
    <2>1. e \in patches
      OBVIOUS
    <2>2. e.addr \in DOMAIN word
      BY <2>1 DEF Linked, PatchesAreWords
    <2> QED
      BY <1>4, <2>1, <2>2, PatchedLinked
  <1> QED
    BY <1>1, <1>3, <1>5, <1>6 DEF Linked

\* A step that resumes a caller, adds words after the old code and rewrites
\* none that a patch entry names keeps Linked.
LEMMA ResumedKeeps ==
  ASSUME TypeOK, TypeOK', Linked,
         prog' = prog, addr' = addr, patches' = patches,
         \A m \in Nodes : mark'[<<"start", m>>] = mark[<<"start", m>>],
         DOMAIN word \subseteq DOMAIN word',
         \A e \in patches : word'[e.addr] = word[e.addr],
         \A s \in DOMAIN word' : s \in DOMAIN word \/ s + 2 <= length',
         length <= length',
         todo' \in Seq(SafeFrames')
  PROVE  Linked'
  <1>1. SitesInside'
    BY DEF TypeOK, Linked, SitesInside
  <1>2. PatchesAreWords'
    BY DEF Linked, PatchesAreWords
  <1>3. AddrIsMark'
    <2> SUFFICES ASSUME NEW l \in Labels
                 PROVE  addr[l] = IF prog.target[l] = NULL THEN 0
                                  ELSE mark'[<<"start", prog.target[l]>>]
      BY DEF AddrIsMark
    <2>1. prog.target[l] \in Nodes \cup {NULL}
      BY ProgramParts
    <2> QED
      BY <2>1 DEF Linked, AddrIsMark
  <1>4. PatchedOnceKnown'
    BY DEF Linked, PatchedOnceKnown
  <1> QED
    BY <1>1, <1>2, <1>3, <1>4 DEF Linked

\* The stack below the top frame, and calls of compile_ast, are safe.
LEMMA RestIsSafe ==
  ASSUME Linked, todo # <<>>, SafeFrames \subseteq SafeFrames'
  PROVE  /\ Head(todo) \in SafeFrames
         /\ Tail(todo) \in Seq(SafeFrames')
  <1>1. Head(todo) \in SafeFrames /\ Tail(todo) \in Seq(SafeFrames)
    BY SeqParts DEF Linked
  <1> QED
    BY <1>1, SeqMono

\* A pending call of compile_ast names no word, so it is safe after any step.
LEMMA CallsAreSafe ==
  /\ \A n \in Nodes \cup {NULL} : Call(n) \in SafeFrames'
  /\ \A ns \in Seq(Nodes \cup {NULL}) : Calls(ns) \in Seq(SafeFrames')
  <1>1. \A n \in Nodes \cup {NULL} : Call(n) \in SafeFrames'
    BY DEF Call, SafeFrames, Frame
  <1>2. ASSUME NEW ns \in Seq(Nodes \cup {NULL})
        PROVE  Calls(ns) \in Seq(SafeFrames')
    <2>1. DOMAIN Calls(ns) = 1 .. Len(ns) /\ Len(ns) \in Nat
      BY DEF Calls
    <2>2. \A i \in 1 .. Len(ns) : Calls(ns)[i] \in SafeFrames'
      BY <1>1 DEF Calls
    <2> QED
      BY <2>1, <2>2 DEF Calls
  <1> QED
    BY <1>1, <1>2

-----------------------------------------------------------------------------
(* One lemma per action.                                                   *)

\* The start of a statement is no other point of the tree.
LEMMA PointsDiffer ==
  \A m \in Nodes :
     /\ <<"start", m>> \in Points
     /\ \A n \in Nodes : (<<"start", m>> = <<"start", n>>) <=> (m = n)
     /\ \A n \in Nodes \cup {NULL} : <<"start", m>> # <<"else", n>>
     /\ \A n \in Nodes \cup {NULL} : <<"start", m>> # <<"fi", n>>
     /\ \A n \in Nodes \cup {NULL} : <<"start", m>> # <<"body", n>>
  BY DEF Points

\* Recording the start of a statement changes the start of no other one.
LEMMA StartMark ==
  ASSUME TypeOK, NEW n \in Nodes, mark' = [mark EXCEPT ![<<"start", n>>] = length]
  PROVE  \A m \in Nodes : mark'[<<"start", m>>] =
                             IF m = n THEN length ELSE mark[<<"start", m>>]
  BY ZenonT(30), PointsDiffer DEF TypeOK

\* A statement without children pops its frame.
LEMMA LeafTodo ==
  ASSUME TypeOK, Linked, NEW n \in Nodes, NEW K, Called(n, K),
         todo' = Tail(todo), SafeFrames \subseteq SafeFrames'
  PROVE  todo' \in Seq(SafeFrames')
  BY RestIsSafe DEF Called

\* compile_assign to a number emits no word and patches as patch_jumps does.
LEMMA AssignLinked ==
  ASSUME TypeOK, TypeOK', Linked, Fits, NEW n \in Nodes, CompileAssign(n)
  PROVE  Linked'
  <1>1. Called(n, {"assign"}) /\ todo' = Tail(todo) /\ patches' = patches
        /\ word' = PatchedWord(n)
    BY DEF CompileAssign
  <1>2. DOMAIN word' = DOMAIN word
    BY <1>1, PatchedType
  <1>3. SafeFrames \subseteq SafeFrames'
    BY <1>1, <1>2, FramesStaySafe
  <1>4. todo' \in Seq(SafeFrames')
    BY <1>1, <1>3, LeafTodo
  <1>5. length <= length'
    BY AssignLengthNat DEF CompileAssign, TypeOK
  <1>6. \A m \in Nodes : mark'[<<"start", m>>] =
                            IF m = n THEN length ELSE mark[<<"start", m>>]
    BY ZenonT(30), StartMark DEF CompileAssign
  <1> QED
    BY <1>1, <1>2, <1>4, <1>5, <1>6, CalledKeeps

\* compile_end and compile_return emit no word.
LEMMA EndLinked ==
  ASSUME TypeOK, TypeOK', Linked, Fits, NEW n \in Nodes, CompileEnd(n)
  PROVE  Linked'
  <1>1. Called(n, {"end", "return"}) /\ todo' = Tail(todo) /\ patches' = patches
        /\ word' = PatchedWord(n)
    BY DEF CompileEnd
  <1>2. DOMAIN word' = DOMAIN word
    BY <1>1, PatchedType
  <1>3. SafeFrames \subseteq SafeFrames'
    BY <1>1, <1>2, FramesStaySafe
  <1>4. todo' \in Seq(SafeFrames')
    BY <1>1, <1>3, LeafTodo
  <1>5. length <= length'
    BY DEF CompileEnd, TypeOK, ExitLength
  <1>6. \A m \in Nodes : mark'[<<"start", m>>] =
                            IF m = n THEN length ELSE mark[<<"start", m>>]
    BY ZenonT(30), StartMark DEF CompileEnd
  <1> QED
    BY <1>1, <1>2, <1>4, <1>5, <1>6, CalledKeeps

\* One new word after the old code.
LEMMA AddWord ==
  ASSUME TypeOK, Linked, NEW n \in Nodes, NEW s \in Nat, s >= length, NEW r
  PROVE  /\ DOMAIN SetWord(PatchedWord(n), s, r) = DOMAIN word \cup {s}
         /\ \A x \in DOMAIN word : SetWord(PatchedWord(n), s, r)[x] = PatchedWord(n)[x]
  <1>1. DOMAIN PatchedWord(n) = DOMAIN word
    BY PatchedType
  <1>2. s \notin DOMAIN word
    BY SitesAreOld
  <1> QED
    BY <1>1, <1>2 DEF SetWord

\* What a call of compile_ast that emits code does to the words of the code:
\* patch_jumps rewrites some, and new ones lie after the old code.
NewWords(n) ==
    /\ DOMAIN word \subseteq DOMAIN word'
    /\ \A s \in DOMAIN word : word'[s] = PatchedWord(n)[s]
    /\ \A s \in DOMAIN word' : s \in DOMAIN word \/ (s >= length /\ s + 2 <= length')
    /\ length <= length'

\* compile_assign to a string adds the word of a call, past every patched one.
LEMMA CopyWords ==
  ASSUME TypeOK, Linked, NEW n \in Nodes, CompileCopy(n)
  PROVE  NewWords(n)
  <1> DEFINE call == length + prog.expr[n] + 4
             rel  == EmitRel(57, call)
  <1>1. length \in Nat /\ prog.expr[n] \in Nat /\ call + 1 \in Nat /\ call + 1 >= length
    BY Naturals
  <1>2. CASE length' = length + prog.expr[n] /\ word' = PatchedWord(n)
    BY <1>1, <1>2, PatchedType DEF NewWords
  <1>3. CASE length' = call + 3 /\ word' = SetWord(PatchedWord(n), call + 1, rel)
    <2>1. /\ DOMAIN word' = DOMAIN word \cup {call + 1}
          /\ \A x \in DOMAIN word : word'[x] = PatchedWord(n)[x]
      BY ZenonT(30), <1>1, <1>3, AddWord
    <2> QED
      BY <1>1, <1>3, <2>1 DEF NewWords
  <1> QED
    BY <1>2, <1>3 DEF CompileCopy

\* compile_assign to a string keeps the jumps linked.
LEMMA CopyLinked ==
  ASSUME TypeOK, TypeOK', Linked, Fits, NEW n \in Nodes, CompileCopy(n)
  PROVE  Linked'
  <1>1. Called(n, {"copy"}) /\ todo' = Tail(todo) /\ patches' = patches
    BY DEF CompileCopy
  <1>2. NewWords(n)
    BY CopyWords
  <1>3. SafeFrames \subseteq SafeFrames'
    BY <1>1, <1>2, FramesStaySafe DEF NewWords
  <1>4. todo' \in Seq(SafeFrames')
    BY <1>1, <1>3, LeafTodo
  <1>5. \A m \in Nodes : mark'[<<"start", m>>] =
                            IF m = n THEN length ELSE mark[<<"start", m>>]
    BY ZenonT(30), StartMark DEF CompileCopy
  <1> QED
    BY <1>1, <1>2, <1>4, <1>5, CalledKeeps DEF NewWords

\* compile_print adds the words of its calls, past every patched one.
LEMMA PrintWords ==
  ASSUME TypeOK, Linked, NEW n \in Nodes, CompilePrint(n)
  PROVE  NewWords(n)
  <1> DEFINE call  == length + prog.expr[n] + ConversionOf(n)
             first == SetWord(PatchedWord(n), call + 1, EmitRel(PRINTSTR, call))
             again == call + 15
  <1>1. ConversionOf(n) \in Nat
    BY ProgramParts DEF Conversion, ConversionOf
  <1>2. length \in Nat /\ prog.expr[n] \in Nat
    BY Naturals
  <1>3. call \in Nat /\ call + 1 \in Nat /\ call + 1 >= length
    BY <1>1, <1>2
  <1>4. /\ DOMAIN first = DOMAIN word \cup {call + 1}
        /\ \A x \in DOMAIN word : first[x] = PatchedWord(n)[x]
    BY <1>3, AddWord
  <1>5. prog.kind[n] \in {"print", "println"}
    BY DEF CompilePrint, Called
  <1>6. CASE PrintRejects(n)
    <2>1. length' = length + prog.expr[n] /\ word' = PatchedWord(n)
      BY <1>6 DEF CompilePrint
    <2> QED
      BY <2>1, <1>2, PatchedType DEF NewWords
  <1>7. CASE ~PrintRejects(n) /\ prog.kind[n] = "print"
    <2>1. length' = call + 3 /\ word' = first
      BY <1>7 DEF CompilePrint
    <2> QED
      BY <2>1, <1>2, <1>3, <1>4 DEF NewWords
  <1>8. CASE ~PrintRejects(n) /\ prog.kind[n] = "println"
    <2>1. length' = again + 3
          /\ word' = SetWord(first, again + 1, EmitRel(PRINTSTR, again))
      BY <1>8 DEF CompilePrint
    <2>2. /\ again + 1 \in Nat /\ again + 1 >= length
          /\ call + 1 + 2 <= again + 3 /\ again + 1 + 2 <= again + 3 /\ length <= again + 3
      BY <1>2, <1>3
    <2>3. again + 1 \notin DOMAIN word
      BY <2>2, SitesAreOld
    <2>4. /\ DOMAIN word' = DOMAIN word \cup {call + 1, again + 1}
          /\ \A x \in DOMAIN word : word'[x] = PatchedWord(n)[x]
      BY <2>1, <2>3, <1>4 DEF SetWord
    <2> QED
      BY <2>1, <2>2, <2>4, <1>2, <1>3 DEF NewWords
  <1> QED
    BY <1>5, <1>6, <1>7, <1>8

\* compile_print keeps the jumps linked.
LEMMA PrintLinked ==
  ASSUME TypeOK, TypeOK', Linked, Fits, NEW n \in Nodes, CompilePrint(n)
  PROVE  Linked'
  <1>1. Called(n, {"print", "println"}) /\ todo' = Tail(todo) /\ patches' = patches
    BY DEF CompilePrint
  <1>2. NewWords(n)
    BY PrintWords
  <1>3. SafeFrames \subseteq SafeFrames'
    BY <1>1, <1>2, FramesStaySafe DEF NewWords
  <1>4. todo' \in Seq(SafeFrames')
    BY <1>1, <1>3, LeafTodo
  <1>5. \A m \in Nodes : mark'[<<"start", m>>] =
                             IF m = n THEN length ELSE mark[<<"start", m>>]
    BY ZenonT(30), StartMark DEF CompilePrint
  <1> QED
    BY <1>1, <1>2, <1>4, <1>5, CalledKeeps DEF NewWords

\* compile_goto and compile_gosub add a word, which waits in the patch table if the
\* label has no address yet.
LEMMA GotoLinked ==
  ASSUME TypeOK, TypeOK', Linked, Fits, Fits', NEW n \in Nodes, CompileGoto(n)
  PROVE  Linked'
  <1> DEFINE id   == prog.label[n]
             back == EmitRel(PatchedAddr(n)[id], length)
             e0   == [id |-> id, addr |-> Wrap(length + 1)]
  <1>1. Called(n, {"goto", "gosub"}) /\ todo' = Tail(todo) /\ addr' = PatchedAddr(n)
    BY DEF CompileGoto, Called
  <1>2. length \in Nat /\ length + 1 \in Nat /\ length + 1 >= length
    BY DEF TypeOK
  <1>3. \A m \in Nodes : mark'[<<"start", m>>] =
                            IF m = n THEN length ELSE mark[<<"start", m>>]
    BY ZenonT(30), StartMark DEF CompileGoto
  <1>4. CASE ~prog.isreal[id]
    <2>1. length' = length /\ patches' = patches /\ word' = PatchedWord(n)
      BY <1>4 DEF CompileGoto
    <2>2. DOMAIN word' = DOMAIN word
      BY <2>1, PatchedType
    <2>3. todo' \in Seq(SafeFrames')
      BY <1>1, <2>1, <2>2, FramesStaySafe, LeafTodo
    <2> QED
      BY <1>1, <1>2, <1>3, <2>1, <2>2, <2>3, CalledKeeps
  <1>5. CASE prog.isreal[id] /\ PatchedAddr(n)[id] # 0
    <2>1. length' = length + 3 /\ patches' = patches
          /\ word' = SetWord(PatchedWord(n), length + 1, back)
      BY <1>5 DEF CompileGoto, Jump
    <2>2. /\ DOMAIN word' = DOMAIN word \cup {length + 1}
          /\ \A x \in DOMAIN word : word'[x] = PatchedWord(n)[x]
      BY <2>1, <1>2, AddWord
    <2>3. todo' \in Seq(SafeFrames')
      BY <1>1, <2>1, <2>2, FramesStaySafe, LeafTodo
    <2>4. length <= length' /\ length + 1 + 2 <= length'
      BY <1>2, <2>1
    <2> QED
      BY <1>1, <1>2, <1>3, <2>1, <2>2, <2>3, <2>4, CalledKeeps
  <1>6. CASE prog.isreal[id] /\ PatchedAddr(n)[id] = 0
    <2>1. length' = length + 3 /\ patches' = patches \cup {e0}
          /\ word' = SetWord(PatchedWord(n), length + 1, 0)
      BY <1>6 DEF CompileGoto, Jump
    <2>2. /\ DOMAIN word' = DOMAIN word \cup {length + 1}
          /\ \A x \in DOMAIN word : word'[x] = PatchedWord(n)[x]
      BY <2>1, <1>2, AddWord
    <2>3. e0.addr = length + 1
      <3>1. length + 1 < Segment
        BY <1>2, <2>1 DEF Fits, Segment
      <3> QED
        BY <3>1, <1>2, WrapSmall
    <2>4. length + 1 \notin DOMAIN word
      BY <1>2, SitesAreOld
    <2>5. todo' \in Seq(SafeFrames')
      <3>1. SafeFrames \subseteq SafeFrames'
        BY <2>1, <2>2, <2>3, <2>4, FramesStaySafe
      <3> QED
        BY <1>1, <3>1, LeafTodo
    <2>6. length <= length' /\ length + 1 + 2 <= length'
      BY <1>2, <2>1
    <2>7. \A e \in patches' \ patches : e = e0 /\ addr'[e.id] = 0
      BY <1>1, <1>6, <2>1
    <2>8. \A e \in patches' \ patches : e.addr \in DOMAIN word' /\ e.addr >= length
      BY <1>2, <2>2, <2>3, <2>7
    <2> QED
      BY <1>1, <1>2, <1>3, <2>1, <2>2, <2>5, <2>6, <2>7, <2>8, CalledKeeps
  <1> QED
    BY <1>4, <1>5, <1>6

\* compile_if adds the word of its JZ, which only its own frame will patch.
LEMMA IfLinked ==
  ASSUME TypeOK, TypeOK', Linked, Fits, NEW n \in Nodes, CompileIf(n)
  PROVE  Linked'
  <1> DEFINE site == length + prog.expr[n] + 4
             f1   == Call(prog.then[n])
             f2   == [op |-> "else", n |-> n, at |-> site]
  <1>1. Called(n, {"if"}) /\ patches' = patches /\ length' = site + 2
        /\ word' = SetWord(PatchedWord(n), site, 0)
        /\ todo' = <<f1, f2>> \o Tail(todo)
    BY DEF CompileIf
  <1>2. length \in Nat /\ site \in Nat /\ site >= length
    BY Naturals
  <1>3. /\ DOMAIN word' = DOMAIN word \cup {site}
        /\ \A x \in DOMAIN word : word'[x] = PatchedWord(n)[x]
    BY <1>1, <1>2, AddWord
  <1>4. SafeFrames \subseteq SafeFrames'
    BY <1>1, <1>3, FramesStaySafe
  <1>5. todo' \in Seq(SafeFrames')
    <2>1. f1 \in SafeFrames'
      BY ProgramParts, CallsAreSafe
    <2>2. f2 \in SafeFrames'
      <3>1. \A e \in patches' : e.addr # site
        BY <1>1, <1>2, SitesAreOld
      <3> QED
        BY <1>2, <1>3, <3>1 DEF SafeFrames, Frame
    <2>3. Tail(todo) \in Seq(SafeFrames')
      BY <1>1, <1>4, RestIsSafe DEF Called
    <2>4. <<f1, f2>> \in Seq(SafeFrames')
      BY <2>1, <2>2
    <2> QED
      BY <1>1, <2>3, <2>4, SeqJoin
  <1>6. \A m \in Nodes : mark'[<<"start", m>>] =
                            IF m = n THEN length ELSE mark[<<"start", m>>]
    BY ZenonT(30), StartMark DEF CompileIf
  <1>7. length <= length' /\ site + 2 <= length'
    BY <1>1, <1>2
  <1> QED
    BY <1>1, <1>2, <1>3, <1>5, <1>6, <1>7, CalledKeeps

\* The two loops push the calls of their bodies and one frame of their own,
\* and add no word of their own yet.
LEMMA LoopLinked ==
  ASSUME TypeOK, TypeOK', Linked, Fits, NEW n \in Nodes, NEW K, Called(n, K),
         NEW op \in {"loop", "next"}, NEW at \in Nat,
         todo' = Calls(prog.body[n]) \o <<[op |-> op, n |-> n, at |-> at]>> \o Tail(todo),
         patches' = patches, word' = PatchedWord(n), length <= length',
         NEW v, mark' = [mark EXCEPT ![<<"start", n>>] = length, ![<<"body", n>>] = v]
  PROVE  Linked'
  <1>1. DOMAIN word' = DOMAIN word
    BY PatchedType
  <1>2. SafeFrames \subseteq SafeFrames'
    BY <1>1, FramesStaySafe
  <1>3. todo' \in Seq(SafeFrames')
    <2>1. Calls(prog.body[n]) \in Seq(SafeFrames')
      BY ProgramParts, CallsAreSafe
    <2>2. [op |-> op, n |-> n, at |-> at] \in SafeFrames'
      BY DEF SafeFrames, Frame
    <2>3. Tail(todo) \in Seq(SafeFrames')
      BY <1>2, RestIsSafe DEF Called
    <2>4. Calls(prog.body[n]) \o <<[op |-> op, n |-> n, at |-> at]>> \in Seq(SafeFrames')
      BY <2>1, <2>2, SeqJoin
    <2> QED
      BY <2>3, <2>4, SeqJoin
  <1>4. \A m \in Nodes : mark'[<<"start", m>>] =
                            IF m = n THEN length ELSE mark[<<"start", m>>]
    BY ZenonT(30), PointsDiffer DEF TypeOK
  <1> QED
    BY <1>1, <1>3, <1>4, CalledKeeps

\* compile_do adds nothing before its body.
LEMMA DoLinked ==
  ASSUME TypeOK, TypeOK', Linked, Fits, NEW n \in Nodes, CompileDo(n)
  PROVE  Linked'
  <1>1. length \in Nat /\ length <= length'
    BY DEF TypeOK, CompileDo
  <1>2. Wrap(length) \in Nat
    BY <1>1, WrapWord, WordNat
  <1> QED
    BY <1>1, <1>2, LoopLinked DEF CompileDo

\* compile_for adds no word before its body.
LEMMA ForLinked ==
  ASSUME TypeOK, TypeOK', Linked, Fits, NEW n \in Nodes, CompileFor(n)
  PROVE  Linked'
  <1>1. length + AssignLength(n) \in Nat /\ length <= length + AssignLength(n)
    BY AssignLengthNat DEF TypeOK
  <1>2. Wrap(length + AssignLength(n)) \in Nat
    BY <1>1, WrapWord, WordNat
  <1> QED
    BY <1>1, <1>2, LoopLinked DEF CompileFor

\* compile_ast(NULL) changes only the stack.
LEMMA NothingLinked ==
  ASSUME TypeOK, TypeOK', Linked, CompileNothing
  PROVE  Linked'
  <1>1. UNCHANGED <<prog, addr, patches, word, length, mark>>
        /\ todo # <<>> /\ todo' = Tail(todo)
    BY DEF CompileNothing
  <1>2. todo' \in Seq(SafeFrames')
    BY <1>1, FramesStaySafe, RestIsSafe
  <1> QED
    BY <1>1, <1>2, ResumedKeeps DEF TypeOK

\* The end of compile() adds no word.
LEMMA FinishLinked ==
  ASSUME TypeOK, TypeOK', Linked, Finish
  PROVE  Linked'
  <1>1. UNCHANGED <<prog, addr, patches, word, todo>> /\ length <= length'
    BY DEF Finish, FinishedLength, ExitLength, TypeOK
  <1>2. todo' \in Seq(SafeFrames')
    BY <1>1, FramesStaySafe, SeqMono DEF Linked
  <1>3. \A m \in Nodes : mark'[<<"start", m>>] = mark[<<"start", m>>]
    BY PointsDiffer DEF Finish, TypeOK
  <1> QED
    BY <1>1, <1>2, <1>3, ResumedKeeps

\* The frame of an IF names a word of the code that is no patch entry.
LEMMA IfFrameSafe ==
  ASSUME TypeOK, Linked, NEW op \in {"else", "fi"}, Resumed(op)
  PROVE  /\ Head(todo).at \in DOMAIN word
         /\ \A e \in patches : e.addr # Head(todo).at
  <1>1. todo # <<>> /\ Head(todo).op = op
    BY DEF Resumed
  <1>2. Head(todo) \in SafeFrames
    BY <1>1, SeqParts DEF Linked
  <1> QED
    BY <1>1, <1>2 DEF SafeFrames

\* compile_if patches its JZ, which no patch entry names, and adds the word of its JMP.
LEMMA ElseLinked ==
  ASSUME TypeOK, TypeOK', Linked, ResumeIfWithElse
  PROVE  Linked'
  <1> DEFINE f  == Head(todo)
             f1 == Call(prog.else[f.n])
             f2 == [op |-> "fi", n |-> f.n, at |-> length + 1]
  <1>1. Resumed("else") /\ UNCHANGED <<prog, addr, patches>> /\ length' = length + 3
        /\ word' = SetWord(SetWord(word, length + 1, 0), f.at, ElseRel(f.at))
        /\ todo' = <<f1, f2>> \o Tail(todo)
        /\ mark' = [mark EXCEPT ![<<"else", f.n>>] = length + 3]
    BY DEF ResumeIfWithElse, Resumed
  <1>2. f.n \in Nodes /\ f.at \in Nat /\ todo # <<>>
    BY <1>1, ResumedType
  <1>3. length \in Nat /\ length + 1 \in Nat /\ length + 1 >= length
    BY DEF TypeOK
  <1>4. f.at \in DOMAIN word /\ \A e \in patches : e.addr # f.at
    BY <1>1, IfFrameSafe
  <1>5. length + 1 \notin DOMAIN word /\ \A e \in patches : e.addr # length + 1
    BY <1>3, SitesAreOld
  <1>6. DOMAIN word' = DOMAIN word \cup {length + 1}
    BY <1>1, <1>4 DEF SetWord
  <1>7. \A e \in patches : word'[e.addr] = word[e.addr]
    <2> SUFFICES ASSUME NEW e \in patches PROVE word'[e.addr] = word[e.addr]
      OBVIOUS
    <2>1. e.addr \in DOMAIN word
      BY DEF Linked, PatchesAreWords
    <2> QED
      BY <1>1, <1>4, <1>5, <2>1 DEF SetWord
  <1>8. SafeFrames \subseteq SafeFrames'
    BY <1>1, <1>6, FramesStaySafe
  <1>9. todo' \in Seq(SafeFrames')
    <2>1. f1 \in SafeFrames'
      BY <1>2, ProgramParts, CallsAreSafe
    <2>2. f2 \in SafeFrames'
      BY <1>1, <1>2, <1>3, <1>5, <1>6 DEF SafeFrames, Frame
    <2>3. Tail(todo) \in Seq(SafeFrames')
      BY <1>2, <1>8, RestIsSafe
    <2>4. <<f1, f2>> \in Seq(SafeFrames')
      BY <2>1, <2>2
    <2> QED
      BY <1>1, <2>3, <2>4, SeqJoin
  <1>10. \A m \in Nodes : mark'[<<"start", m>>] = mark[<<"start", m>>]
    BY <1>1, <1>2, PointsDiffer DEF TypeOK
  <1>11. length <= length' /\ length + 1 + 2 <= length'
    BY <1>1, <1>3
  <1> QED
    BY <1>1, <1>6, <1>7, <1>9, <1>10, <1>11, ResumedKeeps

\* compile_if patches its JMP, which no patch entry names.
LEMMA FiLinked ==
  ASSUME TypeOK, TypeOK', Linked, ResumeIfAtEnd
  PROVE  Linked'
  <1> DEFINE f == Head(todo)
  <1>1. Resumed("fi") /\ UNCHANGED <<prog, addr, patches, length>>
        /\ word' = SetWord(word, f.at, FiRel(f.at)) /\ todo' = Tail(todo)
        /\ mark' = [mark EXCEPT ![<<"fi", f.n>>] = length]
    BY DEF ResumeIfAtEnd, Resumed
  <1>2. f.n \in Nodes /\ todo # <<>>
    BY <1>1, ResumedType
  <1>3. f.at \in DOMAIN word /\ \A e \in patches : e.addr # f.at
    BY <1>1, IfFrameSafe
  <1>4. DOMAIN word' = DOMAIN word
    BY <1>1, <1>3 DEF SetWord
  <1>5. \A e \in patches : word'[e.addr] = word[e.addr]
    BY <1>1, <1>3 DEF SetWord, Linked, PatchesAreWords
  <1>6. todo' \in Seq(SafeFrames')
    BY <1>1, <1>2, <1>4, FramesStaySafe, RestIsSafe
  <1>7. \A m \in Nodes : mark'[<<"start", m>>] = mark[<<"start", m>>]
    BY <1>1, <1>2, PointsDiffer DEF TypeOK
  <1>8. length <= length'
    BY <1>1 DEF TypeOK
  <1> QED
    BY <1>1, <1>4, <1>5, <1>6, <1>7, <1>8, ResumedKeeps

\* A loop that closes pops its frame and adds its jump after the old code.
LEMMA CloseLinked ==
  ASSUME TypeOK, TypeOK', Linked, NEW op \in {"loop", "next"}, Resumed(op),
         todo' = Tail(todo), mark' = mark, length <= length',
         \/ word' = word
         \/ \E s \in Nat, r \in Word16 :
               s >= length /\ s + 2 <= length' /\ word' = SetWord(word, s, r)
  PROVE  Linked'
  <1>1. UNCHANGED <<prog, addr, patches>> /\ todo # <<>>
    BY DEF Resumed
  <1>2. /\ DOMAIN word \subseteq DOMAIN word'
        /\ \A e \in patches : word'[e.addr] = word[e.addr]
        /\ \A s \in DOMAIN word' : s \in DOMAIN word \/ s + 2 <= length'
    <2>1. CASE word' = word
      BY <2>1
    <2>2. ASSUME NEW s \in Nat, NEW r \in Word16, s >= length, s + 2 <= length',
                 word' = SetWord(word, s, r)
          PROVE  <1>2!:
      <3>1. s \notin DOMAIN word /\ \A e \in patches : e.addr # s
        BY <2>2, SitesAreOld
      <3>2. DOMAIN word' = DOMAIN word \cup {s}
        BY <2>2, SetWordAt
      <3>3. \A e \in patches : word'[e.addr] = word[e.addr]
        BY <2>2, <3>1 DEF SetWord, Linked, PatchesAreWords
      <3> QED
        BY <2>2, <3>2, <3>3
    <2> QED
      BY <2>1, <2>2
  <1>3. todo' \in Seq(SafeFrames')
    BY <1>1, <1>2, FramesStaySafe, RestIsSafe
  <1> QED
    BY <1>1, <1>2, <1>3, ResumedKeeps

\* compile_do adds the word of its jump back, past every patched one.
LEMMA LoopEndLinked ==
  ASSUME TypeOK, TypeOK', Linked, ResumeDo
  PROVE  Linked'
  <1> DEFINE f    == Head(todo)
             site == IF prog.form[f.n] = "ENDLESS"
                     THEN length + 1
                     ELSE length + prog.expr[f.n] + 4
             rel  == IF prog.form[f.n] = "ENDLESS"
                     THEN EmitRel(LOAD + f.at, length)
                     ELSE LoopRel(f.n, f.at)
  <1>1. Resumed("loop") /\ todo' = Tail(todo) /\ mark' = mark /\ length' = site + 2
        /\ word' = SetWord(word, site, rel)
    BY DEF ResumeDo
  <1>2. f.n \in Nodes
    BY <1>1, ResumedType
  <1>3. length \in Nat /\ prog.expr[f.n] \in Nat
    BY <1>2, Naturals
  <1>4. site \in Nat /\ site >= length /\ site + 2 <= length' /\ length <= length'
    BY SMTT(30), <1>1, <1>3
  <1> HIDE DEF site, rel
  <1>5. rel \in Word16
    <2>1. site \in DOMAIN word' /\ word'[site] = rel
      BY <1>1 DEF SetWord
    <2> QED
      BY <2>1 DEF TypeOK
  <1> QED
    BY <1>1, <1>4, <1>5, CloseLinked

\* compile_for adds the word of its jump back, past every patched one.
LEMMA NextEndLinked ==
  ASSUME TypeOK, TypeOK', Linked, ResumeFor
  PROVE  Linked'
  <1> DEFINE f    == Head(todo)
             site == length + 4 + prog.to[f.n] + 8 + 2
             rel  == NextRel(site, f.at)
  <1>1. Resumed("next") /\ todo' = Tail(todo) /\ mark' = mark
    BY DEF ResumeFor
  <1>2. f.n \in Nodes
    BY <1>1, ResumedType
  <1>3. length \in Nat /\ prog.to[f.n] \in Nat
    BY <1>2, Naturals
  <1>4. CASE prog.illTo[f.n]
    <2>1. word' = word /\ length' = length + 4 + prog.to[f.n]
      BY <1>4 DEF ResumeFor
    <2>2. length <= length'
      BY <1>3, <2>1
    <2> QED
      BY <1>1, <2>1, <2>2, CloseLinked
  <1>5. CASE ~prog.illTo[f.n]
    <2>1. word' = SetWord(word, site, rel) /\ length' = site + 2
      BY <1>5 DEF ResumeFor
    <2>2. site \in Nat /\ site >= length /\ site + 2 <= length' /\ length <= length'
      BY <1>3, <2>1
    <2> HIDE DEF site, rel
    <2>3. rel \in Word16
      <3>1. site \in DOMAIN word' /\ word'[site] = rel
        BY <2>1 DEF SetWord
      <3> QED
        BY <3>1 DEF TypeOK
    <2> QED
      BY <1>1, <2>1, <2>2, <2>3, CloseLinked
  <1> QED
    BY <1>4, <1>5

-----------------------------------------------------------------------------
\* The code never gets shorter: a program that fits now has always fitted.
LEMMA LengthGrows == TypeOK /\ TypeOK' /\ [Next]_vars => length <= length'
  <1> SUFFICES ASSUME TypeOK, TypeOK', [Next]_vars PROVE length <= length'
    OBVIOUS
  <1>1. length \in Nat /\ length' \in Nat
    BY DEF TypeOK
  <1>2. ASSUME NEW n \in Nodes,
               CompileAssign(n) \/ CompileFor(n)
        PROVE  length <= length'
    <2>1. AssignLength(n) \in Nat
      BY AssignLengthNat
    <2>2. length' = length + AssignLength(n)
      BY <1>2 DEF CompileAssign, CompileFor
    <2> QED
      BY <1>1, <2>1, <2>2
  <1>3. ASSUME NEW n \in Nodes, CompileCopy(n) \/ CompileIf(n)
        PROVE  length <= length'
    <2>1. prog.expr[n] \in Nat
      BY Naturals
    <2>2. CASE CompileCopy(n)
      BY SMTT(30), <1>1, <2>1, <2>2 DEF CompileCopy
    <2>3. CASE CompileIf(n)
      <3>1. length' = length + prog.expr[n] + 4 + 2
        BY <2>3 DEF CompileIf
      <3> QED
        BY <1>1, <2>1, <3>1
    <2> QED
      BY <1>3, <2>2, <2>3
  <1>4. ASSUME NEW n \in Nodes, CompilePrint(n) PROVE length <= length'
    <2>1. ConversionOf(n) \in Nat
      BY ProgramParts DEF Conversion, ConversionOf
    <2>2. prog.kind[n] \in {"print", "println"}
      BY <1>4 DEF CompilePrint, Called
    <2>3. prog.expr[n] \in Nat
      BY Naturals
    <2> DEFINE call == length + prog.expr[n] + ConversionOf(n)
    <2>4. CASE PrintRejects(n)
      <3>1. length' = length + prog.expr[n]
        BY <1>4, <2>4 DEF CompilePrint
      <3> QED
        BY <1>1, <2>3, <3>1
    <2>5. CASE ~PrintRejects(n) /\ prog.kind[n] = "print"
      <3>1. length' = call + 3
        BY <1>4, <2>5 DEF CompilePrint
      <3> QED
        BY <1>1, <2>1, <2>3, <3>1
    <2>6. CASE ~PrintRejects(n) /\ prog.kind[n] = "println"
      <3>1. length' = call + 15 + 3
        BY <1>4, <2>6 DEF CompilePrint
      <3> QED
        BY <1>1, <2>1, <2>3, <3>1
    <2> QED
      BY <2>2, <2>4, <2>5, <2>6
  <1>5. ASSUME NEW n \in Nodes, CompileEnd(n) \/ CompileGoto(n) \/ CompileDo(n)
        PROVE  length <= length'
    <2>1. CASE CompileEnd(n)
      <3>1. length' = length + 9 \/ length' = length + 1
        BY <2>1 DEF CompileEnd, ExitLength
      <3> QED
        BY <1>1, <3>1
    <2>2. CASE CompileGoto(n)
      <3>1. length' = length \/ length' = length + 3
        BY <2>2 DEF CompileGoto, Jump
      <3> QED
        BY <1>1, <3>1
    <2>3. CASE CompileDo(n)
      <3>1. length' = length
        BY <2>3 DEF CompileDo
      <3> QED
        BY <1>1, <3>1
    <2> QED
      BY <1>5, <2>1, <2>2, <2>3
  <1>6. CASE ResumeDo
    <2>1. Head(todo).n \in Nodes
      BY <1>6, ResumedType DEF ResumeDo
    <2> QED
      BY SMTT(30), <1>1, <1>6, <2>1, Naturals DEF ResumeDo
  <1>7. CASE ResumeFor
    <2>1. Head(todo).n \in Nodes
      BY <1>7, ResumedType DEF ResumeFor
    <2>2. prog.to[Head(todo).n] \in Nat
      BY <2>1, Naturals
    <2>3. \/ length' = length + 4 + prog.to[Head(todo).n]
          \/ length' = length + 4 + prog.to[Head(todo).n] + 8 + 2 + 2
      BY <1>7 DEF ResumeFor
    <2> QED
      BY <1>1, <2>2, <2>3
  <1>8. CASE CompileNothing \/ ResumeIfAtEnd \/ UNCHANGED vars
    BY <1>1, <1>8 DEF CompileNothing, ResumeIfAtEnd, vars
  <1>9. CASE ResumeIfWithElse
    BY <1>1, <1>9 DEF ResumeIfWithElse
  <1>10. CASE Finish
    BY <1>1, <1>10 DEF Finish, FinishedLength, ExitLength
  <1> QED
    BY <1>2, <1>3, <1>4, <1>5, <1>6, <1>7, <1>8, <1>9, <1>10 DEF Next

\* Every step that stays inside the segment keeps the jumps linked.
LEMMA StepLinked ==
  ASSUME TypeOK, TypeOK', Linked, Fits, Fits', [Next]_vars
  PROVE  Linked'
  <1>1. CASE CompileNothing
    BY <1>1, NothingLinked
  <1>2. CASE \E n \in Nodes : CompileAssign(n) \/ CompileCopy(n) \/ CompilePrint(n)
                              \/ CompileEnd(n) \/ CompileGoto(n)
    BY <1>2, AssignLinked, CopyLinked, PrintLinked, EndLinked, GotoLinked
  <1>3. CASE \E n \in Nodes : CompileIf(n) \/ CompileDo(n) \/ CompileFor(n)
    BY <1>3, IfLinked, DoLinked, ForLinked
  <1>4. CASE ResumeIfWithElse \/ ResumeIfAtEnd
    BY <1>4, ElseLinked, FiLinked
  <1>5. CASE ResumeDo \/ ResumeFor
    BY <1>5, LoopEndLinked, NextEndLinked
  <1>6. CASE Finish
    BY <1>6, FinishLinked
  <1>7. CASE UNCHANGED vars
    BY <1>7 DEF vars, Linked, SafeFrames, SitesInside, PatchesAreWords,
                AddrIsMark, PatchedOnceKnown
  <1> QED
    BY <1>1, <1>2, <1>3, <1>4, <1>5, <1>6, <1>7 DEF Next

\* As long as the code fits the segment, every GOTO and GOSUB that was
\* compiled before its label goes to the statement of the label once that
\* statement is compiled (patch_jumps), for every program.
THEOREM ForwardJumpsCorrect == Spec => []ForwardJumpsLand
  <1>1. Init => JumpInv
    BY InitTypeOK, InitLinked DEF JumpInv
  <1>2. JumpInv /\ TypeOK' /\ [Next]_vars => JumpInv'
    <2> SUFFICES ASSUME JumpInv, TypeOK', [Next]_vars, Fits' PROVE Linked'
      BY DEF JumpInv
    <2>1. TypeOK /\ length <= length'
      BY LengthGrows DEF JumpInv
    <2>2. Fits
      BY <2>1 DEF Fits, TypeOK, Segment
    <2> QED
      BY <2>1, <2>2, StepLinked DEF JumpInv
  <1>3. JumpInv => ForwardJumpsLand
    BY LinkedLands
  <1> QED
    BY <1>1, <1>2, <1>3, TypeCorrect, PTL DEF Spec

-----------------------------------------------------------------------------
(***************************************************************************)
(* The walk over the tree.  No statement is compiled twice: a second pass  *)
(* over a node would give it a second place.  Walk says so of the stack:   *)
(* what is pending is not compiled, is pending once, and its parent has    *)
(* been opened; it holds because the program is a tree.                    *)
(***************************************************************************)

\* The statement n has been reached by compile_ast; the top level always has.
Opened(n) == n = NULL \/ mark[<<"start", n>>] # 0

\* The frames on a stack.
OnStack(s) == {s[i] : i \in DOMAIN s}

\* The statement that a frame is going to compile, if any.
Awaits(p, f) == IF f.op = "ast" THEN f.n
                ELSE IF f.op = "else" THEN p.else[f.n] ELSE NULL

\* Two frames of which only one may be on the stack.
Clash(p, f, g) ==
    \/ Awaits(p, f) = Awaits(p, g) /\ Awaits(p, f) # NULL
    \/ f.op # "ast" /\ g.op # "ast" /\ f.n = g.n

Distinct(p, s) == \A i, j \in DOMAIN s : i # j => ~Clash(p, s[i], s[j])

ParentsOpened(m) ==
    \A p \in Nodes \cup {NULL} : \A i \in DOMAIN Children(prog, p) :
       Children(prog, p)[i] = m => Opened(p)

InWalk(f) ==
    /\ LET m == Awaits(prog, f) IN m # NULL => ~Opened(m) /\ ParentsOpened(m)
    /\ f.op # "ast" => Opened(f.n)
    /\ f.op = "else" => mark[<<"else", f.n>>] = 0
    /\ f.op \in {"else", "fi"} => mark[<<"fi", f.n>>] = 0

Walk ==
    /\ prog \in Programs
    /\ length > 0
    /\ Distinct(prog, todo)
    /\ \A f \in OnStack(todo) : InWalk(f)
    /\ \A n \in Nodes : Opened(n) => ParentsOpened(n)
    /\ \A n \in Nodes : ~Opened(n) =>
          \A x \in {"else", "fi", "body"} : mark[<<x, n>>] = 0

-----------------------------------------------------------------------------
(* Stacks.                                                                 *)

\* What is on a stack made of two.
LEMMA JoinParts ==
  ASSUME NEW S, NEW s \in Seq(S), NEW t \in Seq(S)
  PROVE  OnStack(s \o t) = OnStack(s) \cup OnStack(t)
  <1> DEFINE r == s \o t
  <1>1. Len(s) \in Nat /\ Len(t) \in Nat /\ Len(r) = Len(s) + Len(t)
        /\ DOMAIN s = 1 .. Len(s) /\ DOMAIN t = 1 .. Len(t) /\ DOMAIN r = 1 .. Len(r)
        /\ \A i \in 1 .. Len(r) : r[i] = IF i <= Len(s) THEN s[i] ELSE t[i - Len(s)]
    OBVIOUS
  <1> HIDE DEF r
  <1>2. OnStack(r) \subseteq OnStack(s) \cup OnStack(t)
    <2> SUFFICES ASSUME NEW i \in 1 .. Len(r) PROVE r[i] \in OnStack(s) \cup OnStack(t)
      BY <1>1 DEF OnStack
    <2>1. CASE i <= Len(s)
      BY <1>1, <2>1 DEF OnStack
    <2>2. CASE ~(i <= Len(s))
      <3>1. i - Len(s) \in DOMAIN t
        BY <1>1, <2>2
      <3> QED
        BY <1>1, <2>2, <3>1 DEF OnStack
    <2> QED
      BY <2>1, <2>2
  <1>3. \A i \in 1 .. Len(s) : i \in DOMAIN r /\ r[i] = s[i]
    BY <1>1
  <1>4. \A i \in 1 .. Len(t) : i + Len(s) \in DOMAIN r /\ r[i + Len(s)] = t[i]
    BY <1>1
  <1>5. OnStack(s) \cup OnStack(t) \subseteq OnStack(r)
    <2>1. \A i \in 1 .. Len(s) : s[i] \in OnStack(r)
      BY <1>3 DEF OnStack
    <2>2. \A i \in 1 .. Len(t) : t[i] \in OnStack(r)
      BY <1>4 DEF OnStack
    <2> QED
      BY <1>1, <2>1, <2>2 DEF OnStack
  <1> QED
    BY <1>2, <1>5 DEF r

\* Replacing the top frame: what is on the new stack, and where.
LEMMA PushParts ==
  ASSUME NEW S, NEW s \in Seq(S), s # <<>>, NEW fs \in Seq(S)
  PROVE  /\ OnStack(fs \o Tail(s)) = OnStack(fs) \cup OnStack(Tail(s))
         /\ OnStack(s) = {Head(s)} \cup OnStack(Tail(s))
         /\ \A i \in DOMAIN Tail(s) : i \in Nat /\ i + 1 \in DOMAIN s /\ Tail(s)[i] = s[i + 1]
         /\ 1 \in DOMAIN s /\ Head(s) = s[1]
  <1> DEFINE t == Tail(s)
  <1>1. t \in Seq(S) /\ Len(s) \in Nat /\ Len(s) > 0 /\ Len(t) = Len(s) - 1
        /\ DOMAIN s = 1 .. Len(s) /\ DOMAIN t = 1 .. Len(t)
        /\ \A i \in 1 .. Len(t) : t[i] = s[i + 1]
        /\ Head(s) = s[1]
    OBVIOUS
  <1> HIDE DEF t
  <1>2. OnStack(fs \o t) = OnStack(fs) \cup OnStack(t)
    BY <1>1, JoinParts
  <1>3. OnStack(s) \subseteq {Head(s)} \cup OnStack(t)
    <2> SUFFICES ASSUME NEW i \in 1 .. Len(s) PROVE s[i] \in {Head(s)} \cup OnStack(t)
      BY <1>1 DEF OnStack
    <2>1. CASE i = 1
      BY <1>1, <2>1
    <2>2. CASE i # 1
      <3>1. i - 1 \in DOMAIN t /\ t[i - 1] = s[i]
        BY <1>1, <2>2
      <3> QED
        BY <3>1 DEF OnStack
    <2> QED
      BY <2>1, <2>2
  <1>4. {Head(s)} \cup OnStack(t) \subseteq OnStack(s)
    <2>1. 1 \in DOMAIN s
      BY <1>1
    <2>2. \A i \in DOMAIN t : i + 1 \in DOMAIN s
      BY <1>1
    <2> QED
      BY <1>1, <2>1, <2>2 DEF OnStack
  <1> QED
    BY <1>1, <1>2, <1>3, <1>4 DEF t

\* Two stacks without clashes, none between them, make one.
LEMMA JoinDistinct ==
  ASSUME NEW p, NEW S, NEW s \in Seq(S), NEW t \in Seq(S),
         Distinct(p, s), Distinct(p, t),
         \A f \in OnStack(s), g \in OnStack(t) : ~Clash(p, f, g)
  PROVE  Distinct(p, s \o t)
  <1> DEFINE r == s \o t
  <1>1. Len(s) \in Nat /\ Len(t) \in Nat /\ Len(r) = Len(s) + Len(t)
        /\ DOMAIN s = 1 .. Len(s) /\ DOMAIN t = 1 .. Len(t) /\ DOMAIN r = 1 .. Len(r)
        /\ \A i \in 1 .. Len(r) : r[i] = IF i <= Len(s) THEN s[i] ELSE t[i - Len(s)]
    OBVIOUS
  <1> HIDE DEF r
  <1>2. \A f, g : Clash(p, f, g) => Clash(p, g, f)
    BY DEF Clash
  <1>3. SUFFICES ASSUME NEW i \in 1 .. Len(r), NEW j \in 1 .. Len(r), i # j
                 PROVE  ~Clash(p, r[i], r[j])
    BY <1>1 DEF Distinct, r
  <1>4. CASE i <= Len(s) /\ j <= Len(s)
    <2>1. i \in DOMAIN s /\ j \in DOMAIN s /\ r[i] = s[i] /\ r[j] = s[j]
      BY <1>1, <1>4
    <2> QED
      BY <1>3, <2>1 DEF Distinct
  <1>5. CASE i <= Len(s) /\ ~(j <= Len(s))
    <2>1. i \in DOMAIN s /\ j - Len(s) \in DOMAIN t /\ r[i] = s[i] /\ r[j] = t[j - Len(s)]
      BY <1>1, <1>5
    <2> QED
      BY <2>1 DEF OnStack
  <1>6. CASE ~(i <= Len(s)) /\ j <= Len(s)
    <2>1. i - Len(s) \in DOMAIN t /\ j \in DOMAIN s /\ r[i] = t[i - Len(s)] /\ r[j] = s[j]
      BY <1>1, <1>6
    <2> QED
      BY <1>2, <2>1 DEF OnStack
  <1>7. CASE ~(i <= Len(s)) /\ ~(j <= Len(s))
    <2>1. i - Len(s) \in DOMAIN t /\ j - Len(s) \in DOMAIN t /\ i - Len(s) # j - Len(s)
          /\ r[i] = t[i - Len(s)] /\ r[j] = t[j - Len(s)]
      BY <1>1, <1>3, <1>7
    <2> QED
      BY <2>1 DEF Distinct
  <1> QED
    BY <1>4, <1>5, <1>6, <1>7

\* Below the top frame no frame clashes with it or with another.
LEMMA RestDistinct ==
  ASSUME NEW p, NEW S, NEW s \in Seq(S), s # <<>>, Distinct(p, s)
  PROVE  /\ Distinct(p, Tail(s))
         /\ \A g \in OnStack(Tail(s)) : ~Clash(p, Head(s), g)
  <1>1. /\ \A i \in DOMAIN Tail(s) : i \in Nat /\ i + 1 \in DOMAIN s /\ Tail(s)[i] = s[i + 1]
        /\ 1 \in DOMAIN s /\ Head(s) = s[1]
    BY PushParts
  <1>2. \A i \in DOMAIN Tail(s) : i \in Nat /\ i + 1 # 1 /\ i > 0
    BY SeqParts
  <1>3. Distinct(p, Tail(s))
    <2> SUFFICES ASSUME NEW i \in DOMAIN Tail(s), NEW j \in DOMAIN Tail(s), i # j
                 PROVE  ~Clash(p, Tail(s)[i], Tail(s)[j])
      BY DEF Distinct
    <2>1. i + 1 # j + 1
      BY <1>1
    <2> QED
      BY <1>1, <2>1 DEF Distinct
  <1>4. \A g \in OnStack(Tail(s)) : ~Clash(p, Head(s), g)
    <2> SUFFICES ASSUME NEW i \in DOMAIN Tail(s) PROVE ~Clash(p, Head(s), Tail(s)[i])
      BY DEF OnStack
    <2> QED
      BY <1>1, <1>2 DEF Distinct
  <1> QED
    BY <1>3, <1>4

-----------------------------------------------------------------------------
(* No statement is compiled twice.                                         *)

\* The parts of Walk that speak of the top frame.
LEMMA TopInWalk ==
  ASSUME TypeOK, Walk, todo # <<>>
  PROVE  /\ InWalk(Head(todo))
         /\ \A g \in OnStack(Tail(todo)) : /\ g \in Frame
                                           /\ InWalk(g)
                                           /\ ~Clash(prog, Head(todo), g)
         /\ Distinct(prog, Tail(todo))
         /\ Tail(todo) \in Seq(Frame)
         /\ Head(todo) \in Frame
  <1>1. todo \in Seq(Frame)
    BY DEF TypeOK
  <1>2. Head(todo) \in Frame /\ Tail(todo) \in Seq(Frame)
    BY <1>1, SeqParts
  <1>3. OnStack(todo) = {Head(todo)} \cup OnStack(Tail(todo))
    BY <1>1, <1>2, PushParts
  <1>4. \A g \in OnStack(Tail(todo)) : g \in Frame
    BY <1>2 DEF OnStack
  <1>5. /\ Distinct(prog, Tail(todo))
        /\ \A g \in OnStack(Tail(todo)) : ~Clash(prog, Head(todo), g)
    BY <1>1, RestDistinct DEF Walk
  <1> QED
    BY <1>2, <1>3, <1>4, <1>5 DEF Walk

\* What compile_ast is called on has not been compiled; neither has a child of
\* it, and no frame is going to compile the child.
LEMMA ChildIsNew ==
  ASSUME TypeOK, Walk, NEW n \in Nodes, NEW K, Called(n, K),
         NEW i \in DOMAIN Children(prog, n), Children(prog, n)[i] # NULL,
         Children(prog, n)[i] \in Nodes
  PROVE  /\ ~Opened(n) /\ ParentsOpened(n)
         /\ Children(prog, n)[i] # n
         /\ ~Opened(Children(prog, n)[i])
         /\ \A g \in OnStack(todo) : Awaits(prog, g) # Children(prog, n)[i]
  <1> DEFINE c == Children(prog, n)[i]
  <1>1. todo # <<>> /\ Awaits(prog, Head(todo)) = n /\ n # NULL
    BY NullAssumption DEF Called, Awaits
  <1>2. ~Opened(n) /\ ParentsOpened(n)
    BY <1>1, TopInWalk DEF InWalk
  <1>3. ~ParentsOpened(c)
    BY <1>2 DEF ParentsOpened
  <1>4. c # n
    BY <1>2, <1>3
  <1>5. ~Opened(c)
    BY <1>3 DEF Walk
  <1>6. \A g \in OnStack(todo) : Awaits(prog, g) # c
    BY <1>3 DEF Walk, InWalk
  <1> QED
    BY <1>2, <1>4, <1>5, <1>6

\* compile_ast opens n: the frames it pushes compile children of n, or belong
\* to n itself.
LEMMA CalledWalk ==
  ASSUME TypeOK, Walk, NEW n \in Nodes, NEW K, Called(n, K), length <= length', length' \in Nat,
         NEW fs \in Seq(Frame), todo' = fs \o Tail(todo), Distinct(prog, fs),
         \A f \in OnStack(fs) :
            /\ Awaits(prog, f) # NULL =>
                  /\ Awaits(prog, f) \in Nodes
                  /\ \E i \in DOMAIN Children(prog, n) : Children(prog, n)[i] = Awaits(prog, f)
            /\ f.op # "ast" => f.n = n,
         \A m \in Nodes : mark'[<<"start", m>>] =
                             IF m = n THEN length ELSE mark[<<"start", m>>],
         \A m \in Nodes, x \in {"else", "fi", "body"} :
            m # n \/ x # "body" => mark'[<<x, m>>] = mark[<<x, m>>]
  PROVE  Walk'
  <1>1. todo # <<>> /\ Head(todo).op = "ast" /\ Head(todo).n = n /\ prog' = prog
        /\ Awaits(prog, Head(todo)) = n /\ n # NULL
    BY NullAssumption DEF Called, Awaits
  <1>2. length \in Nat /\ length > 0 /\ length' > 0 /\ todo \in Seq(Frame)
    BY DEF TypeOK, Walk
  <1>3. ~Opened(n) /\ ParentsOpened(n)
    BY <1>1, TopInWalk DEF InWalk
  <1>4. \A m \in Nodes \cup {NULL} : Opened(m)' <=> (m = n \/ Opened(m))
    <2>1. length # 0
      BY <1>2
    <2>2. \A m \in Nodes : Opened(m)' <=> (m = n \/ Opened(m))
      BY <2>1 DEF Opened
    <2>3. Opened(NULL) /\ Opened(NULL)'
      BY DEF Opened
    <2> QED
      BY <2>2, <2>3
  <1>5. \A m : ParentsOpened(m) => ParentsOpened(m)'
    BY <1>1, <1>4 DEF ParentsOpened
  <1>6. ASSUME NEW f \in OnStack(fs), Awaits(prog, f) # NULL
        PROVE  /\ Awaits(prog, f) \in Nodes /\ Awaits(prog, f) # n
               /\ ~Opened(Awaits(prog, f))
               /\ ParentsOpened(Awaits(prog, f))'
               /\ \A g \in OnStack(todo) : Awaits(prog, g) # Awaits(prog, f)
    <2>1. PICK i \in DOMAIN Children(prog, n) : Children(prog, n)[i] = Awaits(prog, f)
      BY <1>6
    <2>2. \A p \in Nodes \cup {NULL} : \A j \in DOMAIN Children(prog, p) :
             Children(prog, p)[j] = Awaits(prog, f) => p = n
      BY <1>6, <2>1, TreesAssumption DEF Walk, IsTree, OnePlaceEach
    <2>3. ParentsOpened(Awaits(prog, f))'
      BY <1>1, <1>4, <2>2 DEF ParentsOpened
    <2> QED
      BY <1>6, <2>1, <2>3, ChildIsNew
  <1>7. \A f \in OnStack(fs), g \in OnStack(Tail(todo)) : ~Clash(prog, f, g)
    <2> SUFFICES ASSUME NEW f \in OnStack(fs), NEW g \in OnStack(Tail(todo)), Clash(prog, f, g)
                 PROVE  FALSE
      OBVIOUS
    <2>1. InWalk(g) /\ g \in OnStack(todo)
      BY <1>1, <1>2, TopInWalk, PushParts
    <2>2. ~(Awaits(prog, f) = Awaits(prog, g) /\ Awaits(prog, f) # NULL)
      BY <1>6, <2>1
    <2>3. ~(f.op # "ast" /\ g.op # "ast" /\ f.n = g.n)
      BY <1>3, <2>1 DEF InWalk
    <2> QED
      BY <2>2, <2>3 DEF Clash
  <1>8. Distinct(prog, todo')
    BY <1>1, <1>7, TopInWalk, JoinDistinct
  <1>9. OnStack(todo') = OnStack(fs) \cup OnStack(Tail(todo))
    BY <1>1, <1>2, PushParts
  <1>10. ASSUME NEW g \in OnStack(Tail(todo)) PROVE InWalk(g)'
    <2>1. InWalk(g) /\ g \in Frame /\ ~Clash(prog, Head(todo), g)
      BY <1>1, TopInWalk
    <2>2. Awaits(prog, g) # n /\ Awaits(prog, g)' = Awaits(prog, g)
      BY <1>1, <2>1 DEF Clash, Awaits
    <2>3. Awaits(prog, g) # NULL => Awaits(prog, g) \in Nodes
      BY <2>1, ProgramParts DEF Awaits, Frame
    <2>4. g.op # "ast" => g.n \in Nodes /\ g.n # n
      BY <1>3, <2>1 DEF InWalk, Frame
    <2> QED
      BY <1>4, <1>5, <2>1, <2>2, <2>3, <2>4 DEF InWalk
  <1>11. ASSUME NEW f \in OnStack(fs) PROVE InWalk(f)'
    <2>1. Awaits(prog, f)' = Awaits(prog, f)
      BY <1>1 DEF Awaits
    <2>2. mark[<<"else", n>>] = 0 /\ mark[<<"fi", n>>] = 0
      BY <1>3 DEF Walk
    <2>3. f.op # "ast" => f.n = n
      OBVIOUS
    <2> QED
      BY <1>4, <1>6, <2>1, <2>2, <2>3 DEF InWalk
  <1>12. \A m \in Nodes : Opened(m)' => ParentsOpened(m)'
    BY <1>3, <1>4, <1>5 DEF Walk
  <1>13. \A m \in Nodes : ~Opened(m)' =>
            \A x \in {"else", "fi", "body"} : mark'[<<x, m>>] = 0
    BY <1>4 DEF Walk
  <1> QED
    BY <1>1, <1>2, <1>8, <1>9, <1>10, <1>11, <1>12, <1>13 DEF Walk

\* A caller that goes on, or compile_ast(NULL): what the new frames claim the
\* old top frame has claimed, and no start of a statement is marked.
LEMMA ResumedWalk ==
  ASSUME TypeOK, Walk, todo # <<>>, prog' = prog, length <= length', length' \in Nat,
         NEW fs \in Seq(Frame), todo' = fs \o Tail(todo), Distinct(prog, fs),
         \A f \in OnStack(fs) :
            /\ Awaits(prog, f) # NULL => Awaits(prog, f) = Awaits(prog, Head(todo))
            /\ f.op # "ast" => /\ f.op = "fi" /\ Head(todo).op # "ast" /\ f.n = Head(todo).n
                               /\ mark'[<<"fi", f.n>>] = 0,
         \A m \in Nodes : mark'[<<"start", m>>] = mark[<<"start", m>>],
         \A m \in Nodes, x \in {"else", "fi", "body"} :
            (Head(todo).op = "ast" \/ Head(todo).n # m) => mark'[<<x, m>>] = mark[<<x, m>>]
  PROVE  Walk'
  <1>1. length \in Nat /\ length' > 0 /\ todo \in Seq(Frame)
    BY DEF TypeOK, Walk
  <1>2. InWalk(Head(todo)) /\ Head(todo) \in Frame
    BY TopInWalk
  <1>3. \A m \in Nodes \cup {NULL} : Opened(m)' <=> Opened(m)
    BY DEF Opened
  <1>4. \A m : ParentsOpened(m) => ParentsOpened(m)'
    BY <1>3 DEF ParentsOpened
  <1>5. \A f \in OnStack(fs), g \in OnStack(Tail(todo)) : ~Clash(prog, f, g)
    BY TopInWalk DEF Clash
  <1>6. Distinct(prog, todo')
    BY <1>5, TopInWalk, JoinDistinct
  <1>7. OnStack(todo') = OnStack(fs) \cup OnStack(Tail(todo))
    BY <1>1, PushParts
  <1>8. \A g \in Frame : Awaits(prog, g) # NULL => Awaits(prog, g) \in Nodes
    BY ProgramParts DEF Awaits, Frame
  <1>9. \A g : Awaits(prog, g)' = Awaits(prog, g)
    BY DEF Awaits
  <1>10. ASSUME NEW g \in OnStack(Tail(todo)) PROVE InWalk(g)'
    <2>1. InWalk(g) /\ g \in Frame /\ ~Clash(prog, Head(todo), g)
      BY TopInWalk
    <2>2. g.op # "ast" => g.n \in Nodes /\ (Head(todo).op = "ast" \/ Head(todo).n # g.n)
      BY <2>1 DEF Clash, Frame
    <2> QED
      BY <1>3, <1>4, <1>8, <1>9, <2>1, <2>2 DEF InWalk
  <1>11. ASSUME NEW f \in OnStack(fs) PROVE InWalk(f)'
    <2>1. f.op # "ast" => Opened(f.n)' /\ f.op = "fi" /\ mark'[<<"fi", f.n>>] = 0
      BY <1>2, <1>3 DEF InWalk, Frame
    <2>2. LET m == Awaits(prog, f) IN m # NULL => ~Opened(m)' /\ ParentsOpened(m)'
      BY <1>2, <1>3, <1>4, <1>8 DEF InWalk
    <2> QED
      BY <1>9, <2>1, <2>2 DEF InWalk
  <1>12. \A m \in Nodes : Opened(m)' => ParentsOpened(m)'
    BY <1>3, <1>4 DEF Walk
  <1>13. \A m \in Nodes : ~Opened(m)' =>
            \A x \in {"else", "fi", "body"} : mark'[<<x, m>>] = 0
    <2> SUFFICES ASSUME NEW m \in Nodes, ~Opened(m)
                 PROVE  \A x \in {"else", "fi", "body"} : mark'[<<x, m>>] = mark[<<x, m>>]
      BY <1>3 DEF Walk
    <2>1. Head(todo).op = "ast" \/ Head(todo).n # m
      BY <1>2 DEF InWalk
    <2> QED
      BY <2>1
  <1> QED
    BY <1>1, <1>6, <1>7, <1>10, <1>11, <1>12, <1>13 DEF Walk

-----------------------------------------------------------------------------
(* The walk, action by action.                                             *)

\* The points of the tree are told apart by their first or second part.
LEMMA StructurePoints ==
  \A m, n \in Nodes : \A x, y \in {"start", "else", "fi", "body"} :
     /\ <<x, m>> \in Points
     /\ (<<x, m>> = <<y, n>>) <=> (x = y /\ m = n)
  BY DEF Points

\* Recording one point leaves every other as it is.
LEMMA MarkOne ==
  ASSUME TypeOK, NEW n \in Nodes, NEW x \in {"start", "else", "fi", "body"}, NEW v
  PROVE  \A m \in Nodes, y \in {"start", "else", "fi", "body"} :
            [mark EXCEPT ![<<x, n>>] = v][<<y, m>>] =
               IF y = x /\ m = n THEN v ELSE mark[<<y, m>>]
  BY StructurePoints DEF TypeOK

\* compile_ast marks the start of n.
LEMMA StartOnly ==
  ASSUME TypeOK, NEW n \in Nodes, mark' = [mark EXCEPT ![<<"start", n>>] = length]
  PROVE  /\ \A m \in Nodes : mark'[<<"start", m>>] =
                                IF m = n THEN length ELSE mark[<<"start", m>>]
         /\ \A m \in Nodes, x \in {"else", "fi", "body"} : mark'[<<x, m>>] = mark[<<x, m>>]
  <1>1. \A m \in Nodes, y \in {"start", "else", "fi", "body"} :
            mark'[<<y, m>>] = IF y = "start" /\ m = n THEN length ELSE mark[<<y, m>>]
    BY MarkOne
  <1>2. ASSUME NEW m \in Nodes, NEW x \in {"else", "fi", "body"}
        PROVE  mark'[<<x, m>>] = mark[<<x, m>>]
    <2>1. x \in {"start", "else", "fi", "body"} /\ x # "start"
      OBVIOUS
    <2> QED
      BY <1>1, <2>1
  <1> QED
    BY <1>1, <1>2

\* The children of a statement by its kind.
LEMMA ChildrenParts ==
  ASSUME TypeOK, NEW n \in Nodes
  PROVE  /\ prog.kind[n] = "if" => Children(prog, n) = <<prog.then[n], prog.else[n]>>
         /\ prog.kind[n] \in {"do", "for"} => Children(prog, n) = prog.body[n]
  BY NullAssumption DEF Children

\* A statement without children only leaves the stack.
LEMMA LeafWalk ==
  ASSUME TypeOK, Walk, NEW n \in Nodes, NEW K, Called(n, K), length <= length', length' \in Nat,
         todo' = Tail(todo), mark' = [mark EXCEPT ![<<"start", n>>] = length]
  PROVE  Walk'
  <1>1. todo # <<>> /\ Tail(todo) \in Seq(Frame)
    BY TopInWalk DEF Called
  <1>2. todo' = <<>> \o Tail(todo) /\ <<>> \in Seq(Frame)
    BY <1>1
  <1>3. Distinct(prog, <<>>) /\ OnStack(<<>>) = {}
    BY DEF Distinct, OnStack
  <1> QED
    BY <1>2, <1>3, StartOnly, CalledWalk

\* compile_if pushes its THEN branch and, with its own frame, its ELSE branch.
LEMMA IfWalk ==
  ASSUME TypeOK, TypeOK', Walk, NEW n \in Nodes, CompileIf(n)
  PROVE  Walk'
  <1> DEFINE site == length + prog.expr[n] + 4
             f1   == Call(prog.then[n])
             f2   == [op |-> "else", n |-> n, at |-> site]
             fs   == <<f1, f2>>
  <1>1. Called(n, {"if"}) /\ prog.kind[n] = "if" /\ length' = site + 2
        /\ todo' = fs \o Tail(todo)
        /\ mark' = [mark EXCEPT ![<<"start", n>>] = length]
    BY DEF CompileIf, Called
  <1>2. length \in Nat /\ site \in Nat /\ length <= length' /\ length' \in Nat
    BY <1>1, Naturals
  <1>3. f1 \in Frame /\ f2 \in Frame
    BY <1>2, ProgramParts DEF Frame, Call
  <1>4. /\ f1.op = "ast" /\ Awaits(prog, f1) = prog.then[n]
        /\ f2.op = "else" /\ f2.n = n /\ Awaits(prog, f2) = prog.else[n]
    BY DEF Call, Awaits
  <1>5. Children(prog, n) = <<prog.then[n], prog.else[n]>>
    BY <1>1, ChildrenParts
  <1> HIDE DEF f1, f2
  <1>6. prog.then[n] = prog.else[n] => prog.then[n] = NULL
    <2>1. 1 \in DOMAIN Children(prog, n) /\ 2 \in DOMAIN Children(prog, n)
          /\ Children(prog, n)[1] = prog.then[n] /\ Children(prog, n)[2] = prog.else[n]
      BY <1>5
    <2> QED
      BY <2>1, TreesAssumption DEF Walk, IsTree, OnePlaceEach
  <1>7. fs \in Seq(Frame) /\ OnStack(fs) = {f1, f2}
    BY <1>3 DEF OnStack
  <1>8. Distinct(prog, fs)
    <2>1. ~Clash(prog, f1, f2) /\ ~Clash(prog, f2, f1)
      BY <1>4, <1>6 DEF Clash
    <2>2. DOMAIN fs = {1, 2} /\ fs[1] = f1 /\ fs[2] = f2
      OBVIOUS
    <2> HIDE DEF fs
    <2> QED
      BY <2>1, <2>2 DEF Distinct
  <1>9. \A f \in OnStack(fs) :
            /\ Awaits(prog, f) # NULL =>
                  /\ Awaits(prog, f) \in Nodes
                  /\ \E i \in DOMAIN Children(prog, n) : Children(prog, n)[i] = Awaits(prog, f)
            /\ f.op # "ast" => f.n = n
    <2>1. 1 \in DOMAIN Children(prog, n) /\ 2 \in DOMAIN Children(prog, n)
          /\ Children(prog, n)[1] = prog.then[n] /\ Children(prog, n)[2] = prog.else[n]
      BY <1>5
    <2>2. prog.then[n] \in Nodes \cup {NULL} /\ prog.else[n] \in Nodes \cup {NULL}
      BY ProgramParts
    <2> QED
      BY <1>4, <1>7, <2>1, <2>2
  <1>10. /\ \A m \in Nodes : mark'[<<"start", m>>] =
                                IF m = n THEN length ELSE mark[<<"start", m>>]
         /\ \A m \in Nodes, x \in {"else", "fi", "body"} :
               m # n \/ x # "body" => mark'[<<x, m>>] = mark[<<x, m>>]
    BY <1>1, StartOnly
  <1> HIDE DEF fs
  <1> QED
    BY <1>1, <1>2, <1>7, <1>8, <1>9, <1>10, CalledWalk

\* The calls for the body of a loop: each part once, and the frame of the loop.
LEMMA BodyFrames ==
  ASSUME TypeOK, Walk, NEW n \in Nodes, prog.kind[n] \in {"do", "for"},
         NEW op \in {"loop", "next"}, NEW at \in Nat
  PROVE  LET own == [op |-> op, n |-> n, at |-> at]
             fs  == Calls(prog.body[n]) \o <<own>>
         IN /\ fs \in Seq(Frame)
            /\ OnStack(fs) = OnStack(Calls(prog.body[n])) \cup {own}
            /\ Distinct(prog, fs)
            /\ \A f \in OnStack(fs) :
                  /\ Awaits(prog, f) # NULL =>
                        /\ Awaits(prog, f) \in Nodes
                        /\ \E i \in DOMAIN Children(prog, n) :
                              Children(prog, n)[i] = Awaits(prog, f)
                  /\ f.op # "ast" => f.n = n
  <1> DEFINE body == prog.body[n]
             own  == [op |-> op, n |-> n, at |-> at]
             cs   == Calls(body)
             os   == <<own>>
             fs   == cs \o os
  <1>1. body \in Seq(Nodes \cup {NULL}) /\ Children(prog, n) = body
    BY ProgramParts, ChildrenParts
  <1>2. cs \in Seq(Frame) /\ DOMAIN cs = DOMAIN body
        /\ \A i \in DOMAIN cs : /\ cs[i].op = "ast" /\ cs[i].n = body[i]
                                /\ Awaits(prog, cs[i]) = body[i]
    BY <1>1, CallsType DEF Calls, Call, Awaits
  <1>3. own \in Frame /\ own.op # "ast" /\ own.n = n /\ Awaits(prog, own) = NULL
    BY DEF Frame, Awaits
  <1> HIDE DEF own, cs
  <1>4. os \in Seq(Frame) /\ DOMAIN os = {1} /\ os[1] = own
    BY <1>3
  <1>5. OnStack(os) = {own}
    BY <1>4 DEF OnStack
  <1> HIDE DEF os
  <1>6. fs \in Seq(Frame)
    BY <1>2, <1>4
  <1>7. OnStack(fs) = OnStack(cs) \cup {own}
    BY <1>2, <1>4, <1>5, JoinParts
  <1>8. Distinct(prog, cs)
    <2> SUFFICES ASSUME NEW i \in DOMAIN cs, NEW j \in DOMAIN cs, i # j
                 PROVE  ~Clash(prog, cs[i], cs[j])
      BY DEF Distinct
    <2>1. ~(body[i] = body[j] /\ body[i] # NULL)
      BY <1>1, <1>2, TreesAssumption DEF Walk, IsTree, OnePlaceEach
    <2> QED
      BY <1>2, <2>1 DEF Clash
  <1>9. Distinct(prog, os)
    BY <1>4 DEF Distinct
  <1>10. \A f \in OnStack(cs) : f.op = "ast" /\ \E i \in DOMAIN body : Awaits(prog, f) = body[i]
    BY <1>2 DEF OnStack
  <1>11. Distinct(prog, fs)
    <2>1. \A f \in OnStack(cs), g \in OnStack(os) : ~Clash(prog, f, g)
      BY <1>3, <1>5, <1>10 DEF Clash
    <2> QED
      BY <1>2, <1>4, <1>8, <1>9, <2>1, JoinDistinct
  <1> HIDE DEF fs
  <1>12. \A f \in OnStack(fs) :
            /\ Awaits(prog, f) # NULL =>
                  /\ Awaits(prog, f) \in Nodes
                  /\ \E i \in DOMAIN Children(prog, n) : Children(prog, n)[i] = Awaits(prog, f)
            /\ f.op # "ast" => f.n = n
    <2>1. \A i \in DOMAIN body : body[i] \in Nodes \cup {NULL}
      BY <1>1
    <2> QED
      BY <1>1, <1>3, <1>7, <1>10, <2>1
  <1> QED
    BY <1>6, <1>7, <1>11, <1>12 DEF fs, own, cs, os

\* The two loops push the calls for their bodies, and their own frame.
LEMMA LoopWalk ==
  ASSUME TypeOK, TypeOK', Walk, NEW n \in Nodes, NEW K, Called(n, K),
         prog.kind[n] \in {"do", "for"}, length <= length',
         NEW op \in {"loop", "next"}, NEW at \in Nat,
         todo' = Calls(prog.body[n]) \o <<[op |-> op, n |-> n, at |-> at]>> \o Tail(todo),
         NEW v, mark' = [mark EXCEPT ![<<"start", n>>] = length, ![<<"body", n>>] = v]
  PROVE  Walk'
  <1> DEFINE fs == Calls(prog.body[n]) \o <<[op |-> op, n |-> n, at |-> at]>>
  <1>1. todo' = fs \o Tail(todo) /\ length' \in Nat
    BY DEF TypeOK
  <1>2. /\ fs \in Seq(Frame)
        /\ Distinct(prog, fs)
        /\ \A f \in OnStack(fs) :
              /\ Awaits(prog, f) # NULL =>
                    /\ Awaits(prog, f) \in Nodes
                    /\ \E i \in DOMAIN Children(prog, n) :
                          Children(prog, n)[i] = Awaits(prog, f)
              /\ f.op # "ast" => f.n = n
    BY BodyFrames
  <1> HIDE DEF fs
  <1>3. /\ \A m \in Nodes : mark'[<<"start", m>>] =
                                IF m = n THEN length ELSE mark[<<"start", m>>]
        /\ \A m \in Nodes, x \in {"else", "fi", "body"} :
              m # n \/ x # "body" => mark'[<<x, m>>] = mark[<<x, m>>]
    <2>1. DOMAIN mark = Points
      BY DEF TypeOK
    <2>2. ASSUME NEW m \in Nodes
          PROVE  mark'[<<"start", m>>] = IF m = n THEN length ELSE mark[<<"start", m>>]
      BY <2>1, StructurePoints
    <2>3. ASSUME NEW m \in Nodes, NEW x \in {"else", "fi", "body"}, m # n \/ x # "body"
          PROVE  mark'[<<x, m>>] = mark[<<x, m>>]
      BY <2>1, <2>3, StructurePoints
    <2> QED
      BY <2>2, <2>3
  <1> QED
    BY <1>1, <1>2, <1>3, CalledWalk

\* A caller that is done, and compile_ast(NULL), only leave the stack; what they
\* mark belongs to the node of the caller.
LEMMA PopWalk ==
  ASSUME TypeOK, TypeOK', Walk, todo # <<>>, prog' = prog, length <= length',
         todo' = Tail(todo),
         \A m \in Nodes : mark'[<<"start", m>>] = mark[<<"start", m>>],
         \A m \in Nodes, x \in {"else", "fi", "body"} :
            (Head(todo).op = "ast" \/ Head(todo).n # m) => mark'[<<x, m>>] = mark[<<x, m>>]
  PROVE  Walk'
  <1>1. Tail(todo) \in Seq(Frame) /\ length' \in Nat
    BY TopInWalk DEF TypeOK
  <1>2. todo' = <<>> \o Tail(todo) /\ <<>> \in Seq(Frame)
    BY <1>1
  <1>3. Distinct(prog, <<>>) /\ OnStack(<<>>) = {}
    BY DEF Distinct, OnStack
  <1> QED
    BY <1>1, <1>2, <1>3, ResumedWalk

\* compile_if goes on with the ELSE branch, which its frame has kept for it.
LEMMA ElseWalk ==
  ASSUME TypeOK, TypeOK', Walk, ResumeIfWithElse
  PROVE  Walk'
  <1> DEFINE f  == Head(todo)
             f1 == Call(prog.else[f.n])
             f2 == [op |-> "fi", n |-> f.n, at |-> length + 1]
             fs == <<f1, f2>>
  <1>1. Resumed("else") /\ prog' = prog /\ length' = length + 3
        /\ todo' = fs \o Tail(todo)
        /\ mark' = [mark EXCEPT ![<<"else", f.n>>] = length + 3]
    BY DEF ResumeIfWithElse, Resumed
  <1>2. f.n \in Nodes /\ todo # <<>> /\ f.op = "else" /\ InWalk(f)
    BY <1>1, ResumedType, TopInWalk DEF Resumed
  <1>3. length \in Nat /\ length <= length' /\ length' \in Nat
    BY <1>1 DEF TypeOK
  <1>4. /\ f1 \in Frame /\ f1.op = "ast" /\ Awaits(prog, f1) = prog.else[f.n]
        /\ f2 \in Frame /\ f2.op = "fi" /\ f2.n = f.n /\ Awaits(prog, f2) = NULL
        /\ Awaits(prog, f) = prog.else[f.n]
    BY <1>2, <1>3, ProgramParts DEF Frame, Call, Awaits
  <1>5. mark'[<<"fi", f.n>>] = 0
    BY <1>1, <1>2, MarkOne DEF InWalk
  <1> HIDE DEF f1, f2
  <1>6. fs \in Seq(Frame) /\ OnStack(fs) = {f1, f2}
    BY <1>4 DEF OnStack
  <1>7. Distinct(prog, fs)
    <2>1. ~Clash(prog, f1, f2) /\ ~Clash(prog, f2, f1)
      BY <1>4 DEF Clash
    <2>2. DOMAIN fs = {1, 2} /\ fs[1] = f1 /\ fs[2] = f2
      OBVIOUS
    <2> HIDE DEF fs
    <2> QED
      BY <2>1, <2>2 DEF Distinct
  <1>8. \A g \in OnStack(fs) :
            /\ Awaits(prog, g) # NULL => Awaits(prog, g) = Awaits(prog, f)
            /\ g.op # "ast" => /\ g.op = "fi" /\ f.op # "ast" /\ g.n = f.n
                               /\ mark'[<<"fi", g.n>>] = 0
    BY <1>2, <1>4, <1>5, <1>6
  <1>9. \A m \in Nodes : mark'[<<"start", m>>] = mark[<<"start", m>>]
    BY <1>1, <1>2, MarkOne
  <1>10. \A m \in Nodes, x \in {"else", "fi", "body"} :
            (f.op = "ast" \/ f.n # m) => mark'[<<x, m>>] = mark[<<x, m>>]
    BY <1>1, <1>2, StructurePoints DEF TypeOK
  <1> HIDE DEF fs, f
  <1> QED
    BY <1>1, <1>2, <1>3, <1>6, <1>7, <1>8, <1>9, <1>10, ResumedWalk DEF f

\* compile_if is done.
LEMMA FiWalk ==
  ASSUME TypeOK, TypeOK', Walk, ResumeIfAtEnd
  PROVE  Walk'
  <1> DEFINE f == Head(todo)
  <1>1. Resumed("fi") /\ prog' = prog /\ length' = length /\ todo' = Tail(todo)
        /\ mark' = [mark EXCEPT ![<<"fi", f.n>>] = length]
    BY DEF ResumeIfAtEnd, Resumed
  <1>2. f.n \in Nodes /\ todo # <<>> /\ f.op = "fi"
    BY <1>1, ResumedType DEF Resumed
  <1>3. length <= length'
    BY <1>1 DEF TypeOK
  <1>4. \A m \in Nodes : mark'[<<"start", m>>] = mark[<<"start", m>>]
    BY <1>1, <1>2, MarkOne
  <1>5. \A m \in Nodes, x \in {"else", "fi", "body"} :
            (f.op = "ast" \/ f.n # m) => mark'[<<x, m>>] = mark[<<x, m>>]
    BY <1>1, <1>2, StructurePoints DEF TypeOK
  <1> QED
    BY <1>1, <1>2, <1>3, <1>4, <1>5, PopWalk

\* A fresh program: the parts of the top level wait, each once.
LEMMA InitWalk == Init => Walk
  <1> SUFFICES ASSUME Init PROVE Walk
    OBVIOUS
  <1>1. prog \in Programs /\ todo = Calls(prog.top) /\ mark = [p \in Points |-> 0]
        /\ length = EntryLength(prog)
    BY DEF Init
  <1>2. prog.top \in Seq(Nodes \cup {NULL}) /\ prog.blob \in Nat
    BY InitTypeOK, ProgramsAssumption DEF Init, ProgramType
  <1>3. DOMAIN todo = DOMAIN prog.top
        /\ \A i \in DOMAIN todo : /\ todo[i].op = "ast" /\ todo[i].n = prog.top[i]
                                  /\ Awaits(prog, todo[i]) = prog.top[i]
    BY <1>1, <1>2 DEF Calls, Call, Awaits
  <1>4. Children(prog, NULL) = prog.top
    BY DEF Children
  <1>5. \A m \in Nodes : ~Opened(m)
    BY <1>1, NullAssumption DEF Opened, Points
  <1>6. \A m \in Nodes, x \in {"else", "fi", "body"} : mark[<<x, m>>] = 0
    BY <1>1 DEF Points
  <1>7. Distinct(prog, todo)
    <2> SUFFICES ASSUME NEW i \in DOMAIN todo, NEW j \in DOMAIN todo, i # j
                 PROVE  ~Clash(prog, todo[i], todo[j])
      BY DEF Distinct
    <2>1. ~(prog.top[i] = prog.top[j] /\ prog.top[i] # NULL)
      BY <1>1, <1>3, <1>4, TreesAssumption DEF IsTree, OnePlaceEach
    <2> QED
      BY <1>3, <2>1 DEF Clash
  <1>8. ASSUME NEW f \in OnStack(todo) PROVE InWalk(f)
    <2>1. PICK i \in DOMAIN prog.top : f.op = "ast" /\ Awaits(prog, f) = prog.top[i]
      BY <1>3 DEF OnStack
    <2>2. prog.top[i] \in Nodes \cup {NULL}
      BY <1>2
    <2>3. ASSUME prog.top[i] # NULL
          PROVE  ~Opened(prog.top[i]) /\ ParentsOpened(prog.top[i])
      <3>1. \A p \in Nodes \cup {NULL} : \A j \in DOMAIN Children(prog, p) :
               Children(prog, p)[j] = prog.top[i] => p = NULL
        BY <1>1, <1>4, <2>3, TreesAssumption DEF IsTree, OnePlaceEach
      <3> QED
        BY <1>5, <2>2, <2>3, <3>1 DEF ParentsOpened, Opened
    <2> QED
      BY <2>1, <2>3 DEF InWalk
  <1>9. length > 0
    BY <1>1, <1>2 DEF EntryLength, RUNTIMELEN
  <1> QED
    BY <1>1, <1>5, <1>6, <1>7, <1>8, <1>9 DEF Walk

\* Every step keeps the walk in order.
LEMMA StepWalk ==
  ASSUME TypeOK, TypeOK', Walk, [Next]_vars
  PROVE  Walk'
  <1>1. length <= length'
    BY LengthGrows
  <1>2. length' \in Nat
    BY DEF TypeOK
  <1>3. CASE CompileNothing
    <2>1. todo # <<>> /\ Head(todo).op = "ast" /\ todo' = Tail(todo) /\ prog' = prog /\ mark' = mark
      BY <1>3 DEF CompileNothing
    <2> QED
      BY <1>1, <2>1, PopWalk
  <1>4. ASSUME NEW n \in Nodes,
               CompileAssign(n) \/ CompileCopy(n) \/ CompilePrint(n) \/ CompileEnd(n)
               \/ CompileGoto(n)
        PROVE  Walk'
    <2>1. todo' = Tail(todo) /\ mark' = [mark EXCEPT ![<<"start", n>>] = length]
      BY <1>4 DEF CompileAssign, CompileCopy, CompilePrint, CompileEnd, CompileGoto
    <2>2. \E K : Called(n, K)
      BY <1>4 DEF CompileAssign, CompileCopy, CompilePrint, CompileEnd, CompileGoto
    <2> QED
      BY <1>1, <1>2, <2>1, <2>2, LeafWalk
  <1>5. ASSUME NEW n \in Nodes, CompileIf(n) PROVE Walk'
    BY <1>5, IfWalk
  <1>6. ASSUME NEW n \in Nodes, CompileDo(n) PROVE Walk'
    <2>1. Called(n, {"do"}) /\ prog.kind[n] \in {"do", "for"} /\ Wrap(length) \in Nat
      BY <1>6, WrapWord, WordNat DEF CompileDo, Called, TypeOK
    <2> QED
      BY <1>1, <1>6, <2>1, LoopWalk DEF CompileDo
  <1>7. ASSUME NEW n \in Nodes, CompileFor(n) PROVE Walk'
    <2>1. Called(n, {"for"}) /\ prog.kind[n] \in {"do", "for"}
      BY <1>7 DEF CompileFor, Called
    <2>2. length + AssignLength(n) \in Int
      BY AssignLengthNat DEF TypeOK
    <2>3. Wrap(length + AssignLength(n)) \in Nat
      BY <2>2, WrapWord, WordNat
    <2> QED
      BY <1>1, <1>7, <2>1, <2>3, LoopWalk DEF CompileFor
  <1>8. CASE ResumeIfWithElse \/ ResumeIfAtEnd
    BY <1>8, ElseWalk, FiWalk
  <1>9. CASE ResumeDo \/ ResumeFor
    <2>1. todo # <<>> /\ todo' = Tail(todo) /\ prog' = prog /\ mark' = mark
      BY <1>9 DEF ResumeDo, ResumeFor, Resumed
    <2> QED
      BY <1>1, <2>1, PopWalk
  <1>10. CASE Finish
    <2>1. UNCHANGED <<prog, todo>>
          /\ \A m \in Nodes, x \in {"start", "else", "fi", "body"} : mark'[<<x, m>>] = mark[<<x, m>>]
      BY <1>10, NullAssumption DEF Finish, TypeOK, Points
    <2>2. \A m \in Nodes \cup {NULL} : Opened(m)' <=> Opened(m)
      BY <2>1 DEF Opened
    <2>3. todo = <<>>
      BY <1>10 DEF Finish
    <2>4. \A m : ParentsOpened(m)' <=> ParentsOpened(m)
      BY <2>1, <2>2 DEF ParentsOpened
    <2>5. OnStack(<<>>) = {}
      BY DEF OnStack
    <2>6. length' > 0
      BY <1>1, <1>2 DEF TypeOK, Walk
    <2> QED
      BY <2>1, <2>2, <2>3, <2>4, <2>5, <2>6 DEF Walk
  <1>11. CASE UNCHANGED vars
    BY <1>11 DEF vars, Walk, Opened, ParentsOpened, InWalk, Awaits, OnStack
  <1> QED
    BY <1>3, <1>4, <1>5, <1>6, <1>7, <1>8, <1>9, <1>10, <1>11 DEF Next

-----------------------------------------------------------------------------
(***************************************************************************)
(* The jumps of statements.  JumpsKnown ties each of them to the frame that*)
(* will patch it, or to its destination.                                   *)
(***************************************************************************)

\* A frame of an IF will patch the one jump that waits for it, and a frame of a
\* loop knows where its body begins.
JumpOfFrame(f) ==
    /\ f.op \in {"else", "fi"} =>
          \A j \in jumps : j.to = <<f.op, f.n>> <=> j.site = f.at
    /\ f.op = "else" => \A j \in jumps : j.to # <<"fi", f.n>>
    /\ f.op \in {"loop", "next"} => f.at = mark[<<"body", f.n>>] /\ f.at \in Word16 \ {0}

\* A jump of a statement goes to its destination, or a frame will see to it.
Lands(j) ==
    j.to[1] # "start" =>
       /\ j.to[2] \in Nodes /\ Opened(j.to[2])
       /\ \A e \in patches : e.addr # j.site
       /\ IF mark[j.to] # 0 THEN Goes(j.site) = mark[j.to]
          ELSE \E f \in OnStack(todo) : <<f.op, f.n>> = j.to

JumpsKnown ==
    /\ \A f \in OnStack(todo) : JumpOfFrame(f)
    /\ \A j \in jumps : j.site \in DOMAIN word /\ Lands(j)

\* The invariant says what is claimed.
LEMMA KnownLands == TypeOK /\ JumpsKnown => StructuredJumpsLand
  BY DEF JumpsKnown, Lands, StructuredJumpsLand

\* A frame of an IF names a word of the code.
LEMMA FrameSites ==
  ASSUME TypeOK, Linked, NEW f \in OnStack(todo), f.op \in {"else", "fi"}
  PROVE  f.at \in DOMAIN word /\ \A e \in patches : e.addr # f.at
  <1>1. f \in SafeFrames
    BY DEF Linked, OnStack
  <1> QED
    BY <1>1 DEF SafeFrames

\* A call of compile_ast leaves all jumps alone but those patch_jumps resolves.
LEMMA CalledJumps ==
  ASSUME TypeOK, TypeOK', Walk, Linked, JumpsKnown,
         NEW n \in Nodes, NEW K, Called(n, K),
         NEW fs \in Seq(Frame), todo' = fs \o Tail(todo),
         \A m \in Nodes : mark'[<<"start", m>>] =
                             IF m = n THEN length ELSE mark[<<"start", m>>],
         \A m \in Nodes, x \in {"else", "fi", "body"} : m # n => mark'[<<x, m>>] = mark[<<x, m>>],
         DOMAIN word \subseteq DOMAIN word',
         \A s \in DOMAIN word : word'[s] = PatchedWord(n)[s],
         \A e \in patches' \ patches : e.addr \notin DOMAIN word,
         jumps \subseteq jumps',
         \A j \in jumps' \ jumps :
            /\ j.site \in DOMAIN word' /\ j.site \notin DOMAIN word
            /\ j.to[1] = "start" \/ j.to[2] = n
            /\ Lands(j)',
         \A f \in OnStack(fs) : JumpOfFrame(f)'
  PROVE  JumpsKnown'
  <1>1. todo # <<>> /\ todo \in Seq(Frame) /\ Head(todo).op = "ast" /\ Head(todo).n = n
        /\ Awaits(prog, Head(todo)) = n /\ n # NULL
    BY NullAssumption DEF Called, Awaits, TypeOK
  <1>2. ~Opened(n)
    BY <1>1, TopInWalk DEF InWalk
  <1>3. OnStack(todo') = OnStack(fs) \cup OnStack(Tail(todo))
        /\ OnStack(todo) = {Head(todo)} \cup OnStack(Tail(todo))
    BY <1>1, PushParts
  <1>4. length # 0
    BY DEF Walk, TypeOK
  <1>5. ASSUME NEW g \in OnStack(Tail(todo)) PROVE JumpOfFrame(g)'
    <2>1. g \in OnStack(todo) /\ g \in Frame /\ InWalk(g) /\ JumpOfFrame(g)
      BY <1>1, <1>3, TopInWalk DEF JumpsKnown
    <2>2. g.op # "ast" => g.n \in Nodes /\ g.n # n
      BY <1>2, <2>1 DEF InWalk, Frame
    <2>3. g.op \in {"else", "fi"} => g.at \in DOMAIN word
      BY <2>1, FrameSites
    <2>4. g.op \in {"loop", "next"} => mark'[<<"body", g.n>>] = mark[<<"body", g.n>>]
      BY <2>2
    <2>5. ASSUME NEW j \in jumps' \ jumps, g.op \in {"else", "fi"}
          PROVE  j.to # <<g.op, g.n>> /\ j.to # <<"fi", g.n>> /\ j.site # g.at
      BY <2>2, <2>3, <2>5
    <2> QED
      BY <2>1, <2>4, <2>5 DEF JumpOfFrame
  <1>6. ASSUME NEW j \in jumps PROVE j.site \in DOMAIN word' /\ Lands(j)'
    <2>1. j.site \in DOMAIN word /\ Lands(j) /\ j.to \in Points
      BY DEF JumpsKnown, TypeOK
    <2>2. SUFFICES ASSUME j.to[1] # "start" PROVE Lands(j)'
      BY <2>1 DEF Lands
    <2>3. PICK x \in {"else", "fi", "body"}, m \in Nodes : j.to = <<x, m>>
      BY <2>1, <2>2 DEF Lands, Points
    <2>4. m # n /\ Opened(m) /\ \A e \in patches : e.addr # j.site
      BY <1>2, <2>1, <2>2, <2>3 DEF Lands
    <2>5. mark'[j.to] = mark[j.to] /\ Opened(m)'
      BY ZenonT(30), <2>3, <2>4 DEF Opened
    <2>6. word'[j.site] = word[j.site]
      BY <2>1, <2>4 DEF PatchedWord
    <2>7. Goes(j.site)' = Goes(j.site)
      BY <2>6 DEF Goes
    <2>8. \A e \in patches' : e.addr # j.site
      BY <2>1, <2>4
    <2>9. \A f \in OnStack(todo) : <<f.op, f.n>> = j.to => f \in OnStack(todo')
      BY <1>1, <1>3, <2>3
    <2>10. IF mark[j.to] # 0 THEN Goes(j.site) = mark[j.to]
           ELSE \E f \in OnStack(todo) : <<f.op, f.n>> = j.to
      BY <2>1, <2>2 DEF Lands
    <2>11. IF mark'[j.to] # 0 THEN Goes(j.site)' = mark'[j.to]
           ELSE \E f \in OnStack(todo') : <<f.op, f.n>> = j.to
      BY <2>5, <2>7, <2>9, <2>10
    <2>12. j.to[2] = m
      BY <2>3
    <2> QED
      BY <2>4, <2>5, <2>8, <2>11, <2>12 DEF Lands
  <1> QED
    BY <1>3, <1>5, <1>6 DEF JumpsKnown

\* Jumps that do not wait for the top frame.
LEMMA JumpElsewhere ==
  ASSUME TypeOK, Walk, JumpsKnown, todo # <<>>,
         NEW j \in jumps, j.to[1] # "start", j.to # <<Head(todo).op, Head(todo).n>>
  PROVE  /\ Head(todo).op \in {"else", "fi"} => j.site # Head(todo).at
         /\ mark[j.to] = 0 => \E f \in OnStack(Tail(todo)) : <<f.op, f.n>> = j.to
         /\ mark[j.to] # 0 => Goes(j.site) = mark[j.to]
  <1>1. OnStack(todo) = {Head(todo)} \cup OnStack(Tail(todo))
    BY PushParts DEF TypeOK
  <1>2. JumpOfFrame(Head(todo)) /\ Lands(j)
    BY <1>1 DEF JumpsKnown
  <1>3. Head(todo).op \in {"else", "fi"} => j.site # Head(todo).at
    BY <1>2 DEF JumpOfFrame
  <1>4. IF mark[j.to] # 0 THEN Goes(j.site) = mark[j.to]
        ELSE \E f \in OnStack(todo) : <<f.op, f.n>> = j.to
    BY <1>2 DEF Lands
  <1> QED
    BY <1>1, <1>3, <1>4

\* A caller that goes on disturbs no jump but the one it patches.
LEMMA ResumedJumps ==
  ASSUME TypeOK, TypeOK', Walk, Linked, JumpsKnown, todo # <<>>,
         prog' = prog, patches' = patches,
         NEW fs \in Seq(Frame), todo' = fs \o Tail(todo),
         \A p \in Points : p # <<Head(todo).op, Head(todo).n>> => mark'[p] = mark[p],
         DOMAIN word \subseteq DOMAIN word',
         \A s \in DOMAIN word :
            word'[s] = word[s] \/ (Head(todo).op \in {"else", "fi"} /\ s = Head(todo).at),
         jumps \subseteq jumps',
         \A j \in jumps' \ jumps :
            /\ j.site \in DOMAIN word' /\ j.site \notin DOMAIN word
            /\ Head(todo).op # "ast" /\ j.to[2] = Head(todo).n
            /\ Lands(j)',
         \A j \in jumps : j.to = <<Head(todo).op, Head(todo).n>> => Lands(j)',
         \A f \in OnStack(fs) : JumpOfFrame(f)'
  PROVE  JumpsKnown'
  <1> DEFINE h == Head(todo)
  <1>1. todo \in Seq(Frame) /\ h \in Frame
    BY TopInWalk DEF TypeOK
  <1>2. OnStack(todo') = OnStack(fs) \cup OnStack(Tail(todo))
        /\ OnStack(todo) = {h} \cup OnStack(Tail(todo))
    BY <1>1, PushParts
  <1> HIDE DEF h
  <1>3. \A m \in Nodes, x \in {"else", "fi", "body", "start"} :
           <<x, m>> \in Points
    BY StructurePoints
  <1>4. ASSUME NEW g \in OnStack(Tail(todo)) PROVE JumpOfFrame(g)'
    <2>1. g \in OnStack(todo) /\ g \in Frame /\ ~Clash(prog, h, g) /\ JumpOfFrame(g)
      BY <1>2, TopInWalk DEF JumpsKnown, h
    <2>2. g.op # "ast" => g.n \in Nodes /\ (h.op = "ast" \/ g.n # h.n)
      BY <2>1 DEF Clash, Frame
    <2>3. g.op \in {"else", "fi"} => g.at \in DOMAIN word
      BY <2>1, FrameSites
    <2>4. g.op \in {"loop", "next"} => mark'[<<"body", g.n>>] = mark[<<"body", g.n>>]
      <3>1. g.op \in {"loop", "next"} =>
               <<"body", g.n>> # <<h.op, h.n>> /\ <<"body", g.n>> \in Points
        BY <1>1, <1>3, <2>2 DEF Frame
      <3> QED
        BY <3>1 DEF h
    <2>5. ASSUME NEW j \in jumps' \ jumps, g.op \in {"else", "fi"}
          PROVE  j.to # <<g.op, g.n>> /\ j.to # <<"fi", g.n>> /\ j.site # g.at
      BY <2>2, <2>3, <2>5 DEF h
    <2> QED
      BY <2>1, <2>4, <2>5 DEF JumpOfFrame
  <1>5. ASSUME NEW j \in jumps PROVE j.site \in DOMAIN word' /\ Lands(j)'
    <2>1. j.site \in DOMAIN word /\ Lands(j) /\ j.to \in Points
      BY DEF JumpsKnown, TypeOK
    <2>2. SUFFICES ASSUME j.to[1] # "start", j.to # <<h.op, h.n>> PROVE Lands(j)'
      BY <2>1 DEF Lands, h
    <2>3. PICK x \in {"else", "fi", "body"}, m \in Nodes : j.to = <<x, m>>
      BY <2>1, <2>2 DEF Lands, Points
    <2>4. Opened(m) /\ \A e \in patches : e.addr # j.site
      BY <2>1, <2>2, <2>3 DEF Lands
    <2>5. mark'[j.to] = mark[j.to]
      BY <2>1, <2>2 DEF h
    <2>6. mark'[<<"start", m>>] = mark[<<"start", m>>]
      <3>1. <<"start", m>> # <<h.op, h.n>>
        BY <1>1 DEF Frame
      <3> QED
        BY <1>3, <3>1 DEF h
    <2>7. Opened(m)'
      BY <2>4, <2>6 DEF Opened
    <2>8. /\ h.op \in {"else", "fi"} => j.site # h.at
          /\ mark[j.to] = 0 => \E f \in OnStack(Tail(todo)) : <<f.op, f.n>> = j.to
          /\ mark[j.to] # 0 => Goes(j.site) = mark[j.to]
      BY <2>2, JumpElsewhere DEF h
    <2>9. word'[j.site] = word[j.site]
      BY <2>1, <2>8 DEF h
    <2>10. Goes(j.site)' = Goes(j.site)
      BY <2>9 DEF Goes
    <2>11. IF mark'[j.to] # 0 THEN Goes(j.site)' = mark'[j.to]
           ELSE \E f \in OnStack(todo') : <<f.op, f.n>> = j.to
      BY <1>2, <2>5, <2>8, <2>10
    <2>12. j.to[2] = m
      BY <2>3
    <2> QED
      BY <2>4, <2>7, <2>11, <2>12 DEF Lands
  <1> QED
    BY <1>2, <1>4, <1>5 DEF JumpsKnown

-----------------------------------------------------------------------------
(* The jumps, action by action.                                            *)

\* No jump of a statement belongs to what is only now compiled.
LEMMA NoJumpYet ==
  ASSUME TypeOK, Walk, JumpsKnown, NEW n \in Nodes, NEW K, Called(n, K)
  PROVE  \A j \in jumps : j.to[1] = "start" \/ j.to[2] # n
  <1>1. todo # <<>> /\ Awaits(prog, Head(todo)) = n /\ n # NULL
    BY NullAssumption DEF Called, Awaits
  <1>2. ~Opened(n)
    BY <1>1, TopInWalk DEF InWalk
  <1> QED
    BY <1>2 DEF JumpsKnown, Lands

\* A statement without children adds at most a jump to a label.
LEMMA LeafJumps ==
  ASSUME TypeOK, TypeOK', Walk, Linked, JumpsKnown, NEW n \in Nodes, NEW K, Called(n, K),
         todo' = Tail(todo), mark' = [mark EXCEPT ![<<"start", n>>] = length],
         DOMAIN word \subseteq DOMAIN word',
         \A s \in DOMAIN word : word'[s] = PatchedWord(n)[s],
         \A e \in patches' \ patches : e.addr \notin DOMAIN word,
         jumps \subseteq jumps',
         \A j \in jumps' \ jumps :
            j.site \in DOMAIN word' /\ j.site \notin DOMAIN word /\ j.to[1] = "start"
  PROVE  JumpsKnown'
  <1>1. todo # <<>> /\ Tail(todo) \in Seq(Frame)
    BY TopInWalk DEF Called
  <1>2. todo' = <<>> \o Tail(todo) /\ <<>> \in Seq(Frame) /\ OnStack(<<>>) = {}
    BY <1>1 DEF OnStack
  <1>3. \A j \in jumps' \ jumps : Lands(j)'
    BY DEF Lands
  <1>4. /\ \A m \in Nodes : mark'[<<"start", m>>] =
                               IF m = n THEN length ELSE mark[<<"start", m>>]
        /\ \A m \in Nodes, x \in {"else", "fi", "body"} :
              m # n => mark'[<<x, m>>] = mark[<<x, m>>]
    BY StartOnly
  <1> QED
    BY <1>2, <1>3, <1>4, CalledJumps

\* compile_goto and compile_gosub add a jump to a label.
LEMMA GotoJumps ==
  ASSUME TypeOK, TypeOK', Walk, Linked, JumpsKnown, Fits', NEW n \in Nodes, CompileGoto(n)
  PROVE  JumpsKnown'
  <1>1. Called(n, {"goto", "gosub"}) /\ todo' = Tail(todo)
        /\ mark' = [mark EXCEPT ![<<"start", n>>] = length]
    BY DEF CompileGoto
  <1>2. length \in Nat /\ length + 1 \in Nat /\ length + 1 >= length
    BY DEF TypeOK
  <1>3. length + 1 \notin DOMAIN word
    BY <1>2, SitesAreOld
  <1>4. CASE ~prog.isreal[prog.label[n]]
    <2>1. UNCHANGED <<patches, jumps>> /\ word' = PatchedWord(n)
      BY <1>4 DEF CompileGoto
    <2> QED
      BY <1>1, <2>1, PatchedType, LeafJumps
  <1>5. CASE prog.isreal[prog.label[n]]
    <2>1. /\ Jump(n)
          /\ \A e \in patches' \ patches : e.addr = Wrap(length + 1)
      BY <1>5 DEF CompileGoto
    <2>5. PICK r : word' = SetWord(PatchedWord(n), length + 1, r)
      BY <1>5 DEF CompileGoto
    <2>2. /\ DOMAIN word' = DOMAIN word \cup {length + 1}
          /\ \A x \in DOMAIN word : word'[x] = PatchedWord(n)[x]
      BY <1>2, <2>5, AddWord
    <2>3. length' = length + 3 /\ jumps \subseteq jumps'
          /\ \A j \in jumps' \ jumps : j.site = length + 1 /\ j.to[1] = "start"
      BY <2>1 DEF Jump
    <2>4. Wrap(length + 1) = length + 1
      <3>1. length + 1 < Segment
        BY <1>2, <2>3 DEF Fits, Segment
      <3> QED
        BY <3>1, <1>2, WrapSmall
    <2> QED
      BY <1>1, <1>3, <2>1, <2>2, <2>3, <2>4, LeafJumps
  <1> QED
    BY <1>4, <1>5

\* A JZ that waits for the frame of its IF.
LEMMA BranchJumps ==
  ASSUME TypeOK, TypeOK', Walk, Linked, JumpsKnown, NEW n \in Nodes, NEW K, Called(n, K),
         NEW site \in Nat, site >= length,
         NEW f1 \in Frame, f1.op = "ast",
         todo' = <<f1, [op |-> "else", n |-> n, at |-> site]>> \o Tail(todo),
         word' = SetWord(PatchedWord(n), site, 0),
         mark' = [mark EXCEPT ![<<"start", n>>] = length],
         patches' = patches,
         jumps' = jumps \cup {[site |-> site, to |-> <<"else", n>>]}
  PROVE  JumpsKnown'
  <1> DEFINE f2 == [op |-> "else", n |-> n, at |-> site]
             fs == <<f1, f2>>
             j0 == [site |-> site, to |-> <<"else", n>>]
  <1>1. todo' = fs \o Tail(todo) /\ jumps' = jumps \cup {j0}
    OBVIOUS
  <1>2. length \in Nat /\ length # 0
    BY DEF TypeOK, Walk
  <1>3. site \notin DOMAIN word /\ \A e \in patches : e.addr # site
    BY <1>2, SitesAreOld
  <1>4. /\ DOMAIN word' = DOMAIN word \cup {site}
        /\ \A x \in DOMAIN word : word'[x] = PatchedWord(n)[x]
    BY AddWord
  <1>5. /\ f1 \in Frame /\ f1.op = "ast"
        /\ f2 \in Frame /\ f2.op = "else" /\ f2.n = n /\ f2.at = site
    BY DEF Frame
  <1>6. j0.site = site /\ j0.to = <<"else", n>>
    OBVIOUS
  <1> HIDE DEF f2, j0
  <1>7. fs \in Seq(Frame) /\ OnStack(fs) = {f1, f2}
    BY <1>5 DEF OnStack
  <1>8. todo \in Seq(Frame) /\ todo # <<>> /\ Awaits(prog, Head(todo)) = n /\ n # NULL
    BY <1>1, NullAssumption DEF TypeOK, Called, Awaits
  <1> HIDE DEF fs
  <1>9. f2 \in OnStack(todo')
    <2>1. fs \in Seq(Frame)
      BY <1>7
    <2>2. OnStack(fs \o Tail(todo)) = OnStack(fs) \cup OnStack(Tail(todo))
      BY <1>8, <2>1, PushParts
    <2>3. todo' = fs \o Tail(todo)
      BY <1>1
    <2> QED
      BY <1>7, <2>2, <2>3
  <1>10. /\ \A m \in Nodes : mark'[<<"start", m>>] =
                                IF m = n THEN length ELSE mark[<<"start", m>>]
         /\ \A m \in Nodes, x \in {"else", "fi", "body"} : mark'[<<x, m>>] = mark[<<x, m>>]
    BY <1>1, StartOnly
  <1>11. mark'[<<"else", n>>] = 0
    <2>1. ~Opened(n)
      BY <1>8, TopInWalk DEF InWalk
    <2> QED
      BY <1>10, <2>1 DEF Walk
  <1>12. Lands(j0)'
    <2>1. j0.to[2] = n /\ Opened(n)'
      BY <1>2, <1>6, <1>10 DEF Opened
    <2>2. <<f2.op, f2.n>> = j0.to
      BY <1>5, <1>6
    <2>3. mark'[j0.to] = 0 /\ \A e \in patches' : e.addr # j0.site
      BY <1>1, <1>3, <1>6, <1>11
    <2> QED
      BY <1>9, <2>1, <2>2, <2>3 DEF Lands
  <1>13. JumpOfFrame(f2)'
    <2>1. ASSUME NEW j \in jumps
          PROVE  j.to # <<"else", n>> /\ j.to # <<"fi", n>> /\ j.site # site
      <3>1. j.to[1] = "start" \/ j.to[2] # n
        BY <1>1, NoJumpYet
      <3>2. j.site \in DOMAIN word
        BY DEF JumpsKnown
      <3> QED
        BY <1>3, <3>1, <3>2
    <2> QED
      BY <1>1, <1>5, <1>6, <2>1 DEF JumpOfFrame
  <1>14. JumpOfFrame(f1)'
    BY <1>5 DEF JumpOfFrame
  <1>15. \A j \in jumps' \ jumps :
            /\ j.site \in DOMAIN word' /\ j.site \notin DOMAIN word
            /\ j.to[1] = "start" \/ j.to[2] = n
            /\ Lands(j)'
    BY <1>1, <1>3, <1>4, <1>6, <1>12
  <1>16. \A f \in OnStack(fs) : JumpOfFrame(f)'
    BY <1>7, <1>13, <1>14
  <1>17. /\ todo' = fs \o Tail(todo) /\ fs \in Seq(Frame)
         /\ DOMAIN word \subseteq DOMAIN word' /\ jumps \subseteq jumps'
         /\ \A e \in patches' \ patches : e.addr \notin DOMAIN word
         /\ \A m \in Nodes, x \in {"else", "fi", "body"} :
               m # n => mark'[<<x, m>>] = mark[<<x, m>>]
    BY <1>1, <1>4, <1>7, <1>10
  <1> QED
    BY <1>4, <1>10, <1>15, <1>16, <1>17, CalledJumps

\* compile_if adds its JZ.
LEMMA IfJumps ==
  ASSUME TypeOK, TypeOK', Walk, Linked, JumpsKnown, NEW n \in Nodes, CompileIf(n)
  PROVE  JumpsKnown'
  <1>1. PICK site : site = length + prog.expr[n] + 4
    OBVIOUS
  <1>2. site \in Nat /\ site >= length
    BY <1>1, Naturals
  <1>3. PICK c : c = Call(prog.then[n])
    OBVIOUS
  <1>4. c \in Frame /\ c.op = "ast"
    BY <1>3, ProgramParts DEF Frame, Call
  <1>5. /\ Called(n, {"if"}) /\ patches' = patches
        /\ todo' = <<c, [op |-> "else", n |-> n, at |-> site]>> \o Tail(todo)
        /\ word' = SetWord(PatchedWord(n), site, 0)
        /\ mark' = [mark EXCEPT ![<<"start", n>>] = length]
        /\ jumps' = jumps \cup {[site |-> site, to |-> <<"else", n>>]}
    BY <1>1, <1>3 DEF CompileIf
  <1> QED
    BY <1>2, <1>4, <1>5, BranchJumps

\* A loop adds no jump before its body, and its frame knows where that begins.
LEMMA LoopJumps ==
  ASSUME TypeOK, TypeOK', Walk, Linked, JumpsKnown, NEW n \in Nodes, NEW K, Called(n, K),
         prog.kind[n] \in {"do", "for"},
         NEW op \in {"loop", "next"}, NEW at \in Word16 \ {0},
         todo' = Calls(prog.body[n]) \o <<[op |-> op, n |-> n, at |-> at]>> \o Tail(todo),
         mark' = [mark EXCEPT ![<<"start", n>>] = length, ![<<"body", n>>] = at],
         word' = PatchedWord(n), patches' = patches, jumps' = jumps
  PROVE  JumpsKnown'
  <1> DEFINE own == [op |-> op, n |-> n, at |-> at]
             fs  == Calls(prog.body[n]) \o <<own>>
  <1>1. todo' = fs \o Tail(todo)
    OBVIOUS
  <1>2. fs \in Seq(Frame) /\ OnStack(fs) = OnStack(Calls(prog.body[n])) \cup {own}
    BY WordNat, BodyFrames
  <1>3. \A f \in OnStack(Calls(prog.body[n])) : f.op = "ast"
    BY DEF OnStack, Calls, Call
  <1>4. own.op = op /\ own.n = n /\ own.at = at
    OBVIOUS
  <1> HIDE DEF own, fs
  <1>5. DOMAIN mark = Points
    BY DEF TypeOK
  <1>6. ASSUME NEW m \in Nodes
        PROVE  mark'[<<"start", m>>] = IF m = n THEN length ELSE mark[<<"start", m>>]
    BY <1>5, StructurePoints
  <1>7. ASSUME NEW m \in Nodes, NEW x \in {"else", "fi", "body"}, m # n
        PROVE  mark'[<<x, m>>] = mark[<<x, m>>]
    BY <1>5, <1>7, StructurePoints
  <1>8. mark'[<<"body", n>>] = at
    BY <1>5, StructurePoints
  <1>9. \A f \in OnStack(fs) : JumpOfFrame(f)'
    BY <1>2, <1>3, <1>4, <1>8 DEF JumpOfFrame
  <1>10. DOMAIN word' = DOMAIN word
    BY PatchedType
  <1> QED
    BY <1>1, <1>2, <1>6, <1>7, <1>9, <1>10, CalledJumps

\* compile_ast(NULL) leaves the jumps alone.
LEMMA NothingJumps ==
  ASSUME TypeOK, TypeOK', Walk, Linked, JumpsKnown, CompileNothing
  PROVE  JumpsKnown'
  <1>1. todo # <<>> /\ Head(todo).op = "ast" /\ todo' = Tail(todo)
        /\ prog' = prog /\ patches' = patches /\ word' = word /\ jumps' = jumps /\ mark' = mark
    BY DEF CompileNothing
  <1>2. Tail(todo) \in Seq(Frame)
    BY <1>1, TopInWalk
  <1>3. todo' = <<>> \o Tail(todo) /\ <<>> \in Seq(Frame) /\ OnStack(<<>>) = {}
    BY <1>1, <1>2 DEF OnStack
  <1>4. \A j \in jumps : j.to = <<Head(todo).op, Head(todo).n>> => Lands(j)'
    <2> SUFFICES ASSUME NEW j \in jumps, j.to = <<Head(todo).op, Head(todo).n>> PROVE FALSE
      OBVIOUS
    <2>1. j.to \in Points
      BY DEF TypeOK
    <2>2. j.to[1] \in {"start", "else", "fi", "body"}
      BY <2>1 DEF Points
    <2>3. j.to[1] = "ast"
      BY <1>1
    <2> QED
      BY <2>2, <2>3
  <1> QED
    BY <1>1, <1>3, <1>4, ResumedJumps

\* The frame on top, when it is that of a statement.
LEMMA TopOwner ==
  ASSUME TypeOK, Walk, JumpsKnown, NEW op \in {"else", "fi", "loop", "next"}, Resumed(op),
         NEW h, h = Head(todo)
  PROVE  /\ todo # <<>> /\ h.op = op /\ h.n \in Nodes /\ h.at \in Nat
         /\ UNCHANGED <<prog, patches>>
         /\ mark[<<"start", h.n>>] # 0
         /\ op = "else" => mark[<<"else", h.n>>] = 0
         /\ op \in {"else", "fi"} => mark[<<"fi", h.n>>] = 0
         /\ JumpOfFrame(h)
         /\ Tail(todo) \in Seq(Frame)
  <1>1. todo # <<>> /\ h.op = op /\ h.n \in Nodes /\ h.at \in Nat /\ UNCHANGED <<prog, patches>>
    BY ResumedType DEF Resumed
  <1>2. InWalk(h) /\ Tail(todo) \in Seq(Frame)
    BY <1>1, TopInWalk
  <1>3. h \in OnStack(todo)
    BY <1>1, PushParts DEF TypeOK
  <1>4. h.n # NULL
    BY <1>1, NullAssumption
  <1> QED
    BY <1>1, <1>2, <1>3, <1>4 DEF InWalk, Opened, JumpsKnown

\* The JZ is patched to the place past the JMP, and the JMP waits for the end.
LEMMA OverElse ==
  ASSUME TypeOK, TypeOK', Walk, Linked, JumpsKnown, Resumed("else"),
         NEW h, h = Head(todo), NEW here, here = length, here + 3 < Segment,
         NEW f1 \in Frame, f1.op = "ast",
         todo' = <<f1, [op |-> "fi", n |-> h.n, at |-> here + 1]>> \o Tail(todo),
         word' = SetWord(SetWord(word, here + 1, 0), h.at, Rel16(here + 3, h.at)),
         mark' = [mark EXCEPT ![<<"else", h.n>>] = here + 3],
         jumps' = jumps \cup {[site |-> here + 1, to |-> <<"fi", h.n>>]}
  PROVE  JumpsKnown'
  <1> DEFINE f2 == [op |-> "fi", n |-> h.n, at |-> here + 1]
             fs == <<f1, f2>>
             j0 == [site |-> here + 1, to |-> <<"fi", h.n>>]
  <1>1. todo' = fs \o Tail(todo) /\ jumps' = jumps \cup {j0}
    OBVIOUS
  <1>2. /\ todo # <<>> /\ h.op = "else" /\ h.n \in Nodes /\ h.at \in Nat
        /\ UNCHANGED <<prog, patches>>
        /\ mark[<<"start", h.n>>] # 0 /\ mark[<<"fi", h.n>>] = 0
        /\ JumpOfFrame(h) /\ Tail(todo) \in Seq(Frame)
    BY TopOwner
  <1>3. here \in Nat /\ here + 1 \in Nat /\ here + 1 >= length /\ here + 3 \in Nat /\ here + 3 # 0
    BY DEF TypeOK
  <1>4. here + 1 \notin DOMAIN word /\ \A e \in patches : e.addr # here + 1
    BY <1>3, SitesAreOld
  <1>5. h.at \in DOMAIN word /\ \A e \in patches : e.addr # h.at
    BY IfFrameSafe
  <1>6. /\ DOMAIN word' = DOMAIN word \cup {here + 1}
        /\ \A s \in DOMAIN word : s # h.at => word'[s] = word[s]
        /\ word'[h.at] = Rel16(here + 3, h.at)
    BY <1>4, <1>5 DEF SetWord
  <1>7. /\ f2 \in Frame /\ f2.op = "fi" /\ f2.n = h.n /\ f2.at = here + 1
        /\ j0.site = here + 1 /\ j0.to = <<"fi", h.n>>
    BY <1>2, <1>3 DEF Frame
  <1> HIDE DEF f2, j0
  <1>8. fs \in Seq(Frame) /\ OnStack(fs) = {f1, f2}
    BY <1>7 DEF OnStack
  <1> HIDE DEF fs
  <1>9. f2 \in OnStack(todo')
    <2>1. OnStack(fs \o Tail(todo)) = OnStack(fs) \cup OnStack(Tail(todo))
      BY <1>2, <1>8, PushParts DEF TypeOK
    <2> QED
      BY <1>1, <1>8, <2>1
  <1>10. \A m \in Nodes, y \in {"start", "else", "fi", "body"} :
            mark'[<<y, m>>] = IF y = "else" /\ m = h.n THEN here + 3 ELSE mark[<<y, m>>]
    <2>1. \A m \in Nodes, y \in {"start", "else", "fi", "body"} :
             [mark EXCEPT ![<<"else", h.n>>] = here + 3][<<y, m>>] =
                IF y = "else" /\ m = h.n THEN here + 3 ELSE mark[<<y, m>>]
      BY ZenonT(30), <1>2, StructurePoints DEF TypeOK
    <2> QED
      BY <2>1
  <1>11. \A p \in Points : p # <<"else", h.n>> => mark'[p] = mark[p]
    BY DEF TypeOK
  <1>12. mark'[<<"start", h.n>>] # 0 /\ mark'[<<"fi", h.n>>] = 0
         /\ mark'[<<"else", h.n>>] = here + 3
    BY <1>2, <1>10
  <1>13. Lands(j0)'
    <2>1. j0.to[2] = h.n /\ Opened(h.n)' /\ <<f2.op, f2.n>> = j0.to
      BY <1>7, <1>12 DEF Opened
    <2>2. mark'[j0.to] = 0 /\ \A e \in patches' : e.addr # j0.site
      BY <1>2, <1>4, <1>7, <1>12
    <2> QED
      BY <1>2, <1>9, <2>1, <2>2 DEF Lands
  <1>14. ASSUME NEW j \in jumps, j.to = <<"else", h.n>> PROVE Lands(j)'
    <2>1. j.site = h.at
      BY <1>2, <1>14 DEF JumpOfFrame
    <2>2. here + 3 \in Word16
      BY <1>3, WrapSmall
    <2>3. Goes(j.site)' = here + 3
      BY <1>2, <1>6, <2>1, <2>2, LandRel DEF Goes
    <2>4. j.to[2] = h.n /\ Opened(h.n)'
      BY <1>12, <1>14 DEF Opened
    <2>5. \A e \in patches' : e.addr # j.site
      BY <1>2, <1>5, <2>1
    <2> QED
      BY <1>2, <1>3, <1>12, <1>14, <2>3, <2>4, <2>5 DEF Lands
  <1>15. JumpOfFrame(f2)'
    <2>1. ASSUME NEW j \in jumps PROVE j.to # <<"fi", h.n>> /\ j.site # here + 1
      <3>1. j.site \in DOMAIN word
        BY DEF JumpsKnown
      <3> QED
        BY <1>2, <1>4, <3>1 DEF JumpOfFrame
    <2> QED
      BY <1>1, <1>7, <2>1 DEF JumpOfFrame
  <1>16. \A f \in OnStack(fs) : JumpOfFrame(f)'
    BY <1>8, <1>15 DEF JumpOfFrame
  <1>17. \A j \in jumps' \ jumps :
            /\ j.site \in DOMAIN word' /\ j.site \notin DOMAIN word
            /\ Head(todo).op # "ast" /\ j.to[2] = Head(todo).n
            /\ Lands(j)'
    BY <1>1, <1>2, <1>4, <1>6, <1>7, <1>13
  <1>18. /\ DOMAIN word \subseteq DOMAIN word' /\ jumps \subseteq jumps'
         /\ \A s \in DOMAIN word :
               word'[s] = word[s] \/ (Head(todo).op \in {"else", "fi"} /\ s = Head(todo).at)
         /\ \A p \in Points : p # <<Head(todo).op, Head(todo).n>> => mark'[p] = mark[p]
         /\ \A j \in jumps : j.to = <<Head(todo).op, Head(todo).n>> => Lands(j)'
    BY <1>1, <1>2, <1>6, <1>11, <1>14
  <1>19. todo' = fs \o Tail(todo) /\ fs \in Seq(Frame)
    BY <1>1, <1>8
  <1> QED
    BY <1>2, <1>16, <1>17, <1>18, <1>19, ResumedJumps

\* compile_if goes on with the ELSE branch.
LEMMA ElseJumps ==
  ASSUME TypeOK, TypeOK', Walk, Linked, JumpsKnown, Fits', ResumeIfWithElse
  PROVE  JumpsKnown'
  <1>1. PICK h : h = Head(todo)
    OBVIOUS
  <1>2. PICK here : here = length
    OBVIOUS
  <1>3. PICK c : c = Call(prog.else[h.n])
    OBVIOUS
  <1>4. Resumed("else") /\ length' = here + 3
    BY <1>2 DEF ResumeIfWithElse
  <1>5. h.n \in Nodes /\ h.at \in Nat /\ length \in Nat
    BY <1>1, <1>4, TopOwner DEF TypeOK
  <1>8. /\ todo' = <<c, [op |-> "fi", n |-> h.n, at |-> here + 1]>> \o Tail(todo)
        /\ word' = SetWord(SetWord(word, here + 1, 0), h.at, Rel16(here + 3, h.at))
        /\ mark' = [mark EXCEPT ![<<"else", h.n>>] = here + 3]
        /\ jumps' = jumps \cup {[site |-> here + 1, to |-> <<"fi", h.n>>]}
    <2>1. length + 3 - (h.at + 2) = (length + 3) - (h.at + 2)
      BY <1>5
    <2>2. ElseRel(h.at) = Rel16(length + 3, h.at)
      BY <2>1 DEF ElseRel, Rel16
    <2> QED
      BY <1>1, <1>2, <1>3, <2>2 DEF ResumeIfWithElse
  <1>6. c \in Frame /\ c.op = "ast"
    BY <1>3, <1>5, ProgramParts DEF Frame, Call
  <1>7. here + 3 < Segment
    BY <1>4 DEF Fits
  <1> QED
    BY <1>1, <1>2, <1>4, <1>6, <1>7, <1>8, OverElse

\* The JMP over ELSE is patched to the end of the IF.
LEMMA FiJumps ==
  ASSUME TypeOK, TypeOK', Walk, Linked, JumpsKnown, Fits', ResumeIfAtEnd
  PROVE  JumpsKnown'
  <1>1. PICK h : h = Head(todo)
    OBVIOUS
  <1>2. /\ Resumed("fi") /\ length' = length /\ todo' = Tail(todo) /\ jumps' = jumps
        /\ word' = SetWord(word, h.at, Rel16(length, h.at))
        /\ mark' = [mark EXCEPT ![<<"fi", h.n>>] = length]
    BY <1>1 DEF ResumeIfAtEnd, FiRel, Rel16
  <1>3. /\ todo # <<>> /\ h.op = "fi" /\ h.n \in Nodes /\ h.at \in Nat
        /\ UNCHANGED <<prog, patches>> /\ mark[<<"start", h.n>>] # 0
        /\ JumpOfFrame(h) /\ Tail(todo) \in Seq(Frame)
    BY <1>1, <1>2, TopOwner
  <1>4. length \in Nat /\ length # 0 /\ length < Segment /\ length \in Word16
    <2>1. length \in Nat /\ length # 0 /\ length < Segment
      BY <1>2 DEF TypeOK, Walk, Fits
    <2> QED
      BY <2>1, WrapSmall
  <1>5. h.at \in DOMAIN word /\ \A e \in patches : e.addr # h.at
    BY <1>1, <1>2, IfFrameSafe
  <1>6. /\ DOMAIN word' = DOMAIN word
        /\ \A s \in DOMAIN word : s # h.at => word'[s] = word[s]
        /\ word'[h.at] = Rel16(length, h.at)
    BY <1>2, <1>5 DEF SetWord
  <1>7. mark'[<<"start", h.n>>] # 0 /\ mark'[<<"fi", h.n>>] = length
    BY <1>2, <1>3, StructurePoints DEF TypeOK
  <1>8. \A p \in Points : p # <<"fi", h.n>> => mark'[p] = mark[p]
    BY <1>2 DEF TypeOK
  <1>9. ASSUME NEW j \in jumps, j.to = <<"fi", h.n>> PROVE Lands(j)'
    <2>1. j.site = h.at
      BY <1>3, <1>9 DEF JumpOfFrame
    <2>2. Goes(j.site)' = length
      BY <1>3, <1>4, <1>6, <2>1, LandRel DEF Goes
    <2>3. j.to[2] = h.n /\ Opened(h.n)'
      BY <1>7, <1>9 DEF Opened
    <2>4. \A e \in patches' : e.addr # j.site
      BY <1>3, <1>5, <2>1
    <2> QED
      BY <1>3, <1>4, <1>7, <1>9, <2>2, <2>3, <2>4 DEF Lands
  <1>10. todo' = <<>> \o Tail(todo) /\ <<>> \in Seq(Frame) /\ OnStack(<<>>) = {}
    BY <1>2, <1>3 DEF OnStack
  <1>11. /\ \A s \in DOMAIN word :
               word'[s] = word[s] \/ (Head(todo).op \in {"else", "fi"} /\ s = Head(todo).at)
         /\ \A p \in Points : p # <<Head(todo).op, Head(todo).n>> => mark'[p] = mark[p]
         /\ \A j \in jumps : j.to = <<Head(todo).op, Head(todo).n>> => Lands(j)'
    BY <1>1, <1>3, <1>6, <1>8, <1>9
  <1> QED
    BY <1>2, <1>3, <1>6, <1>10, <1>11, ResumedJumps

\* A loop closes with a jump to its body.
LEMMA BackJump ==
  ASSUME TypeOK, TypeOK', Walk, Linked, JumpsKnown,
         NEW op \in {"loop", "next"}, Resumed(op),
         NEW h, h = Head(todo), todo' = Tail(todo), mark' = mark,
         NEW site \in Nat, site >= length, NEW r, r = Rel16(h.at, site),
         word' = SetWord(word, site, r),
         jumps' = jumps \cup {[site |-> site, to |-> <<"body", h.n>>]}
  PROVE  JumpsKnown'
  <1> DEFINE j0 == [site |-> site, to |-> <<"body", h.n>>]
  <1>1. /\ todo # <<>> /\ h.op = op /\ h.n \in Nodes
        /\ UNCHANGED <<prog, patches>> /\ mark[<<"start", h.n>>] # 0
        /\ JumpOfFrame(h) /\ Tail(todo) \in Seq(Frame)
    BY TopOwner
  <1>2. h.at = mark[<<"body", h.n>>] /\ h.at \in Word16 /\ h.at # 0
    BY <1>1 DEF JumpOfFrame
  <1>3. site \notin DOMAIN word /\ \A e \in patches : e.addr # site
    BY SitesAreOld
  <1>4. /\ DOMAIN word' = DOMAIN word \cup {site}
        /\ \A s \in DOMAIN word : word'[s] = word[s]
        /\ word'[site] = r
    BY <1>3 DEF SetWord
  <1>5. jumps' = jumps \cup {j0} /\ j0.site = site /\ j0.to = <<"body", h.n>>
    OBVIOUS
  <1> HIDE DEF j0
  <1>6. Lands(j0)'
    <2>1. Goes(j0.site)' = mark'[j0.to] /\ mark'[j0.to] # 0
      BY <1>2, <1>4, <1>5, LandRel DEF Goes
    <2>2. j0.to[2] = h.n /\ Opened(h.n)'
      BY <1>1, <1>5 DEF Opened
    <2>3. \A e \in patches' : e.addr # j0.site
      BY <1>1, <1>3, <1>5
    <2> QED
      BY <1>1, <2>1, <2>2, <2>3 DEF Lands
  <1>7. \A j \in jumps : j.to # <<Head(todo).op, Head(todo).n>>
    <2> SUFFICES ASSUME NEW j \in jumps, j.to = <<Head(todo).op, Head(todo).n>> PROVE FALSE
      OBVIOUS
    <2>1. j.to \in Points
      BY DEF TypeOK
    <2>2. j.to[1] \in {"start", "else", "fi", "body"}
      BY <2>1 DEF Points
    <2>3. j.to[1] = op
      BY <1>1
    <2> QED
      BY <2>2, <2>3
  <1>8. todo' = <<>> \o Tail(todo) /\ <<>> \in Seq(Frame) /\ OnStack(<<>>) = {}
    BY <1>1 DEF OnStack
  <1>9. \A j \in jumps' \ jumps :
            /\ j.site \in DOMAIN word' /\ j.site \notin DOMAIN word
            /\ Head(todo).op # "ast" /\ j.to[2] = Head(todo).n
            /\ Lands(j)'
    BY <1>1, <1>3, <1>4, <1>5, <1>6
  <1> QED
    BY <1>1, <1>4, <1>5, <1>7, <1>8, <1>9, ResumedJumps

\* compile_do jumps back, always or on its condition.
LEMMA LoopEndJumps ==
  ASSUME TypeOK, TypeOK', Walk, Linked, JumpsKnown, ResumeDo
  PROVE  JumpsKnown'
  <1>1. PICK h : h = Head(todo)
    OBVIOUS
  <1>2. Resumed("loop") /\ todo' = Tail(todo) /\ mark' = mark
    BY DEF ResumeDo
  <1>3. h.n \in Nodes /\ h.at \in Nat
    BY <1>1, <1>2, TopOwner
  <1>4. length \in Nat /\ prog.expr[h.n] \in Nat
    BY <1>3, Naturals
  <1>5. CASE prog.form[h.n] = "ENDLESS"
    <2>1. PICK site : site = length + 1
      OBVIOUS
    <2>2. site \in Nat /\ site >= length
      BY <1>4, <2>1
    <2>3. EmitRel(LOAD + h.at, length) = Rel16(h.at, site)
      <3>1. (LOAD + h.at) - (length + 3 + LOAD) = h.at - (site + 2)
        BY <1>3, <1>4, <2>1 DEF LOAD
      <3> QED
        BY <3>1 DEF EmitRel, Rel16
    <2>4. /\ word' = SetWord(word, site, EmitRel(LOAD + h.at, length))
          /\ jumps' = jumps \cup {[site |-> site, to |-> <<"body", h.n>>]}
      BY <1>1, <1>5, <2>1 DEF ResumeDo
    <2> QED
      BY <1>1, <1>2, <2>2, <2>3, <2>4, BackJump
  <1>6. CASE prog.form[h.n] # "ENDLESS"
    <2>1. PICK site : site = length + prog.expr[h.n] + 4
      OBVIOUS
    <2>2. site \in Nat /\ site >= length
      BY <1>4, <2>1
    <2>3. LoopRel(h.n, h.at) = Rel16(h.at, site)
      <3>1. h.at - (length + prog.expr[h.n] + 6) = h.at - (site + 2)
        BY <1>3, <1>4, <2>1
      <3> QED
        BY <3>1 DEF LoopRel, Rel16
    <2>4. /\ word' = SetWord(word, site, LoopRel(h.n, h.at))
          /\ jumps' = jumps \cup {[site |-> site, to |-> <<"body", h.n>>]}
      BY <1>1, <1>6, <2>1 DEF ResumeDo
    <2> QED
      BY <1>1, <1>2, <2>2, <2>3, <2>4, BackJump
  <1> QED
    BY <1>5, <1>6

\* compile_for jumps back while the variable has not passed the limit; a limit
\* of the wrong type is an error and no jump.
LEMMA NextEndJumps ==
  ASSUME TypeOK, TypeOK', Walk, Linked, JumpsKnown, ResumeFor
  PROVE  JumpsKnown'
  <1>1. PICK h : h = Head(todo)
    OBVIOUS
  <1>2. Resumed("next") /\ todo' = Tail(todo) /\ mark' = mark
    BY DEF ResumeFor
  <1>3. /\ h.n \in Nodes /\ h.at \in Nat /\ todo # <<>> /\ h.op = "next"
        /\ UNCHANGED <<prog, patches>> /\ Tail(todo) \in Seq(Frame)
    BY <1>1, <1>2, TopOwner
  <1>4. length \in Nat /\ prog.to[h.n] \in Nat
    BY <1>3, Naturals
  <1>5. CASE prog.illTo[h.n]
    <2>1. word' = word /\ jumps' = jumps
      BY <1>1, <1>5 DEF ResumeFor
    <2>2. \A j \in jumps : j.to # <<"next", h.n>>
      <3> SUFFICES ASSUME NEW j \in jumps, j.to = <<"next", h.n>> PROVE FALSE
        OBVIOUS
      <3>1. j.to \in Points
        BY DEF TypeOK
      <3>2. j.to[1] \in {"start", "else", "fi", "body"}
        BY <3>1 DEF Points
      <3>3. j.to[1] = "next"
        OBVIOUS
      <3> QED
        BY <3>2, <3>3
    <2>3. todo' = <<>> \o Tail(todo) /\ <<>> \in Seq(Frame) /\ OnStack(<<>>) = {}
      BY <1>2, <1>3 DEF OnStack
    <2> QED
      BY <1>1, <1>2, <1>3, <2>1, <2>2, <2>3, ResumedJumps
  <1>6. CASE ~prog.illTo[h.n]
    <2>1. PICK site : site = length + 4 + prog.to[h.n] + 8 + 2
      OBVIOUS
    <2>2. site \in Nat /\ site >= length
      BY <1>4, <2>1
    <2>3. /\ word' = SetWord(word, site, NextRel(site, h.at))
          /\ jumps' = jumps \cup {[site |-> site, to |-> <<"body", h.n>>]}
      BY <1>1, <1>6, <2>1 DEF ResumeFor
    <2>4. NextRel(site, h.at) = Rel16(h.at, site)
      BY DEF NextRel, Rel16
    <2> QED
      BY <1>1, <1>2, <2>2, <2>3, <2>4, BackJump
  <1> QED
    BY <1>5, <1>6

\* The end of compile() moves no jump.
LEMMA FinishJumps ==
  ASSUME TypeOK, TypeOK', Walk, JumpsKnown, Finish
  PROVE  JumpsKnown'
  <1>1. UNCHANGED <<prog, todo, word, patches, jumps>> /\ todo = <<>>
    BY DEF Finish
  <1>2. \A x \in {"start", "else", "fi", "body"}, m \in Nodes : mark'[<<x, m>>] = mark[<<x, m>>]
    BY NullAssumption DEF Finish, TypeOK, Points
  <1>3. OnStack(todo) = {} /\ OnStack(todo') = {}
    BY <1>1 DEF OnStack
  <1>4. ASSUME NEW j \in jumps PROVE j.site \in DOMAIN word' /\ Lands(j)'
    <2>1. j.site \in DOMAIN word /\ Lands(j) /\ j.to \in Points
      BY DEF JumpsKnown, TypeOK
    <2>2. SUFFICES ASSUME j.to[1] # "start" PROVE Lands(j)'
      BY <1>1, <2>1 DEF Lands
    <2>3. PICK x \in {"start", "else", "fi", "body"}, m \in Nodes : j.to = <<x, m>>
      BY <2>1, <2>2 DEF Lands, Points
    <2>4. mark'[j.to] = mark[j.to] /\ mark'[<<"start", m>>] = mark[<<"start", m>>]
      BY <1>2, <2>3
    <2>5. j.to[2] = m /\ Goes(j.site)' = Goes(j.site)
      BY <1>1, <2>3 DEF Goes
    <2>6. m \in Nodes /\ Opened(m)'
      BY <2>1, <2>2, <2>4, <2>5 DEF Lands, Opened
    <2> QED
      BY <1>1, <1>3, <2>1, <2>2, <2>4, <2>5, <2>6 DEF Lands
  <1> QED
    BY <1>1, <1>3, <1>4 DEF JumpsKnown

\* compile_do and compile_for enter their bodies.
LEMMA EnterJumps ==
  ASSUME TypeOK, TypeOK', Walk, Linked, JumpsKnown, Fits', NEW n \in Nodes,
         CompileDo(n) \/ CompileFor(n)
  PROVE  JumpsKnown'
  <1>1. length \in Nat /\ length > 0 /\ length' < Segment
    BY DEF TypeOK, Walk, Fits
  <1>2. CASE CompileDo(n)
    <2>1. Called(n, {"do"}) /\ prog.kind[n] \in {"do", "for"} /\ length' = length
      BY <1>2 DEF CompileDo, Called
    <2>2. Wrap(length) = length /\ length \in Word16 \ {0}
      BY <1>1, <2>1, WrapSmall
    <2>3. /\ todo' = Calls(prog.body[n]) \o <<[op |-> "loop", n |-> n, at |-> length]>>
                     \o Tail(todo)
          /\ mark' = [mark EXCEPT ![<<"start", n>>] = length, ![<<"body", n>>] = length]
          /\ word' = PatchedWord(n) /\ patches' = patches /\ jumps' = jumps
      BY <1>2, <2>2 DEF CompileDo
    <2> QED
      BY <2>1, <2>2, <2>3, LoopJumps
  <1>3. CASE CompileFor(n)
    <2>1. Called(n, {"for"}) /\ prog.kind[n] \in {"do", "for"}
      BY <1>3 DEF CompileFor, Called
    <2>2. PICK start : start = length + AssignLength(n)
      OBVIOUS
    <2>3. start \in Nat /\ start > 0 /\ length' = start
      BY <1>1, <1>3, <2>2, AssignLengthNat DEF CompileFor
    <2>4. Wrap(start) = start /\ start \in Word16 \ {0}
      BY <1>1, <2>3, WrapSmall
    <2>5. /\ todo' = Calls(prog.body[n]) \o <<[op |-> "next", n |-> n, at |-> start]>>
                     \o Tail(todo)
          /\ mark' = [mark EXCEPT ![<<"start", n>>] = length, ![<<"body", n>>] = start]
          /\ word' = PatchedWord(n) /\ patches' = patches /\ jumps' = jumps
      BY <1>3, <2>2, <2>4 DEF CompileFor
    <2> QED
      BY <2>1, <2>4, <2>5, LoopJumps
  <1> QED
    BY <1>2, <1>3

\* Statements without children that make no jump.
LEMMA PlainJumps ==
  ASSUME TypeOK, TypeOK', Walk, Linked, JumpsKnown, NEW n \in Nodes,
         CompileAssign(n) \/ CompileCopy(n) \/ CompilePrint(n) \/ CompileEnd(n)
  PROVE  JumpsKnown'
  <1>1. /\ \E K : Called(n, K)
        /\ todo' = Tail(todo) /\ patches' = patches /\ jumps' = jumps
        /\ mark' = [mark EXCEPT ![<<"start", n>>] = length]
    BY DEF CompileAssign, CompileCopy, CompilePrint, CompileEnd
  <1>2. DOMAIN word \subseteq DOMAIN word' /\ \A s \in DOMAIN word : word'[s] = PatchedWord(n)[s]
    <2>1. CASE CompileAssign(n) \/ CompileEnd(n)
      BY <2>1, PatchedType DEF CompileAssign, CompileEnd
    <2>2. CASE CompileCopy(n) \/ CompilePrint(n)
      BY <2>2, CopyWords, PrintWords DEF NewWords
    <2> QED
      BY <2>1, <2>2
  <1> QED
    BY <1>1, <1>2, LeafJumps

\* Every step that stays inside the segment keeps the jumps known.
LEMMA StepJumps ==
  ASSUME TypeOK, TypeOK', Walk, Linked, JumpsKnown, Fits', [Next]_vars
  PROVE  JumpsKnown'
  <1>1. CASE CompileNothing \/ Finish
    BY <1>1, NothingJumps, FinishJumps
  <1>2. CASE \E n \in Nodes : CompileAssign(n) \/ CompileCopy(n) \/ CompilePrint(n)
                              \/ CompileEnd(n) \/ CompileGoto(n)
    BY <1>2, PlainJumps, GotoJumps
  <1>3. CASE \E n \in Nodes : CompileIf(n) \/ CompileDo(n) \/ CompileFor(n)
    BY <1>3, IfJumps, EnterJumps
  <1>4. CASE ResumeIfWithElse \/ ResumeIfAtEnd
    BY <1>4, ElseJumps, FiJumps
  <1>5. CASE ResumeDo \/ ResumeFor
    BY <1>5, LoopEndJumps, NextEndJumps
  <1>6. CASE UNCHANGED vars
    BY <1>6 DEF vars, JumpsKnown, JumpOfFrame, Lands, OnStack, Opened, Goes
  <1> QED
    BY <1>1, <1>2, <1>3, <1>4, <1>5, <1>6 DEF Next

\* The walk, and the jumps as long as the code fits the segment.
TreeInv == TypeOK /\ Walk /\ (Fits => Linked /\ JumpsKnown)

\* TreeInv is inductive.
LEMMA TreeStep == TreeInv /\ TypeOK' /\ [Next]_vars => TreeInv'
  <1> SUFFICES ASSUME TreeInv, TypeOK', [Next]_vars PROVE TreeInv'
    OBVIOUS
  <1>1. TypeOK /\ Walk /\ (Fits => Linked /\ JumpsKnown)
    BY DEF TreeInv
  <1>2. Walk'
    BY <1>1, StepWalk
  <1>3. ASSUME Fits' PROVE Linked' /\ JumpsKnown'
    <2>1. length <= length'
      BY <1>1, LengthGrows
    <2>2. Fits
      BY <1>1, <1>3, <2>1 DEF Fits, TypeOK, Segment
    <2> QED
      BY <1>1, <1>3, <2>2, StepLinked, StepJumps
  <1> QED
    BY <1>2, <1>3 DEF TreeInv

\* TreeInv holds when compile_ast is about to begin.
LEMMA TreeInit == Init => TreeInv
  <1> SUFFICES ASSUME Init PROVE TreeInv
    OBVIOUS
  <1>1. JumpsKnown
    <2>1. jumps = {} /\ todo = Calls(prog.top)
      BY DEF Init
    <2>2. \A f \in OnStack(todo) : f.op = "ast"
      BY <2>1 DEF OnStack, Calls, Call
    <2> QED
      BY <2>1, <2>2 DEF JumpsKnown, JumpOfFrame
  <1> QED
    BY <1>1, InitTypeOK, InitWalk, InitLinked DEF TreeInv

\* TreeInv holds in every state.
LEMMA TreeInvariant == Spec => []TreeInv
  BY TreeInit, TreeStep, TypeCorrect, PTL DEF Spec

\* The jumps of IF, DO and FOR go where the source says, in every program whose
\* code fits the segment, however the statements are nested: compile_if patches
\* the jump it emitted itself and no other, and nothing moves what it patched.
THEOREM StructuredJumpsCorrect == Spec => []StructuredJumpsLand
  <1>1. TreeInv => StructuredJumpsLand
    BY KnownLands DEF TreeInv, StructuredJumpsLand
  <1> QED
    BY <1>1, TreeInvariant, PTL

-----------------------------------------------------------------------------
(***************************************************************************)
(* No jump is left open.  Reached says that compile_ast comes to every     *)
(* child of every statement it has compiled; a label names a part of the   *)
(* tree, so it has come there when the stack is empty.                     *)
(***************************************************************************)

Reached ==
    /\ \A n \in Nodes \cup {NULL} : Opened(n) =>
          \A i \in DOMAIN Children(prog, n) :
             \/ Opened(Children(prog, n)[i])
             \/ \E f \in OnStack(todo) : Awaits(prog, f) = Children(prog, n)[i]
    /\ phase = "done" => todo = <<>>

\* The jump that compile_goto and compile_gosub make of n.
JumpOf(n) == [ site |-> mark[<<"start", n>>] + 1,
               to   |-> <<"start", prog.target[prog.label[n]]>> ]

JumpsMade ==
    /\ ~err => \A n \in Nodes : prog.kind[n] \in {"goto", "gosub"} /\ Opened(n)
                                => JumpOf(n) \in jumps
    /\ \A j \in jumps : j.to[1] = "start" =>
          \E l \in Labels : prog.isreal[l] /\ j.to[2] = prog.target[l]
    /\ \A e \in patches : prog.isreal[e.id]

-----------------------------------------------------------------------------
(* Every child is reached.                                                 *)

\* A child is a statement, or missing.
LEMMA ChildIsNode ==
  ASSUME TypeOK, NEW m \in Nodes \cup {NULL}, NEW i \in DOMAIN Children(prog, m)
  PROVE  Children(prog, m)[i] \in Nodes \cup {NULL}
  <1>1. CASE m = NULL
    <2>1. Children(prog, m) \in Seq(Nodes \cup {NULL})
      BY <1>1, ProgramParts DEF Children
    <2> QED
      BY <2>1
  <1>2. CASE m # NULL
    <2>1. m \in Nodes
      BY <1>2
    <2>2. CASE prog.kind[m] = "if"
      <3>1. Children(prog, m) = <<prog.then[m], prog.else[m]>>
        BY <2>1, <2>2, ChildrenParts
      <3>2. prog.then[m] \in Nodes \cup {NULL} /\ prog.else[m] \in Nodes \cup {NULL}
        BY <2>1, ProgramParts
      <3> QED
        BY <3>1, <3>2
    <2>3. CASE prog.kind[m] \in {"do", "for"}
      <3>1. Children(prog, m) = prog.body[m] /\ prog.body[m] \in Seq(Nodes \cup {NULL})
        BY <2>1, <2>3, ChildrenParts, ProgramParts
      <3> QED
        BY <3>1
    <2>4. CASE prog.kind[m] \notin {"if", "do", "for"}
      BY <1>2, <2>4 DEF Children
    <2> QED
      BY <2>2, <2>3, <2>4
  <1> QED
    BY <1>1, <1>2

\* compile_ast pushes a frame for each child of n, or n has none.
LEMMA CalledReached ==
  ASSUME TypeOK, Walk, Reached, NEW n \in Nodes, NEW K, Called(n, K),
         NEW fs \in Seq(Frame), todo' = fs \o Tail(todo),
         \A i \in DOMAIN Children(prog, n) :
            Children(prog, n)[i] # NULL =>
               \E f \in OnStack(fs) : Awaits(prog, f) = Children(prog, n)[i],
         \A m \in Nodes : mark'[<<"start", m>>] =
                             IF m = n THEN length ELSE mark[<<"start", m>>]
  PROVE  Reached'
  <1>1. todo # <<>> /\ todo \in Seq(Frame) /\ prog' = prog /\ phase' = "ast"
        /\ Awaits(prog, Head(todo)) = n /\ n # NULL
    BY NullAssumption DEF Called, Awaits, TypeOK
  <1>2. length # 0
    BY DEF TypeOK, Walk
  <1>3. \A m \in Nodes \cup {NULL} : Opened(m)' <=> (m = n \/ Opened(m))
    BY <1>1, <1>2 DEF Opened
  <1>4. OnStack(todo') = OnStack(fs) \cup OnStack(Tail(todo))
        /\ OnStack(todo) = {Head(todo)} \cup OnStack(Tail(todo))
    BY <1>1, PushParts
  <1>5. Opened(NULL)' /\ Opened(n)'
    BY <1>1, <1>2 DEF Opened
  <1>6. ASSUME NEW m \in Nodes \cup {NULL}, Opened(m)', NEW i \in DOMAIN Children(prog, m),
               NEW c, c = Children(prog, m)[i]
        PROVE  Opened(c)' \/ \E f \in OnStack(todo') : Awaits(prog, f) = c
    <2>1. CASE m = n
      BY <1>4, <1>5, <1>6, <2>1
    <2>2. CASE m # n
      <3>1. Opened(c) \/ \E f \in OnStack(todo) : Awaits(prog, f) = c
        BY <1>3, <1>6, <2>2 DEF Reached
      <3>2. Opened(c) => Opened(c)'
        <4>1. c \in Nodes \cup {NULL}
          BY <1>6, ChildIsNode
        <4> QED
          BY <1>3, <4>1
      <3>3. Awaits(prog, Head(todo)) = c => Opened(c)'
        BY <1>1, <1>5
      <3> QED
        BY <1>4, <3>1, <3>2, <3>3
    <2> QED
      BY <2>1, <2>2
  <1>7. ASSUME NEW m \in Nodes \cup {NULL}, Opened(m)', NEW i \in DOMAIN Children(prog, m)
        PROVE  \/ Opened(Children(prog, m)[i])'
               \/ \E f \in OnStack(todo') : Awaits(prog, f) = Children(prog, m)[i]
    <2>1. PICK c : c = Children(prog, m)[i]
      OBVIOUS
    <2>2. Opened(c)' \/ \E f \in OnStack(todo') : Awaits(prog, f) = c
      BY <1>6, <1>7, <2>1
    <2>3. Children(prog, m)' = Children(prog, m)
      BY <1>1 DEF Children
    <2>4. Opened(Children(prog, m)[i])' <=> Opened(c)'
      BY <2>1, <2>3 DEF Opened
    <2> QED
      BY <2>1, <2>2, <2>4
  <1> QED
    BY <1>1, <1>7 DEF Reached, Awaits

\* A caller that goes on pushes a frame for the child it still awaits.
LEMMA ResumedReached ==
  ASSUME TypeOK, Walk, Reached, todo # <<>>, prog' = prog, phase' = "ast",
         NEW fs \in Seq(Frame), todo' = fs \o Tail(todo),
         Awaits(prog, Head(todo)) # NULL =>
            \E f \in OnStack(fs) : Awaits(prog, f) = Awaits(prog, Head(todo)),
         \A m \in Nodes : mark'[<<"start", m>>] = mark[<<"start", m>>]
  PROVE  Reached'
  <1>1. OnStack(todo') = OnStack(fs) \cup OnStack(Tail(todo))
        /\ OnStack(todo) = {Head(todo)} \cup OnStack(Tail(todo))
    BY PushParts DEF TypeOK
  <1>2. \A m \in Nodes \cup {NULL} : Opened(m)' <=> Opened(m)
    BY DEF Opened
  <1>3. ASSUME NEW m \in Nodes \cup {NULL}, Opened(m)', NEW i \in DOMAIN Children(prog, m)
        PROVE  \/ Opened(Children(prog, m)[i])'
               \/ \E f \in OnStack(todo') : Awaits(prog, f) = Children(prog, m)[i]
    <2>1. \/ Opened(Children(prog, m)[i])
          \/ \E f \in OnStack(todo) : Awaits(prog, f) = Children(prog, m)[i]
      BY <1>2, <1>3 DEF Reached
    <2>2. Children(prog, m)[i] \in Nodes \cup {NULL}
      BY ChildIsNode
    <2>3. Opened(NULL)'
      BY DEF Opened
    <2> QED
      BY <1>1, <1>2, <2>1, <2>2, <2>3
  <1> QED
    BY <1>3 DEF Reached, Awaits

\* Every step of compile_ast keeps the children reached.
LEMMA StepReached ==
  ASSUME TypeOK, TypeOK', Walk, Reached, [Next]_vars
  PROVE  Reached'
  <1>1. CASE CompileNothing \/ ResumeIfAtEnd \/ ResumeDo \/ ResumeFor
    <2>1. /\ todo # <<>> /\ todo' = Tail(todo) /\ prog' = prog /\ phase' = "ast"
          /\ \/ Head(todo).op = "ast" /\ Head(todo).n = NULL
             \/ Head(todo).op \in {"fi", "loop", "next"}
      BY <1>1 DEF CompileNothing, ResumeIfAtEnd, ResumeDo, ResumeFor, Resumed
    <2>2. Awaits(prog, Head(todo)) = NULL
      BY <2>1 DEF Awaits
    <2>3. \A m \in Nodes : mark'[<<"start", m>>] = mark[<<"start", m>>]
      <3>1. CASE ResumeIfAtEnd
        BY <3>1, ResumedType, StructurePoints DEF ResumeIfAtEnd, TypeOK
      <3>2. CASE CompileNothing \/ ResumeDo \/ ResumeFor
        BY <3>2 DEF CompileNothing, ResumeDo, ResumeFor
      <3> QED
        BY <1>1, <3>1, <3>2
    <2>4. todo' = <<>> \o Tail(todo) /\ <<>> \in Seq(Frame)
      BY <2>1, TopInWalk
    <2> QED
      BY <2>1, <2>2, <2>3, <2>4, ResumedReached
  <1>2. CASE ResumeIfWithElse
    <2>1. PICK h : h = Head(todo)
      OBVIOUS
    <2>2. PICK f1 : f1 = Call(prog.else[h.n])
      OBVIOUS
    <2>3. PICK f2 : f2 = [op |-> "fi", n |-> h.n, at |-> length + 1]
      OBVIOUS
    <2>4. Resumed("else") /\ phase' = "ast" /\ prog' = prog
          /\ todo' = <<f1, f2>> \o Tail(todo)
          /\ mark' = [mark EXCEPT ![<<"else", h.n>>] = length + 3]
      BY <1>2, <2>1, <2>2, <2>3 DEF ResumeIfWithElse, Resumed
    <2>5. h.n \in Nodes /\ todo # <<>> /\ h.op = "else" /\ length + 1 \in Nat
      BY <2>1, <2>4, ResumedType DEF Resumed, TypeOK
    <2>6. /\ f1 \in Frame /\ f2 \in Frame
          /\ Awaits(prog, f1) = prog.else[h.n] /\ Awaits(prog, h) = prog.else[h.n]
      BY <2>2, <2>3, <2>5, ProgramParts DEF Frame, Call, Awaits
    <2>7. \A m \in Nodes : mark'[<<"start", m>>] = mark[<<"start", m>>]
      BY <2>4, <2>5, StructurePoints DEF TypeOK
    <2>8. <<f1, f2>> \in Seq(Frame) /\ f1 \in OnStack(<<f1, f2>>)
      BY <2>6 DEF OnStack
    <2> QED
      BY <2>1, <2>4, <2>5, <2>6, <2>7, <2>8, ResumedReached
  <1>3. ASSUME NEW n \in Nodes,
               CompileAssign(n) \/ CompileCopy(n) \/ CompilePrint(n) \/ CompileEnd(n)
               \/ CompileGoto(n)
        PROVE  Reached'
    <2>1. /\ todo' = Tail(todo) /\ mark' = [mark EXCEPT ![<<"start", n>>] = length]
          /\ \E K : Called(n, K)
      BY <1>3 DEF CompileAssign, CompileCopy, CompilePrint, CompileEnd, CompileGoto
    <2>2. prog.kind[n] \in {"assign", "copy", "print", "println", "end", "return", "goto", "gosub"}
      BY <1>3 DEF CompileAssign, CompileCopy, CompilePrint, CompileEnd, CompileGoto, Called
    <2>3. DOMAIN Children(prog, n) = {}
      BY <2>2, NullAssumption DEF Children
    <2>4. todo' = <<>> \o Tail(todo) /\ <<>> \in Seq(Frame)
      BY <2>1, TopInWalk DEF Called
    <2> QED
      BY <2>1, <2>3, <2>4, StartOnly, CalledReached
  <1>4. ASSUME NEW n \in Nodes, CompileIf(n) PROVE Reached'
    <2>1. PICK f1 : f1 = Call(prog.then[n])
      OBVIOUS
    <2>2. PICK f2 : f2 = [op |-> "else", n |-> n, at |-> length + prog.expr[n] + 4]
      OBVIOUS
    <2>3. Called(n, {"if"}) /\ prog.kind[n] = "if"
          /\ todo' = <<f1, f2>> \o Tail(todo)
          /\ mark' = [mark EXCEPT ![<<"start", n>>] = length]
      BY <1>4, <2>1, <2>2 DEF CompileIf, Called
    <2>4. length + prog.expr[n] + 4 \in Nat
      BY Naturals
    <2>5. /\ f1 \in Frame /\ f2 \in Frame
          /\ Awaits(prog, f1) = prog.then[n] /\ Awaits(prog, f2) = prog.else[n]
      BY <2>1, <2>2, <2>4, ProgramParts DEF Frame, Call, Awaits
    <2>6. <<f1, f2>> \in Seq(Frame) /\ OnStack(<<f1, f2>>) = {f1, f2}
      BY <2>5 DEF OnStack
    <2>7. \A i \in DOMAIN Children(prog, n) :
             \E f \in OnStack(<<f1, f2>>) : Awaits(prog, f) = Children(prog, n)[i]
      <3>1. Children(prog, n) = <<prog.then[n], prog.else[n]>>
        BY <2>3, ChildrenParts
      <3> QED
        BY <2>5, <2>6, <3>1
    <2> QED
      BY <2>3, <2>6, <2>7, StartOnly, CalledReached
  <1>5. ASSUME NEW n \in Nodes, CompileDo(n) \/ CompileFor(n) PROVE Reached'
    <2>1. /\ \E K : Called(n, K)
          /\ prog.kind[n] \in {"do", "for"}
      BY <1>5 DEF CompileDo, CompileFor, Called
    <2>2. PICK op \in {"loop", "next"}, at \in Nat, v \in Nat :
             /\ todo' = Calls(prog.body[n]) \o <<[op |-> op, n |-> n, at |-> at]>> \o Tail(todo)
             /\ mark' = [mark EXCEPT ![<<"start", n>>] = length, ![<<"body", n>>] = v]
      <3>1. CASE CompileDo(n)
        <4>1. Wrap(length) \in Nat /\ length \in Nat
          BY WrapWord, WordNat DEF TypeOK
        <4> QED
          BY <3>1, <4>1 DEF CompileDo
      <3>2. CASE CompileFor(n)
        <4>1. length + AssignLength(n) \in Nat
          BY AssignLengthNat DEF TypeOK
        <4>2. Wrap(length + AssignLength(n)) \in Nat
          BY <4>1, WrapWord, WordNat
        <4>3. /\ todo' = Calls(prog.body[n])
                         \o <<[op |-> "next", n |-> n, at |-> Wrap(length + AssignLength(n))]>>
                         \o Tail(todo)
              /\ mark' = [mark EXCEPT ![<<"start", n>>] = length,
                                      ![<<"body", n>>] = length + AssignLength(n)]
          BY <3>2 DEF CompileFor
        <4> QED
          BY <4>1, <4>2, <4>3
      <3> QED
        BY <1>5, <3>1, <3>2
    <2>3. PICK own : own = [op |-> op, n |-> n, at |-> at]
      OBVIOUS
    <2>4. PICK fs : fs = Calls(prog.body[n]) \o <<own>>
      OBVIOUS
    <2>5. fs \in Seq(Frame) /\ OnStack(fs) = OnStack(Calls(prog.body[n])) \cup {own}
      BY <2>1, <2>3, <2>4, BodyFrames
    <2>6. \A i \in DOMAIN Children(prog, n) :
             \E f \in OnStack(fs) : Awaits(prog, f) = Children(prog, n)[i]
      <3>1. Children(prog, n) = prog.body[n]
        BY <2>1, ChildrenParts
      <3>2. \A i \in DOMAIN prog.body[n] :
               /\ Calls(prog.body[n])[i] \in OnStack(Calls(prog.body[n]))
               /\ Awaits(prog, Calls(prog.body[n])[i]) = prog.body[n][i]
        BY DEF OnStack, Calls, Call, Awaits
      <3> QED
        BY <2>5, <3>1, <3>2
    <2>7. DOMAIN mark = Points
      BY DEF TypeOK
    <2>8. ASSUME NEW m \in Nodes
          PROVE  mark'[<<"start", m>>] = IF m = n THEN length ELSE mark[<<"start", m>>]
      BY <2>2, <2>7, StructurePoints
    <2>9. todo' = fs \o Tail(todo)
      BY <2>2, <2>3, <2>4
    <2> QED
      BY <2>1, <2>5, <2>6, <2>8, <2>9, CalledReached
  <1>6. CASE Finish
    <2>1. UNCHANGED <<prog, todo>> /\ todo = <<>>
          /\ \A m \in Nodes : mark'[<<"start", m>>] = mark[<<"start", m>>]
      BY <1>6, NullAssumption DEF Finish, TypeOK, Points
    <2>2. \A m \in Nodes \cup {NULL} : Opened(m)' <=> Opened(m)
      BY <2>1 DEF Opened
    <2>3. OnStack(todo) = {}
      BY <2>1 DEF OnStack
    <2>4. ASSUME NEW m \in Nodes \cup {NULL}, Opened(m)', NEW i \in DOMAIN Children(prog, m),
                 NEW c, c = Children(prog, m)[i]
          PROVE  Opened(c)'
      BY <2>2, <2>3, <2>4, ChildIsNode DEF Reached
    <2>5. ASSUME NEW m \in Nodes \cup {NULL}, Opened(m)', NEW i \in DOMAIN Children(prog, m)
          PROVE  Opened(Children(prog, m)[i])'
      <3>1. PICK c : c = Children(prog, m)[i]
        OBVIOUS
      <3>2. Opened(c)'
        BY <2>4, <2>5, <3>1
      <3>3. Children(prog, m)' = Children(prog, m)
        BY <2>1 DEF Children
      <3> QED
        BY <3>1, <3>2, <3>3 DEF Opened
    <2> QED
      BY <2>1, <2>5 DEF Reached, Children
  <1>7. CASE UNCHANGED vars
    BY <1>7 DEF vars, Reached, Opened, OnStack
  <1> QED
    BY <1>1, <1>2, <1>3, <1>4, <1>5, <1>6, <1>7 DEF Next

-----------------------------------------------------------------------------
(* Every GOTO and GOSUB has become a jump.                                 *)

\* A step that opens no GOTO, or makes the jump of the one it opens.
LEMMA MadeKeeps ==
  ASSUME JumpsMade, prog' = prog, err => err', jumps \subseteq jumps',
         \A m \in Nodes : prog.kind[m] \in {"goto", "gosub"} =>
            \/ mark'[<<"start", m>>] = mark[<<"start", m>>]
            \/ err' \/ JumpOf(m)' \in jumps',
         \A j \in jumps' \ jumps : j.to[1] = "start" =>
            \E l \in Labels : prog.isreal[l] /\ j.to[2] = prog.target[l],
         \A e \in patches' \ patches : prog.isreal[e.id]
  PROVE  JumpsMade'
  <1>1. ASSUME ~err', NEW m \in Nodes, prog.kind[m] \in {"goto", "gosub"}, Opened(m)'
        PROVE  JumpOf(m)' \in jumps'
    <2>1. CASE mark'[<<"start", m>>] = mark[<<"start", m>>]
      <3>1. Opened(m)
        BY <1>1, <2>1 DEF Opened
      <3>2. JumpOf(m)' = JumpOf(m)
        BY <2>1 DEF JumpOf
      <3> QED
        BY <1>1, <3>1, <3>2 DEF JumpsMade
    <2>2. CASE mark'[<<"start", m>>] # mark[<<"start", m>>]
      BY <1>1, <2>2
    <2> QED
      BY <2>1, <2>2
  <1>2. \A j \in jumps' : j.to[1] = "start" =>
           \E l \in Labels : prog.isreal[l] /\ j.to[2] = prog.target[l]
    BY DEF JumpsMade
  <1>3. \A e \in patches' : prog.isreal[e.id]
    BY DEF JumpsMade
  <1> QED
    BY <1>1, <1>2, <1>3 DEF JumpsMade

\* compile_goto makes the jump of the label it finds in the symbol table.
LEMMA GotoMade ==
  ASSUME TypeOK, JumpsMade, NEW n \in Nodes, CompileGoto(n)
  PROVE  JumpsMade'
  <1>1. prog' = prog /\ mark' = [mark EXCEPT ![<<"start", n>>] = length]
    BY DEF CompileGoto, Called
  <1>2. \A m \in Nodes : mark'[<<"start", m>>] = IF m = n THEN length ELSE mark[<<"start", m>>]
    BY <1>1, StartOnly
  <1>3. PICK id \in Labels : id = prog.label[n]
    BY ProgramParts
  <1>4. CASE ~prog.isreal[id]
    <2>1. err' = TRUE /\ jumps' = jumps /\ patches' = patches
      BY <1>3, <1>4 DEF CompileGoto
    <2> QED
      BY <1>1, <2>1, MadeKeeps
  <1>5. CASE prog.isreal[id]
    <2>1. /\ err' = err
          /\ jumps' = jumps \cup {[site |-> length + 1, to |-> <<"start", prog.target[id]>>]}
          /\ \A e \in patches' \ patches : e.id = id
      BY <1>3, <1>5 DEF CompileGoto, Jump
    <2>2. JumpOf(n)' \in jumps'
      <3>1. JumpOf(n)' = [site |-> length + 1, to |-> <<"start", prog.target[id]>>]
        BY <1>1, <1>2, <1>3 DEF JumpOf
      <3> QED
        BY <2>1, <3>1
    <2>3. \A m \in Nodes : mark'[<<"start", m>>] = mark[<<"start", m>>] \/ JumpOf(m)' \in jumps'
      BY <1>2, <2>2
    <2>4. \A j \in jumps' \ jumps : prog.isreal[id] /\ j.to[2] = prog.target[id]
      BY <1>5, <2>1
    <2>5. \A e \in patches' \ patches : prog.isreal[e.id]
      BY <1>5, <2>1
    <2> QED
      BY <1>1, <2>1, <2>3, <2>4, <2>5, MadeKeeps
  <1> QED
    BY <1>4, <1>5

\* Every step keeps the jumps made.
LEMMA StepMade ==
  ASSUME TypeOK, JumpsMade, [Next]_vars
  PROVE  JumpsMade'
  <1>1. ASSUME NEW n \in Nodes,
               CompileAssign(n) \/ CompileCopy(n) \/ CompilePrint(n) \/ CompileEnd(n)
               \/ CompileIf(n) \/ CompileDo(n) \/ CompileFor(n)
        PROVE  JumpsMade'
    <2>1. prog' = prog /\ patches' = patches /\ prog.kind[n] \notin {"goto", "gosub"}
      BY <1>1 DEF CompileAssign, CompileCopy, CompilePrint, CompileEnd, CompileIf, CompileDo,
                  CompileFor, Called
    <2>2. err => err'
      BY <1>1 DEF CompileAssign, CompileCopy, CompilePrint, CompileEnd, CompileIf, CompileDo,
                  CompileFor
    <2>3. jumps \subseteq jumps' /\ \A j \in jumps' \ jumps : j.to[1] # "start"
      <3>1. CASE CompileIf(n)
        <4>1. PICK site : jumps' = jumps \cup {[site |-> site, to |-> <<"else", n>>]}
          BY <3>1 DEF CompileIf
        <4> QED
          BY <4>1
      <3>2. CASE ~CompileIf(n)
        BY <1>1, <3>2 DEF CompileAssign, CompileCopy, CompilePrint, CompileEnd, CompileDo,
                          CompileFor
      <3> QED
        BY <3>1, <3>2
    <2>4. \A m \in Nodes : m # n => mark'[<<"start", m>>] = mark[<<"start", m>>]
      <3>1. DOMAIN mark = Points
        BY DEF TypeOK
      <3>2. \E v : \/ mark' = [mark EXCEPT ![<<"start", n>>] = length]
                   \/ mark' = [mark EXCEPT ![<<"start", n>>] = length, ![<<"body", n>>] = v]
        BY <1>1 DEF CompileAssign, CompileCopy, CompilePrint, CompileEnd, CompileIf, CompileDo,
                    CompileFor
      <3> QED
        BY <3>1, <3>2, StructurePoints
    <2>5. \A m \in Nodes : prog.kind[m] \in {"goto", "gosub"} =>
             mark'[<<"start", m>>] = mark[<<"start", m>>]
      BY <2>1, <2>4
    <2> QED
      BY <2>1, <2>2, <2>3, <2>5, MadeKeeps
  <1>2. ASSUME NEW n \in Nodes, CompileGoto(n) PROVE JumpsMade'
    BY <1>2, GotoMade
  <1>3. CASE CompileNothing \/ ResumeIfWithElse \/ ResumeIfAtEnd \/ ResumeDo \/ ResumeFor
             \/ Finish
    <2>1. prog' = prog /\ patches' = patches
      BY <1>3 DEF CompileNothing, ResumeIfWithElse, ResumeIfAtEnd, ResumeDo, ResumeFor, Resumed,
                  Finish
    <2>2. err => err'
      BY <1>3 DEF CompileNothing, ResumeIfWithElse, ResumeIfAtEnd, ResumeDo, ResumeFor, Finish
    <2>3. jumps \subseteq jumps' /\ \A j \in jumps' \ jumps : j.to[1] # "start"
      BY SMTT(30), <1>3 DEF CompileNothing, ResumeIfWithElse, ResumeIfAtEnd, ResumeDo, ResumeFor, Finish
    <2>4. \A m \in Nodes : mark'[<<"start", m>>] = mark[<<"start", m>>]
      <3>1. DOMAIN mark = Points
        BY DEF TypeOK
      <3>2. CASE CompileNothing \/ ResumeDo \/ ResumeFor
        BY <3>2 DEF CompileNothing, ResumeDo, ResumeFor
      <3>3. CASE ResumeIfAtEnd
        BY <3>1, <3>3, ResumedType, StructurePoints DEF ResumeIfAtEnd
      <3>4. CASE ResumeIfWithElse
        BY <3>1, <3>4, ResumedType, StructurePoints DEF ResumeIfWithElse
      <3>5. CASE Finish
        BY <3>1, <3>5, NullAssumption DEF Finish, Points
      <3> QED
        BY <1>3, <3>2, <3>3, <3>4, <3>5
    <2> QED
      BY <2>1, <2>2, <2>3, <2>4, MadeKeeps
  <1>4. CASE UNCHANGED vars
    BY <1>4, MadeKeeps DEF vars
  <1> QED
    BY <1>1, <1>2, <1>3, <1>4 DEF Next

-----------------------------------------------------------------------------
(* What compile() leaves behind.                                           *)

CompleteInv == TreeInv /\ Reached /\ JumpsMade

\* At the beginning the top level waits, and nothing is compiled.
LEMMA CompleteInit == Init => CompleteInv
  <1> SUFFICES ASSUME Init PROVE CompleteInv
    OBVIOUS
  <1>1. todo = Calls(prog.top) /\ phase = "ast" /\ patches = {} /\ jumps = {}
        /\ mark = [p \in Points |-> 0]
    BY DEF Init
  <1>2. \A m \in Nodes : ~Opened(m)
    BY <1>1, NullAssumption DEF Opened, Points
  <1>3. \A i \in DOMAIN prog.top :
           \E f \in OnStack(todo) : Awaits(prog, f) = prog.top[i]
    <2>1. \A i \in DOMAIN prog.top :
             todo[i] \in OnStack(todo) /\ Awaits(prog, todo[i]) = prog.top[i]
      BY <1>1 DEF OnStack, Calls, Call, Awaits
    <2> QED
      BY <2>1
  <1>4. Children(prog, NULL) = prog.top
    BY DEF Children
  <1>5. Reached
    BY <1>1, <1>2, <1>3, <1>4 DEF Reached
  <1>6. JumpsMade
    BY <1>1, <1>2 DEF JumpsMade
  <1> QED
    BY <1>5, <1>6, TreeInit DEF CompleteInv

\* CompleteInv holds in every state.
LEMMA CompleteInvariant == Spec => []CompleteInv
  <1>1. CompleteInv /\ TypeOK' /\ [Next]_vars => CompleteInv'
    BY TreeStep, StepReached, StepMade DEF CompleteInv, TreeInv
  <1> QED
    BY <1>1, CompleteInit, TypeCorrect, PTL DEF Spec

\* When the stack is empty, every statement that a label names is compiled.
LEMMA LabelledIsOpened ==
  ASSUME CompleteInv, phase = "done", NEW l \in Labels
  PROVE  Opened(prog.target[l])
  <1> DEFINE S == {m \in Nodes \cup {NULL} : Opened(m)}
  <1>1. todo = <<>> /\ OnStack(todo) = {}
    BY DEF CompleteInv, Reached, OnStack
  <1>2. S \in SUBSET (Nodes \cup {NULL}) /\ NULL \in S
    BY DEF Opened
  <1>3. ASSUME NEW m \in S, NEW i \in DOMAIN Children(prog, m)
        PROVE  Children(prog, m)[i] \in S
    <2>1. Children(prog, m)[i] \in Nodes \cup {NULL}
      BY ChildIsNode DEF CompleteInv, TreeInv
    <2>2. Opened(Children(prog, m)[i])
      BY <1>1 DEF CompleteInv, Reached
    <2> QED
      BY <2>1, <2>2
  <1> HIDE DEF S
  <1>4. prog.target[l] \in S
    <2>1. InTree(prog, prog.target[l])
      BY TreesAssumption DEF CompleteInv, TreeInv, Walk, IsTree
    <2> QED
      BY <1>2, <1>3, <2>1 DEF InTree
  <1> QED
    BY <1>4 DEF S

\* No label stands at the end of the source, where no statement follows it.
NoLabelAtEnd == \A l \in Labels : prog.isreal[l] => prog.target[l] # NULL

\* A compilation without an error leaves no jump open: each GOTO and GOSUB of the
\* program is a jump of the code and each patch entry has been resolved, for
\* every program whose labels all have a statement after them.
THEOREM NoJumpLeftOpenCorrect == Spec => [](NoLabelAtEnd => NoJumpLeftOpen)
  <1>1. ASSUME CompleteInv, NoLabelAtEnd, Fits, Done
        PROVE  /\ \A n \in Nodes :
                     prog.kind[n] \in {"goto", "gosub"} /\ mark[<<"start", n>>] # 0
                     => JumpOf(n) \in jumps
               /\ \A j \in jumps : mark[j.to] # 0
               /\ \A e \in patches : addr[e.id] # 0
    <2>1. TypeOK /\ Linked /\ JumpsKnown /\ JumpsMade /\ Reached /\ phase = "done" /\ ~err
      BY <1>1 DEF CompleteInv, TreeInv, Done
    <2>2. \A l \in Labels : prog.isreal[l] =>
             prog.target[l] # NULL /\ mark[<<"start", prog.target[l]>>] # 0
      BY <1>1, <2>1, LabelledIsOpened DEF NoLabelAtEnd, Opened
    <2>3. \A n \in Nodes : prog.kind[n] \in {"goto", "gosub"} /\ mark[<<"start", n>>] # 0
                           => JumpOf(n) \in jumps
      BY <2>1 DEF JumpsMade, Opened
    <2>4. ASSUME NEW j \in jumps PROVE mark[j.to] # 0
      <3>1. j.to \in Points
        BY <2>1 DEF TypeOK
      <3>2. CASE j.to[1] = "start"
        <4>1. PICK l \in Labels : prog.isreal[l] /\ j.to[2] = prog.target[l]
          BY <2>1, <3>2 DEF JumpsMade
        <4>2. j.to = <<"start", prog.target[l]>>
          BY <3>1, <3>2, <4>1 DEF Points
        <4> QED
          BY <2>2, <4>1, <4>2
      <3>3. CASE j.to[1] # "start"
        <4>1. OnStack(todo) = {}
          BY <2>1 DEF Reached, OnStack
        <4> QED
          BY <2>1, <3>3, <4>1 DEF JumpsKnown, Lands
      <3> QED
        BY <3>2, <3>3
    <2>5. ASSUME NEW e \in patches PROVE addr[e.id] # 0
      <3>1. e.id \in Labels /\ prog.isreal[e.id]
        BY <2>1 DEF TypeOK, JumpsMade
      <3> QED
        BY <2>1, <2>2, <3>1 DEF Linked, AddrIsMark
    <2> QED
      BY <2>3, <2>4, <2>5
  <1>2. CompleteInv => (NoLabelAtEnd => NoJumpLeftOpen)
    BY <1>1 DEF NoJumpLeftOpen, JumpOf
  <1> QED
    BY <1>2, CompleteInvariant, PTL

-----------------------------------------------------------------------------
(***************************************************************************)
(* The exit at the end.  compile() looks only at the last byte; in short   *)
(* code that byte is never a RET by accident.                              *)
(***************************************************************************)

\* The last statement of the program is one that the processor runs through.
RunsThrough(n) ==
    /\ prog.top # <<>> /\ prog.top[Len(prog.top)] = n
    /\ prog.kind[n] \in {"assign", "copy", "print", "println", "for"}

\* Until it is compiled its frame is at the bottom of the stack; then its last
\* byte, which no other statement can follow, is not that of a RET.
ExitFollows(n) ==
    /\ phase = "done" => err \/ length = mark[<<"fi", NULL>>] + ExitLength
    /\ phase = "ast" /\ todo = <<>> => err \/ ~EndsInRet
    /\ phase = "ast" /\ todo # <<>> =>
          \/ todo[Len(todo)] = Call(n)
          \/ /\ todo[Len(todo)].op = "next"
             /\ todo[Len(todo)].at <= length

ExitDue == \A n \in Nodes : RunsThrough(n) => ExitFollows(n)

-----------------------------------------------------------------------------
\* 16-bit arithmetic: a small negative distance, and its high byte.
LEMMA WrapBelow ==
  ASSUME NEW x \in Int, NEW t \in Nat, t < Segment, t = x + Segment
  PROVE  Wrap(x) = t
  <1>1. t \in 0 .. Segment - 1
    BY SegmentPositive
  <1>2. (t - Segment * 1) % Segment = t
    BY <1>1, SegmentPositive, ModShift
  <1>3. t - Segment * 1 = x
    BY SegmentPositive
  <1> QED
    BY <1>2, <1>3 DEF Wrap

\* The high byte of a word that is not in the one page of 195.
LEMMA NotRet ==
  ASSUME NEW t \in Nat, t < 49920 \/ t > 50175
  PROVE  t \div 256 # 195
  <1>1. PICK q \in Int : q = t \div 256 /\ t % 256 = t - 256 * q
    BY ModDiv
  <1>2. PICK r \in 0 .. 255 : r = t % 256
    BY ModRange
  <1>3. r = t - 256 * q
    BY <1>1, <1>2
  <1>4. q # 195
    BY <1>3
  <1> QED
    BY <1>1, <1>4

\* The bottom frame stays where it is while others lie on it.
LEMMA BottomStays ==
  ASSUME NEW S, NEW s \in Seq(S), s # <<>>, NEW fs \in Seq(S)
  PROVE  /\ Tail(s) # <<>> => /\ fs \o Tail(s) # <<>>
                              /\ (fs \o Tail(s))[Len(fs \o Tail(s))] = s[Len(s)]
         /\ Tail(s) = <<>> => fs \o Tail(s) = fs /\ Head(s) = s[Len(s)]
  <1>1. Len(s) \in Nat /\ Len(s) > 0 /\ Len(Tail(s)) = Len(s) - 1 /\ Tail(s) \in Seq(S)
    OBVIOUS
  <1>2. CASE Tail(s) # <<>>
    <2>1. Len(Tail(s)) > 0 /\ Len(fs) \in Nat /\ Len(fs \o Tail(s)) = Len(fs) + Len(Tail(s))
      BY <1>1, <1>2
    <2>2. (fs \o Tail(s))[Len(fs) + Len(Tail(s))] = Tail(s)[Len(Tail(s))]
      BY <1>1, <2>1
    <2>3. Tail(s)[Len(Tail(s))] = s[Len(s)]
      BY <1>1, <2>1
    <2> QED
      BY <1>2, <2>1, <2>2, <2>3
  <1>3. CASE Tail(s) = <<>>
    <2>1. Len(s) = 1
      BY <1>1, <1>3
    <2>2. Head(s) = s[Len(s)]
      BY <2>1
    <2>3. fs \o <<>> = fs
      OBVIOUS
    <2> QED
      BY <1>3, <2>2, <2>3
  <1> QED
    BY <1>2, <1>3

\* The last element of a sequence to which one has been appended.
LEMMA LastOf ==
  ASSUME NEW S, NEW s \in Seq(S), NEW e \in S
  PROVE  LET t == s \o <<e>> \o <<>> IN t # <<>> /\ t[Len(t)] = e
  OBVIOUS

\* A step that leaves other frames on the stack, or adds some to it.
LEMMA OthersAbove ==
  ASSUME TypeOK, ExitDue, todo # <<>>, Tail(todo) # <<>>, phase = "ast", phase' = "ast",
         prog' = prog, length <= length', length' \in Nat,
         NEW fs \in Seq(Frame), todo' = fs \o Tail(todo)
  PROVE  ExitDue'
  <1>1. todo \in Seq(Frame) /\ length \in Nat
    BY DEF TypeOK
  <1>2. todo' # <<>> /\ todo'[Len(todo')] = todo[Len(todo)]
    BY <1>1, BottomStays
  <1>3. todo[Len(todo)] \in Frame
    <2>1. Len(todo) \in DOMAIN todo
      BY <1>1
    <2> QED
      BY <1>1, <2>1
  <1>4. todo[Len(todo)].op = "next" => todo[Len(todo)].at \in Nat
    BY <1>3 DEF Frame
  <1>5. ASSUME NEW n \in Nodes, RunsThrough(n)' PROVE ExitFollows(n)'
    <2>1. RunsThrough(n)
      BY <1>5 DEF RunsThrough
    <2>2. \/ todo[Len(todo)] = Call(n)
          \/ todo[Len(todo)].op = "next" /\ todo[Len(todo)].at <= length
      BY <2>1 DEF ExitDue, ExitFollows
    <2>3. \/ todo[Len(todo)] = Call(n)
          \/ todo[Len(todo)].op = "next" /\ todo[Len(todo)].at <= length'
      BY <1>1, <1>4, <2>2
    <2> QED
      BY <1>2, <2>3 DEF ExitFollows
  <1> QED
    BY <1>5 DEF ExitDue

\* What the bottom frame is, when it is the only one.
LEMMA OnlyFrame ==
  ASSUME TypeOK, ExitDue, phase = "ast", todo # <<>>, Tail(todo) = <<>>,
         NEW n \in Nodes, RunsThrough(n)
  PROVE  \/ Head(todo) = Call(n)
         \/ Head(todo).op = "next" /\ Head(todo).at <= length
  <1>1. todo \in Seq(Frame) /\ <<>> \in Seq(Frame)
    BY DEF TypeOK
  <1>2. Head(todo) = todo[Len(todo)]
    BY <1>1, BottomStays
  <1> QED
    BY <1>2 DEF ExitDue, ExitFollows

\* The last three bytes of the code are a jump or a call.
LEMMA EndsInWord ==
  ASSUME NEW w, NEW site \in Nat, NEW r, word' = SetWord(w, site, r), length' = site + 2,
         r \div 256 # 195
  PROVE  ~EndsInRet'
  <1>1. length' - 2 = site
    OBVIOUS
  <1>2. site \in DOMAIN word' /\ word'[site] = r
    BY DEF SetWord
  <1> QED
    BY <1>1, <1>2 DEF EndsInRet, LastByte

\* The high byte of the distances in code of at most 15360 bytes.
LEMMA Distances ==
  ASSUME NEW p \in Nat, 160 <= p, p <= 15360
  PROVE  /\ Wrap(57 - (p + LOAD)) \div 256 # 195
         /\ Wrap(PRINTSTR - (p + LOAD)) \div 256 # 195
  <1>1. Wrap(57 - (p + LOAD)) \div 256 # 195
    <2>1. 32825 - p \in Nat /\ 32825 - p < Segment /\ 32825 - p < 49920
          /\ 57 - (p + LOAD) \in Int /\ 32825 - p = (57 - (p + LOAD)) + Segment
      BY DEF LOAD, Segment
    <2>2. Wrap(57 - (p + LOAD)) = 32825 - p
      BY <2>1, WrapBelow
    <2> QED
      BY <2>1, <2>2, NotRet
  <1>2. Wrap(PRINTSTR - (p + LOAD)) \div 256 # 195
    <2>1. 65608 - p \in Nat /\ 65608 - p < Segment /\ 65608 - p > 50175
          /\ PRINTSTR - (p + LOAD) \in Int /\ 65608 - p = (PRINTSTR - (p + LOAD)) + Segment
      BY DEF LOAD, Segment, PRINTSTR
    <2>2. Wrap(PRINTSTR - (p + LOAD)) = 65608 - p
      BY <2>1, WrapBelow
    <2> QED
      BY <2>1, <2>2, NotRet
  <1> QED
    BY <1>1, <1>2

\* The high byte of the distance back to the body of a FOR in such code.
LEMMA ShortBack ==
  ASSUME NEW p \in Nat, p <= 15360, NEW at \in Nat, 0 < at, at < p
  PROVE  Wrap(at - p) \div 256 # 195
  <1>1. at - p + 65536 \in Nat /\ at - p + 65536 < Segment /\ at - p + 65536 > 50175
        /\ at - p \in Int /\ at - p + 65536 = (at - p) + Segment
    BY DEF Segment
  <1>2. Wrap(at - p) = at - p + 65536
    BY <1>1, WrapBelow
  <1> QED
    BY <1>1, <1>2, NotRet

\* The call of print_string at the end of short code.
LEMMA PrintCallEnds ==
  ASSUME TypeOK, length >= 160, length' <= 15360, NEW call \in Int, call >= length, NEW w,
         length' = call + 3, word' = SetWord(w, call + 1, EmitRel(PRINTSTR, call))
  PROVE  ~EndsInRet'
  <1>1. call + 1 \in Nat /\ length' = (call + 1) + 2 /\ call + 3 \in Nat
        /\ 160 <= call + 3 /\ call + 3 <= 15360
    BY DEF TypeOK
  <1>2. EmitRel(PRINTSTR, call) \div 256 # 195
    BY <1>1, Distances DEF EmitRel
  <1> QED
    BY <1>1, <1>2, EndsInWord

\* An ill-typed expression is an error.
LEMMA IllFails ==
  ASSUME NEW n \in Nodes, CompileAssign(n) \/ CompileCopy(n) \/ CompilePrint(n), prog.ill[n]
  PROVE  err'
  <1>1. err' = (err \/ prog.ill[n])
    BY DEF CompileAssign, CompileCopy, CompilePrint
  <1> QED
    BY <1>1

\* What an assignment or a PRINT leaves at the end of short code is no RET.
LEMMA PlainEnds ==
  ASSUME TypeOK, TypeOK', Linked, length >= 160, length' <= 15360, NEW n \in Nodes,
         CompileAssign(n) \/ CompileCopy(n) \/ CompilePrint(n)
  PROVE  err' \/ ~EndsInRet'
  <1>1. length \in Nat /\ length' \in Nat /\ prog.expr[n] \in Nat
    BY Naturals DEF TypeOK
  <1>2. CASE prog.ill[n]
    BY <1>2, IllFails
  <1>3. CASE ~prog.ill[n] /\ CompileAssign(n)
    <2>1. length' = length + (prog.expr[n] + 4) /\ tail' = 73 /\ word' = PatchedWord(n)
      BY <1>3 DEF CompileAssign, AssignLength
    <2>2. length' - 2 \in Nat /\ length' - 2 >= length
      BY <1>1, <2>1
    <2>3. length' - 2 \notin DOMAIN word'
      BY <2>1, <2>2, SitesAreOld, PatchedType
    <2> QED
      BY <2>1, <2>3 DEF EndsInRet, LastByte
  <1>4. CASE ~prog.ill[n] /\ CompileCopy(n)
    <2>1. PICK call : call = length + prog.expr[n] + 4
      OBVIOUS
    <2>2. length' = call + 3 /\ word' = SetWord(PatchedWord(n), call + 1, EmitRel(57, call))
      BY <1>4, <2>1 DEF CompileCopy
    <2>3. call + 1 \in Nat /\ length' = (call + 1) + 2 /\ call + 3 \in Nat
          /\ 160 <= call + 3 /\ call + 3 <= 15360
      BY <1>1, <2>1, <2>2
    <2>4. EmitRel(57, call) \div 256 # 195
      BY <2>3, Distances DEF EmitRel
    <2> QED
      BY <2>2, <2>3, <2>4, EndsInWord
  <1>5. CASE ~prog.ill[n] /\ CompilePrint(n)
    <2>1. ~PrintRejects(n) /\ prog.kind[n] \in {"print", "println"}
      BY <1>5 DEF PrintRejects, CompilePrint, Called
    <2>2. ConversionOf(n) \in Nat
      BY ProgramParts DEF Conversion, ConversionOf
    <2>3. PICK c : c = length + prog.expr[n] + ConversionOf(n)
      OBVIOUS
    <2>4. c \in Int /\ c >= length /\ c + 15 \in Int /\ c + 15 >= length
      BY <1>1, <2>2, <2>3
    <2>5. CASE prog.kind[n] = "print"
      <3>1. length' = c + 3
            /\ word' = SetWord(PatchedWord(n), c + 1, EmitRel(PRINTSTR, c))
        BY <1>5, <2>1, <2>3, <2>5 DEF CompilePrint
      <3> QED
        BY <2>4, <3>1, PrintCallEnds
    <2>6. CASE prog.kind[n] = "println"
      <3>1. PICK first : first = SetWord(PatchedWord(n), c + 1, EmitRel(PRINTSTR, c))
        OBVIOUS
      <3>2. length' = (c + 15) + 3
            /\ word' = SetWord(first, (c + 15) + 1, EmitRel(PRINTSTR, c + 15))
        BY <1>5, <2>1, <2>3, <2>6, <3>1 DEF CompilePrint
      <3> QED
        BY <2>4, <3>2, PrintCallEnds
    <2> QED
      BY <2>1, <2>5, <2>6
  <1> QED
    BY <1>2, <1>3, <1>4, <1>5

\* compile_for comes back to a frame that knows its body.
LEMMA BodyIsPlaced ==
  ASSUME TypeOK, Walk, JumpsKnown, ResumeFor
  PROVE  Head(todo).at # 0
  <1>1. PICK h : h = Head(todo)
    OBVIOUS
  <1>2. Resumed("next")
    BY DEF ResumeFor
  <1>3. h.op = "next" /\ JumpOfFrame(h)
    BY <1>1, <1>2, TopOwner
  <1> QED
    BY <1>1, <1>3 DEF JumpOfFrame

\* Nor is the jump back of a FOR.
LEMMA NextEnds ==
  ASSUME TypeOK, TypeOK', Walk, JumpsKnown, length >= 160, length' <= 15360, ResumeFor,
         Head(todo).at <= length
  PROVE  err' \/ ~EndsInRet'
  <1>1. PICK h : h = Head(todo)
    OBVIOUS
  <1>2. Resumed("next")
    BY DEF ResumeFor
  <1>3. h.n \in Nodes /\ h.at \in Nat
    BY <1>1, <1>2, ResumedType
  <1>4. h.at # 0
    BY <1>1, BodyIsPlaced
  <1>5. length \in Nat /\ prog.to[h.n] \in Nat
    BY <1>3, Naturals
  <1>6. CASE prog.illTo[h.n]
    BY <1>1, <1>6 DEF ResumeFor
  <1>7. CASE ~prog.illTo[h.n]
    <2>1. PICK site : site = length + 4 + prog.to[h.n] + 8 + 2
      OBVIOUS
    <2>2. length' = site + 2 /\ word' = SetWord(word, site, NextRel(site, h.at))
      BY <1>1, <1>7, <2>1 DEF ResumeFor
    <2>3. site \in Nat /\ site + 2 \in Nat /\ 160 <= site + 2 /\ site + 2 <= 15360
          /\ 0 < h.at /\ h.at < site + 2
      BY <1>1, <1>3, <1>4, <1>5, <2>1, <2>2
    <2>4. NextRel(site, h.at) \div 256 # 195
      <3>1. PICK p \in Nat, at \in Nat : p = site + 2 /\ at = h.at
        BY <1>3, <2>3
      <3>2. p <= 15360 /\ 0 < at /\ at < p
        BY <2>3, <3>1
      <3>3. Wrap(at - p) \div 256 # 195
        BY <3>2, ShortBack
      <3> QED
        BY <3>1, <3>3 DEF NextRel
    <2> QED
      BY <2>2, <2>3, <2>4, EndsInWord
  <1> QED
    BY <1>6, <1>7

\* A step of compile_ast: the top frame goes, and others may come.
Pushed ==
    /\ phase = "ast" /\ phase' = "ast" /\ prog' = prog /\ todo # <<>>
    /\ \E fs \in Seq(Frame) : todo' = fs \o Tail(todo)

\* Every step but the last replaces the top frame.
LEMMA StepPushes ==
  ASSUME TypeOK, TypeOK', [Next]_vars, ~Finish, ~UNCHANGED vars
  PROVE  Pushed
  <1>1. CASE CompileNothing \/ ResumeIfAtEnd \/ ResumeDo \/ ResumeFor
    <2>1. phase = "ast" /\ phase' = "ast" /\ prog' = prog /\ todo # <<>> /\ todo' = Tail(todo)
      BY <1>1 DEF CompileNothing, ResumeIfAtEnd, ResumeDo, ResumeFor, Resumed
    <2>2. todo' = <<>> \o Tail(todo) /\ <<>> \in Seq(Frame)
      BY <2>1, TopFrame
    <2> QED
      BY <2>1, <2>2 DEF Pushed
  <1>2. CASE ResumeIfWithElse
    <2>1. Resumed("else") /\ Head(todo).n \in Nodes
      BY <1>2, ResumedType DEF ResumeIfWithElse
    <2>2. PICK f1 : f1 = Call(prog.else[Head(todo).n])
      OBVIOUS
    <2>3. PICK f2 : f2 = [op |-> "fi", n |-> Head(todo).n, at |-> length + 1]
      OBVIOUS
    <2>4. f1 \in Frame /\ f2 \in Frame
      BY <2>1, <2>2, <2>3, ProgramParts DEF Frame, Call, TypeOK
    <2>5. <<f1, f2>> \in Seq(Frame) /\ todo' = <<f1, f2>> \o Tail(todo)
      BY <1>2, <2>2, <2>3, <2>4 DEF ResumeIfWithElse
    <2> QED
      BY <1>2, <2>5 DEF ResumeIfWithElse, Resumed, Pushed
  <1>3. ASSUME NEW n \in Nodes,
               CompileAssign(n) \/ CompileCopy(n) \/ CompilePrint(n) \/ CompileEnd(n)
               \/ CompileGoto(n)
        PROVE  Pushed
    <2>1. /\ \E K : Called(n, K)
          /\ todo' = Tail(todo)
      BY <1>3 DEF CompileAssign, CompileCopy, CompilePrint, CompileEnd, CompileGoto
    <2>2. phase = "ast" /\ phase' = "ast" /\ prog' = prog /\ todo # <<>>
      BY <2>1 DEF Called
    <2>3. todo' = <<>> \o Tail(todo) /\ <<>> \in Seq(Frame)
      BY <2>1, <2>2, TopFrame
    <2> QED
      BY <2>2, <2>3 DEF Pushed
  <1>4. ASSUME NEW n \in Nodes, CompileIf(n) PROVE Pushed
    <2>1. PICK f1 : f1 = Call(prog.then[n])
      OBVIOUS
    <2>2. PICK f2 : f2 = [op |-> "else", n |-> n, at |-> length + prog.expr[n] + 4]
      OBVIOUS
    <2>3. f1 \in Frame /\ f2 \in Frame
      <3>1. length + prog.expr[n] + 4 \in Nat
        BY Naturals
      <3> QED
        BY <2>1, <2>2, <3>1, ProgramParts DEF Frame, Call
    <2>4. <<f1, f2>> \in Seq(Frame) /\ todo' = <<f1, f2>> \o Tail(todo)
      BY <1>4, <2>1, <2>2, <2>3 DEF CompileIf
    <2> QED
      BY <1>4, <2>4 DEF CompileIf, Called, Pushed
  <1>5. ASSUME NEW n \in Nodes, CompileDo(n) \/ CompileFor(n) PROVE Pushed
    <2>1. \E K : Called(n, K)
      BY <1>5 DEF CompileDo, CompileFor
    <2>2. PICK op \in {"loop", "next"}, at \in Nat :
             todo' = Calls(prog.body[n]) \o <<[op |-> op, n |-> n, at |-> at]>> \o Tail(todo)
      <3>1. CASE CompileDo(n)
        <4>1. Wrap(length) \in Nat
          BY WrapWord, WordNat DEF TypeOK
        <4> QED
          BY <3>1, <4>1 DEF CompileDo
      <3>2. CASE CompileFor(n)
        <4>1. length + AssignLength(n) \in Int
          BY AssignLengthNat DEF TypeOK
        <4>2. Wrap(length + AssignLength(n)) \in Nat
          BY <4>1, WrapWord, WordNat
        <4> QED
          BY <3>2, <4>2 DEF CompileFor
      <3> QED
        BY <1>5, <3>1, <3>2
    <2>3. PICK own : own = [op |-> op, n |-> n, at |-> at]
      OBVIOUS
    <2>4. own \in Frame /\ <<own>> \in Seq(Frame)
      BY <2>3 DEF Frame
    <2>5. Calls(prog.body[n]) \o <<own>> \in Seq(Frame)
      BY <2>4, ProgramParts, CallsType, SeqJoin
    <2>6. todo' = (Calls(prog.body[n]) \o <<own>>) \o Tail(todo)
      BY <2>2, <2>3
    <2> QED
      BY <2>1, <2>5, <2>6 DEF Called, Pushed
  <1> QED
    BY <1>1, <1>2, <1>3, <1>4, <1>5 DEF Next

\* Code of a length at which no jump ends in the byte of a RET.
ShortCode == length >= 160 /\ length <= 15360

\* The only frame goes: what takes its place, or what it leaves.
LEMMA LastFrame ==
  ASSUME TypeOK, TypeOK', Walk, Linked, JumpsKnown, ExitDue, ShortCode, ShortCode',
         [Next]_vars, ~Finish, ~UNCHANGED vars, Tail(todo) = <<>>,
         NEW n \in Nodes, RunsThrough(n)
  PROVE  ExitFollows(n)'
  <1>1. phase = "ast" /\ phase' = "ast" /\ prog' = prog /\ todo # <<>>
    BY StepPushes DEF Pushed
  <1>2. \/ Head(todo) = Call(n)
        \/ Head(todo).op = "next" /\ Head(todo).at <= length
    BY <1>1, OnlyFrame
  <1>3. n # NULL /\ Call(n).op = "ast" /\ Call(n).n = n
    BY NullAssumption DEF Call
  <1>4. \A m \in Nodes : \A K : Called(m, K) => m = n /\ prog.kind[n] \in K
    BY <1>2, <1>3 DEF Called
  <1>5. prog.kind[n] \in {"assign", "copy", "print", "println", "for"}
    BY DEF RunsThrough
  <1>6. ~CompileNothing /\ ~ResumeIfWithElse /\ ~ResumeIfAtEnd /\ ~ResumeDo
    BY <1>2, <1>3 DEF CompileNothing, ResumeIfWithElse, ResumeIfAtEnd, ResumeDo, Resumed
  <1>7. \A m \in Nodes : ~CompileEnd(m) /\ ~CompileGoto(m) /\ ~CompileIf(m) /\ ~CompileDo(m)
    <2>1. \A m \in Nodes : /\ ~Called(m, {"end", "return"}) /\ ~Called(m, {"goto", "gosub"})
                          /\ ~Called(m, {"if"}) /\ ~Called(m, {"do"})
      BY <1>4, <1>5
    <2>2. \A m \in Nodes : CompileEnd(m) => Called(m, {"end", "return"})
      BY DEF CompileEnd
    <2>3. \A m \in Nodes : CompileGoto(m) => Called(m, {"goto", "gosub"})
      BY DEF CompileGoto
    <2>4. \A m \in Nodes : CompileIf(m) => Called(m, {"if"})
      BY DEF CompileIf
    <2>5. \A m \in Nodes : CompileDo(m) => Called(m, {"do"})
      BY DEF CompileDo
    <2> QED
      BY <2>1, <2>2, <2>3, <2>4, <2>5
  <1>8. CASE \E m \in Nodes : CompileAssign(m) \/ CompileCopy(m) \/ CompilePrint(m)
    <2>1. todo' = <<>>
      BY <1>8 DEF CompileAssign, CompileCopy, CompilePrint
    <2>2. err' \/ ~EndsInRet'
      BY <1>8, PlainEnds DEF ShortCode
    <2> QED
      BY <1>1, <2>1, <2>2 DEF ExitFollows
  <1>9. CASE ResumeFor
    <2>1. todo' = <<>> /\ Head(todo).op = "next"
      BY <1>9 DEF ResumeFor, Resumed
    <2>2. Head(todo).at <= length
      BY <1>2, <1>3, <2>1
    <2>3. err' \/ ~EndsInRet'
      BY <1>9, <2>2, NextEnds DEF ShortCode
    <2> QED
      BY <1>1, <2>1, <2>3 DEF ExitFollows
  <1>10. ASSUME NEW m \in Nodes, CompileFor(m) PROVE ExitFollows(n)'
    <2>1. PICK start : start = length + AssignLength(m)
      OBVIOUS
    <2>2. PICK own : own = [op |-> "next", n |-> m, at |-> Wrap(start)]
      OBVIOUS
    <2>3. start \in Nat /\ length' = start /\ start < Segment
      BY <1>10, <2>1, AssignLengthNat DEF CompileFor, TypeOK, Segment, ShortCode
    <2>4. Wrap(start) = start
      BY <2>3, WrapSmall
    <2>5. todo' = Calls(prog.body[m]) \o <<own>> \o <<>>
      BY <1>10, <2>1, <2>2 DEF CompileFor
    <2>6. Calls(prog.body[m]) \in Seq(Frame) /\ own \in Frame
      BY <2>2, <2>3, <2>4, ProgramParts, CallsType DEF Frame
    <2>7. todo' # <<>> /\ todo'[Len(todo')] = own
      BY <2>5, <2>6, LastOf
    <2>8. own.op = "next" /\ own.at <= length'
      BY <2>2, <2>3, <2>4
    <2> QED
      BY <1>1, <2>7, <2>8 DEF ExitFollows
  <1> QED
    BY <1>6, <1>7, <1>8, <1>9, <1>10 DEF Next

\* What a code of at most 15360 bytes keeps: the length, the walk and the exit.
ShortInv == length >= 160 /\ (length <= 15360 => ExitDue)

\* The exit stays due, and comes when compile() returns.
LEMMA ShortStep ==
  ASSUME TreeInv, TypeOK', ShortInv, [Next]_vars
  PROVE  ShortInv'
  <1>1. length <= length' /\ length \in Nat /\ length' \in Nat
    BY LengthGrows DEF TreeInv, TypeOK
  <1>2. length' >= 160
    BY <1>1 DEF ShortInv
  <1>3. ASSUME length' <= 15360 PROVE ExitDue'
    <2>1. ExitDue /\ length >= 160 /\ Fits
      BY <1>1, <1>3 DEF ShortInv, Fits, Segment
    <2>2. TypeOK /\ Walk /\ Linked /\ JumpsKnown
      BY <2>1 DEF TreeInv
    <2>3. CASE Finish
      <3>1. prog' = prog /\ todo = <<>> /\ phase = "ast" /\ phase' = "done" /\ err' = err
            /\ length' = FinishedLength
            /\ mark'[<<"fi", NULL>>] = length
        BY <2>2, <2>3 DEF Finish, TypeOK, Points
      <3>2. ASSUME NEW n \in Nodes, RunsThrough(n)' PROVE ExitFollows(n)'
        <4>1. RunsThrough(n)
          BY <3>1, <3>2 DEF RunsThrough
        <4>2. err \/ ~EndsInRet
          BY <2>1, <3>1, <4>1 DEF ExitDue, ExitFollows
        <4>3. err' \/ length' = mark'[<<"fi", NULL>>] + ExitLength
          BY <3>1, <4>2 DEF FinishedLength
        <4> QED
          BY <3>1, <4>3 DEF ExitFollows
      <3> QED
        BY <3>2 DEF ExitDue
    <2>4. CASE UNCHANGED vars
      BY <2>1, <2>4 DEF vars, ExitDue, ExitFollows, RunsThrough, EndsInRet, LastByte
    <2>5. CASE ~Finish /\ ~UNCHANGED vars
      <3>1. Pushed
        BY <2>2, <2>5, StepPushes
      <3>2. CASE Tail(todo) # <<>>
        BY <1>1, <2>1, <2>2, <3>1, <3>2, OthersAbove DEF Pushed
      <3>3. CASE Tail(todo) = <<>>
        <4>1. ASSUME NEW n \in Nodes, RunsThrough(n)' PROVE ExitFollows(n)'
          <5>1. RunsThrough(n)
            BY <3>1, <4>1 DEF Pushed, RunsThrough
          <5> QED
            BY <1>1, <1>2, <1>3, <2>1, <2>2, <2>5, <3>3, <5>1, LastFrame DEF ShortCode
        <4> QED
          BY <4>1 DEF ExitDue
      <3> QED
        BY <3>2, <3>3
    <2> QED
      BY <2>3, <2>4, <2>5
  <1> QED
    BY <1>2, <1>3 DEF ShortInv

\* At the beginning the last statement is at the bottom of the stack.
LEMMA ShortInit == Init => ShortInv
  <1> SUFFICES ASSUME Init PROVE ShortInv
    OBVIOUS
  <1>1. prog.top \in Seq(Nodes \cup {NULL}) /\ prog.blob \in Nat
    BY InitTypeOK, ProgramsAssumption DEF Init, ProgramType
  <1>2. length >= 160
    BY <1>1 DEF Init, EntryLength, RUNTIMELEN
  <1>3. todo = Calls(prog.top) /\ phase = "ast"
    BY DEF Init
  <1>4. ASSUME NEW n \in Nodes, RunsThrough(n) PROVE ExitFollows(n)
    <2>1. Len(todo) = Len(prog.top) /\ prog.top # <<>> /\ todo # <<>>
      BY <1>1, <1>3, <1>4 DEF Calls, RunsThrough
    <2>2. todo[Len(todo)] = Call(n)
      BY <1>1, <1>3, <1>4, <2>1 DEF Calls, RunsThrough
    <2> QED
      BY <1>3, <2>1, <2>2 DEF ExitFollows
  <1> QED
    BY <1>2, <1>4 DEF ShortInv, ExitDue

\* In code of at most 15360 bytes an exit follows a last statement that the
\* processor runs through.  In longer code the word of a call or of a jump back
\* may end in the byte of a RET, and compile() leaves the exit out.
THEOREM ShortCodeExits == Spec => [](length <= 15360 => FallThroughExits)
  <1>1. ShortInv => (length <= 15360 => FallThroughExits)
    BY DEF ShortInv, ExitDue, ExitFollows, RunsThrough, FallThroughExits, Done
  <1>2. TreeInv /\ TypeOK' /\ ShortInv /\ [Next]_vars => ShortInv'
    BY ShortStep
  <1> QED
    BY <1>1, <1>2, ShortInit, TreeInvariant, TypeCorrect, PTL DEF Spec

-----------------------------------------------------------------------------
(***************************************************************************)
(* The refinement.  A call of compile_ast places the labels of its node,   *)
(* which have no place yet because the node is compiled only once; every   *)
(* other step places none.                                                 *)
(***************************************************************************)

\* A resolved patch entry goes to the address of its label.
LEMMA ResolvedGoes ==
  ASSUME TypeOK, PatchedOnceKnown
  PROVE  \A e \in patches : addr[e.id] # 0 => Goes(e.addr) = addr[e.id]
  <1> SUFFICES ASSUME NEW e \in patches, addr[e.id] # 0
               PROVE  Goes(e.addr) = addr[e.id]
    OBVIOUS
  <1>1. e.id \in Labels /\ e.addr \in Nat /\ addr[e.id] \in Word16
    BY WordNat DEF TypeOK
  <1>2. word[e.addr] = Rel16(addr[e.id], e.addr)
    BY DEF PatchedOnceKnown
  <1> QED
    BY <1>1, <1>2, LandRel DEF Goes

\* The same after a step.
LEMMA ResolvedGoesNext ==
  ASSUME TypeOK', PatchedOnceKnown'
  PROVE  \A e \in patches' : addr'[e.id] # 0 => Goes(e.addr)' = addr'[e.id]
  <1> SUFFICES ASSUME NEW e \in patches', addr'[e.id] # 0
               PROVE  Goes(e.addr)' = addr'[e.id]
    OBVIOUS
  <1>1. e.id \in Labels /\ e.addr \in Nat /\ addr'[e.id] \in Word16
    BY WordNat DEF TypeOK
  <1>2. word'[e.addr] = Rel16(addr'[e.id], e.addr)
    BY DEF PatchedOnceKnown
  <1> QED
    BY <1>1, <1>2, LandRel DEF Goes

\* The references of the assembler that wait and those that are settled.
Unsettled == { [site |-> e.addr, label |-> e.id] :
                  e \in {p \in patches : p.id \notin Placed} }
Fixed == { [site |-> e.addr, label |-> e.id, offset |-> Goes(e.addr)] :
                  e \in {p \in patches : p.id \in Placed} }

\* A step that gives the labels of L the current place, which they did not have,
\* and adds only entries without one is a step of the assembler.
LEMMA FixupStep ==
  ASSUME TypeOK, TypeOK', Linked, Linked', length # 0, length <= length',
         NEW L \in SUBSET Labels, \A l \in L : addr[l] = 0,
         \A l \in Labels : addr'[l] = IF l \in L THEN length ELSE addr[l],
         patches \subseteq patches',
         \A e \in patches' \ patches :
            addr'[e.id] = 0 /\ length <= e.addr /\ e.addr < length'
  PROVE  Assembler!Next
  <1>1. Placed' = Placed \cup L /\ L \cap Placed = {}
    BY DEF Placed
  <1>2. length \in Nat /\ length' \in Nat
        /\ \A e \in patches' : e.id \in Labels /\ e.addr \in Nat
    BY WordNat DEF TypeOK
  <1>3. \A e \in patches : e.id \in Placed => Goes(e.addr) = addr[e.id]
    BY ResolvedGoes DEF Linked, Placed
  <1>4. \A e \in patches' : e.id \in Placed' => Goes(e.addr)' = addr'[e.id]
    BY ResolvedGoesNext DEF Linked, Placed
  <1>5. \A e \in patches' : e.id \in Placed' => e \in patches
    BY <1>2 DEF Placed
  <1> DEFINE Still == {r \in Unsettled : r.label \notin L}
             Now   == { [site |-> r.site, label |-> r.label, offset |-> length] :
                           r \in Unsettled \ Still }
  <1>6. [l \in Placed |-> addr[l]]' =
           [l \in Placed \cup L |-> IF l \in L THEN length ELSE addr[l]]
    BY <1>1 DEF Placed
  <1>7. Unsettled' \in SUBSET [site : Nat, label : Labels]
    BY <1>2 DEF Unsettled
  <1>8. Still \subseteq Unsettled'
    BY <1>1, <1>2 DEF Unsettled
  <1>9. \A r \in Unsettled' \ Still :
           r.label \notin Placed \cup L /\ length <= r.site /\ r.site < length'
    BY <1>1 DEF Unsettled
  <1>10. Fixed' = Fixed \cup Now
    <2>1. \A e \in patches : e.id \in L => [site |-> e.addr, label |-> e.id] \in Unsettled \ Still
      BY <1>1 DEF Unsettled
    <2>2. \A r \in Unsettled \ Still : \E e \in patches :
             e.id \in L /\ r = [site |-> e.addr, label |-> e.id]
      BY DEF Unsettled
    <2>3. ASSUME NEW f \in Fixed' PROVE f \in Fixed \cup Now
      <3>1. PICK e \in patches' : /\ e.id \in Placed'
                                  /\ f = [site |-> e.addr, label |-> e.id, offset |-> Goes(e.addr)']
        BY DEF Fixed
      <3>2. e \in patches /\ e.id \in Labels /\ Goes(e.addr)' = addr'[e.id]
        BY <3>1, <1>2, <1>4, <1>5
      <3>3. CASE e.id \in L
        <4>1. f = [site |-> e.addr, label |-> e.id, offset |-> length]
          BY <3>1, <3>2, <3>3
        <4>2. PICK r \in Unsettled \ Still : r = [site |-> e.addr, label |-> e.id]
          BY <2>1, <3>2, <3>3
        <4> QED
          BY <4>1, <4>2
      <3>4. CASE e.id \notin L
        <4>1. e.id \in Placed /\ Goes(e.addr) = addr[e.id]
          BY <1>1, <1>3, <3>1, <3>2, <3>4
        <4> QED
          BY <3>1, <3>2, <3>4, <4>1 DEF Fixed
      <3> QED
        BY <3>3, <3>4
    <2>4. ASSUME NEW f \in Fixed PROVE f \in Fixed'
      <3>1. PICK e \in patches : /\ e.id \in Placed
                                 /\ f = [site |-> e.addr, label |-> e.id, offset |-> Goes(e.addr)]
        BY DEF Fixed
      <3>2. e \in patches' /\ e.id \in Labels /\ e.id \in Placed' /\ e.id \notin L
        BY <3>1, <1>1, <1>2
      <3>3. Goes(e.addr)' = Goes(e.addr)
        BY <3>1, <3>2, <1>3, <1>4
      <3> QED
        BY <3>1, <3>2, <3>3 DEF Fixed
    <2>5. ASSUME NEW f \in Now PROVE f \in Fixed'
      <3>1. PICK r \in Unsettled \ Still : f = [site |-> r.site, label |-> r.label, offset |-> length]
        OBVIOUS
      <3>2. PICK e \in patches : e.id \in L /\ r = [site |-> e.addr, label |-> e.id]
        BY <2>2
      <3>3. e \in patches' /\ e.id \in Placed' /\ Goes(e.addr)' = length
        BY <3>2, <1>1, <1>2, <1>4
      <3>4. f = [site |-> e.addr, label |-> e.id, offset |-> Goes(e.addr)']
        BY <3>1, <3>2, <3>3
      <3> QED
        BY <3>3, <3>4 DEF Fixed
    <2> QED
      BY <2>3, <2>4, <2>5
  <1>11. Assembler!Step(L)
    BY <1>2, <1>6, <1>7, <1>8, <1>9, <1>10 DEF Assembler!Step, Assembler!Refs, Unsettled, Fixed
  <1>12. L \in SUBSET (Labels \ DOMAIN [l \in Placed |-> addr[l]])
    BY <1>1
  <1> QED
    BY <1>11, <1>12 DEF Assembler!Next

\* What compile_ast is called on has no label with an address.
LEMMA LabelsHaveNoPlace ==
  ASSUME TypeOK, Walk, Linked, NEW n \in Nodes, NEW K, Called(n, K)
  PROVE  \A l \in Labels : prog.target[l] = n => addr[l] = 0
  <1>1. todo # <<>> /\ Head(todo).op = "ast" /\ Head(todo).n = n /\ n # NULL
    BY NullAssumption DEF Called
  <1>2. ~Opened(n)
    BY <1>1, TopInWalk DEF InWalk, Awaits
  <1> QED
    BY <1>1, <1>2 DEF Opened, Linked, AddrIsMark

\* A step that resumes a caller, and one that changes nothing.
LEMMA QuietFixups ==
  ASSUME TypeOK, TypeOK', Walk, Linked, Linked', length <= length',
         addr' = addr, patches' = patches
  PROVE  Assembler!Next
  <1>1. \A l \in {} : addr[l] = 0
    OBVIOUS
  <1>2. length # 0
    BY DEF Walk, TypeOK
  <1>3. PICK L \in SUBSET Labels : L = {}
    OBVIOUS
  <1> QED
    BY <1>2, <1>3, FixupStep

\* A call of compile_ast gives the labels on n their place (patch_jumps).
LEMMA CalledFixups ==
  ASSUME TypeOK, TypeOK', Walk, Linked, Linked', Fits, length <= length',
         NEW n \in Nodes, NEW K, Called(n, K), patches \subseteq patches',
         \A e \in patches' \ patches :
            addr'[e.id] = 0 /\ length <= e.addr /\ e.addr < length'
  PROVE  Assembler!Next
  <1>1. length # 0
    BY DEF Walk, TypeOK
  <1>2. PICK L \in SUBSET Labels : \A l \in Labels : l \in L <=> prog.target[l] = n
    <2> WITNESS {l \in Labels : prog.target[l] = n} \in SUBSET Labels
    <2> QED
      OBVIOUS
  <1>3. \A l \in L : addr[l] = 0
    BY <1>2, LabelsHaveNoPlace
  <1>4. \A l \in Labels : addr'[l] = IF l \in L THEN length ELSE addr[l]
    BY <1>2, PatchedLinked DEF Called
  <1> QED
    BY <1>1, <1>3, <1>4, FixupStep

\* compile_goto and compile_gosub add at most an entry, for the word they emit,
\* to a label that has no address.
LEMMA GotoEntries ==
  ASSUME TypeOK, TypeOK', Fits', NEW n \in Nodes, CompileGoto(n)
  PROVE  /\ patches \subseteq patches'
         /\ \A e \in patches' \ patches :
               addr'[e.id] = 0 /\ length <= e.addr /\ e.addr < length'
  <1> DEFINE id == prog.label[n]
  <1>1. length \in Nat /\ length' \in Nat /\ addr' = PatchedAddr(n)
    BY DEF TypeOK, CompileGoto, Called
  <1>2. CASE patches' = patches
    BY <1>2
  <1>3. CASE patches' # patches
    <2>1. length' = length + 3 /\ PatchedAddr(n)[id] = 0
          /\ patches' = patches \cup {[id |-> id, addr |-> Wrap(length + 1)]}
      BY <1>3 DEF CompileGoto, Jump
    <2>2. length + 1 < Segment
      BY <1>1, <2>1 DEF Fits, Segment
    <2>3. Wrap(length + 1) = length + 1
      BY <1>1, <2>2, WrapSmall
    <2> QED
      BY <1>1, <2>1, <2>3
  <1> QED
    BY <1>2, <1>3

\* Every step of the compiler that stays inside the segment is a step of the
\* assembler.
LEMMA StepFixups ==
  ASSUME TreeInv, TreeInv', Fits, Fits', [Next]_vars
  PROVE  Assembler!Next
  <1>1. TypeOK /\ TypeOK' /\ Walk /\ Linked /\ Linked'
    BY DEF TreeInv
  <1>2. length <= length'
    BY <1>1, LengthGrows
  <1>3. CASE CompileNothing \/ ResumeIfWithElse \/ ResumeIfAtEnd \/ ResumeDo \/ ResumeFor
             \/ Finish \/ UNCHANGED vars
    <2>1. addr' = addr /\ patches' = patches
      BY <1>3 DEF CompileNothing, ResumeIfWithElse, ResumeIfAtEnd, ResumeDo, ResumeFor,
                  Resumed, Finish, vars
    <2> QED
      BY <1>1, <1>2, <2>1, QuietFixups
  <1>4. ASSUME NEW n \in Nodes,
               CompileAssign(n) \/ CompileCopy(n) \/ CompilePrint(n) \/ CompileEnd(n)
        PROVE  Assembler!Next
    <2>1. patches' = patches /\ \E K : Called(n, K)
      BY <1>4 DEF CompileAssign, CompileCopy, CompilePrint, CompileEnd
    <2> QED
      BY <1>1, <1>2, <2>1, CalledFixups
  <1>5. ASSUME NEW n \in Nodes, CompileIf(n) \/ CompileDo(n) \/ CompileFor(n)
        PROVE  Assembler!Next
    <2>1. patches' = patches /\ \E K : Called(n, K)
      BY <1>5 DEF CompileIf, CompileDo, CompileFor
    <2> QED
      BY <1>1, <1>2, <2>1, CalledFixups
  <1>6. ASSUME NEW n \in Nodes, CompileGoto(n) PROVE Assembler!Next
    <2>1. Called(n, {"goto", "gosub"})
      BY <1>6 DEF CompileGoto
    <2> QED
      BY <1>1, <1>2, <1>6, <2>1, GotoEntries, CalledFixups
  <1> QED
    BY <1>3, <1>4, <1>5, <1>6 DEF Next

\* Before the first statement no label has a place and no reference waits.
LEMMA InitFixups == Init => Assembler!Init
  <1> SUFFICES ASSUME Init PROVE Assembler!Init
    OBVIOUS
  <1>1. length \in Nat
    BY InitTypeOK DEF TypeOK
  <1>2. Placed = {} /\ patches = {}
    BY DEF Init, Placed
  <1> QED
    BY <1>1, <1>2 DEF Assembler!Init

\* The patch table and the symbol table implement the assembler with fixups, as
\* long as the code fits the segment: an entry is resolved in the step that
\* compiles the statement of its label, never before and never again.
THEOREM CompilerImplementsFixups == Spec /\ []Fits => ImplementsFixups
  <1>1. TreeInv /\ TreeInv' /\ Fits /\ Fits' /\ [Next]_vars => [Assembler!Next]_(Assembler!fvars)
    BY StepFixups
  <1> QED
    BY <1>1, InitFixups, TreeInvariant, PTL DEF Spec, ImplementsFixups, Assembler!Spec
\* A step of the assembler that places the labels of L keeps Settled: what it
\* settles names a label of L, which it places here, and what begins to wait
\* names a label without a place (patch_jumps, compile_goto).
LEMMA StepSettled ==
  ASSUME Assembler!Settled,
         NEW L, L \cap Placed = {}, Assembler!Step(L)
  PROVE  Assembler!Settled'
  <1> DEFINE place   == [l \in Placed |-> addr[l]]
             waiting == { [site |-> e.addr, label |-> e.id] :
                             e \in {p \in patches : p.id \notin Placed} }
             settled == { [site |-> e.addr, label |-> e.id, offset |-> Goes(e.addr)] :
                             e \in {p \in patches : p.id \in Placed} }
             still == {r \in waiting : r.label \notin L}
             now   == { [site |-> r.site, label |-> r.label, offset |-> length] :
                           r \in waiting \ still }
  <1>0. DOMAIN place = Placed
    OBVIOUS
  <1>1. /\ \A r \in waiting : r.label \notin DOMAIN place
        /\ \A f \in settled : f.label \in DOMAIN place /\ f.offset = place[f.label]
    BY DEF Assembler!Settled
  <1>2. /\ place' = [l \in DOMAIN place \cup L |-> IF l \in L THEN length ELSE place[l]]
        /\ \A r \in waiting' \ still : r.label \notin DOMAIN place \cup L
        /\ settled' = settled \cup now
    BY DEF Assembler!Step
  <1> SUFFICES /\ \A r \in waiting' : r.label \notin DOMAIN place'
               /\ \A f \in settled' : f.label \in DOMAIN place' /\ f.offset = place'[f.label]
    BY DEF Assembler!Settled
  <1> HIDE DEF place, waiting, settled
  <1>3. /\ DOMAIN place' = DOMAIN place \cup L
        /\ \A l \in L : place'[l] = length
        /\ \A l \in DOMAIN place : place'[l] = place[l]
    BY <1>0, <1>2
  <1>4. ASSUME NEW r \in waiting' PROVE r.label \notin DOMAIN place'
    <2>1. CASE r \in still
      BY <1>1, <1>3, <2>1
    <2>2. CASE r \notin still
      BY <1>2, <1>3, <2>2
    <2> QED
      BY <2>1, <2>2
  <1>5. ASSUME NEW f \in settled'
        PROVE  f.label \in DOMAIN place' /\ f.offset = place'[f.label]
    <2>1. CASE f \in settled
      BY <1>1, <1>3, <2>1
    <2>2. CASE f \in now
      BY <1>3, <2>2
    <2> QED
      BY <1>2, <2>1, <2>2
  <1> QED
    BY <1>4, <1>5

\* What the patch table inherits from the assembler, as long as the code fits:
\* an entry is unresolved only while its label has no address, and a resolved
\* one goes to the address of its label.
THEOREM PatchTableSettles == Spec /\ []Fits => []Assembler!Settled
  <1>1. Init => Assembler!Settled
    BY DEF Init, Placed, Assembler!Settled
  <1>2. Assembler!Settled /\ [Assembler!Next]_(Assembler!fvars) => Assembler!Settled'
    <2> SUFFICES ASSUME Assembler!Settled, [Assembler!Next]_(Assembler!fvars)
                 PROVE  Assembler!Settled'
      OBVIOUS
    <2>1. CASE Assembler!Next
      <3>1. PICK L \in SUBSET (Labels \ DOMAIN [l \in Placed |-> addr[l]]) : Assembler!Step(L)
        BY <2>1 DEF Assembler!Next
      <3> QED
        BY <3>1, StepSettled
    <2>2. CASE UNCHANGED Assembler!fvars
      BY <2>2 DEF Assembler!fvars, Assembler!Settled
    <2> QED
      BY <2>1, <2>2
  <1> QED
    BY <1>1, <1>2, CompilerImplementsFixups, PTL DEF Spec, ImplementsFixups, Assembler!Spec
=============================================================================

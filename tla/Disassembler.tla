----------------------------- MODULE Disassembler -----------------------------
(***************************************************************************)
(* util/disassembler.c: how far disassemble_instruction moves on, by the   *)
(* first byte of an instruction and the fields of the ModR/M byte after it.*)
(* The text it shows is left out.                                          *)
(***************************************************************************)
EXTENDS Machine

Encoding(byte, mod, reg, rm) == [byte |-> byte, mod |-> mod, reg |-> reg, rm |-> rm]
Plain(byte)                  == Encoding(byte, 3, 0, 0)

Registers == <<"ax", "cx", "dx", "bx", "sp", "bp", "si", "di">>
Number(r) == (CHOOSE k \in 1 .. 8 : Registers[k] = r.val) - 1

\* The ModR/M fields of an operand: a register, [imm16] or [BX].
Of(byte, reg, o) ==
    CASE o.kind = "register" -> Encoding(byte, 3, reg, Number(o))
      [] o.kind = "at"       -> Encoding(byte, 0, reg, 6)
      [] o.kind = "by bx"    -> Encoding(byte, 0, reg, 7)

\* How the templates encode an instruction.
Encoded(i) ==
    LET two(short, near) == Plain(IF i.size = 2 THEN short ELSE near) IN
    CASE i.op = "MOV" /\ i.src.kind = "imm"      -> Of(\hC7, 0, i.dst)
      [] i.op = "MOV" /\ i.dst.kind = "register" /\ i.src.kind # "imm"
                                                 -> Of(\h8B, Number(i.dst), i.src)
      [] i.op = "MOV" /\ i.dst.kind # "register" /\ i.src.kind = "register"
                                                 -> Of(\h89, Number(i.src), i.dst)
      [] i.op = "MOV SP,BP"                      -> Encoding(\h8B, 3, 4, 5)
      [] i.op = "ADD"                            -> Of(\h03, Number(i.dst), i.src)
      [] i.op = "OR"                             -> Of(\h0B, Number(i.dst), i.src)
      [] i.op = "SUB"                            -> Of(\h2B, Number(i.dst), i.src)
      [] i.op = "XOR"                            -> Of(\h33, Number(i.dst), i.src)
      [] i.op = "CMP" /\ i.src.kind # "imm"      -> Of(\h3B, Number(i.dst), i.src)
      [] i.op = "CMP" /\ i.src.kind = "imm"      -> two(\h85, \h3D)
      [] i.op = "AND"                            -> Plain(\h25)
      [] i.op \in {"SHR", "SHL"}                 -> Plain(\hC1)
      [] i.op = "XCHG"                           -> Plain(IF i.size = 1 THEN \h93 ELSE \h87)
      [] i.op = "INC"                            -> Of(\hFF, 0, i.dst)
      [] i.op = "DEC"                            -> Of(\hFF, 1, i.dst)
      [] i.op = "PUSH"                           -> Plain(\h50 + Number(i.src))
      [] i.op = "POP"                            -> Plain(\h58 + Number(i.dst))
      [] i.op = "LODSB"                          -> Plain(\hAC)
      [] i.op = "STOSB"                          -> Plain(\hAA)
      [] i.op \in {"MUL", "DIV"}                 -> Plain(\hF7)
      [] i.op \in {"INT 10", "INT 1A"}           -> Plain(\hCD)
      [] i.op = "RET"                            -> Plain(\hC3)
      [] i.op = "JMP"                            -> two(\hEB, \hE9)
      [] i.op = "JZ"                             -> two(\h74, \h0F)
      [] i.op = "JNE"                            -> two(\h75, \h0F)
      [] i.op = "JG"                             -> Plain(\h7F)
      [] i.op = "JGE"                            -> Plain(\h0F)
      [] i.op = "JC"                             -> Plain(\h72)
      [] i.op = "CALL" /\ i.src.kind = "imm"     -> Plain(\hE8)
      [] i.op = "CALL" /\ i.src.kind # "imm"     -> Of(\hFF, 2, i.src)

------------------------------------------------------------------------------
(* disassemble_instruction.                                                *)

\* Faulty variant: a register is stored at an immediate address only.
StoreLengthLong(e) == 4

\* MOV [BX], r16 or MOV [imm16], r16
StoreLength(e)     == IF e.mod = 0 /\ e.rm = 7 THEN 2 ELSE 4
\* MOV r16, r16 or r16, [BX] or r16, [imm16]
LoadLength(e)      == IF e.mod # 0 \/ e.rm = 7 THEN 2 ELSE 4
\* MOV [imm16], imm16 or MOV r16, imm16
ImmediateLength(e) == IF e.mod = 0 THEN 6 ELSE 4
\* Faulty variant: the address of INC [imm16] is not skipped.
GroupLengthShort(e) == 2

\* CALL r16, DEC r16, INC r16 or INC [imm16]
GroupLength(e)     == IF e.reg \in {1, 2} \/ e.mod # 0 THEN 2 ELSE 4

ArithmeticLength(e) ==
    CASE e.byte \in {\h03, \h2B, \h33, \h3B, \h85, \h87, \hF7, \hFE} -> 2
      [] e.byte \in {\h25, \h3D, \hC1}                               -> 3
      [] e.byte = \h0B                                               -> 4

JumpLength(e) ==
    CASE e.byte \in {\h72, \h74, \h75, \h7F, \hEB, \hCD} -> 2
      [] e.byte \in {\hE8, \hE9}                         -> 3
      [] e.byte = \h0F                                   -> 4

Arithmetic == {\h03, \h0B, \h25, \h2B, \h33, \h3B, \h3D, \h85, \h87, \hC1, \hF7, \hFE}
Branches   == {\h0F, \h72, \h74, \h75, \h7F, \hCD, \hE8, \hE9, \hEB}

\* PUSH, POP, NOP, XCHG AX, STOSB, STOSW, LODSB, RET, REP and unknown bytes
\* take one byte.
ShownLength(i) ==
    LET e == Encoded(i) IN
    CASE e.byte \in Arithmetic     -> ArithmeticLength(e)
      [] e.byte \in Branches       -> JumpLength(e)
      [] e.byte = \h89             -> StoreLength(e)
      [] e.byte = \h8B             -> LoadLength(e)
      [] e.byte \in \hB0 .. \hB7   -> 2
      [] e.byte = \hC7             -> ImmediateLength(e)
      [] e.byte = \hFF             -> GroupLength(e)
      [] OTHER                     -> 1

\* From the first instruction on, the next one shown is the next one run.
InStep(code) == \A off \in DOMAIN code : ShownLength(code[off]) = code[off].size
=============================================================================

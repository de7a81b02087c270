------------------------------- MODULE Machine -------------------------------
(***************************************************************************)
(* The part of the 8086 that compiled statements run on: the instructions  *)
(* the templates of expression.c and keyword.c emit, with their lengths,   *)
(* the registers, the flags their conditional jumps test and a memory of   *)
(* bytes.  The strings that only the kernel looks into are kept whole, by  *)
(* the address at which they begin.                                        *)
(***************************************************************************)
EXTENDS Layout, Sequences

Bits == INSTANCE Bitwise

\* Operands: a register, a word in the instruction, the word at an address,
\* the word BX points to.
Operand(kind, val) == [kind |-> kind, val |-> val]

Imm(w) == Operand("imm", w)
At(a)  == Operand("at", a)
ByBx   == Operand("by bx", 0)
None   == Operand("none", 0)
AX     == Operand("register", "ax")
BX     == Operand("register", "bx")
CX     == Operand("register", "cx")
DX     == Operand("register", "dx")
SI     == Operand("register", "si")
DI     == Operand("register", "di")

\* An instruction: its name, its operands and its length in bytes.
Ins(op, dst, src, size) == [op |-> op, dst |-> dst, src |-> src, size |-> size]

Bytes(o)           == IF o.kind \in {"imm", "at"} THEN 2 ELSE 0
General(op, d, s)  == Ins(op, d, s, 2 + Bytes(d) + Bytes(s))

Mov(d, s)     == General("MOV", d, s)
Add(d, s)     == General("ADD", d, s)
Sub(d, s)     == General("SUB", d, s)
Xor(d, s)     == General("XOR", d, s)
Or(d, s)      == General("OR", d, s)
Cmp(d, s)     == General("CMP", d, s)
XchgDiSi      == General("XCHG", DI, SI)
XchgAxBx      == Ins("XCHG", AX, BX, 1)
TestAx        == Ins("CMP", AX, Imm(0), 2)      \* TEST AX,AX
AndAx(w)      == Ins("AND", AX, Imm(w), 3)
CmpAx(w)      == Ins("CMP", AX, Imm(w), 3)
ShrAx8        == Ins("SHR", AX, Imm(8), 3)
ShlDx8        == Ins("SHL", DX, Imm(8), 3)
Inc(d)        == General("INC", d, None)
Dec(d)        == Ins("DEC", d, None, 2)
Push(s)       == Ins("PUSH", None, s, 1)
Pop(d)        == Ins("POP", d, None, 1)
Lodsb         == Ins("LODSB", AX, None, 1)
Stosb         == Ins("STOSB", None, AX, 1)
MulBx         == Ins("MUL", AX, BX, 2)
DivBx         == Ins("DIV", AX, BX, 2)
Int1A         == Ins("INT 1A", None, None, 2)
Int10         == Ins("INT 10", None, None, 2)
Ret           == Ins("RET", None, None, 1)
JmpShort(rel) == Ins("JMP", None, Imm(rel), 2)
JmpNear(rel)  == Ins("JMP", None, Imm(rel), 3)
Jz(rel)       == Ins("JZ", None, Imm(rel), 2)
JzNear(rel)   == Ins("JZ", None, Imm(rel), 4)
Jne(rel)      == Ins("JNE", None, Imm(rel), 2)
JneNear(rel)  == Ins("JNE", None, Imm(rel), 4)
JgeNear(rel)  == Ins("JGE", None, Imm(rel), 4)
Jg(rel)       == Ins("JG", None, Imm(rel), 2)
Jc(rel)       == Ins("JC", None, Imm(rel), 2)
CallTo(at)    == Ins("CALL", None, Imm(at), 3)
CallAx        == Ins("CALL", None, AX, 2)

Signed(w) == IF w >= 32768 THEN w - Segment ELSE w

\* The two words of a product of two words, computed byte by byte.
ProductLow(x, y)  == Wrap(((x * (y \div 256)) % 256) * 256 + x * (y % 256))
ProductHigh(x, y) ==
    (x * (y \div 256) + ((x * (y % 256)) \div 256)) \div 256

\* DIV raises an exception unless the quotient of DX:AX fits a word; the
\* remainder after the high byte of AX, then quotient and remainder.
DivFaults(m)  == m.dx >= m.bx
Carried(m)    == (m.dx * 256 + (m.ax \div 256)) % m.bx
Quotient(m)   == ((m.dx * 256 + (m.ax \div 256)) \div m.bx) * 256
                 + ((Carried(m) * 256 + (m.ax % 256)) \div m.bx)
Remainder(m)  == (Carried(m) * 256 + (m.ax % 256)) % m.bx

\* The length of a piece of code, and the code as a function of the offset at
\* which each instruction begins.
Size(code) ==
    LET upTo[k \in 0 .. Len(code)] == IF k = 0 THEN 0 ELSE upTo[k - 1] + code[k].size
    IN upTo[Len(code)]

Placed(code) ==
    LET begin[k \in 1 .. Len(code)] ==
            IF k = 1 THEN 0 ELSE begin[k - 1] + code[k - 1].size
    IN [ off \in {begin[k] : k \in DOMAIN code} |->
            code[CHOOSE k \in DOMAIN code : begin[k] = off] ]

\* Words are stored with their low byte first.
WordAt(mem, a)     == mem[a] + 256 * mem[a + 1]
Stored(mem, a, w)  == [mem EXCEPT ![a] = w % 256, ![a + 1] = w \div 256]

Get(m, o) ==
    CASE o.kind = "register" -> m[o.val]
      [] o.kind = "imm"      -> o.val
      [] o.kind = "at"       -> WordAt(m.mem, o.val)
      [] o.kind = "by bx"    -> WordAt(m.mem, m.bx)

Put(m, o, w) ==
    CASE o.kind = "register" -> [m EXCEPT ![o.val] = w]
      [] o.kind = "at"       -> [m EXCEPT !.mem = Stored(@, o.val, w)]
      [] o.kind = "by bx"    -> [m EXCEPT !.mem = Stored(@, m.bx, w)]

\* The condition of a jump in machine state m; cmp holds what the last CMP or
\* TEST compared.
Jumps == {"JMP", "JZ", "JNE", "JG", "JGE", "JC"}

Taken(m, op) ==
    CASE op = "JMP" -> TRUE
      [] op = "JZ"  -> m.cmp[1] = m.cmp[2]
      [] op = "JNE" -> m.cmp[1] # m.cmp[2]
      [] op = "JG"  -> Signed(m.cmp[1]) > Signed(m.cmp[2])
      [] op = "JGE" -> Signed(m.cmp[1]) >= Signed(m.cmp[2])
      [] op = "JC"  -> m.carry

\* Where the processor goes on after the jump i at ip.
JumpsTo(m, ip, i) == ip + i.size + (IF Taken(m, i.op) THEN i.src.val ELSE 0)

\* The machine after an instruction that neither jumps nor calls.
Moved(m, i) ==
    LET x == Get(m, i.dst)
        y == Get(m, i.src)
        SetDst(w) == Put(m, i.dst, w)
    IN
    CASE i.op = "MOV"    -> SetDst(y)
      [] i.op = "ADD"    -> SetDst(Wrap(x + y))
      [] i.op = "SUB"    -> SetDst(Wrap(x - y))
      [] i.op = "XOR"    -> SetDst(IF i.dst = i.src THEN 0 ELSE Bits!^^(x, y))
      [] i.op = "AND"    -> SetDst(Bits!&(x, y))
      [] i.op = "OR"     -> SetDst(Bits!|(x, y))
      [] i.op = "INC"    -> SetDst(Wrap(x + 1))
      [] i.op = "DEC"    -> SetDst(Wrap(x - 1))
      [] i.op = "SHR"    -> SetDst(x \div (2 ^ y))
      [] i.op = "SHL"    -> SetDst(Wrap(x * (2 ^ y)))
      [] i.op = "CMP"    -> [m EXCEPT !.cmp = <<x, y>>]
      [] i.op = "XCHG"   -> Put(SetDst(y), i.src, x)
      [] i.op = "PUSH"   -> [m EXCEPT !.stack = <<y>> \o @]
      [] i.op = "POP"    -> [SetDst(Head(m.stack)) EXCEPT !.stack = Tail(@)]
      [] i.op = "LODSB"  -> [m EXCEPT !.ax = (256 * (@ \div 256)) + m.mem[m.si], !.si = Wrap(@ + 1)]
      [] i.op = "STOSB"  -> [m EXCEPT !.mem[m.di] = m.ax % 256, !.di = Wrap(@ + 1)]
      [] i.op = "INT 1A" -> [m EXCEPT !.dx = m.ticks, !.cx = m.hours]
      [] i.op = "MUL"    -> [m EXCEPT !.ax = ProductLow(m.ax, m.bx),
                                      !.dx = ProductHigh(m.ax, m.bx)]
      [] i.op = "DIV"    -> [m EXCEPT !.ax = Quotient(m), !.dx = Remainder(m)]
=============================================================================

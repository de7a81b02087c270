------------------------------- MODULE Control --------------------------------
(***************************************************************************)
(* Compiled control flow at work: a behaviour compiles a structured        *)
(* program and runs it, an instruction a step, from any contents of the    *)
(* registers and of its variables.                                         *)
(***************************************************************************)
EXTENDS ControlCode, TLC

D == INSTANCE Disassembler

CONSTANTS
    Bodies,     \* the programs
    Variables,  \* the numbers of the variables they use
    Words,      \* the values of the variables
    Junk,       \* what the registers may hold when the code begins
    Fuel        \* the statements a terminating program is given to end

ASSUME ControlAssumption == Variables \subseteq 0 .. 25 /\ Words \subseteq Word16 /\ Fuel \in Nat

VARIABLES program, code, size, start, m, ip

vars == <<program, code, size, start, m, ip>>

Cells == UNION {{VARS + 2 * v, VARS + 2 * v + 1} : v \in Variables}

\* The memory in which the variables have values.
Holding(values) ==
    [a \in Cells |-> LET v == (a - VARS) \div 2
                     IN IF a = VARS + 2 * v THEN values[v] % 256 ELSE values[v] \div 256]

Init ==
    /\ program \in Bodies
    /\ \E c \in {StatementsCode(program)} : code = Placed(c) /\ size = Size(c)
    /\ \E values \in [Variables -> Words], junk \in Junk :
          start = [ax |-> junk, bx |-> junk, cx |-> junk, dx |-> junk, cmp |-> <<junk, 0>>,
                   mem |-> Holding(values)]
    /\ m = start
    /\ ip = 0

Fetched(ops) ==
    /\ ip \in DOMAIN code /\ code[ip].op \in ops
    /\ UNCHANGED <<program, code, size, start>>

Jump == Fetched(Jumps) /\ ip' = JumpsTo(m, ip, code[ip]) /\ UNCHANGED m

Execute ==
    /\ Fetched({code[off].op : off \in DOMAIN code} \ Jumps)
    /\ m' = Moved(m, code[ip])
    /\ ip' = ip + code[ip].size

Next == Jump \/ Execute

\* The processor does not stop between two instructions.
Spec == Init /\ [][Next]_vars /\ WF_vars(Next)

------------------------------------------------------------------------------
(* What a program means: the values of its variables after it, and what is *)
(* left of the fuel; without fuel it runs for ever.                        *)

Value(e, values) ==
    LET of(l)  == IF l.attribute = "cell" THEN values[(l.val - VARS) \div 2] ELSE l.val
        truth(b) == IF b THEN 1 ELSE 0
    IN CASE "val" \in DOMAIN e -> of(e)
         [] e.attribute = "+"  -> Wrap(of(e.op1) + of(e.op2))
         [] e.attribute = "="  -> truth(of(e.op1) = of(e.op2))
         [] e.attribute = "<"  -> truth(Signed(of(e.op1)) < Signed(of(e.op2)))

State(values, fuel) == [values |-> values, fuel |-> fuel]
Set(st, v, w)       == State([st.values EXCEPT ![v] = w], st.fuel - 1)

\* "FOR loop will stop after iterator goes over TO field" (differences.md).
RECURSIVE Run(_, _), Repeat(_, _)
Repeat(s, st) ==
    IF st.fuel = 0 THEN st
    ELSE LET after == Run(s.body, State(st.values, st.fuel - 1))
             value(e) == Value(e, after.values)
         IN IF after.fuel = 0 THEN after
            ELSE CASE s.kind = "for" ->
                        LET next == Signed(after.values[s.var]) + 1
                            more == Set(after, s.var, Wrap(next))
                        IN IF next > Signed(Value(s.to, more.values)) THEN more ELSE Repeat(s, more)
                   [] s.kind = "do" /\ s.mod = "ENDLESS" -> Repeat(s, after)
                   [] s.kind = "do" /\ s.mod = "WHILE"   -> IF value(s.cond) = 1 THEN Repeat(s, after) ELSE after
                   [] s.kind = "do" /\ s.mod = "UNTIL"   -> IF value(s.cond) = 1 THEN after ELSE Repeat(s, after)

Run(list, st) ==
    IF list = <<>> \/ st.fuel = 0 THEN st
    ELSE LET s    == Head(list)
             once == CASE s.kind = "assign" -> Set(st, s.var, Value(s.expr, st.values))
                       [] s.kind = "if"     -> Run(IF Value(s.cond, st.values) = 1 THEN s.then ELSE s.else, st)
                       [] s.kind = "for"    -> Repeat(s, Set(st, s.var, Value(s.expr, st.values)))
                       [] s.kind = "do"     -> Repeat(s, st)
         IN Run(Tail(list), once)

Values(mach) == [v \in Variables |-> WordAt(mach.mem, VARS + 2 * v)]
Result       == Run(program, State(Values(start), Fuel))

------------------------------------------------------------------------------
\* The types of the state: registers and variables keep 16 bits.
TypeOK ==
    /\ {m.ax, m.bx, m.cx, m.dx} \subseteq Word16
    /\ \A a \in Cells : m.mem[a] \in 0 .. 255
    /\ DOMAIN m.mem = Cells

\* A program that has run to its end has given its variables the values it
\* means, for nested branches and loops, bounds that change while a loop runs
\* and iterators that its body changes.
VariablesAreMeant == ip = size => Values(m) = Result.values /\ Result.fuel > 0

\* The disassembler shows the code instruction by instruction.
DisassemblyInStep == D!InStep(code)

\* The code ends where the program does.
EndsWhenMeant == Result.fuel > 0 => <>(ip = size)

=============================================================================

------------------------------- MODULE Layout -------------------------------
(***************************************************************************)
(* The address map of a compiled program (codegen.h) and the arithmetic of *)
(* near jumps.  An offset counts bytes from the beginning of the binary,   *)
(* which MikeOS loads at LOAD.  The site of a jump is the offset of its    *)
(* rel16 word; the processor adds the word to the offset of the next       *)
(* instruction, site + 2, in a 16-bit register.                            *)
(***************************************************************************)
EXTENDS Integers

LOAD       == 32768          \* 0x8000
STRADD     == 32771          \* 0x8003
ZERODIV    == 32792          \* 0x8018
PRINTSTR   == 32840          \* 0x8048
INKADDR    == 32920          \* 0x8098
RAMSTART   == 32922          \* 0x809A
WORKPAGE   == 32924          \* 0x809C
ACTIVEPAGE == 32926          \* 0x809E
VARS       == 18753          \* 0x4941
STRVARS    == 19318          \* 0x4B76
STRBUF     == 31744          \* 0x7C00
RUNTIMELEN == 160            \* 0xA0

Segment == 65536
Word16  == 0 .. Segment - 1

\* What a uint16_t or int16_t keeps of an integer, as the 16 bits it stores.
Wrap(x) == x % Segment

\* Faulty variant: relative to the word instead of the next instruction.
Rel16FromSite(target, site) == Wrap(target - site)

\* The word patch_jumps and compile_if store at site to reach target.
Rel16(target, site) == Wrap(target - (site + 2))

\* Faulty variant: the length of the code is taken for an address.
EmitRelUnloaded(target, at) == Wrap(target - (at + 3))

\* The word emit_call and emit_jump store: target is an absolute address and
\* the opcode is emitted at offset at.
EmitRel(target, at) == Wrap(target - (at + 3 + LOAD))

\* The offset at which the processor continues after the jump at site.
Land(site, rel) == Wrap(site + 2 + rel)
=============================================================================

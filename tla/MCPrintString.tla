--------------------------- MODULE MCPrintString ----------------------------
(***************************************************************************)
(* All strings of up to four characters, of which any may be a new line.   *)
(***************************************************************************)
EXTENDS PrintString

MCTexts == UNION {[1 .. n -> {65, 66, 10}] : n \in 0 .. 4}
=============================================================================

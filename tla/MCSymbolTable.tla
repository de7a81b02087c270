---------------------------- MODULE MCSymbolTable ----------------------------
(***************************************************************************)
(* Label names for the symbol table: in Distinct no name begins with       *)
(* another one, in Prefixed L begins L2.                                   *)
(***************************************************************************)
EXTENDS SymbolTable

MCNULL == 0

Distinct == { <<"L", "1">>, <<"L", "2">>, <<"M">> }
Prefixed == { <<"L">>, <<"L", "2">> }
=============================================================================

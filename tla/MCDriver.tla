------------------------------ MODULE MCDriver ------------------------------
(***************************************************************************)
(* Small files: the empty source, and programs of which any part may be    *)
(* written before the disk is full.                                        *)
(***************************************************************************)
EXTENDS Driver

MCSourceLengths == 0 .. 3
MCCodeLengths   == 1 .. 4
=============================================================================

------------------------------ MODULE MCRuntime ------------------------------
(***************************************************************************)
(* String tables from none up to one that just fits the segment.           *)
(***************************************************************************)
EXTENDS Runtime

MCBlobLengths == 0 .. 12 \cup {255, 256, 15300, 32583, 32584}
=============================================================================

---------------------------- MODULE MCStringTable ----------------------------
(***************************************************************************)
(* Literals for the string table: empty, one a prefix of the other, and    *)
(* one that ends like another.                                             *)
(***************************************************************************)
EXTENDS StringTable

MCTexts == { <<>>, <<"a">>, <<"a", "b">>, <<"b">> }
MCRests == { <<>>, <<"a">> }
=============================================================================

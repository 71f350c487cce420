--------------------------- MODULE MCEpcRegistry ---------------------------
(***************************************************************************)
(* Three interfaces, added in any order and perhaps twice; names before,   *)
(* between and after theirs.                                               *)
(***************************************************************************)
EXTENDS EpcRegistry

MCNameOf == [i \in Interface |-> CASE i = "demo" -> 4 [] i = "bank" -> 2 [] OTHER -> 6]
MCFunctionsOf ==
  [i \in Interface |-> CASE i = "demo" -> <<4, 2, 6>> [] i = "bank" -> <<3>> [] OTHER -> <<6, 4>>]
=============================================================================

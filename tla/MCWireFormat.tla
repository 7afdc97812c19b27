---------------------------- MODULE MCWireFormat ----------------------------
(***************************************************************************)
(* WireFormat on all 32 messages: zero and a negative integer, which takes *)
(* ten bytes; an empty text, one whose length takes two bytes and one that *)
(* is not UTF-8; a foreign field 5, which is reserved in ChatInfoRq, free  *)
(* in some messages and of another type in the rest.                       *)
(***************************************************************************)
EXTENDS WireFormat

MCNumber == {0, -1}
MCTextLen == [t \in {"", "essay", "broken"} |->
                 CASE t = "" -> 0 [] t = "essay" -> 200 [] t = "broken" -> 3]
=============================================================================

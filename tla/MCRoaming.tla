----------------------------- MODULE MCRoaming -----------------------------
(***************************************************************************)
(* Roaming with one stored message, one to come and one of the device's    *)
(* own, a page of one message and two connections.                         *)
(***************************************************************************)
EXTENDS Roaming

MCHistory == <<1>>
=============================================================================

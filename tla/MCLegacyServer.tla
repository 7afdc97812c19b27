--------------------------- MODULE MCLegacyServer ---------------------------
(***************************************************************************)
(* LegacyServer with two users, two handles for three connections, so that *)
(* a handle is used again, and one message.                                *)
(***************************************************************************)
EXTENDS LegacyServer

CONSTANTS ann, bob
MCTo == [m \in Msg |-> bob]

\* bob comes back from another place, before and after ann comes.
MCClients == {<<bob, bob, ann>>, <<bob, ann, bob>>}
=============================================================================

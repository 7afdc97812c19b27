---------------------------- MODULE MCFriendship ----------------------------
(* Three users, the first two of them friends.                             *)
EXTENDS Friendship

CONSTANTS a, b, c

MCSeed == {<<a, b>>, <<b, a>>}

=============================================================================

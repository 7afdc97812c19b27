---------------------------- MODULE MCAiRequests ----------------------------
(* Two connections of two users; a login can make both the same user's.    *)
EXTENDS AiRequests, TLC

CONSTANTS s1, s2, u1, u2

MCOwner == s1 :> u1 @@ s2 :> u2

=============================================================================

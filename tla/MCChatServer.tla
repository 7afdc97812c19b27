---------------------------- MODULE MCChatServer ----------------------------
(***************************************************************************)
(* ChatServer on a small instance: user a writes to user b; a has one      *)
(* connection and b two (or each one); the connections of a user may sit   *)
(* on either strand and so may the user's offline notice.                  *)
(***************************************************************************)
EXTENDS ChatServer

CONSTANTS a, b, k1, k2, s1, s2, s3

MCFrom == [m \in Msgs |-> a]
MCTo == [m \in Msgs |-> b]
MCClient == [s \in Sessions |-> IF s = s1 THEN a ELSE b]
\* Where there are two strands, the notice of a user's disconnect and (one of) the
\* user's connections are on different ones.
MCBizOf == [s \in Sessions |-> IF s = s3 /\ k2 \in Strands THEN k2 ELSE k1]
MCUserStrand == [u \in Users |-> IF u = a /\ k2 \in Strands THEN k2 ELSE k1]

=============================================================================

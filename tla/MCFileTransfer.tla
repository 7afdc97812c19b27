--------------------------- MODULE MCFileTransfer ---------------------------
(* User a uploads: f1 and f2 are the same picture, meant for b and for     *)
(* e, f3 is a document for b.  Call c3 names an upload that is not its     *)
(* sender's; c4 is a second message with f3.                               *)
EXTENDS FileTransfer

CONSTANTS f1, f2, f3, c1, c2, c3, c4, a, b, e, x, y

MCUploads == {f1, f2, f3}
MCImages == {f1, f2}
MCContent == [f \in MCUploads |-> IF f = f3 THEN y ELSE x]
MCFrom == [f \in MCUploads |-> a]
MCTo == [f \in MCUploads |-> IF f = f2 THEN e ELSE b]
MCChats == {c1, c2, c3, c4}
MCSender == [c \in MCChats |-> IF c = c3 THEN b ELSE a]
MCTarget == [c \in MCChats |-> IF c = c2 THEN e ELSE IF c = c3 THEN a ELSE b]
MCFileOf == [c \in MCChats |-> CASE c = c1 -> f1 [] c = c2 -> f2 [] OTHER -> f3]

=============================================================================

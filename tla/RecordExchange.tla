--------------------------- MODULE RecordExchange ---------------------------
(***************************************************************************)
(* What the handlers and the client core take for granted of a protobuf    *)
(* message: it is a record.  The sender fills in fields, the receiver      *)
(* reads the same fields back, a copy is equal to the original, and a      *)
(* record the server passes on arrives as it came.  The only way a record  *)
(* is lost is the check of its texts: one that is not UTF-8 refuses the    *)
(* whole record.                                                           *)
(***************************************************************************)
EXTENDS Integers, Sequences

CONSTANTS
    Blank(_),         \* the record of a type with nothing filled in
    Proper(_)         \* the texts of a record are UTF-8

VARIABLES
    draft,      \* the record being filled in
    flight,     \* the record last sent
    read,       \* the record of the last parse
    verdict     \* "none", "flying", "ok" or "refused"

vars == <<draft, flight, read, verdict>>

\* One field changes, or all are reset.
Fill ==
    /\ \/ \E f \in DOMAIN draft.field :
             draft' = [draft EXCEPT !.field[f] = draft'.field[f]]
       \/ draft' = Blank(draft.type)
    /\ UNCHANGED <<flight, read, verdict>>

\* A peer of another version may add fields of its own.
Send ==
    /\ verdict # "flying"
    /\ flight' = [draft EXCEPT !.unknown = flight'.unknown]
    /\ draft.unknown = SubSeq(flight'.unknown, 1, Len(draft.unknown))
    /\ verdict' = "flying"
    /\ UNCHANGED <<draft, read>>

PassOn ==
    /\ verdict = "ok"
    /\ flight' = read
    /\ verdict' = "flying"
    /\ UNCHANGED <<draft, read>>

Arrive ==
    /\ verdict = "flying"
    /\ IF Proper(flight)
       THEN verdict' = "ok" /\ read' = flight
       ELSE verdict' = "refused"     \* the reader drops what it has of it
    /\ UNCHANGED <<draft, flight>>

Copy ==
    /\ verdict = "ok"
    /\ draft' = read
    /\ UNCHANGED <<flight, read, verdict>>

Next == Fill \/ Send \/ PassOn \/ Arrive \/ Copy

Spec == verdict = "none" /\ [][Next]_vars
=============================================================================

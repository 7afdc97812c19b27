--------------------------- MODULE OrderedChannel ---------------------------
(***************************************************************************)
(* What a server connection promises to the code on both sides of it: two  *)
(* streams, each in order and without gap or repeat, one handshake and one *)
(* end.  Strands, completions, timers and queues are Session's business.   *)
(***************************************************************************)
EXTENDS Naturals, Sequences

CONSTANT
    FrameAt(_)    \* the frame at each place of the stream to the client

VARIABLES
    phase,        \* "opening", "open", "failed" or "ended"
    in,           \* numbers of the client's frames, as business code gets them
    out,          \* frames accepted for the client
    onWire,       \* how many of them the network has taken
    reports       \* how often the end was reported to the server

vars == <<phase, in, out, onWire, reports>>

HandshakeFrames == 2

Init == phase = "opening" /\ in = <<>> /\ out = <<>> /\ onWire = 0 /\ reports = 0

Establish ==
    /\ phase = "opening"
    /\ phase' = "open"
    /\ UNCHANGED <<in, out, onWire, reports>>

\* The next frame of the client, only in an open connection.
Take ==
    /\ phase = "open"
    /\ in' = Append(in, Len(in) + 1)
    /\ UNCHANGED <<phase, out, onWire, reports>>

\* The next frame for the client: a frame with business in it, or a number on it,
\* only in an open connection.
Give ==
    /\ phase = "open" \/ Len(out) < HandshakeFrames
    /\ out' = Append(out, FrameAt(Len(out) + 1))
    /\ UNCHANGED <<phase, in, onWire, reports>>

\* The network takes a frame, never after the end.
Put ==
    /\ phase # "ended" /\ onWire < Len(out)
    /\ onWire' = onWire + 1
    /\ UNCHANGED <<phase, in, out, reports>>

Fail ==
    /\ phase \in {"opening", "open"}
    /\ phase' = "failed"
    /\ UNCHANGED <<in, out, onWire, reports>>

End ==
    /\ phase # "ended"
    /\ phase' = "ended"
    /\ reports' = reports + 1
    /\ UNCHANGED <<in, out, onWire>>

Next == Establish \/ Take \/ Give \/ Put \/ Fail \/ End

Spec == Init /\ [][Next]_vars
=============================================================================

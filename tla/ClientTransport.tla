-------------------------- MODULE ClientTransport --------------------------
(***************************************************************************)
(* The connection of client_core: TcpTransport.cpp, and connectToServer,   *)
(* disconnect and the heartbeat of ClientCore.cpp.                         *)
(*                                                                         *)
(* Three threads: the user's, the heartbeat's and the one that runs m_io.  *)
(* Handlers of m_io are atomic and run in the order they became ready.     *)
(* send() and close() may be called by the user's thread and by the        *)
(* heartbeat's; they read and write m_open and post to m_io in separate    *)
(* steps, and close() joins the m_io thread, which ends when m_io has no   *)
(* work left.                                                              *)
(*                                                                         *)
(* Abstractions: one connection per object, as im_cli and the tests use    *)
(* it; disconnect() and the destructor do the same.  Packets are counted,  *)
(* they leave in the order of the queue.  A read is the header and the     *)
(* body of a packet.  Time is the number of heartbeat intervals without    *)
(* data.  The link is down once the peer has closed or is unreachable: an  *)
(* operation on it fails in the end; on a link that is up it may take for  *)
(* ever.                                                                   *)
(***************************************************************************)
EXTENDS Naturals, Sequences

CONSTANTS
  Limit,      \* intervals without data after which the connection is given up (3)
  MaxSend     \* bound: packets handed to m_io

ASSUME LimitAssumption == Limit \in Nat \ {0} /\ MaxSend \in Nat

Threads == {"user", "hb"}

VARIABLES
  pc,         \* pc[a]: where a thread stands in send(), close() and disconnect()
  wasOpen,    \* wasOpen[a]: the local of close()
  open,       \* m_open
  hbRunning,  \* m_hbRunning
  silent,     \* intervals since m_lastRecvMs at the last look
  io,         \* the m_io thread: "none", "running" or "ended"
  posted,     \* handlers posted to m_io, oldest first
  queue,      \* length of m_writeQueue
  write,      \* the outstanding async_write
  read,       \* the outstanding async_read
  closing,    \* m_closing
  socket,     \* "none", "open" or "closed"
  link,       \* the way to the server: "up" or "down"
  closedBy,   \* threads that called onConnectionClosed; m_notified once there is one
  sent,       \* packets posted
  before,     \* history: packets posted when close() posted its handler
  wire        \* packets written

threadVars == <<pc, wasOpen, hbRunning, silent>>
streamVars == <<queue, write, closing, socket, wire>>
transportVars == <<threadVars, open, io, posted, streamVars, read, link, closedBy, sent, before>>

TransportInit ==
  /\ pc = [a \in Threads |-> IF a = "user" THEN "new" ELSE "none"]
  /\ wasOpen = [a \in Threads |-> "no"]
  /\ open = "no" /\ hbRunning = "no" /\ silent = 0
  /\ io = "none" /\ posted = <<>>
  /\ queue = 0 /\ write = "none" /\ read = "none" /\ closing = "no"
  /\ socket = "none" /\ link = "up" /\ closedBy = <<>>
  /\ sent = 0 /\ before = 0 /\ wire = 0

Goes(a, to) == pc' = [pc EXCEPT ![a] = to]

Rest(a) == IF a = "user" THEN "idle" ELSE "wait"

\* notifyClose(): m_open is cleared and the callback made once.
NotifyClose(a) ==
  /\ open' = "no"
  /\ closedBy' = IF closedBy = <<>> THEN <<a>> ELSE closedBy

-----------------------------------------------------------------------------
(* The user's thread.                                                      *)

\* connectToServer: TCP and TLS, the first read, the m_io thread, the heartbeat.
Connect ==
  /\ pc["user"] = "new"
  /\ pc' = [a \in Threads |-> Rest(a)]
  /\ open' = "yes" /\ socket' = "open" /\ read' = "pending" /\ io' = "running"
  /\ hbRunning' = "yes"
  /\ UNCHANGED <<wasOpen, silent, posted, queue, write, closing, wire, link, closedBy, sent, before>>

\* send() looks at m_open; what it finds closed is dropped without a word.
UserSends ==
  /\ pc["user"] = "idle" /\ open = "yes" /\ sent < MaxSend
  /\ Goes("user", "sendPost")
  /\ UNCHANGED <<wasOpen, hbRunning, silent, open, io, posted, streamVars, read, link,
                 closedBy, sent, before>>

SendPost(a) ==
  /\ pc[a] = "sendPost"
  /\ posted' = Append(posted, "send")
  /\ sent' = sent + 1
  /\ Goes(a, Rest(a))
  /\ UNCHANGED <<wasOpen, hbRunning, silent, open, io, streamVars, read, link, closedBy, before>>

\* disconnect() or the destructor: stopHeartbeat() and its join...
Disconnect ==
  /\ pc["user"] = "idle"
  /\ hbRunning' = "no"
  /\ Goes("user", "joinHb")
  /\ UNCHANGED <<wasOpen, silent, open, io, posted, streamVars, read, link, closedBy, sent, before>>

JoinHeartbeat ==
  /\ pc["user"] = "joinHb" /\ pc["hb"] = "ended"
  /\ Goes("user", "exchange")
  /\ UNCHANGED <<wasOpen, hbRunning, silent, open, io, posted, streamVars, read, link,
                 closedBy, sent, before>>

-----------------------------------------------------------------------------
(* ... then close(), which the heartbeat calls too.                        *)

CloseExchange(a) ==
  /\ pc[a] = "exchange"
  /\ wasOpen' = [wasOpen EXCEPT ![a] = open]
  /\ open' = "no"
  /\ Goes(a, IF open = "yes" THEN "closePost" ELSE "join")
  /\ UNCHANGED <<hbRunning, silent, io, posted, streamVars, read, link, closedBy, sent, before>>

ClosePost(a) ==
  /\ pc[a] = "closePost"
  /\ posted' = Append(posted, "close")
  /\ before' = sent
  /\ Goes(a, "join")
  /\ UNCHANGED <<wasOpen, hbRunning, silent, open, io, streamVars, read, link, closedBy, sent>>

\* m_thread.join(), m_io.stop(), notifyClose().
CloseJoin(a) ==
  /\ pc[a] = "join" /\ io = "ended"
  /\ IF wasOpen[a] = "yes" THEN NotifyClose(a) ELSE UNCHANGED <<open, closedBy>>
  /\ Goes(a, IF a = "user" THEN "done" ELSE "wait")
  /\ UNCHANGED <<wasOpen, hbRunning, silent, io, posted, streamVars, read, link, sent, before>>

-----------------------------------------------------------------------------
(* The heartbeat: one turn of its loop per interval.                       *)

HeartbeatEnds ==
  /\ pc["hb"] = "wait" /\ hbRunning = "no"
  /\ Goes("hb", "ended")
  /\ UNCHANGED <<wasOpen, hbRunning, silent, open, io, posted, streamVars, read, link,
                 closedBy, sent, before>>

\* The sleep takes a little longer than the interval, so that after Limit intervals
\* the elapsed time may already be over the limit, and one later it is.
Heartbeat ==
  /\ pc["hb"] = "wait" /\ hbRunning = "yes" /\ open = "yes"
  /\ silent' = silent + 1
  /\ \/ silent' >= Limit /\ Goes("hb", "exchange")
     \/ silent' <= Limit /\ Goes("hb", IF sent < MaxSend THEN "sendPost" ELSE "wait")
  /\ UNCHANGED <<wasOpen, hbRunning, open, io, posted, streamVars, read, link, closedBy, sent, before>>

-----------------------------------------------------------------------------
(* Handlers of m_io.                                                       *)

\* The lambda of send().
RunSend ==
  /\ io = "running" /\ posted # <<>> /\ Head(posted) = "send"
  /\ posted' = Tail(posted)
  /\ queue' = queue + 1
  /\ write' = IF queue = 0 THEN "pending" ELSE write
  /\ UNCHANGED <<threadVars, open, io, read, closing, socket, wire, link, closedBy, sent, before>>

\* Slip: the queue is not looked at.
CloseAtOnce ==
  /\ io = "running" /\ posted # <<>> /\ Head(posted) = "close"
  /\ posted' = Tail(posted)
  /\ socket' = "closed"
  /\ UNCHANGED <<threadVars, open, io, queue, write, closing, read, wire, link, closedBy, sent, before>>

\* The lambda of close(): doWrite closes the socket if the queue is not empty.
RunClose ==
  /\ io = "running" /\ posted # <<>> /\ Head(posted) = "close"
  /\ posted' = Tail(posted)
  /\ IF queue > 0
     THEN closing' = "yes" /\ UNCHANGED socket
     ELSE socket' = "closed" /\ UNCHANGED closing
  /\ UNCHANGED <<threadVars, open, io, queue, write, read, wire, link, closedBy, sent, before>>

\* A whole packet: m_lastRecvMs, dispatchPacket, the next read.
ReadPacket ==
  /\ io = "running" /\ read = "packet"
  /\ silent' = 0
  /\ read' = "pending"
  /\ UNCHANGED <<pc, wasOpen, hbRunning, open, io, posted, streamVars, link, closedBy, sent, before>>

\* Slip: an illegal length ends the reading without a word.
ReadFailedSilently ==
  /\ io = "running" /\ read \in {"bad", "error"}
  /\ IF read = "bad" THEN UNCHANGED <<open, closedBy>> ELSE NotifyClose("io")
  /\ read' = "none"
  /\ UNCHANGED <<threadVars, io, posted, streamVars, link, sent, before>>

\* An error, or a packet length of zero or over MAX_PACK_LEN.
ReadFailed ==
  /\ io = "running" /\ read \in {"bad", "error"}
  /\ NotifyClose("io")
  /\ read' = "none"
  /\ UNCHANGED <<threadVars, io, posted, streamVars, link, sent, before>>

\* Slip: m_closing is forgotten.
WriteDoneStaysOpen ==
  /\ io = "running" /\ write = "ok"
  /\ queue' = queue - 1 /\ wire' = wire + 1
  /\ write' = IF queue > 1 THEN "pending" ELSE "none"
  /\ UNCHANGED <<threadVars, open, io, posted, read, closing, socket, link, closedBy, sent, before>>

\* doWrite: the next packet, or the close that was asked for.
WriteDone ==
  /\ io = "running" /\ write = "ok"
  /\ queue' = queue - 1 /\ wire' = wire + 1
  /\ write' = IF queue > 1 THEN "pending" ELSE "none"
  /\ socket' = IF queue = 1 /\ closing = "yes" THEN "closed" ELSE socket
  /\ UNCHANGED <<threadVars, open, io, posted, read, closing, link, closedBy, sent, before>>

\* The packet stays at the front of the queue, so that nothing is written any more.
WriteFailed ==
  /\ io = "running" /\ write = "error"
  /\ NotifyClose("io")
  /\ write' = "none"
  /\ UNCHANGED <<threadVars, io, posted, queue, closing, socket, wire, read, link, sent, before>>

\* m_io.run() returns: nothing posted and nothing outstanding.
IoEnds ==
  /\ io = "running" /\ posted = <<>> /\ read = "none" /\ write = "none"
  /\ io' = "ended"
  /\ UNCHANGED <<threadVars, open, posted, streamVars, read, link, closedBy, sent, before>>

-----------------------------------------------------------------------------
(* The network.                                                            *)

Alive == socket = "open" /\ link = "up"

ReadCompletes(res) ==
  /\ read = "pending"
  /\ IF Alive THEN res \in {"packet", "bad"} ELSE res = "error"
  /\ read' = res
  /\ UNCHANGED <<threadVars, open, io, posted, streamVars, link, closedBy, sent, before>>

WriteCompletes(res) ==
  /\ write = "pending"
  /\ IF Alive THEN res = "ok" ELSE res = "error"
  /\ write' = res
  /\ UNCHANGED <<threadVars, open, io, posted, queue, closing, socket, wire, read, link,
                 closedBy, sent, before>>

LinkBreaks ==
  /\ link = "up"
  /\ link' = "down"
  /\ UNCHANGED <<threadVars, open, io, posted, streamVars, read, closedBy, sent, before>>

-----------------------------------------------------------------------------

Thread(a) == SendPost(a) \/ CloseExchange(a) \/ ClosePost(a) \/ CloseJoin(a)
Io == RunSend \/ RunClose \/ ReadPacket \/ ReadFailed \/ WriteDone \/ WriteFailed \/ IoEnds

TransportNext ==
  \/ Connect \/ UserSends \/ Disconnect \/ JoinHeartbeat
  \/ HeartbeatEnds \/ Heartbeat
  \/ \E a \in Threads : Thread(a)
  \/ Io
  \/ \E res \in {"packet", "bad", "error"} : ReadCompletes(res)
  \/ \E res \in {"ok", "error"} : WriteCompletes(res)
  \/ LinkBreaks

TransportSpec == TransportInit /\ [][TransportNext]_transportVars

\* Threads that can run do, m_io runs what is ready, and operations on a closed
\* socket or a dead link fail.  Nothing is assumed of a peer that is up.
TransportFairSpec ==
  /\ TransportSpec
  /\ \A a \in Threads : WF_transportVars(Thread(a))
  /\ WF_transportVars(JoinHeartbeat) /\ WF_transportVars(HeartbeatEnds)
  /\ WF_transportVars(Heartbeat)
  /\ WF_transportVars(RunSend \/ RunClose) /\ WF_transportVars(ReadPacket \/ ReadFailed)
  /\ WF_transportVars(WriteDone \/ WriteFailed) /\ WF_transportVars(IoEnds)
  /\ WF_transportVars(ReadCompletes("error")) /\ WF_transportVars(WriteCompletes("error"))

\* A peer that keeps reading.
ReadingPeer == WF_transportVars(WriteCompletes("ok"))

-----------------------------------------------------------------------------
(* Properties.                                                             *)

HandlerKinds == {"send", "close"}

Places == {"new", "none", "idle", "wait", "sendPost", "joinHb", "exchange", "closePost", "join",
           "done", "ended"}

\* The threads are somewhere, packets are counted, and what is written is in the queue.
TransportTypeOK ==
  /\ pc \in [Threads -> Places]
  /\ posted \in Seq(HandlerKinds)
  /\ queue \in Nat /\ wire \in Nat /\ sent \in Nat /\ before \in Nat
  /\ write # "none" => queue > 0

\* "IClientEvents callbacks are all made on that thread": onConnectionClosed is called
\* once, and by the m_io thread, though close() calls notifyClose() on its caller's;
\* and no connection ends without it.
ClosedOnIoThreadOnce ==
  /\ closedBy \in {<<>>, <<"io">>}
  /\ pc["user"] = "done" => closedBy = <<"io">>

\* close(): "the queue is sent before the socket is closed", so that a last packet such
\* as the offline notice does get out: whatever was posted before the close is written.
\* (With the types.)
QueuedIsSent == TransportTypeOK /\ (socket = "closed" => wire >= before)

\* "Three intervals without any data from the server: the connection counts as lost
\* (onConnectionClosed is called)": once the heartbeat has given the connection up,
\* the loss is reported.
SilenceIsReported == (pc["hb"] = "exchange") ~> (closedBy # <<>>)

\* With a peer that keeps reading, data comes or the silence is reported, and
\* disconnect() returns: the three threads never wait for each other for ever.
ClosesInTheEnd ==
  ReadingPeer => /\ (silent > 0) ~> (silent = 0 \/ closedBy # <<>>)
                 /\ (pc["user"] = "joinHb") ~> (pc["user"] = "done")

=============================================================================

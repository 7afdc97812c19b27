------------------------------ MODULE Session ------------------------------
(***************************************************************************)
(* One server-side connection: im_server/src/Session.cpp.                  *)
(*                                                                         *)
(* Every handler of a Session runs on its strand m_strand, so handlers are *)
(* atomic and never overlap; what interleaves is their ORDER.  Three kinds *)
(* of handler wait for the strand: the ones other threads or handlers have *)
(* posted (deliver, close, closeAfterWrite), in FIFO order; the completion *)
(* handlers of the one outstanding read and the one outstanding write; and *)
(* the handshake timer's.  A completion is queued with the result it had   *)
(* when the operation ended: a read that ended well may be handled after   *)
(* the socket was closed.                                                  *)
(*                                                                         *)
(* Abstractions: a frame is its type and its sequence number; "valid"      *)
(* stands for every check of a frame's fields, HMAC or GCM tag; keys are   *)
(* derived once, by the one ClientHello a session accepts, and are not     *)
(* represented.  MaxSeq stands for UINT64_MAX.                             *)
(***************************************************************************)
EXTENDS Naturals, Sequences

CONSTANTS
  MaxSeq,    \* the largest sequence number (UINT64_MAX in the code)
  MaxCalls   \* bound: deliver/close/closeAfterWrite calls made by the server

ASSUME SeqAssumption == MaxSeq \in Nat \ {0}
ASSUME CallsAssumption == MaxCalls \in Nat

VARIABLES
  securityState,   \* m_securityState
  socket,          \* the TCP socket: "open" or "closed"
  strand,          \* handlers posted to m_strand, oldest first
  read,            \* the outstanding read: [op, res]
  write,           \* the outstanding async_write: "none" or its result
  timer,           \* m_handshakeTimer
  sent,            \* every frame ever pushed on m_writeQueue
  popped,          \* how many of them were popped; the rest is m_writeQueue
  onWire,          \* how many of them the socket has taken
  sendSequence,    \* m_sendSequence
  receiveSequence, \* m_receiveSequence
  closeAfterWrite, \* m_closeAfterWrite
  dispatched,      \* sequence numbers posted to the business strand m_biz
  closedCalls,     \* calls of Server::onSessionClosed
  calls            \* calls made by the server so far (bounded by MaxCalls)

queueVars == <<sent, popped, onWire, write>>
seqVars == <<sendSequence, receiveSequence>>
closeVars == <<closeAfterWrite, closedCalls>>
vars == <<securityState, socket, strand, read, write, timer, sent, popped, onWire,
          sendSequence, receiveSequence, closeAfterWrite,
          dispatched, closedCalls, calls>>

SecurityState == {"TlsHandshake", "WaitClientHello", "WaitClientFinished",
                  "Established", "Closed"}
HandshakeType == {"SERVER_HELLO", "SERVER_FINISHED"}
FrameType == HandshakeType \cup {"ENCRYPTED"}
Handler == HandshakeType \cup {"BUSINESS", "close", "closeAfterWrite"}
OutFrame == [type : FrameType, seq : 0..MaxSeq]
InFrame == [type : {"CLIENT_HELLO", "CLIENT_FINISHED", "ENCRYPTED", "OTHER"},
            seq : 0..MaxSeq, valid : BOOLEAN]
Result == {"none", "pending", "ok", "error"}

Init ==
  /\ securityState = "TlsHandshake"
  /\ socket = "open"
  /\ strand = <<>>
  /\ read = [op |-> "tls", res |-> "pending"]
  /\ write = "none"
  /\ timer = "off"
  /\ sent = <<>> /\ popped = 0 /\ onWire = 0
  /\ sendSequence = 0 /\ receiveSequence = 0
  /\ closeAfterWrite = FALSE
  /\ dispatched = <<>> /\ closedCalls = 0 /\ calls = 0

-----------------------------------------------------------------------------
(* Parts of the handlers.                                                  *)

StartRead(op) == read' = [op |-> op, res |-> "pending"]
NoRead == read' = [op |-> "none", res |-> "none"]

\* timer.cancel(): a timer that has already expired still runs its handler.
CancelTimer == timer' = IF timer = "armed" THEN "off" ELSE timer

\* m_closedNotified: onClosed() has run and has called Server::onSessionClosed.
closedNotified == closedCalls > 0

\* onClosed(): the session's one and only clean-up.
OnClosed ==
  IF closedNotified
  THEN UNCHANGED <<securityState, socket, timer, sendSequence, receiveSequence,
                   closedCalls>>
  ELSE /\ securityState' = "Closed"
       /\ CancelTimer
       /\ sendSequence' = 0 /\ receiveSequence' = 0
       /\ socket' = "closed"
       /\ closedCalls' = closedCalls + 1

\* failApplicationHandshake(): closes by POSTING close(); rest is the strand
\* without the handler that is running.
FailApplicationHandshake(rest) ==
  IF securityState = "Closed"
  THEN UNCHANGED securityState /\ strand' = rest
  ELSE securityState' = "Closed" /\ strand' = Append(rest, "close")

\* Slip: the queue is tested for emptiness after the push.
EnqueueThenTest(frame) ==
  /\ sent' = Append(sent, frame)
  /\ write' = IF popped = Len(sent') THEN "pending" ELSE write
  /\ UNCHANGED <<popped, onWire>>

\* enqueueRawFrame(): push, and start writing if the queue was empty.
EnqueueRawFrame(frame) ==
  /\ sent' = Append(sent, frame)
  /\ write' = IF popped = Len(sent) THEN "pending" ELSE write
  /\ UNCHANGED <<popped, onWire>>

-----------------------------------------------------------------------------
(* Handlers posted to the strand, run in FIFO order.                       *)

\* deliver() of SERVER_HELLO and SERVER_FINISHED: no state check.
RunDeliverHandshake ==
  /\ strand # <<>> /\ Head(strand) \in HandshakeType
  /\ strand' = Tail(strand)
  /\ EnqueueRawFrame([type |-> Head(strand), seq |-> 0])
  /\ UNCHANGED <<securityState, socket, read, timer, seqVars, closeVars,
                 dispatched, calls>>

\* Slip: the frame carries the number before the increment.
DeliverPostIncrement ==
  /\ strand # <<>> /\ Head(strand) = "BUSINESS"
  /\ securityState = "Established"
  /\ sendSequence # MaxSeq
  /\ sendSequence' = sendSequence + 1
  /\ EnqueueRawFrame([type |-> "ENCRYPTED", seq |-> sendSequence])
  /\ strand' = Tail(strand)
  /\ UNCHANGED <<securityState, socket, read, timer, receiveSequence, closeVars,
                 dispatched, calls>>

\* Slip: the sequence number is not tested against UINT64_MAX.
DeliverPastMax ==
  /\ strand # <<>> /\ Head(strand) = "BUSINESS"
  /\ securityState = "Established"
  /\ sendSequence' = sendSequence + 1
  /\ EnqueueRawFrame([type |-> "ENCRYPTED", seq |-> sendSequence + 1])
  /\ strand' = Tail(strand)
  /\ UNCHANGED <<securityState, socket, read, timer, receiveSequence, closeVars,
                 dispatched, calls>>

\* deliver() of a business frame in an established session: encryptBusinessFrame.
RunDeliverBusiness ==
  /\ strand # <<>> /\ Head(strand) = "BUSINESS"
  /\ securityState = "Established"
  /\ sendSequence # MaxSeq
  /\ sendSequence' = sendSequence + 1
  /\ EnqueueRawFrame([type |-> "ENCRYPTED", seq |-> sendSequence + 1])
  /\ strand' = Tail(strand)
  /\ UNCHANGED <<securityState, socket, read, timer, receiveSequence, closeVars,
                 dispatched, calls>>

\* deliver() of a business frame that cannot be sent: not established, or the
\* sequence numbers are used up.
RunDeliverRefused ==
  /\ strand # <<>> /\ Head(strand) = "BUSINESS"
  /\ securityState # "Established" \/ sendSequence = MaxSeq
  /\ FailApplicationHandshake(Tail(strand))
  /\ UNCHANGED <<socket, read, timer, queueVars, seqVars, closeVars, dispatched, calls>>

RunClose ==
  /\ strand # <<>> /\ Head(strand) = "close"
  /\ strand' = Tail(strand)
  /\ OnClosed
  /\ UNCHANGED <<read, queueVars, closeAfterWrite, dispatched, calls>>

RunCloseAfterWrite ==
  /\ strand # <<>> /\ Head(strand) = "closeAfterWrite"
  /\ closeAfterWrite' = TRUE
  /\ strand' = IF popped = Len(sent) THEN Append(Tail(strand), "close") ELSE Tail(strand)
  /\ UNCHANGED <<securityState, socket, read, timer, queueVars, seqVars,
                 closedCalls, dispatched, calls>>

-----------------------------------------------------------------------------
(* Completion handlers.                                                    *)

\* An outstanding read ended with an error.
ReadFailed ==
  /\ read.res = "error"
  /\ NoRead
  /\ OnClosed
  /\ UNCHANGED <<strand, queueVars, closeAfterWrite, dispatched, calls>>

\* doHandshake(): the TLS handshake is done, the application handshake starts.
TlsDone ==
  /\ read = [op |-> "tls", res |-> "ok"]
  /\ securityState' = "WaitClientHello"
  /\ timer' = "armed"
  /\ StartRead("header")
  /\ UNCHANGED <<socket, strand, queueVars, seqVars, closeVars, dispatched, calls>>

\* doReadHeader(): a length out of range ends the session, any other is read.
HeaderDone ==
  /\ read = [op |-> "header", res |-> "ok"]
  /\ \/ /\ StartRead("body")
        /\ UNCHANGED <<securityState, socket, timer, seqVars, closedCalls>>
     \/ NoRead /\ OnClosed
  /\ UNCHANGED <<strand, queueVars, closeAfterWrite, dispatched, calls>>

\* handleClientHello()
AcceptHello(f) ==
  /\ securityState = "WaitClientHello" /\ f.type = "CLIENT_HELLO" /\ f.valid
  /\ securityState' = "WaitClientFinished"
  /\ strand' = Append(strand, "SERVER_HELLO")
  /\ StartRead("header")
  /\ UNCHANGED <<timer, receiveSequence, dispatched>>

\* handleClientFinished()
AcceptFinished(f) ==
  /\ securityState = "WaitClientFinished" /\ f.type = "CLIENT_FINISHED" /\ f.valid
  /\ securityState' = "Established"
  /\ CancelTimer
  /\ strand' = Append(strand, "SERVER_FINISHED")
  /\ StartRead("header")
  /\ UNCHANGED <<receiveSequence, dispatched>>

\* Slip: any later sequence number will do.
AcceptLater(f) ==
  /\ securityState = "Established" /\ f.type = "ENCRYPTED" /\ f.valid
  /\ f.seq > receiveSequence
  /\ receiveSequence' = f.seq
  /\ dispatched' = Append(dispatched, f.seq)
  /\ StartRead("header")
  /\ UNCHANGED <<securityState, strand, timer>>

\* handleEncryptedFrame(): the 64-bit successor of the last sequence number;
\* it wraps to 0, which is refused.
AcceptEncrypted(f) ==
  /\ securityState = "Established" /\ f.type = "ENCRYPTED" /\ f.valid
  /\ f.seq # 0 /\ f.seq = (receiveSequence + 1) % (MaxSeq + 1)
  /\ receiveSequence' = f.seq
  /\ dispatched' = Append(dispatched, f.seq)
  /\ StartRead("header")
  /\ UNCHANGED <<securityState, strand, timer>>

Acceptable(f) ==
  \/ securityState = "WaitClientHello" /\ f.type = "CLIENT_HELLO" /\ f.valid
  \/ securityState = "WaitClientFinished" /\ f.type = "CLIENT_FINISHED" /\ f.valid
  \/ /\ securityState = "Established" /\ f.type = "ENCRYPTED" /\ f.valid
     /\ f.seq # 0 /\ f.seq = (receiveSequence + 1) % (MaxSeq + 1)

\* Any other frame fails the session and no further read is started.
RejectFrame(f) ==
  /\ ~Acceptable(f)
  /\ FailApplicationHandshake(strand)
  /\ NoRead
  /\ UNCHANGED <<timer, receiveSequence, dispatched>>

\* doReadBody(): a complete frame has arrived.
BodyDone(f) ==
  /\ read = [op |-> "body", res |-> "ok"]
  /\ AcceptHello(f) \/ AcceptFinished(f) \/ AcceptEncrypted(f) \/ RejectFrame(f)
  /\ UNCHANGED <<socket, queueVars, sendSequence, closeVars, calls>>

\* Slip: m_closeAfterWrite is looked at only when the close is asked for.
WriteDoneForgetsClose ==
  /\ write = "ok"
  /\ popped' = popped + 1
  /\ write' = IF popped + 1 < Len(sent) THEN "pending" ELSE "none"
  /\ UNCHANGED <<securityState, socket, strand, read, timer, sent, onWire, seqVars,
                 closeVars, dispatched, calls>>

\* doWrite()'s completion: pop, then write the next frame or close.
WriteDone ==
  /\ write = "ok"
  /\ popped' = popped + 1
  /\ write' = IF popped + 1 < Len(sent) THEN "pending" ELSE "none"
  /\ strand' = IF popped + 1 = Len(sent) /\ closeAfterWrite
               THEN Append(strand, "close") ELSE strand
  /\ UNCHANGED <<securityState, socket, read, timer, sent, onWire, seqVars, closeVars,
                 dispatched, calls>>

\* doWrite()'s completion with an error: the queue is left as it is.
WriteFailed ==
  /\ write = "error"
  /\ write' = "none"
  /\ OnClosed
  /\ UNCHANGED <<strand, read, sent, popped, onWire, closeAfterWrite, dispatched, calls>>

\* The 15 s handshake deadline: only for a session not yet established.
TimerHandler ==
  /\ timer = "expired"
  /\ timer' = "off"
  /\ IF securityState # "Established"
     THEN FailApplicationHandshake(strand)
     ELSE UNCHANGED <<securityState, strand>>
  /\ UNCHANGED <<socket, read, queueVars, seqVars, closeVars, dispatched, calls>>

-----------------------------------------------------------------------------
(* The environment: the network, the clock and the server's other threads. *)

\* The kernel ends a read, well (while the socket is open) or not.
ReadCompletes(res) ==
  /\ read.res = "pending"
  /\ res = "ok" => socket = "open"
  /\ read' = [read EXCEPT !.res = res]
  /\ UNCHANGED <<securityState, socket, strand, timer, queueVars, seqVars, closeVars,
                 dispatched, calls>>

\* The kernel takes the frame at the front of the queue, or reports an error.
WriteCompletes(res) ==
  /\ write = "pending"
  /\ res = "ok" => socket = "open"
  /\ write' = res
  /\ onWire' = IF res = "ok" THEN onWire + 1 ELSE onWire
  /\ UNCHANGED <<securityState, socket, strand, read, timer, sent, popped, seqVars,
                 closeVars, dispatched, calls>>

TimerExpires ==
  /\ timer = "armed"
  /\ timer' = "expired"
  /\ UNCHANGED <<securityState, socket, strand, read, queueVars, seqVars, closeVars,
                 dispatched, calls>>

\* Business code holds this session only once a frame of it was dispatched
\* (Server::dispatchPacket); from then on any thread may call it at any time,
\* closed or not.
ServerCalls(h) ==
  /\ dispatched # <<>>
  /\ calls < MaxCalls
  /\ calls' = calls + 1
  /\ strand' = Append(strand, h)
  /\ UNCHANGED <<securityState, socket, read, timer, queueVars, seqVars, closeVars, dispatched>>

RunPosted ==
  \/ RunDeliverHandshake \/ RunDeliverBusiness \/ RunDeliverRefused
  \/ RunClose \/ RunCloseAfterWrite

ReadHandler == ReadFailed \/ TlsDone \/ HeaderDone \/ \E f \in InFrame : BodyDone(f)

WriteHandler == WriteDone \/ WriteFailed

Environment ==
  \/ \E res \in {"ok", "error"} : ReadCompletes(res) \/ WriteCompletes(res)
  \/ TimerExpires
  \/ \E h \in {"BUSINESS", "close", "closeAfterWrite"} : ServerCalls(h)

Next == RunPosted \/ ReadHandler \/ WriteHandler \/ TimerHandler \/ Environment

Spec == Init /\ [][Next]_vars

\* The io_context runs every handler that is ready, a timer fires, and an
\* operation outstanding on a closed socket is aborted.  Nothing is assumed of
\* the peer: on an open socket a read or a write may stay pending for ever.
Fairness ==
  /\ WF_vars(RunPosted) /\ WF_vars(ReadHandler) /\ WF_vars(WriteHandler)
  /\ WF_vars(TimerHandler) /\ WF_vars(TimerExpires)
  /\ WF_vars(socket = "closed" /\ ReadCompletes("error"))
  /\ WF_vars(socket = "closed" /\ WriteCompletes("error"))

FairSpec == Spec /\ Fairness

\* A peer that keeps reading: a pending write ends, one way or the other.
ReadingPeer == WF_vars(\E res \in {"ok", "error"} : WriteCompletes(res))

-----------------------------------------------------------------------------
(* Properties.                                                             *)

\* Every variable has the type of the member it stands for (Session.h).
TypeOK ==
  /\ securityState \in SecurityState
  /\ socket \in {"open", "closed"}
  /\ strand \in Seq(Handler)
  /\ read \in [op : {"none", "tls", "header", "body"}, res : Result]
  /\ write \in Result
  /\ timer \in {"off", "armed", "expired"}
  /\ sent \in Seq(OutFrame)
  /\ popped \in Nat /\ onWire \in Nat
  /\ sendSequence \in 0..MaxSeq /\ receiveSequence \in 0..MaxSeq
  /\ closeAfterWrite \in BOOLEAN
  /\ dispatched \in Seq(1..MaxSeq)
  /\ closedCalls \in Nat /\ calls \in 0..MaxCalls

\* The frame a client must find at place i of the server's stream.
FrameAt(i) ==
  IF i = 1 THEN [type |-> "SERVER_HELLO", seq |-> 0]
  ELSE IF i = 2 THEN [type |-> "SERVER_FINISHED", seq |-> 0]
  ELSE [type |-> "ENCRYPTED", seq |-> i - 2]

\* What a session writes is SERVER_HELLO, SERVER_FINISHED and then the encrypted
\* frames 1, 2, 3... with no gap, repeat or reordering, whatever threads call
\* deliver() and whenever the session fails or closes.  The client decrypts only
\* the successor of the last number, and a repeated number would be a repeated
\* GCM nonce.
WireOrder == \A i \in 1..Len(sent) : sent[i] = FrameAt(i)

\* At most one async_write is outstanding and the buffer it uses is still in the
\* queue ("the front buffer must be kept until the callback ends", doWrite); and
\* no frame is left waiting in the queue of a live session with no write under way.
WriteQueueServed ==
  /\ write # "none" => popped < Len(sent)
  /\ popped < Len(sent) /\ ~closedNotified => write # "none"
  /\ popped <= onWire /\ onWire <= popped + 1

\* Business code sees each encrypted frame once and in order.
DispatchedInOrder == \A i \in 1..Len(dispatched) : dispatched[i] = i

\* Server::onSessionClosed is called at most once, and a session that has called
\* it holds no open socket, no armed timer and no sequence number.
ClosedIsFinal ==
  /\ closedCalls <= 1
  /\ closedNotified => /\ securityState = "Closed" /\ socket = "closed"
                       /\ timer # "armed" /\ sendSequence = 0 /\ receiveSequence = 0

\* A closed session dispatches nothing and encrypts nothing: reads that were
\* already complete and deliveries that were already posted change neither.
QuietAfterClose ==
  [][securityState = "Closed" =>
       /\ securityState' = "Closed"
       /\ dispatched' = dispatched
       /\ Len(sent') > Len(sent) => sent'[Len(sent')].type \in HandshakeType]_vars

\* A session settles: after the TLS handshake it is established within its deadline
\* or its end is reported to the server, even when the peer stays silent; any failure
\* is reported (failApplicationHandshake only posts close()); and closeAfterWrite()
\* ends the session once its queue has drained, if the peer keeps reading.
SessionSettles ==
  /\ (securityState \in {"WaitClientHello", "WaitClientFinished", "Closed"})
        ~> (securityState = "Established" \/ closedNotified)
  /\ ReadingPeer => (closeAfterWrite ~> closedNotified)

\* The session as the code on both sides of it sees it.
Phase ==
  IF closedNotified THEN "ended"
  ELSE IF securityState = "Closed" THEN "failed"
  ELSE IF securityState = "Established" THEN "open"
  ELSE "opening"

Channel == INSTANCE OrderedChannel
             WITH phase <- Phase, in <- dispatched, out <- sent, reports <- closedCalls

\* Session implements OrderedChannel: strand, completions, timer and write queue are
\* an ordered stream in each direction that opens once, ends once, is reported once
\* and takes and gives nothing numbered outside an established session.
ImplementsChannel == Channel!Spec

=============================================================================

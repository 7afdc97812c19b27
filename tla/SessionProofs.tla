--------------------------- MODULE SessionProofs ---------------------------
(***************************************************************************)
(* Proofs about Session for every MaxSeq and MaxCalls.  The inductive      *)
(* invariant IInv adds to the properties what makes them inductive: which  *)
(* handlers can wait on the strand in which security state.                *)
(***************************************************************************)
EXTENDS Session, SequenceTheorems, TLAPS

\* Handshake frames on the strand are the next frames of the stream, in order, and
\* nothing else is posted before them.
StrandOrder ==
  /\ \A j \in 1..Len(strand) : strand[j] \in HandshakeType =>
        /\ Len(sent) + j <= 2
        /\ strand[j] = FrameAt(Len(sent) + j).type
  /\ \A j \in 1..Len(strand) : \A i \in 1..j :
        strand[j] \in HandshakeType => strand[i] \in HandshakeType

\* How far the stream is in each security state that is not Closed.
Progress ==
  /\ securityState \in {"TlsHandshake", "WaitClientHello"} => Len(sent) + Len(strand) = 0
  /\ securityState = "WaitClientFinished" => Len(sent) + Len(strand) = 1
  /\ securityState = "Established" => /\ Len(sent) + Len(strand) >= 2
                                      /\ receiveSequence = Len(dispatched)
  /\ securityState # "Closed" =>
        /\ \A j \in 1..Len(strand) : Len(sent) + j <= 2 => strand[j] \in HandshakeType
        /\ sendSequence = IF Len(sent) >= 2 THEN Len(sent) - 2 ELSE 0
  /\ securityState \in {"TlsHandshake", "WaitClientHello", "WaitClientFinished"} =>
        dispatched = <<>> /\ receiveSequence = 0 /\ closeAfterWrite = FALSE
  /\ securityState = "TlsHandshake" => timer = "off"
  /\ read.op = "tls" => securityState = "TlsHandshake"

\* The write queue: WriteQueueServed with the exact number of frames on the wire.
Queue ==
  /\ popped <= Len(sent)
  /\ write # "none" => popped < Len(sent)
  /\ popped < Len(sent) /\ ~closedNotified => write # "none"
  /\ onWire = IF write = "ok" THEN popped + 1 ELSE popped

IInv == /\ TypeOK /\ StrandOrder /\ Progress /\ Queue
        /\ WireOrder /\ DispatchedInOrder /\ ClosedIsFinal

-----------------------------------------------------------------------------

\* What the strand looks like after its first handler was taken and one posted.
LEMMA StrandFacts ==
  ASSUME NEW S, NEW s \in Seq(S), NEW e \in S
  PROVE  /\ Append(s, e) \in Seq(S)
         /\ s # <<>> => /\ Head(s) \in S
                        /\ Tail(s) \in Seq(S)
                        /\ Append(Tail(s), e) \in Seq(S)
<1>1. s # <<>> => Tail(s) \in Seq(S) /\ Head(s) \in S
  BY HeadTailProperties
<1>2. \A t \in Seq(S) : Append(t, e) \in Seq(S)
  BY AppendProperties
<1> QED
  BY <1>1, <1>2

\* The initial state of a session satisfies the inductive invariant.
LEMMA InitIInv == Init => IInv
<1> SUFFICES ASSUME Init PROVE IInv
  OBVIOUS
<1> USE DEF Init
<1>1. TypeOK
  <2>1. sent \in Seq(OutFrame) /\ strand \in Seq(Handler) /\ dispatched \in Seq(1..MaxSeq)
    OBVIOUS
  <2>2. read \in [op : {"none", "tls", "header", "body"}, res : Result]
    BY DEF Result
  <2>3. /\ popped \in Nat /\ onWire \in Nat
        /\ sendSequence \in 0..MaxSeq /\ receiveSequence \in 0..MaxSeq
        /\ closedCalls \in Nat /\ calls \in 0..MaxCalls
    BY SeqAssumption, CallsAssumption
  <2> QED
    BY <2>1, <2>2, <2>3, Zenon DEF TypeOK, SecurityState, Result
<1>2. StrandOrder
  BY DEF StrandOrder
<1>3. Progress
  BY DEF Progress
<1>4. Queue /\ WireOrder /\ DispatchedInOrder /\ ClosedIsFinal
  BY DEF Queue, WireOrder, DispatchedInOrder, ClosedIsFinal, closedNotified
<1> QED
  BY <1>1, <1>2, <1>3, <1>4 DEF IInv

\* Every step of a session keeps its variables in their types.
LEMMA TypeOKStep == TypeOK /\ [Next]_vars => TypeOK'
<1> SUFFICES ASSUME TypeOK, [Next]_vars PROVE TypeOK'
  OBVIOUS
<1>0. /\ \A e \in Handler : Append(strand, e) \in Seq(Handler)
      /\ strand # <<>> => /\ Tail(strand) \in Seq(Handler)
                          /\ \A e \in Handler : Append(Tail(strand), e) \in Seq(Handler)
      /\ {"SERVER_HELLO", "SERVER_FINISHED", "BUSINESS", "close", "closeAfterWrite"}
           \subseteq Handler
  <2>1. strand \in Seq(Handler)
    BY DEF TypeOK
  <2>2. "close" \in Handler
    BY DEF Handler
  <2> QED
    BY <2>1, <2>2, StrandFacts DEF Handler, HandshakeType
<1> USE SeqAssumption, CallsAssumption, <1>0
    DEF closedNotified, TypeOK, SecurityState, Result
<1>1. CASE RunDeliverHandshake
  BY <1>1 DEF RunDeliverHandshake, EnqueueRawFrame, seqVars, closeVars,
              OutFrame, FrameType, HandshakeType
<1>2. CASE RunDeliverBusiness
  BY <1>2 DEF RunDeliverBusiness, EnqueueRawFrame, closeVars, OutFrame, FrameType
<1>3. CASE RunDeliverRefused
  BY <1>3 DEF RunDeliverRefused, FailApplicationHandshake, queueVars, seqVars, closeVars
<1>4. CASE RunClose
  BY <1>4 DEF RunClose, OnClosed, CancelTimer, queueVars
<1>5. CASE RunCloseAfterWrite
  BY <1>5 DEF RunCloseAfterWrite, queueVars, seqVars
<1>6. CASE ReadFailed
  BY <1>6 DEF ReadFailed, NoRead, OnClosed, CancelTimer, queueVars
<1>7. CASE TlsDone
  BY <1>7 DEF TlsDone, StartRead, queueVars, seqVars, closeVars
<1>8. CASE HeaderDone
  BY <1>8 DEF HeaderDone, StartRead, NoRead, OnClosed, CancelTimer, queueVars, seqVars
<1>9. ASSUME NEW f \in InFrame, BodyDone(f) PROVE TypeOK'
  <2> USE <1>9 DEF BodyDone, queueVars, closeVars, StartRead, NoRead
  <2>1. CASE AcceptHello(f)
    BY <2>1 DEF AcceptHello
  <2>2. CASE AcceptFinished(f)
    BY <2>2 DEF AcceptFinished, CancelTimer
  <2>3. CASE AcceptEncrypted(f)
    BY <2>3 DEF AcceptEncrypted, InFrame
  <2>4. CASE RejectFrame(f)
    BY <2>4 DEF RejectFrame, FailApplicationHandshake
  <2> QED
    BY <2>1, <2>2, <2>3, <2>4
<1>10. CASE WriteDone
  BY <1>10 DEF WriteDone, seqVars, closeVars
<1>11. CASE WriteFailed
  BY <1>11 DEF WriteFailed, OnClosed, CancelTimer
<1>12. CASE TimerHandler
  BY <1>12 DEF TimerHandler, FailApplicationHandshake, queueVars, seqVars, closeVars
<1>13. ASSUME NEW res \in {"ok", "error"}, ReadCompletes(res) PROVE TypeOK'
  BY <1>13 DEF ReadCompletes, queueVars, seqVars, closeVars
<1>14. ASSUME NEW res \in {"ok", "error"}, WriteCompletes(res) PROVE TypeOK'
  BY <1>14 DEF WriteCompletes, seqVars, closeVars
<1>15. CASE TimerExpires
  BY <1>15 DEF TimerExpires, queueVars, seqVars, closeVars
<1>16. ASSUME NEW h \in {"BUSINESS", "close", "closeAfterWrite"}, ServerCalls(h) PROVE TypeOK'
  BY <1>16 DEF ServerCalls, queueVars, seqVars, closeVars
<1>17. CASE UNCHANGED vars
  BY <1>17 DEF vars
<1> QED
  BY <1>1, <1>2, <1>3, <1>4, <1>5, <1>6, <1>7, <1>8, <1>9, <1>10, <1>11, <1>12, <1>13,
     <1>14, <1>15, <1>16, <1>17
  DEF Next, RunPosted, ReadHandler, WriteHandler, Environment

\* A handler other than a handshake frame reaches the front of the strand of a
\* session that is not closed only after both handshake frames have left it.
LEMMA HandshakeSentFirst ==
  ASSUME IInv, securityState # "Closed", strand # <<>>, Head(strand) \notin HandshakeType
  PROVE  Len(sent) >= 2 /\ sendSequence = Len(sent) - 2
<1>1. /\ strand \in Seq(Handler) /\ sent \in Seq(OutFrame)
  BY DEF IInv, TypeOK
<1>2. 1 \in 1..Len(strand) /\ strand[1] \notin HandshakeType
  BY <1>1
<1> QED
  BY <1>1, <1>2 DEF IInv, Progress

\* The order of the frames: on the strand, and hence in the stream.
LEMMA OrderStep == IInv /\ TypeOK' /\ [Next]_vars => StrandOrder' /\ WireOrder'
<1> SUFFICES ASSUME IInv, TypeOK', [Next]_vars PROVE StrandOrder' /\ WireOrder'
  OBVIOUS
<1>0. /\ strand \in Seq(Handler) /\ sent \in Seq(OutFrame)
      /\ sendSequence \in Nat
  BY DEF IInv, TypeOK
<1> USE DEF StrandOrder, WireOrder, FrameAt, HandshakeType
<1>1. CASE RunDeliverHandshake
  <2>1. /\ sent' = Append(sent, FrameAt(Len(sent) + 1))
        /\ strand' = Tail(strand)
    BY <1>0, <1>1 DEF RunDeliverHandshake, EnqueueRawFrame, IInv
  <2> QED
    BY <1>0, <2>1 DEF IInv
<1>2. CASE RunDeliverBusiness
  <2>1. Len(sent) >= 2 /\ sendSequence = Len(sent) - 2
    BY <1>2, HandshakeSentFirst DEF RunDeliverBusiness
  <2> QED
    BY <1>0, <1>2, <2>1 DEF RunDeliverBusiness, EnqueueRawFrame, IInv
<1>3. CASE RunDeliverRefused \/ RunClose \/ RunCloseAfterWrite
  <2>1. UNCHANGED sent /\ strand # <<>> /\ Head(strand) \notin HandshakeType
    BY <1>3 DEF RunDeliverRefused, RunClose, RunCloseAfterWrite, queueVars
  <2>2. \/ strand' = Tail(strand)
        \/ strand' = Append(Tail(strand), "close")
    BY <1>3 DEF RunDeliverRefused, RunClose, RunCloseAfterWrite, FailApplicationHandshake
  <2>3. \A j \in 1..Len(strand) : strand[j] \notin HandshakeType
    BY <1>0, <2>1 DEF IInv
  <2>4. \A j \in 1..Len(strand') : strand'[j] \notin HandshakeType
    <3> DEFINE t == Tail(strand)
    <3>1. t \in Seq(Handler) /\ \A j \in 1..Len(t) : t[j] \notin HandshakeType
      BY <1>0, <2>1, <2>3
    <3> HIDE DEF t
    <3>2. \A j \in 1..Len(Append(t, "close")) : Append(t, "close")[j] \notin HandshakeType
      BY <3>1
    <3> QED
      BY <2>2, <3>1, <3>2 DEF t
  <2> QED
    BY <1>0, <2>1, <2>4 DEF IInv
<1>4. ASSUME UNCHANGED sent,
             \/ UNCHANGED strand
             \/ \E h \in Handler \ HandshakeType : strand' = Append(strand, h)
      PROVE  StrandOrder' /\ WireOrder'
  <2>1. WireOrder'
    BY <1>4 DEF IInv
  <2>2. CASE UNCHANGED strand
    BY <1>4, <2>2 DEF IInv
  <2>3. ASSUME NEW h \in Handler \ HandshakeType, strand' = Append(strand, h)
        PROVE  StrandOrder'
    <3>1. Len(strand') = Len(strand) + 1 /\ strand'[Len(strand) + 1] = h
      BY <1>0, <2>3
    <3>2. \A j \in 1..Len(strand) : strand'[j] = strand[j]
      BY <1>0, <2>3
    <3> QED
      BY <1>0, <1>4, <2>3, <3>1, <3>2 DEF IInv
  <2> QED
    BY <1>4, <2>1, <2>2, <2>3
<1>5. CASE ReadFailed \/ TlsDone \/ HeaderDone \/ WriteFailed
  BY <1>4, <1>5 DEF ReadFailed, TlsDone, HeaderDone, WriteFailed, queueVars
<1>6. ASSUME NEW f \in InFrame, BodyDone(f) PROVE StrandOrder' /\ WireOrder'
  <2>1. UNCHANGED sent
    BY <1>6 DEF BodyDone, queueVars
  <2>2. CASE AcceptHello(f)
    BY <1>0, <2>1, <2>2 DEF AcceptHello, IInv, Progress
  <2>3. CASE AcceptFinished(f)
    BY <1>0, <2>1, <2>3 DEF AcceptFinished, IInv, Progress
  <2>4. CASE AcceptEncrypted(f)
    BY <1>4, <2>1, <2>4 DEF AcceptEncrypted
  <2>5. CASE RejectFrame(f)
    BY <1>4, <2>1, <2>5 DEF RejectFrame, FailApplicationHandshake, Handler
  <2> QED
    BY <1>6, <2>2, <2>3, <2>4, <2>5 DEF BodyDone
<1>7. CASE WriteDone
  BY <1>4, <1>7 DEF WriteDone, Handler
<1>8. CASE TimerHandler
  BY <1>4, <1>8 DEF TimerHandler, FailApplicationHandshake, Handler, queueVars
<1>9. CASE Environment
  BY <1>4, <1>9 DEF Environment, ReadCompletes, WriteCompletes, TimerExpires, ServerCalls,
                    Handler, queueVars
<1>10. CASE UNCHANGED vars
  BY <1>4, <1>10 DEF vars
<1> QED
  BY <1>1, <1>2, <1>3, <1>5, <1>6, <1>7, <1>8, <1>9, <1>10
  DEF Next, RunPosted, ReadHandler, WriteHandler

\* The 64-bit successor, where it is not 0, is the successor.
LEMMA SuccessorWithoutWrap ==
  ASSUME NEW m \in Nat, NEW r \in 0..m, (r + 1) % (m + 1) # 0
  PROVE  (r + 1) % (m + 1) = r + 1
<1>1. CASE r < m
  BY <1>1
<1>2. CASE r = m
  BY <1>2
<1> QED
  BY <1>1, <1>2

\* How the security state, the sequence numbers and the strand move together.
LEMMA ProgressStep == IInv /\ TypeOK' /\ [Next]_vars => Progress' /\ DispatchedInOrder'
<1> SUFFICES ASSUME IInv, TypeOK', [Next]_vars PROVE Progress' /\ DispatchedInOrder'
  OBVIOUS
<1>0. /\ strand \in Seq(Handler) /\ sent \in Seq(OutFrame) /\ dispatched \in Seq(1..MaxSeq)
      /\ sendSequence \in Nat /\ receiveSequence \in 0..MaxSeq /\ popped \in Nat
      /\ securityState \in SecurityState
      /\ read \in [op : {"none", "tls", "header", "body"}, res : Result]
  BY DEF IInv, TypeOK
<1> USE <1>0 DEF IInv, Progress, DispatchedInOrder, HandshakeType, SecurityState
\* A step that ends the session, or finds it closed.
<1>1. ASSUME securityState' = "Closed", UNCHANGED dispatched, read'.op # "tls"
      PROVE  Progress' /\ DispatchedInOrder'
  BY <1>1
<1>2. CASE RunDeliverHandshake
  <2>1. /\ UNCHANGED <<securityState, read, timer, sendSequence, receiveSequence,
                       closeAfterWrite, dispatched>>
        /\ strand # <<>> /\ strand[1] \in HandshakeType
    BY <1>2 DEF RunDeliverHandshake, seqVars, closeVars
  <2>2. Len(sent') = Len(sent) + 1 /\ Len(strand') = Len(strand) - 1 /\ Len(strand) > 0
    BY <1>2, <2>1 DEF RunDeliverHandshake, EnqueueRawFrame
  <2>3. \A j \in 1..Len(strand') : strand'[j] = strand[j + 1]
    BY <1>2, <2>1 DEF RunDeliverHandshake
  <2>4. Len(sent) + 1 <= 2
    BY <2>1, <2>2 DEF StrandOrder
  <2> QED
    BY <2>1, <2>2, <2>3, <2>4
<1>3. CASE RunDeliverBusiness
  <2>1. Len(sent) >= 2 /\ sendSequence = Len(sent) - 2
    BY <1>3, HandshakeSentFirst DEF RunDeliverBusiness
  <2>2. sent' \in Seq(OutFrame) /\ strand' \in Seq(Handler) /\ Len(sent') = Len(sent) + 1
    BY <1>3 DEF RunDeliverBusiness, EnqueueRawFrame, TypeOK
  <2> QED
    BY <1>3, <2>1, <2>2 DEF RunDeliverBusiness, closeVars
<1>4. CASE RunDeliverRefused
  BY <1>1, <1>4 DEF RunDeliverRefused, FailApplicationHandshake
<1>5. CASE RunClose
  BY <1>1, <1>5 DEF RunClose, OnClosed, ClosedIsFinal
<1>6. CASE RunCloseAfterWrite
  <2>1. /\ UNCHANGED <<securityState, read, timer, sent, sendSequence, receiveSequence,
                       dispatched>>
        /\ strand' \in Seq(Handler)
    BY <1>6 DEF RunCloseAfterWrite, queueVars, seqVars, TypeOK
  <2>2. securityState # "Closed" => Len(sent) >= 2 /\ sendSequence = Len(sent) - 2
    BY <1>6, HandshakeSentFirst DEF RunCloseAfterWrite
  <2> QED
    BY <2>1, <2>2
<1>7. CASE ReadFailed
  BY <1>1, <1>7 DEF ReadFailed, NoRead, OnClosed, ClosedIsFinal
<1>8. CASE TlsDone
  BY <1>8 DEF TlsDone, StartRead, queueVars, seqVars, closeVars
<1>9. CASE HeaderDone
  BY <1>1, <1>9 DEF HeaderDone, StartRead, NoRead, OnClosed, ClosedIsFinal, queueVars, seqVars
<1>10. ASSUME NEW f \in InFrame, BodyDone(f) PROVE Progress' /\ DispatchedInOrder'
  <2>1. UNCHANGED <<sent, sendSequence, closeAfterWrite>> /\ read.op = "body"
    BY <1>10 DEF BodyDone, queueVars, closeVars
  <2>2. CASE AcceptHello(f)
    BY <2>1, <2>2 DEF AcceptHello, StartRead
  <2>3. CASE AcceptFinished(f)
    BY <2>1, <2>3 DEF AcceptFinished, StartRead
  <2>4. CASE AcceptEncrypted(f)
    <3>1. f.seq = receiveSequence + 1
      BY <2>4, SuccessorWithoutWrap, SeqAssumption DEF AcceptEncrypted
    <3>2. UNCHANGED <<securityState, strand, timer, sent, sendSequence, closeAfterWrite>>
      BY <2>1, <2>4 DEF AcceptEncrypted
    <3>3. /\ securityState = "Established" /\ read'.op = "header"
          /\ receiveSequence' = Len(dispatched) + 1
          /\ dispatched' = Append(dispatched, Len(dispatched) + 1)
      BY <2>4, <3>1 DEF AcceptEncrypted, StartRead
    <3>4. DispatchedInOrder' /\ receiveSequence' = Len(dispatched')
      BY <3>3
    <3> QED
      BY <3>2, <3>3, <3>4
  <2>5. CASE RejectFrame(f)
    BY <1>1, <2>5 DEF RejectFrame, FailApplicationHandshake, NoRead
  <2> QED
    BY <1>10, <2>2, <2>3, <2>4, <2>5 DEF BodyDone
<1>11. CASE WriteDone
  <2>1. /\ UNCHANGED <<securityState, read, timer, sent, sendSequence, receiveSequence,
                       closeAfterWrite, dispatched>>
        /\ Len(sent) > 0
    BY <1>11 DEF WriteDone, seqVars, closeVars, Queue
  <2>2. CASE UNCHANGED strand
    BY <2>1, <2>2
  <2>3. CASE closeAfterWrite = TRUE /\ strand' = Append(strand, "close")
    BY <2>1, <2>3
  <2> QED
    BY <1>11, <2>2, <2>3 DEF WriteDone, TypeOK
<1>12. CASE WriteFailed
  <2>1. Len(sent) > 0 /\ securityState # "TlsHandshake"
    BY <1>12 DEF WriteFailed, Queue
  <2> QED
    BY <1>1, <1>12, <2>1 DEF WriteFailed, OnClosed, ClosedIsFinal
<1>13. CASE TimerHandler
  BY <1>1, <1>13 DEF TimerHandler, FailApplicationHandshake, queueVars, seqVars, closeVars
<1>14. ASSUME NEW res \in {"ok", "error"}, ReadCompletes(res)
       PROVE  Progress' /\ DispatchedInOrder'
  BY <1>14 DEF ReadCompletes, queueVars, seqVars, closeVars
<1>15. ASSUME NEW res \in {"ok", "error"}, WriteCompletes(res)
       PROVE  Progress' /\ DispatchedInOrder'
  BY <1>15 DEF WriteCompletes, seqVars, closeVars
<1>16. CASE TimerExpires
  BY <1>16 DEF TimerExpires, queueVars, seqVars, closeVars
<1>17. ASSUME NEW h \in {"BUSINESS", "close", "closeAfterWrite"}, ServerCalls(h)
       PROVE  Progress' /\ DispatchedInOrder'
  BY <1>17 DEF ServerCalls, queueVars, seqVars, closeVars
<1>18. CASE UNCHANGED vars
  BY <1>18 DEF vars
<1> QED
  BY <1>2, <1>3, <1>4, <1>5, <1>6, <1>7, <1>8, <1>9, <1>10, <1>11, <1>12, <1>13, <1>14,
     <1>15, <1>16, <1>17, <1>18
  DEF Next, RunPosted, ReadHandler, WriteHandler, Environment

\* The write queue and the final state.
LEMMA QueueStep == IInv /\ TypeOK' /\ [Next]_vars => Queue' /\ ClosedIsFinal'
<1> SUFFICES ASSUME IInv, TypeOK', [Next]_vars PROVE Queue' /\ ClosedIsFinal'
  OBVIOUS
<1>0. /\ sent \in Seq(OutFrame) /\ sendSequence \in Nat
      /\ popped \in Nat /\ onWire \in Nat /\ closedCalls \in Nat
      /\ write \in Result
  BY DEF IInv, TypeOK
<1> USE <1>0 DEF IInv, Queue, ClosedIsFinal, closedNotified, Result
<1>1. CASE RunDeliverHandshake
  BY <1>1 DEF RunDeliverHandshake, EnqueueRawFrame, seqVars, closeVars
<1>2. CASE RunDeliverBusiness
  BY <1>2 DEF RunDeliverBusiness, EnqueueRawFrame, closeVars
<1>3. CASE RunDeliverRefused
  BY <1>3 DEF RunDeliverRefused, FailApplicationHandshake, queueVars, seqVars, closeVars
<1>4. CASE RunClose
  BY <1>4 DEF RunClose, OnClosed, CancelTimer, queueVars
<1>5. CASE RunCloseAfterWrite
  BY <1>5 DEF RunCloseAfterWrite, queueVars, seqVars
<1>6. CASE ReadFailed
  BY <1>6 DEF ReadFailed, OnClosed, CancelTimer, queueVars
<1>7. CASE TlsDone
  BY <1>7 DEF TlsDone, Progress, queueVars, seqVars, closeVars
<1>8. CASE HeaderDone
  BY <1>8 DEF HeaderDone, OnClosed, CancelTimer, queueVars, seqVars
<1>9. ASSUME NEW f \in InFrame, BodyDone(f) PROVE Queue' /\ ClosedIsFinal'
  BY <1>9 DEF BodyDone, AcceptHello, AcceptFinished, AcceptEncrypted, RejectFrame,
              FailApplicationHandshake, CancelTimer, queueVars, closeVars
<1>10. CASE WriteDone
  BY <1>10 DEF WriteDone, seqVars, closeVars
<1>11. CASE WriteFailed
  BY <1>11 DEF WriteFailed, OnClosed, CancelTimer
<1>12. CASE TimerHandler
  BY <1>12 DEF TimerHandler, FailApplicationHandshake, queueVars, seqVars, closeVars
<1>13. CASE Environment
  BY <1>13 DEF Environment, ReadCompletes, WriteCompletes, TimerExpires, ServerCalls,
               queueVars, seqVars, closeVars
<1>14. CASE UNCHANGED vars
  BY <1>14 DEF vars
<1> QED
  BY <1>1, <1>2, <1>3, <1>4, <1>5, <1>6, <1>7, <1>8, <1>9, <1>10, <1>11, <1>12, <1>13, <1>14
  DEF Next, RunPosted, ReadHandler, WriteHandler

\* IInv is an inductive invariant of the session.
LEMMA IInvInvariant == Spec => []IInv
<1>1. IInv /\ [Next]_vars => IInv'
  BY TypeOKStep, OrderStep, ProgressStep, QueueStep DEF IInv
<1> QED
  BY InitIInv, <1>1, PTL DEF Spec

\* Type correctness of a session, for any number of calls and any largest
\* sequence number.
THEOREM SessionTypeOK == Spec => []TypeOK
  BY IInvInvariant, PTL DEF IInv

\* Session.cpp writes SERVER_HELLO, SERVER_FINISHED and the encrypted frames 1, 2,
\* 3... in this order, whatever is delivered by whom and wherever it fails.
THEOREM SessionWireOrder == Spec => []WireOrder
  BY IInvInvariant, PTL DEF IInv

\* One write at a time, on a buffer that is still queued, and no frame forgotten
\* in the queue of a live session.
THEOREM SessionWriteQueueServed == Spec => []WriteQueueServed
<1>1. IInv => WriteQueueServed
  BY DEF IInv, TypeOK, Queue, WriteQueueServed
<1> QED
  BY IInvInvariant, <1>1, PTL

\* Business code gets each frame once and in order; onSessionClosed is called at
\* most once and leaves nothing behind.
THEOREM SessionReceiveAndClose == Spec => [](DispatchedInOrder /\ ClosedIsFinal)
  BY IInvInvariant, PTL DEF IInv

\* A closed session stays closed, dispatches nothing and encrypts nothing.
THEOREM SessionQuietAfterClose == Spec => QuietAfterClose
<1> DEFINE Quiet == securityState = "Closed" =>
             /\ securityState' = "Closed"
             /\ dispatched' = dispatched
             /\ Len(sent') > Len(sent) => sent'[Len(sent')].type \in HandshakeType
<1>1. IInv /\ [Next]_vars => [Quiet]_vars
  <2> SUFFICES ASSUME IInv, Next, securityState = "Closed" PROVE Quiet
    OBVIOUS
  <2>0. sent \in Seq(OutFrame) /\ read.op # "tls"
    BY DEF IInv, TypeOK, Progress
  <2>1. ASSUME UNCHANGED sent, securityState' = "Closed", UNCHANGED dispatched PROVE Quiet
    BY <2>0, <2>1
  <2>2. CASE RunDeliverHandshake
    BY <2>0, <2>2 DEF RunDeliverHandshake, EnqueueRawFrame
  <2>3. CASE RunDeliverBusiness \/ RunDeliverRefused \/ RunClose \/ RunCloseAfterWrite
    BY <2>1, <2>3 DEF RunDeliverBusiness, RunDeliverRefused, RunClose, RunCloseAfterWrite,
                      FailApplicationHandshake, OnClosed, queueVars
  <2>4. CASE ReadFailed \/ TlsDone \/ HeaderDone
    BY <2>0, <2>1, <2>4 DEF ReadFailed, TlsDone, HeaderDone, OnClosed, queueVars
  <2>5. ASSUME NEW f \in InFrame, BodyDone(f) PROVE Quiet
    BY <2>1, <2>5 DEF BodyDone, AcceptHello, AcceptFinished, AcceptEncrypted, RejectFrame,
                      FailApplicationHandshake, queueVars
  <2>6. CASE WriteHandler \/ TimerHandler
    BY <2>1, <2>6 DEF WriteHandler, WriteDone, WriteFailed, TimerHandler, OnClosed,
                      FailApplicationHandshake, queueVars
  <2>7. CASE Environment
    BY <2>1, <2>7 DEF Environment, ReadCompletes, WriteCompletes, TimerExpires, ServerCalls,
                      queueVars
  <2> QED
    BY <2>2, <2>3, <2>4, <2>5, <2>6, <2>7 DEF Next, RunPosted, ReadHandler
<1> QED
  BY IInvInvariant, <1>1, PTL DEF Spec, QuietAfterClose

-----------------------------------------------------------------------------

\* Every step of the session is a step of the channel or leaves it as it is.
LEMMA ChannelStep == IInv /\ [Next]_vars => [Channel!Next]_(Channel!vars)
<1> SUFFICES ASSUME IInv, [Next]_vars PROVE [Channel!Next]_(Channel!vars)
  OBVIOUS
<1>0. /\ strand \in Seq(Handler) /\ sent \in Seq(OutFrame) /\ dispatched \in Seq(1..MaxSeq)
      /\ receiveSequence \in 0..MaxSeq
      /\ popped \in Nat /\ onWire \in Nat /\ closedCalls \in Nat
      /\ securityState \in SecurityState
      /\ closedNotified => securityState = "Closed" /\ socket = "closed"
      /\ read.op = "tls" => securityState = "TlsHandshake"
  BY DEF IInv, TypeOK, Progress, ClosedIsFinal
<1>1. ASSUME UNCHANGED <<securityState, dispatched, sent, onWire, closedCalls>>
      PROVE  UNCHANGED Channel!vars
  BY <1>1 DEF Channel!vars, Phase, closedNotified
\* failApplicationHandshake() fails the channel, unless it has failed before.
<1>2. ASSUME UNCHANGED <<dispatched, sent, onWire, closedCalls>>,
             securityState' = "Closed"
      PROVE  [Channel!Next]_(Channel!vars)
  BY <1>0, <1>2 DEF Channel!vars, Channel!Next, Channel!Fail, Phase, closedNotified, SecurityState
\* onClosed() ends the channel, unless it has ended before.
<1>3. ASSUME UNCHANGED <<dispatched, sent, onWire>>, OnClosed
      PROVE  [Channel!Next]_(Channel!vars)
  <2>1. CASE closedNotified
    BY <1>1, <1>3, <2>1 DEF OnClosed
  <2>2. CASE ~closedNotified
    <3>1. Channel!End
      BY <1>0, <1>3, <2>2 DEF OnClosed, Channel!End, Phase, closedNotified
    <3> QED
      BY <3>1 DEF Channel!Next
  <2> QED
    BY <2>1, <2>2
<1>4. CASE RunDeliverHandshake
  <2>1. /\ sent' = Append(sent, FrameAt(Len(sent) + 1)) /\ Len(sent) < 2
        /\ UNCHANGED <<securityState, dispatched, onWire, closedCalls>>
    BY <1>0, <1>4 DEF RunDeliverHandshake, EnqueueRawFrame, IInv, StrandOrder, FrameAt,
                      HandshakeType, closeVars
  <2>2. Channel!Give
    BY <2>1 DEF Channel!Give, Channel!HandshakeFrames, Phase, closedNotified
  <2> QED
    BY <2>2 DEF Channel!Next
<1>5. CASE RunDeliverBusiness
  <2>1. Len(sent) >= 2 /\ sendSequence = Len(sent) - 2
    BY <1>5, HandshakeSentFirst DEF RunDeliverBusiness, HandshakeType
  <2>2. /\ sent' = Append(sent, FrameAt(Len(sent) + 1))
        /\ securityState = "Established"
        /\ UNCHANGED <<securityState, dispatched, onWire, closedCalls>>
    BY <1>0, <1>5, <2>1 DEF RunDeliverBusiness, EnqueueRawFrame, FrameAt, closeVars
  <2>3. Channel!Give
    BY <1>0, <2>2 DEF Channel!Give, Phase, closedNotified
  <2> QED
    BY <2>3 DEF Channel!Next
<1>6. CASE RunDeliverRefused
  <2>1. securityState' = "Closed"
    BY <1>6 DEF RunDeliverRefused, FailApplicationHandshake
  <2> QED
    BY <1>2, <1>6, <2>1 DEF RunDeliverRefused, queueVars, closeVars
<1>7. CASE RunClose \/ ReadFailed \/ WriteFailed
  BY <1>3, <1>7 DEF RunClose, ReadFailed, WriteFailed, queueVars
<1>8. CASE RunCloseAfterWrite \/ WriteDone \/ TimerExpires
  BY <1>1, <1>8 DEF RunCloseAfterWrite, WriteDone, TimerExpires, queueVars, closeVars
<1>9. CASE TlsDone
  <2>1. Phase' = Phase
    BY <1>0, <1>9 DEF TlsDone, Phase, closedNotified, closeVars
  <2> QED
    BY <1>9, <2>1 DEF TlsDone, Channel!vars, queueVars, closeVars
<1>10. CASE HeaderDone
  BY <1>1, <1>3, <1>10 DEF HeaderDone, queueVars
<1>11. ASSUME NEW f \in InFrame, BodyDone(f) PROVE [Channel!Next]_(Channel!vars)
  <2>0. UNCHANGED <<sent, onWire, closedCalls>>
    BY <1>11 DEF BodyDone, queueVars, closeVars
  <2>1. CASE AcceptHello(f)
    <3>1. Phase' = Phase /\ UNCHANGED dispatched
      BY <1>0, <2>0, <2>1 DEF AcceptHello, Phase, closedNotified
    <3> QED
      BY <2>0, <3>1 DEF Channel!vars
  <2>2. CASE AcceptFinished(f)
    <3>1. Channel!Establish
      BY <1>0, <2>0, <2>2 DEF AcceptFinished, Channel!Establish, Phase, closedNotified
    <3> QED
      BY <3>1 DEF Channel!Next
  <2>3. CASE AcceptEncrypted(f)
    <3>1. f.seq = receiveSequence + 1
      BY <1>0, <2>3, SuccessorWithoutWrap, SeqAssumption DEF AcceptEncrypted
    <3>2. dispatched' = Append(dispatched, Len(dispatched) + 1)
      BY <1>0, <2>3, <3>1 DEF AcceptEncrypted, IInv, Progress
    <3>3. Channel!Take
      BY <1>0, <2>0, <2>3, <3>2 DEF AcceptEncrypted, Channel!Take, Phase, closedNotified
    <3> QED
      BY <3>3 DEF Channel!Next
  <2>4. CASE RejectFrame(f)
    BY <1>2, <2>0, <2>4 DEF RejectFrame, FailApplicationHandshake
  <2> QED
    BY <1>11, <2>1, <2>2, <2>3, <2>4 DEF BodyDone
<1>12. CASE TimerHandler
  BY <1>1, <1>2, <1>12 DEF TimerHandler, FailApplicationHandshake, queueVars, closeVars
<1>13. ASSUME NEW res \in {"ok", "error"}, ReadCompletes(res) PROVE UNCHANGED Channel!vars
  BY <1>1, <1>13 DEF ReadCompletes, queueVars, closeVars
<1>14. ASSUME NEW res \in {"ok", "error"}, WriteCompletes(res)
       PROVE  [Channel!Next]_(Channel!vars)
  <2>1. UNCHANGED <<securityState, dispatched, sent, closedCalls>>
    BY <1>14 DEF WriteCompletes, closeVars
  <2>2. CASE res = "error"
    BY <1>1, <1>14, <2>1, <2>2 DEF WriteCompletes
  <2>3. CASE res = "ok"
    <3>1. onWire < Len(sent) /\ onWire' = onWire + 1 /\ ~closedNotified
      BY <1>0, <1>14, <2>3 DEF WriteCompletes, IInv, Queue
    <3>2. Channel!Put
      BY <1>0, <2>1, <3>1 DEF Channel!Put, Phase, closedNotified
    <3> QED
      BY <3>2 DEF Channel!Next
  <2> QED
    BY <2>2, <2>3
<1>15. ASSUME NEW h \in {"BUSINESS", "close", "closeAfterWrite"}, ServerCalls(h)
       PROVE  UNCHANGED Channel!vars
  BY <1>1, <1>15 DEF ServerCalls, queueVars, closeVars
<1>16. CASE UNCHANGED vars
  BY <1>1, <1>16 DEF vars
<1> QED
  BY <1>4, <1>5, <1>6, <1>7, <1>8, <1>9, <1>10, <1>11, <1>12, <1>13, <1>14, <1>15, <1>16
  DEF Next, RunPosted, ReadHandler, WriteHandler, Environment

\* A session is an ordered channel: whatever order its strand runs its handlers in,
\* both streams stay in order, nothing numbered passes outside an established
\* session, and its end is reported once.
THEOREM SessionImplementsChannel == Spec => ImplementsChannel
<1>1. Init => Channel!Init
  BY DEF Init, Channel!Init, Phase, closedNotified
<1> QED
  BY <1>1, ChannelStep, IInvInvariant, PTL DEF Spec, ImplementsChannel, Channel!Spec

=============================================================================

------------------------ MODULE NetworkServerProofs ------------------------
(***************************************************************************)
(* Proofs about NetworkServer for any set of connections and texts and any *)
(* bounds: the invariants of the write chain and of registration, and that *)
(* the server implements the safety part of Delivery.                      *)
(***************************************************************************)
EXTENDS NetworkServer, SequenceTheorems, TLAPS

\* A channel whose handshake is pending is unknown to the application, has not
\* been disconnected and holds no output (Server.cpp:105-117, 70-77): without
\* this, registering it could break the other parts of the invariant.
FreshWhileAccepting ==
    \A c \in accepting : c \notin channels \cup disconnected /\ writeBuffer[c] = <<>>

\* The text being written is still in the buffer.
BufferedWhileWriting == \A c \in Connection : writing[c] > 0 => writeBuffer[c] # <<>>

\* The inductive invariant.
IInv ==
    /\ TypeOK
    /\ OneWriteAtATime
    /\ BufferedWhileWriting
    /\ NoStrandedOutput
    /\ RegisteredIsReading
    /\ FreshWhileAccepting

\* Any step of the server and its application, without the bounds of Next: what
\* holds of these steps holds in every composition the server is part of.
AnyStep ==
    \/ \E c \in Connection : Upgrade(c)
    \/ \E c \in Connection, errorCode \in BOOLEAN : afterAccept(c, errorCode)
    \/ \E c \in Connection, errorCode \in BOOLEAN : \E text :
          (errorCode \/ text \in InText) /\ afterRead(c, errorCode, text)
    \/ \E c \in Connection, errorCode \in BOOLEAN : afterWrite(c, errorCode)
    \/ \E c \in Connection, t \in OutText : send(c, t)
    \/ \E c \in Connection : Server_disconnect(c)
    \/ receive
    \/ destroy

-----------------------------------------------------------------------------
\* The steps of the specification are such steps.
LEMMA NextIsAnyStep == [Next]_vars => [AnyStep]_vars
  BY DEF Next, AnyStep

\* What Channel::send appends to the buffer is never lost between the two ways
\* of looking at it: a queue grown at its end is non-empty, and it holds more
\* than one text exactly if it was not empty before.
LEMMA AppendLen ==
    ASSUME NEW S, NEW s \in Seq(S), NEW t \in S
    PROVE  /\ Append(s, t) \in Seq(S)
           /\ Append(s, t) # <<>>
           /\ 1 < Len(Append(s, t)) <=> s # <<>>
  <1>1. Len(s) \in Nat /\ (Len(s) = 0 <=> s = <<>>)
    BY EmptySeq
  <1>2. Append(s, t) \in Seq(S) /\ Len(Append(s, t)) = Len(s) + 1
    BY AppendProperties
  <1> QED
    BY <1>1, <1>2

\* The inductive invariant holds initially.
LEMMA InitIInv == Init => IInv
  BY ConstantsAssumption DEF Init, IInv, TypeOK, OneWriteAtATime, BufferedWhileWriting,
     NoStrandedOutput, RegisteredIsReading, FreshWhileAccepting

\* Every step of the server, of its handlers and of its caller keeps the
\* inductive invariant.
LEMMA StepIInv == IInv /\ [AnyStep]_vars => IInv'
  <1> SUFFICES ASSUME IInv, [AnyStep]_vars PROVE IInv'
    OBVIOUS
  <1> USE DEF IInv
  <1>1. ASSUME NEW c \in Connection, Upgrade(c) PROVE IInv'
    <2>1. TypeOK'
      BY <1>1 DEF Upgrade, Channel, TypeOK, histVars
    <2> QED
      BY <1>1, <2>1 DEF Upgrade, Channel, Live, TypeOK, OneWriteAtATime, BufferedWhileWriting,
         NoStrandedOutput, RegisteredIsReading, FreshWhileAccepting
  <1>2. ASSUME NEW c \in Connection, NEW errorCode \in BOOLEAN, afterAccept(c, errorCode)
        PROVE  IInv'
    <2>1. TypeOK'
      BY <1>2 DEF afterAccept, disconnect, Channel_disconnect, registerChannel, readMessage, TypeOK, histVars
    <2> QED
      BY <1>2, <2>1 DEF afterAccept, disconnect, Channel_disconnect, registerChannel, readMessage, TypeOK,
         OneWriteAtATime, BufferedWhileWriting, NoStrandedOutput, RegisteredIsReading,
         FreshWhileAccepting, histVars
  <1>3. ASSUME NEW c \in Connection, NEW errorCode \in BOOLEAN, NEW text, errorCode \/ text \in InText,
               afterRead(c, errorCode, text)
        PROVE  IInv'
    <2>1. TypeOK'
      <3>1. text \in InText => [connection |-> c, text |-> text, life |-> lives[c]] \in Message
        BY DEF TypeOK, Message
      <3>2. CASE errorCode
        BY <1>3, <3>2 DEF afterRead, onError, disconnect, Channel_disconnect, TypeOK, histVars
      <3>3. CASE ~errorCode
        <4>1. incoming' \in Seq(Message) /\ reading' \in SUBSET Connection
          <5>1. incoming' = Append(incoming, [connection |-> c, text |-> text, life |-> lives[c]])
            BY <1>3, <3>3 DEF afterRead
          <5>2. incoming' \in Seq(Message)
            BY <1>3, <3>1, <3>3, <5>1, AppendProperties DEF TypeOK
          <5> QED
            BY <1>3, <3>3, <5>2 DEF afterRead, readMessage, TypeOK
        <4> QED
          BY <1>3, <3>3, <4>1 DEF afterRead, TypeOK, histVars
      <3> QED
        BY <3>2, <3>3
    <2> QED
      BY <1>3, <2>1 DEF afterRead, onError, disconnect, Channel_disconnect, readMessage, TypeOK,
         OneWriteAtATime, BufferedWhileWriting, NoStrandedOutput, RegisteredIsReading,
         FreshWhileAccepting, histVars
  <1>4. ASSUME NEW c \in Connection, NEW errorCode \in BOOLEAN, afterWrite(c, errorCode)
        PROVE  IInv'
    <2>1. writeBuffer[c] \in Seq(OutText) /\ writeBuffer[c] # <<>> /\ writing[c] = 1
      BY <1>4 DEF afterWrite, TypeOK, BufferedWhileWriting, OneWriteAtATime
    <2>2. Head(writeBuffer[c]) \in OutText /\ Tail(writeBuffer[c]) \in Seq(OutText)
      BY <2>1, HeadTailProperties
    <2>3. c \notin accepting
      BY <2>1 DEF FreshWhileAccepting
    <2>4. CASE errorCode
      <3>1. /\ writing' = [writing EXCEPT ![c] = 0]
            /\ onError(c)
            /\ UNCHANGED <<running, incoming, writeBuffer, accepting, reading, histVars>>
        BY <1>4, <2>1, <2>4 DEF afterWrite, histVars, TypeOK
      <3>2. channels' = channels \ {c} /\ disconnected' \in SUBSET Connection
            /\ disconnected \subseteq disconnected' /\ disconnected' \subseteq disconnected \cup {c}
        BY <3>1 DEF onError, disconnect, Channel_disconnect, RegisteredIsReading, TypeOK
      <3>3. TypeOK'
        BY <3>1, <3>2 DEF TypeOK, histVars
      <3>4. OneWriteAtATime' /\ BufferedWhileWriting'
        BY <3>1 DEF TypeOK, OneWriteAtATime, BufferedWhileWriting
      <3>5. NoStrandedOutput'
        BY <3>1, <3>2 DEF TypeOK, NoStrandedOutput
      <3>6. RegisteredIsReading' /\ FreshWhileAccepting'
        BY <2>3, <3>1, <3>2 DEF RegisteredIsReading, FreshWhileAccepting
      <3> QED
        BY <3>3, <3>4, <3>5, <3>6
    <2>5. CASE ~errorCode
      <3>1. /\ writing' = [writing EXCEPT ![c] = IF Tail(writeBuffer[c]) = <<>> THEN 0 ELSE 1]
            /\ writeBuffer' = [writeBuffer EXCEPT ![c] = Tail(@)]
            /\ delivered' = [delivered EXCEPT ![c] = Append(@, Head(writeBuffer[c]))]
            /\ UNCHANGED <<running, channels, incoming, disconnected, accepting, reading,
                           lives, sent>>
        BY <1>4, <2>1, <2>5 DEF afterWrite, continueSending, TypeOK
      <3>2. TypeOK'
        BY <2>2, <3>1 DEF TypeOK
      <3>3. OneWriteAtATime'
        BY <3>1 DEF TypeOK, OneWriteAtATime
      <3>4. BufferedWhileWriting' /\ NoStrandedOutput'
        BY <3>1 DEF TypeOK, BufferedWhileWriting, NoStrandedOutput
      <3>5. RegisteredIsReading' /\ FreshWhileAccepting'
        BY <2>3, <3>1 DEF TypeOK, RegisteredIsReading, FreshWhileAccepting
      <3> QED
        BY <3>2, <3>3, <3>4, <3>5
    <2> QED
      BY <2>4, <2>5
  <1>5. ASSUME NEW c \in Connection, NEW t \in OutText, send(c, t) PROVE IInv'
    <2>1. CASE c \in channels /\ t # Empty
      <3>1. /\ queued(c, t) \in Seq(OutText)
            /\ queued(c, t) # <<>>
            /\ Chained(queued(c, t)) <=> writeBuffer[c] # <<>>
        BY AppendLen DEF queued, Chained, TypeOK
      <3>2. writing[c] = (IF writeBuffer[c] = <<>> THEN 0 ELSE 1)
        BY <2>1 DEF TypeOK, OneWriteAtATime, BufferedWhileWriting, NoStrandedOutput
      <3>3. Append(sent[c], t) \in Seq(OutText)
        BY DEF TypeOK
      <3>4. /\ writeBuffer' = [writeBuffer EXCEPT ![c] = queued(c, t)]
            /\ writing' = [writing EXCEPT ![c] = 1]
            /\ sent' = [sent EXCEPT ![c] = Append(@, t)]
            /\ UNCHANGED <<running, channels, incoming, disconnected, accepting, reading,
                           lives, delivered>>
        BY <1>5, <2>1, <3>1, <3>2 DEF send, Channel_send, Dropped, TypeOK
      <3>5. TypeOK'
        BY <3>1, <3>3, <3>4 DEF TypeOK
      <3>6. c \notin accepting
        BY <2>1 DEF FreshWhileAccepting
      <3> QED
        BY <3>1, <3>4, <3>5, <3>6 DEF TypeOK, OneWriteAtATime, BufferedWhileWriting, NoStrandedOutput,
           RegisteredIsReading, FreshWhileAccepting
    <2>2. CASE ~(c \in channels /\ t # Empty)
      BY <1>5, <2>2 DEF send, Channel_send, Dropped, TypeOK, OneWriteAtATime, BufferedWhileWriting,
         NoStrandedOutput, RegisteredIsReading, FreshWhileAccepting
    <2> QED
      BY <2>1, <2>2
  <1>6. ASSUME NEW c \in Connection, Server_disconnect(c) PROVE IInv'
    BY <1>6 DEF Server_disconnect, disconnect, Channel_disconnect, TypeOK, OneWriteAtATime, BufferedWhileWriting,
       NoStrandedOutput, RegisteredIsReading, FreshWhileAccepting, histVars
  <1>7. CASE receive
    BY <1>7 DEF receive, TypeOK, OneWriteAtATime, BufferedWhileWriting, NoStrandedOutput,
       RegisteredIsReading, FreshWhileAccepting, chanVars, histVars
  <1>8. CASE destroy
    <2>1. TypeOK'
      <3>1. running' \in BOOLEAN
        BY <1>8 DEF destroy
      <3>2. incoming' \in Seq(Message) /\ writing' \in [Connection -> Nat]
        BY <1>8 DEF destroy
      <3> QED
        BY <1>8, <3>1, <3>2 DEF destroy, TypeOK, histVars
    <2>2. OneWriteAtATime' /\ BufferedWhileWriting'
      <3>1. \A c \in Connection : writing'[c] = 0
        BY <1>8 DEF destroy
      <3> QED
        BY <3>1 DEF OneWriteAtATime, BufferedWhileWriting
    <2>3. NoStrandedOutput' /\ RegisteredIsReading' /\ FreshWhileAccepting'
      BY <1>8 DEF destroy, NoStrandedOutput, RegisteredIsReading, FreshWhileAccepting
    <2> QED
      BY <2>1, <2>2, <2>3
  <1>9. CASE UNCHANGED vars
    BY <1>9 DEF vars, chanVars, histVars, TypeOK, OneWriteAtATime, BufferedWhileWriting,
       NoStrandedOutput, RegisteredIsReading, FreshWhileAccepting
  <1> QED
    BY <1>1, <1>2, <1>3, <1>4, <1>5, <1>6, <1>7, <1>8, <1>9 DEF AnyStep

\* The inductive invariant holds of every reachable state.
THEOREM Invariance == Spec => []IInv
  BY InitIInv, NextIsAnyStep, StepIInv, PTL DEF Spec

\* Every variable keeps its type (Server.cpp:58-59, 89-97).
THEOREM TypeCorrect == Spec => []TypeOK
  <1>1. IInv => TypeOK
    BY DEF IInv
  <1> QED
    BY <1>1, Invariance, PTL

\* Channel::send and Channel::afterWrite never have two writes under way on one
\* websocket (Server.cpp:128-168).
THEOREM WritesDoNotOverlap == Spec => []OneWriteAtATime
  <1>1. IInv => OneWriteAtATime
    BY DEF IInv
  <1> QED
    BY <1>1, Invariance, PTL

\* A registered channel never holds text that no write is going to pick up, whatever
\* writes fail (Server.cpp:128-168, 396-404).
THEOREM NothingStranded == Spec => []NoStrandedOutput
  <1>1. IInv => NoStrandedOutput
    BY DEF IInv
  <1> QED
    BY <1>1, Invariance, PTL

\* A registered channel always has a read pending and is never one that was
\* already disconnected (Server.cpp:110-111, 345-350, 396-404).
THEOREM Registration == Spec => []RegisteredIsReading
  <1>1. IInv => RegisteredIsReading
    BY DEF IInv
  <1> QED
    BY <1>1, Invariance, PTL

-----------------------------------------------------------------------------
(***************************************************************************)
(* Order of delivery.                                                      *)
(***************************************************************************)

\* Completing a write moves the first buffered text to the end of the delivered
\* ones, and that text is the next one of the concatenation.
LEMMA MoveHead ==
    ASSUME NEW S, NEW d \in Seq(S), NEW b \in Seq(S), b # <<>>
    PROVE  /\ d \o b = Append(d, Head(b)) \o Tail(b)
           /\ Len(d) < Len(d \o b)
           /\ (d \o b)[Len(d) + 1] = Head(b)
  <1>1. Head(b) \in S /\ Tail(b) \in Seq(S) /\ Len(Tail(b)) = Len(b) - 1
    BY HeadTailProperties
  <1>2. Len(b) \in Nat \ {0} /\ Len(d) \in Nat
    BY EmptySeq
  <1>3. d \o b \in Seq(S) /\ Len(d \o b) = Len(d) + Len(b)
    BY ConcatProperties
  <1>4. /\ Append(d, Head(b)) \in Seq(S)
        /\ Len(Append(d, Head(b))) = Len(d) + 1
    BY <1>1, AppendProperties
  <1>5. /\ Append(d, Head(b)) \o Tail(b) \in Seq(S)
        /\ Len(Append(d, Head(b)) \o Tail(b)) = Len(d) + Len(b)
    BY <1>1, <1>2, <1>4, ConcatProperties
  <1>6. ASSUME NEW i \in 1 .. Len(d) + Len(b)
        PROVE  (d \o b)[i] = (Append(d, Head(b)) \o Tail(b))[i]
    BY <1>1, <1>2, <1>4, <1>6
  <1>7. d \o b = Append(d, Head(b)) \o Tail(b)
    BY <1>3, <1>5, <1>6, SeqEqual
  <1>8. (d \o b)[Len(d) + 1] = Head(b)
    BY <1>2
  <1> QED
    BY <1>2, <1>3, <1>7, <1>8

\* Order of delivery is inductive relative to the invariant of the write chain.
LEMMA StepFifo == IInv /\ FifoDelivery /\ [AnyStep]_vars => FifoDelivery'
  <1> SUFFICES ASSUME IInv, FifoDelivery, [AnyStep]_vars, NEW k \in Connection
               PROVE  sent'[k] = delivered'[k] \o writeBuffer'[k]
    BY DEF FifoDelivery
  <1>0. /\ writeBuffer \in [Connection -> Seq(OutText)]
        /\ sent \in [Connection -> Seq(OutText)]
        /\ delivered \in [Connection -> Seq(OutText)]
        /\ writeBuffer[k] \in Seq(OutText) /\ delivered[k] \in Seq(OutText)
        /\ sent[k] = delivered[k] \o writeBuffer[k]
    BY DEF IInv, TypeOK, FifoDelivery
  <1>1. ASSUME NEW c \in Connection, Upgrade(c)
        PROVE  sent'[k] = delivered'[k] \o writeBuffer'[k]
    BY <1>0, <1>1 DEF Upgrade, Channel
  <1>2. ASSUME NEW c \in Connection, NEW errorCode \in BOOLEAN, afterWrite(c, errorCode)
        PROVE  sent'[k] = delivered'[k] \o writeBuffer'[k]
    <2>1. CASE ~errorCode /\ c = k
      <3>1. writeBuffer[k] # <<>>
        BY <1>2, <2>1 DEF IInv, BufferedWhileWriting, afterWrite
      <3>2. /\ sent'[k] = sent[k]
            /\ delivered'[k] = Append(delivered[k], Head(writeBuffer[k]))
            /\ writeBuffer'[k] = Tail(writeBuffer[k])
        BY <1>0, <1>2, <2>1 DEF afterWrite
      <3>3. delivered[k] \o writeBuffer[k]
              = Append(delivered[k], Head(writeBuffer[k])) \o Tail(writeBuffer[k])
        BY <1>0, <3>1, MoveHead, Zenon
      <3> QED
        BY <1>0, <3>2, <3>3
    <2>2. CASE ~(~errorCode /\ c = k)
      BY <1>0, <1>2, <2>2 DEF afterWrite
    <2> QED
      BY <2>1, <2>2
  <1>3. ASSUME NEW c \in Connection, NEW t \in OutText, send(c, t)
        PROVE  sent'[k] = delivered'[k] \o writeBuffer'[k]
    <2>1. CASE c = k /\ c \in channels /\ t # Empty
      <3>1. /\ sent'[k] = Append(sent[k], t)
            /\ delivered'[k] = delivered[k]
            /\ writeBuffer'[k] = Append(writeBuffer[k], t)
        BY <1>0, <1>3, <2>1 DEF send, Channel_send, Dropped, queued
      <3>2. Append(delivered[k] \o writeBuffer[k], t) = delivered[k] \o Append(writeBuffer[k], t)
        <4> DEFINE d == delivered[k]
                   b == writeBuffer[k]
        <4>1. d \in Seq(OutText) /\ b \in Seq(OutText) /\ t \in OutText
          BY <1>0
        <4> HIDE DEF d, b
        <4>2. Append(d \o b, t) = d \o Append(b, t)
          BY <4>1
        <4> QED
          BY <4>2 DEF d, b
      <3> QED
        BY <1>0, <3>1, <3>2, Zenon
    <2>2. CASE ~(c = k /\ c \in channels /\ t # Empty)
      BY <1>0, <1>3, <2>2 DEF send, Channel_send, Dropped
    <2> QED
      BY <2>1, <2>2
  <1>4. CASE UNCHANGED <<sent, delivered, writeBuffer>>
    BY <1>0, <1>4
  <1> QED
    BY <1>1, <1>2, <1>3, <1>4 DEF AnyStep, vars, chanVars, histVars, afterAccept, afterRead,
       Server_disconnect, receive, destroy

\* It holds initially.
LEMMA InitFifo == Init => FifoDelivery
  <1>1. <<>> \o <<>> = <<>>
    OBVIOUS
  <1> QED
    BY <1>1, Zenon DEF Init, FifoDelivery

\* Channel::send and afterWrite deliver to each Channel object exactly what was
\* sent to it, in order, across failures, disconnects and reused addresses.
THEOREM Fifo == Spec => []FifoDelivery
  BY InitFifo, NextIsAnyStep, StepFifo, Invariance, PTL DEF Spec

\* What is at the front of the buffer is the first text sent and not delivered.
LEMMA FrontIsNext ==
    ASSUME IInv, FifoDelivery, NEW c \in Connection, writeBuffer[c] # <<>>
    PROVE  Len(delivered[c]) < Len(sent[c]) /\ sent[c][Len(delivered[c]) + 1] = Head(writeBuffer[c])
  <1> DEFINE d == delivered[c]
             b == writeBuffer[c]
  <1>1. d \in Seq(OutText) /\ b \in Seq(OutText) /\ b # <<>> /\ sent[c] = d \o b
    BY DEF IInv, TypeOK, FifoDelivery
  <1> HIDE DEF d, b
  <1>2. Len(d) < Len(d \o b) /\ (d \o b)[Len(d) + 1] = Head(b)
    BY <1>1, MoveHead
  <1> QED
    BY <1>1, <1>2 DEF d, b

\* So the text being written stays where it is until its handler has run.
LEMMA Pinned == IInv /\ FifoDelivery => BufferPinned
  BY FrontIsNext DEF IInv, BufferedWhileWriting, BufferPinned

\* The text being written stays at the front of the buffer until its handler has
\* run, so afterWrite pops that text and never an empty deque (Server.cpp:141-158).
THEOREM BufferIsPinned == Spec => []BufferPinned
  BY Pinned, Invariance, Fifo, PTL

\* Channel::send accepts no empty text.
NoEmptySent ==
    \A c \in Connection : \A i \in DOMAIN sent[c] : sent[c][i] # Empty

\* It holds initially.
LEMMA InitNoEmptySent == Init => NoEmptySent
  BY DEF Init, NoEmptySent

\* Every step preserves it.
LEMMA StepNoEmptySent == IInv /\ NoEmptySent /\ [AnyStep]_vars => NoEmptySent'
  <1> SUFFICES ASSUME IInv, NoEmptySent, [AnyStep]_vars, NEW k \in Connection, NEW i \in DOMAIN sent'[k]
               PROVE  sent'[k][i] # Empty
    BY DEF NoEmptySent
  <1>0. /\ sent \in [Connection -> Seq(OutText)]
        /\ sent[k] \in Seq(OutText)
        /\ \A j \in DOMAIN sent[k] : sent[k][j] # Empty
    BY DEF IInv, TypeOK, NoEmptySent
  <1>1. CASE sent'[k] = <<>> \/ sent'[k] = sent[k]
    BY <1>0, <1>1
  <1>2. ASSUME NEW t \in OutText, t # Empty, sent'[k] = Append(sent[k], t)
        PROVE  sent'[k][i] # Empty
    BY <1>0, <1>2
  <1>3. ASSUME NEW c \in Connection, Upgrade(c)
        PROVE  sent'[k] = <<>> \/ sent'[k] = sent[k]
    BY <1>0, <1>3 DEF Upgrade
  <1>4. ASSUME NEW c \in Connection, NEW t \in OutText, send(c, t)
        PROVE  \/ sent'[k] = sent[k]
               \/ t # Empty /\ sent'[k] = Append(sent[k], t)
    BY <1>0, <1>4 DEF send, Channel_send, Dropped
  <1>5. CASE UNCHANGED sent
    BY <1>1, <1>5
  <1> QED
    BY <1>1, <1>2, <1>3, <1>4, <1>5 DEF AnyStep, vars, histVars, afterAccept, afterRead, afterWrite,
       Server_disconnect, receive, destroy

\* What is delivered or buffered is what was sent, and so not empty either.
LEMMA NothingEmpty ==
    ASSUME IInv, FifoDelivery, NoEmptySent, NEW c \in Connection
    PROVE  /\ \A i \in DOMAIN delivered[c] : delivered[c][i] = sent[c][i] /\ delivered[c][i] # Empty
           /\ \A i \in DOMAIN writeBuffer[c] : writeBuffer[c][i] # Empty
  <1> DEFINE d == delivered[c]
             b == writeBuffer[c]
  <1>1. d \in Seq(OutText) /\ b \in Seq(OutText)
    BY DEF IInv, TypeOK
  <1>2. sent[c] = d \o b
    BY DEF FifoDelivery
  <1>3. \A i \in DOMAIN (d \o b) : (d \o b)[i] # Empty
    BY <1>2 DEF NoEmptySent
  <1> HIDE DEF d, b
  <1>4. /\ \A i \in DOMAIN d : i \in DOMAIN (d \o b) /\ (d \o b)[i] = d[i]
        /\ \A i \in DOMAIN b : Len(d) + i \in DOMAIN (d \o b) /\ (d \o b)[Len(d) + i] = b[i]
    BY <1>1
  <1>5. /\ \A i \in DOMAIN d : d[i] = (d \o b)[i] /\ d[i] # Empty
        /\ \A i \in DOMAIN b : b[i] # Empty
    BY <1>3, <1>4
  <1> QED
    BY <1>2, <1>5 DEF d, b

-----------------------------------------------------------------------------
(***************************************************************************)
(* Refinement.                                                             *)
(***************************************************************************)

\* Every step of the server is a step of Delivery or leaves its state alone.
LEMMA StepDelivery == IInv /\ FifoDelivery /\ [AnyStep]_vars => [D!Next]_D!vars
  <1> SUFFICES ASSUME IInv, FifoDelivery, [AnyStep]_vars PROVE D!Next \/ UNCHANGED D!vars
    OBVIOUS
  <1>1. ASSUME NEW c \in Connection, Upgrade(c) PROVE D!Open(c)
    BY <1>1 DEF Upgrade, Live, D!Open
  <1>2. ASSUME NEW c \in Connection, NEW errorCode \in BOOLEAN, afterAccept(c, errorCode)
        PROVE  D!Join(c) \/ UNCHANGED D!vars
    BY <1>2 DEF afterAccept, registerChannel, disconnect, Channel_disconnect, IInv, FreshWhileAccepting, histVars,
       D!Join, D!vars
  <1>3. ASSUME NEW c \in Connection, disconnect(c), UNCHANGED <<sent, delivered>>
        PROVE  D!Leave(c) \/ UNCHANGED D!vars
    BY <1>3 DEF disconnect, Channel_disconnect, D!Leave, D!vars
  <1>4. ASSUME NEW c \in Connection, NEW errorCode \in BOOLEAN, NEW text, errorCode \/ text \in InText,
               afterRead(c, errorCode, text)
        PROVE  D!Leave(c) \/ UNCHANGED D!vars
    BY <1>3, <1>4 DEF afterRead, onError, histVars, D!vars
  <1>5. ASSUME NEW c \in Connection, NEW errorCode \in BOOLEAN, afterWrite(c, errorCode)
        PROVE  D!Deliver(c) \/ D!Leave(c) \/ UNCHANGED D!vars
    <2>1. CASE errorCode
      BY <1>3, <1>5, <2>1 DEF afterWrite, onError, D!vars
    <2>2. CASE ~errorCode
      <3>1. /\ writeBuffer[c] # <<>>
            /\ writeBuffer[c] \in Seq(OutText) /\ delivered[c] \in Seq(OutText)
            /\ sent[c] = delivered[c] \o writeBuffer[c]
        BY <1>5 DEF afterWrite, IInv, TypeOK, BufferedWhileWriting, FifoDelivery
      <3>2. Len(delivered[c]) < Len(sent[c]) /\ sent[c][Len(delivered[c]) + 1] = Head(writeBuffer[c])
        BY <3>1, FrontIsNext
      <3>3. /\ delivered' = [delivered EXCEPT ![c] = Append(@, Head(writeBuffer[c]))]
            /\ UNCHANGED <<channels, sent>>
        BY <1>5, <2>2 DEF afterWrite
      <3>4. delivered' = [delivered EXCEPT ![c] = Append(@, sent[c][Len(@) + 1])]
        BY <3>2, <3>3
      <3> QED
        BY <3>2, <3>3, <3>4 DEF D!Deliver, D!Pending
    <2> QED
      BY <2>1, <2>2
  <1>6. ASSUME NEW c \in Connection, NEW t \in OutText, send(c, t)
        PROVE  (t \in OutText \ {Empty} /\ D!Post(c, t)) \/ UNCHANGED D!vars
    BY <1>6 DEF send, Channel_send, Dropped, D!Post, D!vars
  <1>7. ASSUME NEW c \in Connection, Server_disconnect(c)
        PROVE  D!Leave(c) \/ UNCHANGED D!vars
    BY <1>3, <1>7 DEF Server_disconnect, histVars
  <1>8. CASE receive
    BY <1>8 DEF receive, histVars, D!vars
  <1>9. CASE destroy
    BY <1>9 DEF destroy, histVars, D!Next, D!Close
  <1>10. CASE UNCHANGED vars
    BY <1>10 DEF vars, histVars, D!vars
  <1> QED
    BY <1>1, <1>2, <1>4, <1>5, <1>6, <1>7, <1>8, <1>9, <1>10 DEF AnyStep, D!Next

\* The server implements the safety part of Delivery: per connection, texts are
\* delivered in the order posted, for any set of connections and texts
\* (lib/networking/src/Server.cpp:128-168, 385-404).
THEOREM DeliveryRefinement == Spec => D!SafeSpec
  <1>1. Init => D!Init
    BY DEF Init, D!Init
  <1> QED
    BY <1>1, NextIsAnyStep, StepDelivery, Invariance, Fifo, PTL DEF Spec, D!SafeSpec
=============================================================================

------------------------- MODULE ClientServerProofs -------------------------
(***************************************************************************)
(* Proofs about ClientServer, for any texts and any number of them: what   *)
(* NetworkServerProofs and NetworkClientProofs show of the steps of either *)
(* end holds in their composition, and end to end the player is shown what *)
(* was sent, in order.                                                     *)
(***************************************************************************)
EXTENDS ClientServer, SequenceTheorems, TLAPS
LOCAL INSTANCE SequencesExt

SP == INSTANCE NetworkServerProofs WITH
         Connection <- {conn}, InText <- 1 .. MaxTyped, Stalled <- {},
         MaxLives <- 1, MaxIncoming <- MaxTyped

CP == INSTANCE NetworkClientProofs WITH
         Frame <- OutText, inbound <- delivered[conn],
         writeBuffer <- c_writeBuffer, reading <- c_reading, writing <- c_writing

\* Before the client's request there is nothing at the server, and then there is
\* only one Channel object: what is delivered is never begun anew.
NothingBeforeUpgrade ==
    lives[conn] = 0 => conn \notin accepting \cup channels /\ sent[conn] = <<>>

\* The inductive invariant.
IInv ==
    /\ SP!IInv /\ SP!FifoDelivery /\ SP!NoEmptySent
    /\ CP!IInv /\ CP!ShownIsTaken
    /\ NothingBeforeUpgrade
    /\ heard \in 0 .. Len(outbound)

-----------------------------------------------------------------------------
\* The assumption of the server's proofs holds here.
LEMMA ServerAssumption ==
    /\ Empty \in OutText
    /\ {} \subseteq {conn}
    /\ 1 \in Nat /\ MaxSends \in Nat /\ MaxTyped \in Nat
  BY ConnectionAssumption

\* The steps of the server are steps of NetworkServerProofs.
LEMMA ServerSteps ==
    /\ Server!Upgrade(conn) => SP!AnyStep
    /\ \A e \in BOOLEAN : Server!afterAccept(conn, e) => SP!AnyStep
    /\ \A e \in BOOLEAN, t \in Nat : (e \/ t \in 1 .. MaxTyped) /\ Server!afterRead(conn, e, t) => SP!AnyStep
    /\ \A e \in BOOLEAN : Server!afterWrite(conn, e) => SP!AnyStep
    /\ \A t \in OutText : Server!send(conn, t) => SP!AnyStep
    /\ Server!Server_disconnect(conn) => SP!AnyStep
    /\ Server!receive => SP!AnyStep
    /\ Server!destroy => SP!AnyStep
  <1> USE DEF SP!AnyStep, Server!chanVars, SP!chanVars, Server!histVars, SP!histVars
  <1>1. Server!Upgrade(conn) => SP!AnyStep
    BY DEF Server!Upgrade, SP!Upgrade, Server!Live, SP!Live, Server!Channel, SP!Channel
  <1>2. ASSUME NEW e \in BOOLEAN PROVE Server!afterAccept(conn, e) => SP!AnyStep
    <2>1. Server!afterAccept(conn, e) => SP!afterAccept(conn, e)
      BY DEF Server!afterAccept, SP!afterAccept, Server!disconnect, SP!disconnect, Server!Channel_disconnect,
         SP!Channel_disconnect, Server!registerChannel, SP!registerChannel, Server!readMessage, SP!readMessage
    <2> QED
      BY <2>1
  <1>3. ASSUME NEW e \in BOOLEAN, NEW t \in Nat, e \/ t \in 1 .. MaxTyped
        PROVE  Server!afterRead(conn, e, t) => SP!AnyStep
    <2>1. Server!afterRead(conn, e, t) => SP!afterRead(conn, e, t)
      BY DEF Server!afterRead, SP!afterRead, Server!onError, SP!onError, Server!disconnect, SP!disconnect,
         Server!Channel_disconnect, SP!Channel_disconnect, Server!readMessage, SP!readMessage
    <2> QED
      BY <1>3, <2>1
  <1>4. ASSUME NEW e \in BOOLEAN PROVE Server!afterWrite(conn, e) => SP!AnyStep
    <2>1. Server!afterWrite(conn, e) => SP!afterWrite(conn, e)
      BY DEF Server!afterWrite, SP!afterWrite, Server!onError, SP!onError, Server!disconnect, SP!disconnect,
         Server!Channel_disconnect, SP!Channel_disconnect, Server!continueSending, SP!continueSending
    <2> QED
      BY <2>1
  <1>5. ASSUME NEW t \in OutText PROVE Server!send(conn, t) => SP!AnyStep
    <2>1. Server!send(conn, t) => SP!send(conn, t)
      BY DEF Server!send, SP!send, Server!Channel_send, SP!Channel_send, Server!Dropped, SP!Dropped,
         Server!queued, SP!queued, Server!Chained, SP!Chained
    <2> QED
      BY <2>1
  <1>6. Server!Server_disconnect(conn) => SP!AnyStep
    BY DEF Server!Server_disconnect, SP!Server_disconnect, Server!disconnect, SP!disconnect,
       Server!Channel_disconnect, SP!Channel_disconnect
  <1>7. (Server!receive => SP!AnyStep) /\ (Server!destroy => SP!AnyStep)
    BY DEF Server!receive, SP!receive, Server!destroy, SP!destroy
  <1> QED
    BY <1>1, <1>2, <1>3, <1>4, <1>5, <1>6, <1>7

\* The steps of the client are steps of NetworkClientProofs.
LEMMA ClientSteps == ClientStep => CP!AnyStep
  <1> USE DEF Client!implVars, CP!implVars, Client!opVars, CP!opVars, Client!histVars, CP!histVars,
              Client!disconnect, CP!disconnect, Client!continued, CP!continued
  <1>1. ASSUME NEW e \in BOOLEAN
        PROVE  /\ Client!construct(e) => CP!construct(e)
               /\ Client!afterConnect(e) => CP!afterConnect(e)
               /\ Client!afterHandshake(e) => CP!afterHandshake(e)
    BY DEF Client!construct, CP!construct, Client!afterConnect, CP!afterConnect,
       Client!afterHandshake, CP!afterHandshake
  <1>2. ASSUME NEW e \in BOOLEAN
        PROVE  /\ Client!afterRead(e) => CP!afterRead(e)
               /\ Client!afterWrite(e) => CP!afterWrite(e)
    BY DEF Client!afterRead, CP!afterRead, Client!collected, CP!collected, Client!afterWrite, CP!afterWrite,
       Client!pop_front, CP!pop_front
  <1>3. Client!afterRefusedWrite => CP!afterRefusedWrite
    BY DEF Client!afterRefusedWrite, CP!afterRefusedWrite
  <1>4. Client!executeJoinLobby => CP!executeJoinLobby
    <2>1. /\ Client!updateReturns => CP!updateReturns
          /\ Client!updateThrows => CP!updateThrows
          /\ Client!nothingTyped => CP!nothingTyped
          /\ Client!exitTyped => CP!exitTyped
      BY DEF Client!updateReturns, CP!updateReturns, Client!receive, CP!receive, Client!updateThrows,
         CP!updateThrows, Client!nothingTyped, CP!nothingTyped, Client!exitTyped, CP!exitTyped
    <2>2. Client!send => CP!send
      BY DEF Client!send, CP!send, Client!written, CP!written
    <2> QED
      BY <2>1, <2>2 DEF Client!executeJoinLobby, CP!executeJoinLobby
  <1> QED
    BY <1>1, <1>2, <1>3, <1>4 DEF ClientStep, CP!AnyStep

\* What either end's definitions are called in ClientServer.
LEMMA Names ==
    /\ SP!TypeOK <=> Server!TypeOK
    /\ SP!Init <=> Server!Init
    /\ CP!TypeOK <=> Client!TypeOK
    /\ CP!Init <=> Client!Init
    /\ CP!PendingWritesPinned <=> Client!PendingWritesPinned
    /\ CP!Increasing(outbound) <=> Client!WrittenInOrder
  <1>1. SP!TypeOK <=> Server!TypeOK
    BY DEF SP!TypeOK, Server!TypeOK, SP!Message, Server!Message
  <1>2. SP!Init <=> Server!Init
    BY DEF SP!Init, Server!Init
  <1>3. CP!TypeOK <=> Client!TypeOK
    BY DEF CP!TypeOK, Client!TypeOK
  <1>4. CP!Init <=> Client!Init
    BY DEF CP!Init, Client!Init
  <1>5. CP!PendingWritesPinned <=> Client!PendingWritesPinned
    BY DEF CP!PendingWritesPinned, Client!PendingWritesPinned
  <1>6. CP!Increasing(outbound) <=> Client!WrittenInOrder
    BY DEF CP!Increasing, Client!WrittenInOrder
  <1> QED
    BY <1>1, <1>2, <1>3, <1>4, <1>5, <1>6

\* Each step is one of the client's, or one of the server's, or of neither; and the
\* texts the server is told have been typed.
LEMMA Steps ==
    ASSUME IInv, [Next]_vars
    PROVE  /\ SP!AnyStep \/ UNCHANGED SP!vars
           /\ \/ CP!AnyStep /\ UNCHANGED <<serverVars, heard>>
              \/ UNCHANGED clientVars /\ heard' \in 0 .. Len(outbound)
  <1>1. CASE UNCHANGED vars
    BY <1>1 DEF vars, serverVars, SP!vars, SP!chanVars, SP!histVars, IInv
  <1>2. CASE ClientStep
    <2>1. UNCHANGED <<serverVars, heard>>
      BY <1>2 DEF ClientStep
    <2> QED
      BY <1>2, <2>1, ClientSteps DEF serverVars, SP!vars, SP!chanVars, SP!histVars
  <1>3. CASE upgrade
    BY <1>3, ServerSteps DEF upgrade, IInv
  <1>4. ASSUME NEW e \in BOOLEAN, accepted(e)
        PROVE  SP!AnyStep /\ UNCHANGED <<clientVars, heard>>
    BY <1>4, ServerSteps DEF accepted
  <1>5. CASE serverReads
    <2>1. typed \in 0 .. MaxTyped /\ outbound \in Seq(1 .. typed) /\ heard \in 0 .. Len(outbound)
      BY DEF IInv, CP!IInv, CP!TypeOK
    <2>2. heard < Len(outbound) /\ heard' = heard + 1 /\ UNCHANGED clientVars
      BY <1>5 DEF serverReads
    <2>3. outbound[heard + 1] \in 1 .. typed /\ heard' \in 0 .. Len(outbound)
      BY <2>1, <2>2
    <2>4. outbound[heard + 1] \in 1 .. MaxTyped /\ outbound[heard + 1] \in Nat
      BY <2>1, <2>3, ConnectionAssumption
    <2> QED
      BY <1>5, <2>2, <2>3, <2>4, ServerSteps DEF serverReads
  <1>6. CASE serverReadFails
    BY <1>6, ServerSteps DEF serverReadFails, IInv
  <1>7. ASSUME NEW e \in BOOLEAN, serverWritten(e)
        PROVE  SP!AnyStep /\ UNCHANGED <<clientVars, heard>>
    BY <1>7, ServerSteps DEF serverWritten
  <1>8. CASE Application
    BY <1>8, ServerSteps DEF Application, IInv
  <1> QED
    BY <1>1, <1>2, <1>3, <1>4, <1>5, <1>6, <1>7, <1>8 DEF Next, IInv

-----------------------------------------------------------------------------
\* What the server has written to the client only grows, one text at a time.
LEMMA DeliveredGrows ==
    ASSUME IInv, [Next]_vars
    PROVE  \/ delivered'[conn] = delivered[conn]
           \/ \E x \in OutText : delivered'[conn] = Append(delivered[conn], x)
  <1>1. /\ delivered \in [{conn} -> Seq(OutText)] /\ writeBuffer \in [{conn} -> Seq(OutText)]
        /\ sent[conn] = delivered[conn] \o writeBuffer[conn]
    BY DEF IInv, SP!IInv, SP!TypeOK, SP!FifoDelivery
  <1>2. CASE upgrade
    <2>1. sent[conn] = <<>> /\ delivered' = [delivered EXCEPT ![conn] = <<>>]
      BY <1>2 DEF upgrade, Server!Upgrade, IInv, NothingBeforeUpgrade
    <2>2. delivered[conn] = <<>>
      <3> DEFINE d == delivered[conn]
                 b == writeBuffer[conn]
      <3>1. d \in Seq(OutText) /\ b \in Seq(OutText) /\ d \o b = <<>>
        BY <1>1, <2>1
      <3> HIDE DEF d, b
      <3>2. Len(d) = 0
        BY <3>1, ConcatProperties
      <3>3. d = <<>>
        BY <3>1, <3>2
      <3> QED
        BY <3>3 DEF d
    <2> QED
      BY <1>1, <2>1, <2>2
  <1>3. ASSUME NEW e \in BOOLEAN, serverWritten(e)
        PROVE  \/ delivered'[conn] = delivered[conn]
               \/ \E x \in OutText : delivered'[conn] = Append(delivered[conn], x)
    <2>1. writing[conn] > 0
      BY <1>3 DEF serverWritten, Server!afterWrite
    <2>2. writeBuffer[conn] # <<>>
      BY <2>1 DEF IInv, SP!IInv, SP!BufferedWhileWriting
    <2>3. Head(writeBuffer[conn]) \in OutText
      BY <1>1, <2>2, HeadTailProperties
    <2>4. \/ UNCHANGED delivered
          \/ delivered' = [delivered EXCEPT ![conn] = Append(@, Head(writeBuffer[conn]))]
      BY <1>3 DEF serverWritten, Server!afterWrite
    <2> QED
      BY <1>1, <2>3, <2>4
  <1>4. CASE UNCHANGED delivered
    BY <1>4
  <1> QED
    BY <1>2, <1>3, <1>4 DEF Next, ClientStep, serverVars, vars, accepted, Server!afterAccept, serverReads,
       serverReadFails, Server!afterRead, Application, Server!send, Server!Server_disconnect,
       Server!receive, Server!destroy, Server!histVars

\* Every step keeps the invariant.
LEMMA StepIInv == IInv /\ [Next]_vars => IInv'
  <1> SUFFICES ASSUME IInv, [Next]_vars PROVE IInv'
    OBVIOUS
  <1>1. SP!IInv' /\ SP!FifoDelivery' /\ SP!NoEmptySent'
    <2>1. SP!AnyStep \/ UNCHANGED SP!vars
      BY Steps
    <2>2. SP!IInv' 
      BY <2>1, SP!StepIInv, ServerAssumption DEF IInv
    <2>3. SP!FifoDelivery' 
      BY <2>1, SP!StepFifo, ServerAssumption DEF IInv
    <2>4. SP!NoEmptySent'
      BY <2>1, SP!StepNoEmptySent, ServerAssumption DEF IInv
    <2> QED
      BY <2>2, <2>3, <2>4
  <1>2. NothingBeforeUpgrade'
    <2>1. /\ lives \in [{conn} -> Nat] /\ sent \in [{conn} -> Seq(OutText)]
          /\ lives[conn] = 0 => conn \notin accepting \cup channels /\ sent[conn] = <<>>
      BY DEF IInv, NothingBeforeUpgrade, SP!IInv, SP!TypeOK
    <2>2. CASE upgrade
      BY <2>1, <2>2 DEF upgrade, Server!Upgrade, NothingBeforeUpgrade
    <2>3. ASSUME NEW e \in BOOLEAN, accepted(e) PROVE NothingBeforeUpgrade'
      BY <2>1, <2>3 DEF accepted, Server!afterAccept, Server!histVars, NothingBeforeUpgrade
    <2>4. ASSUME NEW t \in OutText, Server!send(conn, t) PROVE NothingBeforeUpgrade'
      BY <2>1, <2>4 DEF Server!send, NothingBeforeUpgrade
    <2>5. ASSUME accepting' \subseteq accepting, channels' \subseteq channels, UNCHANGED <<lives, sent>>
          PROVE  NothingBeforeUpgrade'
      BY <2>1, <2>5 DEF NothingBeforeUpgrade
    <2>6. CASE UNCHANGED serverVars
      BY <2>5, <2>6 DEF serverVars
    <2>7. CASE serverReads \/ serverReadFails
      BY <2>5, <2>7 DEF serverReads, serverReadFails, Server!afterRead, Server!onError, Server!disconnect, Server!histVars
    <2>8. ASSUME NEW e \in BOOLEAN, serverWritten(e) PROVE NothingBeforeUpgrade'
      BY <2>5, <2>8 DEF serverWritten, Server!afterWrite, Server!onError, Server!disconnect
    <2>9. CASE Server!Server_disconnect(conn) \/ Server!receive \/ Server!destroy
      BY <2>5, <2>9 DEF Server!Server_disconnect, Server!disconnect, Server!receive, Server!destroy,
         Server!chanVars, Server!histVars
    <2> QED
      BY <2>2, <2>3, <2>4, <2>6, <2>7, <2>8, <2>9 DEF Next, ClientStep, Application, vars
  <1>3. delivered[conn] \in Seq(OutText) /\ \A i \in DOMAIN delivered[conn] : delivered[conn][i] # Empty
    <2>1. delivered[conn] \in Seq(OutText)
      BY DEF IInv, SP!IInv, SP!TypeOK
    <2> QED
      BY <2>1, SP!NothingEmpty, ServerAssumption DEF IInv
  <1>4. CASE CP!AnyStep /\ UNCHANGED <<serverVars, heard>>
    <2>1. UNCHANGED delivered[conn]
      BY <1>4 DEF serverVars
    <2>2. CP!IInv'
      BY <1>3, <1>4, <2>1, CP!StepIInv, ConnectionAssumption DEF IInv
    <2>3. CP!ShownIsTaken'
      BY <1>3, <1>4, <2>1, CP!StepShown DEF IInv, CP!IInv
    <2>4. heard' \in 0 .. Len(outbound')
      <3>1. heard' = heard /\ heard \in 0 .. Len(outbound)
        BY <1>4 DEF IInv
      <3>2. Len(outbound) \in Nat /\ Len(outbound') \in Nat /\ Len(outbound) <= Len(outbound')
        BY <1>4, CP!OutboundGrows, ConnectionAssumption DEF IInv, CP!IInv
      <3> QED
        BY <3>1, <3>2
    <2> QED
      BY <1>1, <1>2, <2>2, <2>3, <2>4 DEF IInv
  <1>5. CASE UNCHANGED clientVars /\ heard' \in 0 .. Len(outbound)
    <2>1. taken \in 0 .. Len(delivered[conn])
      BY DEF IInv, CP!IInv, CP!TypeOK
    <2>2. /\ taken \in 0 .. Len(delivered'[conn])
          /\ SubSeq(delivered'[conn], 1, taken) = SubSeq(delivered[conn], 1, taken)
      <3>1. CASE delivered'[conn] = delivered[conn]
        BY <2>1, <3>1
      <3>2. ASSUME NEW x \in OutText, delivered'[conn] = Append(delivered[conn], x)
            PROVE  /\ taken \in 0 .. Len(delivered'[conn])
                   /\ SubSeq(delivered'[conn], 1, taken) = SubSeq(delivered[conn], 1, taken)
        <4>1. Len(Append(delivered[conn], x)) = Len(delivered[conn]) + 1 /\ Len(delivered[conn]) \in Nat
          BY <1>3, AppendProperties
        <4>2. SubSeq(Append(delivered[conn], x), 1, taken) = SubSeq(delivered[conn], 1, taken)
          BY <1>3, <2>1, CP!Beginnings
        <4> QED
          BY <2>1, <3>2, <4>1, <4>2
      <3> QED
        BY <3>1, <3>2, DeliveredGrows
    <2>3. CP!IInv'
      BY <1>5, <2>2 DEF IInv, CP!IInv, CP!TypeOK, CP!BufferIsContiguous, CP!WritesInOrder, clientVars,
         CP!Contiguous, CP!Above, CP!Increasing, CP!Before
    <2>4. CP!ShownIsTaken'
      BY <1>5, <2>2 DEF IInv, CP!ShownIsTaken, clientVars
    <2> QED
      BY <1>1, <1>2, <1>5, <2>3, <2>4 DEF IInv, clientVars
  <1> QED
    BY <1>4, <1>5, Steps

\* It holds initially.
LEMMA InitIInv == Init => IInv
  <1> SUFFICES ASSUME Init PROVE IInv
    OBVIOUS
  <1>1. SP!Init /\ CP!Init /\ heard = 0
    BY Names DEF Init
  <1>2. SP!IInv /\ SP!FifoDelivery /\ SP!NoEmptySent
    BY <1>1, SP!InitIInv, SP!InitFifo, SP!InitNoEmptySent, ServerAssumption
  <1>3. delivered[conn] = <<>> /\ sent[conn] = <<>> /\ accepting = {} /\ channels = {}
    BY <1>1 DEF SP!Init
  <1>4. CP!IInv
    <2>1. delivered[conn] \in Seq(OutText)
      BY <1>3
    <2> QED
      BY <1>1, <2>1, CP!InitIInv, ConnectionAssumption
  <1>5. CP!ShownIsTaken
    <2>1. <<>> \o <<>> = SubSeq(<<>>, 1, 0)
      OBVIOUS
    <2> QED
      BY <1>1, <1>3, <2>1, Zenon DEF CP!Init, CP!ShownIsTaken
  <1>6. NothingBeforeUpgrade
    BY <1>3 DEF NothingBeforeUpgrade
  <1>7. heard \in 0 .. Len(outbound)
    BY <1>1 DEF CP!Init
  <1> QED
    BY <1>2, <1>4, <1>5, <1>6, <1>7 DEF IInv

\* The invariant holds of every reachable state of the two ends.
THEOREM Invariance == Spec => []IInv
  BY InitIInv, StepIInv, PTL DEF Spec

\* Every variable of both ends keeps its type.
THEOREM TypeCorrect == Spec => []TypeOK
  <1>1. IInv => TypeOK
    BY Names DEF IInv, SP!IInv, CP!IInv, TypeOK
  <1> QED
    BY <1>1, Invariance, PTL

\* The text a pending async_write of the client refers to is still in its buffer,
\* although the handler pops whatever is at the front (Client.cpp:150-165).
THEOREM WritesPinned == Spec => []PendingWritesPinned
  <1>1. IInv => PendingWritesPinned
    BY Names, CP!Pinned, ConnectionAssumption DEF IInv, PendingWritesPinned
  <1> QED
    BY <1>1, Invariance, PTL

\* What goes out of the client is in the order typed, each text at most once, though
\* overlapping writes may lose some (Client.cpp:150-165).
THEOREM OrderOfWrites == Spec => []WrittenInOrder
  <1>1. IInv => WrittenInOrder
    BY Names DEF IInv, CP!IInv, CP!WritesInOrder, WrittenInOrder
  <1> QED
    BY <1>1, Invariance, PTL

\* End to end, from Server::send to the window, the player is shown what was sent, in
\* order, and nothing else (Server.cpp:128-168, Client.cpp:96-112).
THEOREM EndToEndOrder == Spec => []ShownInOrder
  <1>1. IInv => ShownInOrder
    <2> SUFFICES ASSUME IInv PROVE ShownInOrder
      OBVIOUS
    <2> DEFINE d == delivered[conn]
               b == writeBuffer[conn]
    <2>1. /\ d \in Seq(OutText) /\ b \in Seq(OutText) /\ sent[conn] = d \o b
          /\ taken \in 0 .. Len(d)
          /\ displayed \o incomingMessage = SubSeq(d, 1, taken)
      BY DEF IInv, SP!IInv, SP!TypeOK, SP!FifoDelivery, CP!IInv, CP!TypeOK, CP!ShownIsTaken
    <2> HIDE DEF d, b
    <2>2. IsPrefix(SubSeq(d, 1, taken), d \o b)
      BY <2>1 DEF IsPrefix
    <2> QED
      BY <2>1, <2>2 DEF ShownInOrder
  <1> QED
    BY <1>1, Invariance, PTL
=============================================================================

--------------------------- MODULE NetworkServer ---------------------------
(***************************************************************************)
(* The single threaded web socket server of lib/networking/src/Server.cpp: *)
(* the Channel objects, the completion handlers that asio runs from        *)
(* Server::update, and the calls of the Server class.                      *)
(*                                                                         *)
(* A handler or a call runs to its end before another one starts, so each  *)
(* is one action.  Their order is up to asio and to the application: this  *)
(* module lets any application call the server in any order.               *)
(*                                                                         *)
(* A Connection is the address of its Channel object (Server.cpp:72).  The *)
(* object lives while the map of channels or a pending operation holds a   *)
(* shared_ptr to it; afterwards the allocator may give the same address to *)
(* a new Channel.                                                          *)
(***************************************************************************)
EXTENDS Naturals, Sequences

CONSTANTS
    Connection,     \* addresses the allocator hands out for Channel objects
    InText,         \* texts clients send
    OutText,        \* texts the application sends
    Empty,          \* the empty text among them
    Stalled,        \* connections whose peer may stop reading or answering
    MaxLives,       \* bound: Channel objects per address
    MaxSends,       \* bound: texts accepted for one Channel object
    MaxIncoming     \* bound: texts waiting for Server::receive

ASSUME ConstantsAssumption ==
    /\ Empty \in OutText
    /\ Stalled \subseteq Connection
    /\ MaxLives \in Nat /\ MaxSends \in Nat /\ MaxIncoming \in Nat

VARIABLES
    running,        \* the ServerImpl object exists
    channels,       \* ServerImpl::channels, the registered channels
    incoming,       \* ServerImpl::incoming
    disconnected,   \* the channels whose flag `disconnected` is set
    writeBuffer,    \* Channel::writeBuffer
    accepting,      \* the channels with a pending websocket.async_accept
    reading,        \* the channels with a pending websocket.async_read
    writing,        \* per channel, the pending websocket.async_write's
    \* History variables:
    lives,          \* per address, how many Channel objects it has held
    sent,           \* per channel, the texts Channel::send has accepted
    delivered       \* per channel, the texts whose async_write succeeded

chanVars == <<disconnected, writeBuffer, accepting, reading, writing>>
histVars == <<lives, sent, delivered>>
vars == <<running, channels, incoming, chanVars, histVars>>

Message == [connection : Connection, text : InText, life : Nat]

\* The type of every variable; `writing` counts, so that two overlapping
\* writes on one socket are a state the model can reach.
TypeOK ==
    /\ running \in BOOLEAN
    /\ channels \in SUBSET Connection
    /\ incoming \in Seq(Message)
    /\ disconnected \in SUBSET Connection
    /\ writeBuffer \in [Connection -> Seq(OutText)]
    /\ accepting \in SUBSET Connection
    /\ reading \in SUBSET Connection
    /\ writing \in [Connection -> Nat]
    /\ lives \in [Connection -> Nat]
    /\ sent \in [Connection -> Seq(OutText)]
    /\ delivered \in [Connection -> Seq(OutText)]

Init ==
    /\ running = TRUE
    /\ channels = {}
    /\ incoming = <<>>
    /\ disconnected = {}
    /\ writeBuffer = [c \in Connection |-> <<>>]
    /\ accepting = {}
    /\ reading = {}
    /\ writing = [c \in Connection |-> 0]
    /\ lives = [c \in Connection |-> 0]
    /\ sent = [c \in Connection |-> <<>>]
    /\ delivered = [c \in Connection |-> <<>>]

-----------------------------------------------------------------------------
(***************************************************************************)
(* The pieces of the handlers.  An operator named f_Something is f with a  *)
(* plausible slip in it; it is not part of the specification and serves to *)
(* show which property would notice the slip.                              *)
(***************************************************************************)

\* Some shared_ptr still owns the Channel object at address c: the one in the
\* map, or the `self` captured by the handler of a pending operation.
Live_NoSelfInWrite(c) == c \in channels \cup accepting \cup reading
Live(c) == c \in channels \cup accepting \cup reading \/ writing[c] > 0

Channel_disconnect(c) == disconnected' = disconnected \cup {c}

\* Server::disconnect.  The application's handleDisconnect runs exactly when c
\* leaves `channels`.
disconnect_NotErased(c) ==
    IF c \in channels
    THEN Channel_disconnect(c) /\ UNCHANGED channels
    ELSE UNCHANGED <<channels, disconnected>>

disconnect(c) ==
    IF c \in channels
    THEN Channel_disconnect(c) /\ channels' = channels \ {c}
    ELSE UNCHANGED <<channels, disconnected>>

\* A read or a write failed: disconnect, unless that is why it failed.
onError_Ignored(c) == UNCHANGED <<channels, disconnected>>

onError(c) ==
    IF c \in disconnected THEN UNCHANGED <<channels, disconnected>> ELSE disconnect(c)

\* The texts Channel::send returns early on.  (An empty frame makes the client stop
\* reading for good, lib/networking/src/Client.cpp:101.)
Dropped_Nothing(t) == FALSE
Dropped(t) == t = Empty

queued_AtFront(c, t) == <<t>> \o writeBuffer[c]
queued(c, t) == Append(writeBuffer[c], t)

\* A write is already under way and its handler will go on to this text.
Chained_Never(buffer) == FALSE
Chained(buffer) == 1 < Len(buffer)

Channel_send(c, t) ==
    IF Dropped(t)
    THEN UNCHANGED <<writeBuffer, writing, sent>>
    ELSE /\ writeBuffer' = [writeBuffer EXCEPT ![c] = queued(c, t)]
         /\ sent' = [sent EXCEPT ![c] = Append(@, t)]
         /\ writing' = [writing EXCEPT ![c] = IF Chained(queued(c, t)) THEN @ ELSE @ + 1]

\* The pending writes once afterWrite has popped the text just written: its
\* own is over, and the next one starts if there is more to write.
continueSending_Stops(c) == writing[c] - 1
continueSending_CountsTwice(c) == IF Tail(writeBuffer[c]) = <<>> THEN writing[c] - 2 ELSE writing[c]
continueSending(c) == IF Tail(writeBuffer[c]) = <<>> THEN writing[c] - 1 ELSE writing[c]

\* The constructor of Channel, at the address c.
Channel(c) ==
    /\ disconnected' = disconnected \ {c}
    /\ writeBuffer' = [writeBuffer EXCEPT ![c] = <<>>]

\* ServerImpl::registerChannel; the application's handleConnect runs here.
registerChannel(c) == channels' = channels \cup {c}

\* Channel::readMessage, up to the start of async_read.
readMessage_Forgotten(c) == UNCHANGED reading
readMessage(c) == reading' = reading \cup {c}

-----------------------------------------------------------------------------
(***************************************************************************)
(* The handlers.                                                           *)
(***************************************************************************)

\* HTTPSession::start, the branch for a websocket upgrade: make_shared<Channel>
\* takes an address no object occupies, and Channel::start begins async_accept.
Upgrade(c) ==
    /\ running
    /\ ~Live(c)
    /\ Channel(c)
    /\ accepting' = accepting \cup {c}
    /\ lives' = [lives EXCEPT ![c] = @ + 1]
    /\ sent' = [sent EXCEPT ![c] = <<>>]
    /\ delivered' = [delivered EXCEPT ![c] = <<>>]
    /\ UNCHANGED <<running, channels, incoming, reading, writing>>

\* The handler of async_accept, in Channel::start.
afterAccept(c, errorCode) ==
    /\ running
    /\ c \in accepting
    /\ accepting' = accepting \ {c}
    /\ IF errorCode
       THEN disconnect(c) /\ UNCHANGED reading
       ELSE registerChannel(c) /\ readMessage(c) /\ UNCHANGED disconnected
    /\ UNCHANGED <<running, incoming, writeBuffer, writing, histVars>>

\* The handler of async_read, in Channel::readMessage.  A read that has already
\* succeeded when its channel is disconnected still yields its text.
afterRead(c, errorCode, text) ==
    /\ running
    /\ c \in reading
    /\ IF errorCode
       THEN reading' = reading \ {c} /\ onError(c) /\ UNCHANGED incoming
       ELSE /\ incoming' = Append(incoming, [connection |-> c, text |-> text, life |-> lives[c]])
            /\ readMessage(c)
            /\ UNCHANGED <<channels, disconnected>>
    /\ UNCHANGED <<running, accepting, writeBuffer, writing, histVars>>

\* Channel::afterWrite.  A failed write leaves its text in the buffer.
afterWrite(c, errorCode) ==
    /\ running
    /\ writing[c] > 0
    /\ IF errorCode
       THEN /\ writing' = [writing EXCEPT ![c] = @ - 1]
            /\ onError(c)
            /\ UNCHANGED <<writeBuffer, delivered>>
       ELSE /\ writeBuffer' = [writeBuffer EXCEPT ![c] = Tail(@)]
            /\ delivered' = [delivered EXCEPT ![c] = Append(@, Head(writeBuffer[c]))]
            /\ writing' = [writing EXCEPT ![c] = continueSending(c)]
            /\ UNCHANGED <<channels, disconnected>>
    /\ UNCHANGED <<running, incoming, accepting, reading, lives, sent>>

-----------------------------------------------------------------------------
(***************************************************************************)
(* The calls of the Server class.                                          *)
(***************************************************************************)

\* Server::send takes a list of messages; this is its loop body for one.
send(c, t) ==
    /\ running
    /\ IF c \in channels THEN Channel_send(c, t) ELSE UNCHANGED <<writeBuffer, writing, sent>>
    /\ UNCHANGED <<running, channels, incoming, disconnected, accepting, reading, lives, delivered>>

Server_disconnect(c) ==
    /\ running
    /\ disconnect(c)
    /\ UNCHANGED <<running, incoming, writeBuffer, accepting, reading, writing, histVars>>

\* Hands `incoming` to the caller and leaves an empty one.
receive ==
    /\ running
    /\ incoming' = <<>>
    /\ UNCHANGED <<running, channels, chanVars, histVars>>

\* ServerImplDeleter: pending handlers are destroyed unrun, and the channels
\* with them; handleDisconnect is not called.
destroy ==
    /\ running
    /\ running' = FALSE
    /\ channels' = {}
    /\ incoming' = <<>>
    /\ accepting' = {}
    /\ reading' = {}
    /\ writing' = [c \in Connection |-> 0]
    /\ UNCHANGED <<disconnected, writeBuffer, histVars>>

-----------------------------------------------------------------------------
Next ==
    \/ \E c \in Connection : lives[c] < MaxLives /\ Upgrade(c)
    \/ \E c \in Connection, errorCode \in BOOLEAN : afterAccept(c, errorCode)
    \/ \E c \in Connection, errorCode \in BOOLEAN, text \in InText :
          /\ errorCode \/ Len(incoming) < MaxIncoming
          /\ afterRead(c, errorCode, text)
    \/ \E c \in Connection, errorCode \in BOOLEAN : afterWrite(c, errorCode)
    \/ \E c \in Connection, t \in OutText : Len(sent[c]) < MaxSends /\ send(c, t)
    \/ \E c \in Connection : Server_disconnect(c)
    \/ receive
    \/ destroy

Spec == Init /\ [][Next]_vars

(***************************************************************************)
(* The application keeps calling Server::update, so a handler whose        *)
(* operation has completed does run.  That a handshake, a write, or the    *)
(* read on a closed websocket does complete is the peer's and the kernel's *)
(* doing (the server sets no timeout on a websocket), and is assumed only  *)
(* of peers that are not Stalled.                                          *)
(***************************************************************************)
Fairness ==
    \A c \in Connection \ Stalled :
        /\ WF_vars(\E errorCode \in BOOLEAN : afterAccept(c, errorCode))
        /\ WF_vars(\E errorCode \in BOOLEAN : afterWrite(c, errorCode))
        /\ WF_vars(\E text \in InText : c \in disconnected /\ afterRead(c, TRUE, text))

FairSpec == Spec /\ Fairness

-----------------------------------------------------------------------------
(***************************************************************************)
(* Properties.                                                             *)
(***************************************************************************)

\* A websocket has at most one async_write under way: the check of the buffer's
\* size in Channel::send and the chaining in afterWrite never overlap two writes
\* on one stream (beast forbids it).
OneWriteAtATime == \A c \in Connection : writing[c] <= 1

\* The text a pending async_write refers to, the first one sent and not yet
\* delivered, stays at the front of the buffer until its handler runs: afterWrite
\* pops the text that was written and never an empty deque, and the memory handed to
\* asio is not freed under it when the channel is disconnected (Channel::afterWrite).
BufferPinned ==
    \A c \in Connection : writing[c] > 0 =>
        /\ writeBuffer[c] # <<>>
        /\ Head(writeBuffer[c]) = sent[c][Len(delivered[c]) + 1]

\* A registered channel never holds text that no write is going to pick up:
\* every interleaving of Channel::send and afterWrite, failures included, either
\* keeps the chain of writes going or unregisters the channel.
NoStrandedOutput ==
    \A c \in channels : writeBuffer[c] # <<>> => writing[c] > 0

\* What has been written to a socket, followed by what is still buffered, is
\* exactly what was sent to that Channel object: nothing is lost, repeated,
\* reordered or taken over from an earlier object at the same address.
FifoDelivery ==
    \A c \in Connection : sent[c] = delivered[c] \o writeBuffer[c]

\* Every registered channel has a read pending, so that its peer's messages
\* and its peer's departure are noticed; and it is not one that was disconnected.
RegisteredIsReading ==
    \A c \in channels : c \in reading /\ c \notin disconnected \cup accepting

\* A disconnected channel's pending operations all end, so the object is freed
\* and its address becomes available again.
ChannelReclaimed ==
    \A c \in Connection \ Stalled : (c \in disconnected /\ Live(c)) ~> ~Live(c)

\* The library implements the promise of module Delivery: in-order delivery per
\* connection, and eventual delivery or departure for peers that are not stalled,
\* whatever the stalled ones do.
D == INSTANCE Delivery WITH
        Text <- OutText \ {Empty},
        Responsive <- Connection \ Stalled,
        members <- channels,
        posted <- sent

ImplementsDelivery == D!Spec
=============================================================================

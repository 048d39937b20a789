--------------------------- MODULE NetworkClient ---------------------------
(***************************************************************************)
(* A player who has joined a lobby: the Client class of                    *)
(* lib/networking/src/Client.cpp and the loop that uses it,                *)
(* executeJoinLobby of src/main.cpp (tools/chatclient has the same loop).  *)
(*                                                                         *)
(* One thread runs everything.  In an iteration it runs the handlers whose *)
(* operations have completed (pc = "update"), shows what they have read,   *)
(* and lets the user type ("window").                                      *)
(*                                                                         *)
(* The texts the user sends are numbered in the order they are typed, and  *)
(* a text is its number.                                                   *)
(***************************************************************************)
EXTENDS Naturals, Sequences
LOCAL INSTANCE SequencesExt

CONSTANTS
    Frame,          \* what the server may write to the socket
    Empty,          \* the empty frame among them
    MaxTyped        \* bound: texts the user types

VARIABLES
    inbound,        \* the frames the server has written, all of them in order
    \* ClientImpl
    isClosed,
    incomingMessage,
    writeBuffer,
    \* the operations of its websocket
    stage,          \* "connecting", "handshaking", "open" or "failed"
    reading,        \* an async_read is pending
    writing,        \* the async_write's of an open websocket, at most one of them
                    \* under way and another suspended behind it
    refused,        \* the number of async_write's on one that was not open
    \* executeJoinLobby
    pc,             \* "start", "update", "window", "ended" or "aborted"
    displayed,      \* what the window has shown
    \* history variables
    typed,          \* how many texts have been typed
    taken,          \* how many frames of `inbound` have been read
    outbound        \* the texts written to the socket, in order

implVars == <<isClosed, incomingMessage, writeBuffer>>
opVars == <<stage, reading, writing, refused>>
histVars == <<typed, taken, outbound>>
clientVars == <<implVars, opVars, pc, displayed, histVars>>

TypeOK ==
    /\ isClosed \in BOOLEAN
    /\ incomingMessage \in Seq(Frame)
    /\ writeBuffer \in Seq(1 .. typed)
    /\ stage \in {"connecting", "handshaking", "open", "failed"}
    /\ reading \in BOOLEAN
    /\ writing \in Seq(1 .. typed) /\ Len(writing) <= 2
    /\ refused \in 0 .. typed
    /\ pc \in {"start", "update", "window", "ended", "aborted"}
    /\ displayed \in Seq(Frame)
    /\ typed \in 0 .. MaxTyped
    /\ taken \in 0 .. Len(inbound)
    /\ outbound \in Seq(1 .. typed)

Init ==
    /\ isClosed = FALSE
    /\ incomingMessage = <<>>
    /\ writeBuffer = <<>>
    /\ stage = "connecting"
    /\ reading = FALSE
    /\ writing = <<>>
    /\ refused = 0
    /\ pc = "start"
    /\ displayed = <<>>
    /\ typed = 0
    /\ taken = 0
    /\ outbound = <<>>

-----------------------------------------------------------------------------
(***************************************************************************)
(* The constructor, and the handlers, which Client::update runs.  An       *)
(* operator named f_Something is f with a plausible slip in it and not     *)
(* part of the specification.                                              *)
(***************************************************************************)

disconnect == isClosed' = TRUE

\* The constructor starts to connect, unless the port the invite code gives cannot
\* be resolved, which throws; nothing catches that.
construct(resolved) ==
    /\ pc = "start"
    /\ pc' = IF resolved THEN "update" ELSE "aborted"
    /\ UNCHANGED <<implVars, opVars, displayed, histVars>>

\* The handler of async_connect.  Failure is reported to nobody.
afterConnect(errorCode) ==
    /\ pc = "update"
    /\ stage = "connecting"
    /\ stage' = IF errorCode THEN "failed" ELSE "handshaking"
    /\ UNCHANGED <<implVars, reading, writing, refused, pc, displayed, histVars>>

\* The handler of async_handshake.
afterHandshake(errorCode) ==
    /\ pc = "update"
    /\ stage = "handshaking"
    /\ stage' = IF errorCode THEN "failed" ELSE "open"
    /\ reading' = ~errorCode
    /\ UNCHANGED <<implVars, writing, refused, pc, displayed, histVars>>

\* What incomingMessage holds once a frame has been read.
collected(frame) == IF frame = Empty THEN incomingMessage ELSE Append(incomingMessage, frame)

\* The handler of async_read.  A frame without bytes is the last one read.
afterRead(errorCode) ==
    /\ pc = "update"
    /\ reading
    /\ IF errorCode
       THEN disconnect /\ reading' = FALSE /\ UNCHANGED <<incomingMessage, taken>>
       ELSE LET frame == inbound[taken + 1] IN
            /\ taken < Len(inbound)
            /\ taken' = taken + 1
            /\ incomingMessage' = collected(frame)
            /\ reading' = (frame # Empty)
            /\ UNCHANGED isClosed
    /\ UNCHANGED <<writeBuffer, stage, writing, refused, pc, displayed, typed, outbound>>

\* The handler of async_write pops the front of the buffer, whichever text it is
\* that was written.  A suspended write then gets its turn.
pop_front_Back == Front(writeBuffer)
pop_front == Tail(writeBuffer)

afterWrite(errorCode) ==
    /\ pc = "update"
    /\ writing # <<>>
    /\ writing' = Tail(writing)
    /\ IF errorCode
       THEN disconnect /\ UNCHANGED <<writeBuffer, outbound>>
       ELSE /\ outbound' = Append(outbound, Head(writing))
            /\ writeBuffer' = pop_front
            /\ UNCHANGED isClosed
    /\ UNCHANGED <<incomingMessage, stage, reading, refused, pc, displayed, typed, taken>>

\* The same handler, of a write on a websocket that was not open.
afterRefusedWrite ==
    /\ pc = "update"
    /\ refused > 0
    /\ refused' = refused - 1
    /\ disconnect
    /\ UNCHANGED <<incomingMessage, writeBuffer, stage, reading, writing, pc, displayed, histVars>>

-----------------------------------------------------------------------------
(***************************************************************************)
(* The loop of executeJoinLobby.                                           *)
(***************************************************************************)

\* Client::update returns, and Client::receive hands over what was read.
receive_NotCleared == UNCHANGED incomingMessage
receive == incomingMessage' = <<>>

updateReturns ==
    /\ pc = "update"
    /\ pc' = "window"
    /\ displayed' = displayed \o incomingMessage
    /\ receive
    /\ UNCHANGED <<isClosed, writeBuffer, opVars, histVars>>

\* It throws, and the loop is left.
updateThrows ==
    /\ pc = "update"
    /\ pc' = "ended"
    /\ UNCHANGED <<implVars, opVars, displayed, histVars>>

\* The loop's condition; the client is destroyed when the loop ends.
continued == IF isClosed THEN "ended" ELSE "update"

\* ChatWindow::update without a text: no key, another key, or the enter key on an
\* empty field, where Client::send returns early.
nothingTyped ==
    /\ pc = "window"
    /\ pc' = continued
    /\ UNCHANGED <<implVars, opVars, displayed, histVars>>

\* "exit" or "quit", neither of which is sent.
exitTyped ==
    /\ pc = "window"
    /\ pc' = "ended"
    /\ UNCHANGED <<implVars, opVars, displayed, histVars>>

\* The texts referred to by the writes of an open websocket once there is a further
\* one.  It is suspended behind the one under way; one already suspended there is
\* overwritten, and never written.
written_Reordered(text) ==
    IF Len(writing) = 2 THEN <<Head(writing), text>> ELSE <<text>> \o writing
written_Unbounded(text) == Append(writing, text)
written(text) == IF Len(writing) = 2 THEN <<Head(writing), text>> ELSE Append(writing, text)

\* Client::send of a text that is not empty.  Starting a write while another is
\* under way is what beast forbids: a build that keeps its assertions aborts.
send ==
    LET text == typed + 1 IN
    /\ pc = "window"
    /\ typed < MaxTyped
    /\ typed' = text
    /\ writeBuffer' = Append(writeBuffer, text)
    /\ \/ /\ writing = <<>> /\ (stage # "open" \/ isClosed)
          /\ refused' = refused + 1
          /\ pc' = continued
          /\ UNCHANGED writing
       \/ /\ writing # <<>> \/ (stage = "open" /\ ~isClosed)
          /\ writing' = written(text)
          /\ pc' = continued
          /\ UNCHANGED refused
       \/ /\ writing # <<>>
          /\ pc' = "aborted"
          /\ UNCHANGED <<writing, refused>>
    /\ UNCHANGED <<isClosed, incomingMessage, stage, reading, displayed, taken, outbound>>

-----------------------------------------------------------------------------
executeJoinLobby == updateReturns \/ updateThrows \/ nothingTyped \/ exitTyped \/ send

\* The process is gone, and its socket closed.
Gone == pc \in {"ended", "aborted"}

-----------------------------------------------------------------------------
(***************************************************************************)
(* Properties.                                                             *)
(***************************************************************************)

\* However writes overlap, fail or are lost, the text a pending async_write refers
\* to is still in the buffer: pop_front never frees memory in use
\* (the handler in Client::send).
PendingWritesPinned ==
    \A i \in DOMAIN writing : \E j \in DOMAIN writeBuffer : writeBuffer[j] = writing[i]

\* What goes out is what was typed, each text at most once and in the order they
\* were typed, though some may be lost (Client::send).
WrittenInOrder ==
    \A i, j \in DOMAIN outbound : i < j => outbound[i] < outbound[j]
=============================================================================

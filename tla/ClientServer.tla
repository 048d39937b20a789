---------------------------- MODULE ClientServer ----------------------------
(***************************************************************************)
(* A client (NetworkClient) and the server library (NetworkServer) on the  *)
(* two ends of one connection.  The server's application may send any      *)
(* texts, disconnect the client and stop the server at any time.           *)
(*                                                                         *)
(* The connection itself is external: what is written to one end is read   *)
(* from the other in order, and any operation on it may fail at any time;  *)
(* a client that is gone, and a channel that is closed, make the reads of  *)
(* the other end fail in the end.                                          *)
(***************************************************************************)
EXTENDS Naturals, Sequences
LOCAL INSTANCE SequencesExt

CONSTANTS conn, OutText, Empty, MaxSends, MaxTyped

ASSUME ConnectionAssumption ==
    Empty \in OutText /\ MaxSends \in Nat /\ MaxTyped \in Nat

VARIABLES
    \* the server (see NetworkServer)
    running, channels, incoming, disconnected, writeBuffer, accepting, reading,
    writing, lives, sent, delivered,
    \* the client (see NetworkClient), with a prefix where the names are the same
    isClosed, incomingMessage, c_writeBuffer, stage, c_reading, c_writing, refused,
    pc, displayed, typed, taken, outbound,
    heard           \* how many of the texts of `outbound` the server has read

Server == INSTANCE NetworkServer WITH
             Connection <- {conn}, InText <- 1 .. MaxTyped, Stalled <- {},
             MaxLives <- 1, MaxIncoming <- MaxTyped

Client == INSTANCE NetworkClient WITH
             Frame <- OutText, inbound <- delivered[conn],
             writeBuffer <- c_writeBuffer, reading <- c_reading, writing <- c_writing

serverVars == <<running, channels, incoming, disconnected, writeBuffer, accepting, reading,
                writing, lives, sent, delivered>>
clientVars == <<isClosed, incomingMessage, c_writeBuffer, stage, c_reading, c_writing, refused,
                pc, displayed, typed, taken, outbound>>
vars == <<serverVars, clientVars, heard>>

TypeOK == Server!TypeOK /\ Client!TypeOK /\ heard \in 0 .. Len(outbound)

Init == Server!Init /\ Client!Init /\ heard = 0

-----------------------------------------------------------------------------
(***************************************************************************)
(* Which operations may complete.                                          *)
(***************************************************************************)

\* The server has begun to accept the client, and has not failed to.
Accepted == conn \in accepting \cup channels \cup disconnected

\* The server's end has been closed.
ServerClosed == ~running \/ conn \in disconnected

\* All the client does; its handshake is answered by the server's accept.
ClientStep ==
    /\ \/ \E resolved \in BOOLEAN : Client!construct(resolved)
       \/ \E errorCode \in BOOLEAN : Client!afterConnect(errorCode)
       \/ \E errorCode \in BOOLEAN : (errorCode \/ Accepted) /\ Client!afterHandshake(errorCode)
       \/ \E errorCode \in BOOLEAN : Client!afterRead(errorCode)
       \/ \E errorCode \in BOOLEAN : Client!afterWrite(errorCode)
       \/ Client!afterRefusedWrite
       \/ Client!executeJoinLobby
    /\ UNCHANGED <<serverVars, heard>>

\* The server gets the client's request.
upgrade ==
    /\ stage = "handshaking"
    /\ lives[conn] = 0
    /\ Server!Upgrade(conn)
    /\ UNCHANGED <<clientVars, heard>>

\* A handshake the client has seen succeed does not fail at the server.
accepted(errorCode) ==
    /\ errorCode => stage # "open"
    /\ Server!afterAccept(conn, errorCode)
    /\ UNCHANGED <<clientVars, heard>>

\* The server reads the next text the client has written.
serverReads ==
    /\ heard < Len(outbound)
    /\ heard' = heard + 1
    /\ Server!afterRead(conn, FALSE, outbound[heard + 1])
    /\ UNCHANGED clientVars

serverReadFails ==
    /\ Server!afterRead(conn, TRUE, 1)
    /\ UNCHANGED <<clientVars, heard>>

serverWritten(errorCode) ==
    /\ Server!afterWrite(conn, errorCode)
    /\ UNCHANGED <<clientVars, heard>>

Application ==
    /\ \/ \E t \in OutText : Len(sent[conn]) < MaxSends /\ Server!send(conn, t)
       \/ Server!Server_disconnect(conn)
       \/ Server!receive
       \/ Server!destroy
    /\ UNCHANGED <<clientVars, heard>>

Next ==
    \/ ClientStep
    \/ upgrade
    \/ \E errorCode \in BOOLEAN : accepted(errorCode)
    \/ serverReads
    \/ serverReadFails
    \/ \E errorCode \in BOOLEAN : serverWritten(errorCode)
    \/ Application

Spec == Init /\ [][Next]_vars

-----------------------------------------------------------------------------
(***************************************************************************)
(* Both applications keep calling update.  The client's handlers run only  *)
(* in its update, which runs all whose operation has completed: strong     *)
(* fairness.  Nothing is assumed of connecting, of the handshake, of the   *)
(* user or of the server's application.                                    *)
(***************************************************************************)
Lift(A) == A /\ UNCHANGED <<serverVars, heard>>

Fairness ==
    /\ WF_vars(Lift(Client!updateReturns \/ Client!updateThrows))
    /\ WF_vars(Lift(Client!nothingTyped \/ Client!exitTyped \/ Client!send))
    /\ SF_vars(Lift(\E errorCode \in BOOLEAN :
                      (errorCode => ServerClosed) /\ Client!afterRead(errorCode)))
    /\ SF_vars(Lift(Client!afterRefusedWrite))
    /\ WF_vars(\E errorCode \in BOOLEAN : accepted(errorCode))
    /\ WF_vars(\E errorCode \in BOOLEAN : serverWritten(errorCode))
    /\ WF_vars((Client!Gone \/ conn \in disconnected) /\ serverReadFails)

FairSpec == Spec /\ Fairness

-----------------------------------------------------------------------------
(***************************************************************************)
(* Properties.                                                             *)
(***************************************************************************)

\* End to end, what the player has been shown is the beginning of what was sent to
\* it, in order, with nothing lost, repeated or made up on the way: through the
\* server's write buffer, the connection, incomingMessage and the window.
ShownInOrder == IsPrefix(displayed \o incomingMessage, sent[conn])

\* See NetworkClient: the memory of overlapping writes, and the order they go out in.
PendingWritesPinned == Client!PendingWritesPinned
WrittenInOrder == Client!WrittenInOrder

\* A text sent to a registered channel is shown to the player, unless the server
\* disconnects, the connection breaks or the client's program ends.
SentIsShown ==
    \A n \in 1 .. MaxSends :
        (conn \in channels /\ stage = "open" /\ Len(sent[conn]) >= n)
            ~> (Len(displayed) >= n \/ conn \notin channels \/ isClosed \/ Client!Gone)

\* A client that was connected notices that the server is gone, and its loop ends:
\* its chain of reads is not cut short before (Client.cpp:101).
ServerGoneIsNoticed == (stage = "open" /\ ServerClosed) ~> Client!Gone

\* The server notices that a client is gone, and unregisters its channel.
ClientGoneIsNoticed == Client!Gone ~> conn \notin channels
=============================================================================

----------------------------- MODULE GameServer -----------------------------
(***************************************************************************)
(* The server program: the loop of GameServer::run (src/GameServer), its   *)
(* connect and disconnect callbacks, and the commands of processMessages,  *)
(* on top of the networking library (module NetworkServer).                *)
(*                                                                         *)
(* One thread runs everything.  In an iteration it runs the handlers whose *)
(* operations have completed (pc = "update"), takes the messages they read *)
(* and works through them ("process"), and sends the text this produced to *)
(* every client ("send").  A quit makes it wait for the peer of the        *)
(* channel it closes ("closing").                                          *)
(*                                                                         *)
(* A text is a record whose kind is the branch of processMessages it takes *)
(* and whose arg is what follows the command, or the chat text itself.     *)
(***************************************************************************)
EXTENDS Naturals, Sequences, FiniteSets
LOCAL INSTANCE SequencesExt

CONSTANTS
    Connection,     \* addresses the allocator hands out for Channel objects
    Stalled,        \* connections whose peer may stop reading or answering
    Text,           \* the texts clients send
    Game,           \* what the loaded game does: "invalid", "finishes" or "throws"
    MaxLives,       \* bound: Channel objects per address
    MaxReads        \* bound: messages read in a behaviour

Kind == {"quit", "shutdown", "empty", "nickname", "execute", "unknown", "chat"}

ASSUME GameServerAssumption ==
    /\ \A t \in Text : t.kind \in Kind
    /\ Game \in {"invalid", "finishes", "throws"}
    /\ Stalled \subseteq Connection
    /\ MaxLives \in Nat /\ MaxReads \in Nat

VARIABLES
    \* the networking library (see NetworkServer)
    running, channels, incoming, disconnected, writeBuffer, accepting, reading,
    writing, lives, sent, delivered,
    \* GameServer
    clients,        \* the connections, in the order they were registered
    users,          \* the User objects
    \* local variables of run, processMessages and Server::send
    pc, errorWhileUpdating, batch, result, quit, outgoing,
    \* history variables
    reads,          \* how many messages have been read
    history,        \* the non-empty logs built for sending, in order
    joined          \* per connection, Len(history) when it was registered

netVars == <<running, channels, incoming, disconnected, writeBuffer, accepting, reading,
             writing, lives, sent, delivered>>
appVars == <<clients, users, joined>>
loopVars == <<pc, errorWhileUpdating, batch, result, quit, outgoing>>
vars == <<netVars, appVars, loopVars, reads, history>>

-----------------------------------------------------------------------------
\* Names and lines of text, as values that can be told apart.
NoName == <<>>
to_string(id) == <<"id", id>>
line(kind, by, arg) == [kind |-> kind, by |-> by, arg |-> arg]

Name == {NoName} \cup {to_string(c) : c \in Connection} \cup {t.arg : t \in Text}
Line == [kind : {"chat", "renamed", "not found", "not loaded", "executed"}, by : Name, arg : Name]
Log == Seq(Line)

Net == INSTANCE NetworkServer WITH
          InText <- Text, OutText <- Log, Empty <- <<>>,
          MaxSends <- MaxReads, MaxIncoming <- MaxReads

User == [connection : Connection, nickname : Name]

TypeOK ==
    /\ Net!TypeOK
    /\ clients \in Seq(Connection)
    /\ users \in Seq(User)
    /\ pc \in {"update", "process", "closing", "send", "stopped", "crashed"}
    /\ errorWhileUpdating \in BOOLEAN
    /\ batch \in Seq(Net!Message)
    /\ result \in Log
    /\ quit \in BOOLEAN
    /\ outgoing \in Seq([connection : Connection, text : Log])
    /\ reads \in 0 .. MaxReads
    /\ history \in Seq(Log)
    /\ joined \in [Connection -> 0 .. MaxReads]

Init ==
    /\ Net!Init
    /\ clients = <<>>
    /\ users = <<>>
    /\ pc = "update"
    /\ errorWhileUpdating = FALSE
    /\ batch = <<>>
    /\ result = <<>>
    /\ quit = FALSE
    /\ outgoing = <<>>
    /\ reads = 0
    /\ history = <<>>
    /\ joined = [c \in Connection |-> 0]

-----------------------------------------------------------------------------
(***************************************************************************)
(* Callbacks and helpers.  As in NetworkServer, f_Something is f with a    *)
(* slip in it and not part of the specification.                           *)
(***************************************************************************)

onConnect(c) ==
    /\ clients' = Append(clients, c)
    /\ users' = Append(users, [connection |-> c, nickname |-> to_string(c)])
    /\ joined' = [joined EXCEPT ![c] = Len(history)]

\* std::remove and erase: the elements of s at other positions than the ones of
\* `gone`, in their order.
erase(s, gone) ==
    LET kept == DOMAIN s \ gone
        nth(n) == CHOOSE i \in kept : Cardinality({j \in kept : j <= i}) = n
    IN  [n \in 1 .. Cardinality(kept) |-> s[nth(n)]]

removeDisconnectedUser_Noop(c) == users
removeDisconnectedUser(c) == erase(users, {i \in DOMAIN users : users[i].connection = c})

onDisconnect(c) ==
    /\ clients' = erase(clients, {i \in DOMAIN clients : clients[i] = c})
    /\ users' = removeDisconnectedUser(c)
    /\ UNCHANGED joined

\* The library calls back exactly when a registered channel goes.
callbackIfGone(c) ==
    IF c \in channels /\ c \notin channels' THEN onDisconnect(c) ELSE UNCHANGED appVars

userIndex(c) == SelectInSeq(users, LAMBDA user : user.connection = c)

getUserNickname_Id(c) ==
    IF userIndex(c) = 0 THEN NoName ELSE users[userIndex(c)].connection
getUserNickname(c) ==
    IF userIndex(c) = 0 THEN NoName ELSE users[userIndex(c)].nickname

changeUserNickname(c, nickname) ==
    users' = IF userIndex(c) = 0 THEN users
             ELSE [users EXCEPT ![userIndex(c)].nickname = nickname]

buildOutgoing_SkipsFirst(log) ==
    [i \in 1 .. Len(clients) - 1 |-> [connection |-> clients[i + 1], text |-> log]]
buildOutgoing(log) ==
    [i \in 1 .. Len(clients) |-> [connection |-> clients[i], text |-> log]]

-----------------------------------------------------------------------------
(***************************************************************************)
(* Server::update: any number of completed handlers run, then it returns   *)
(* or throws.                                                              *)
(***************************************************************************)

upgrade(c) ==
    /\ pc = "update"
    /\ lives[c] < MaxLives
    /\ Net!Upgrade(c)
    /\ UNCHANGED <<appVars, loopVars, reads, history>>

accepted(c, errorCode) ==
    /\ pc = "update"
    /\ Net!afterAccept(c, errorCode)
    /\ IF errorCode THEN UNCHANGED appVars ELSE onConnect(c)
    /\ UNCHANGED <<loopVars, reads, history>>

messageRead(c, text) ==
    /\ pc = "update"
    /\ reads < MaxReads
    /\ reads' = reads + 1
    /\ Net!afterRead(c, FALSE, text)
    /\ UNCHANGED <<appVars, loopVars, history>>

readFailed(c) ==
    /\ pc = "update"
    /\ \E text \in Text : Net!afterRead(c, TRUE, text)
    /\ callbackIfGone(c)
    /\ UNCHANGED <<loopVars, reads, history>>

written(c, errorCode) ==
    /\ pc = "update"
    /\ Net!afterWrite(c, errorCode)
    /\ callbackIfGone(c)
    /\ UNCHANGED <<loopVars, reads, history>>

\* GameServer::run from the return of update to the call of processMessages:
\* the error of an exception is remembered, and the messages are taken.
updateReturns(error) ==
    /\ pc = "update"
    /\ pc' = "process"
    /\ errorWhileUpdating' = error
    /\ batch' = incoming
    /\ Net!receive
    /\ result' = <<>>
    /\ quit' = FALSE
    /\ UNCHANGED <<appVars, outgoing, reads, history>>

-----------------------------------------------------------------------------
(***************************************************************************)
(* GameServer::processMessages, one message at a time: one action for each *)
(* of its branches.                                                        *)
(***************************************************************************)

message == Head(batch)
displayName == getUserNickname(message.connection)

\* The next message takes the branch for texts of this kind.
Processing(kind) == pc = "process" /\ batch # <<>> /\ message.text.kind = kind

\* It is done with and has added a line to the log.
Add(l) ==
    /\ batch' = Tail(batch)
    /\ result' = Append(result, l)
    /\ UNCHANGED <<pc, errorWhileUpdating, quit, outgoing, reads, history>>

\* Server::disconnect of a registered channel calls back first, and then waits in
\* websocket.close, which is the synchronous form: it sends a close frame and
\* reads until the peer's comes.
processQuit ==
    /\ Processing("quit")
    /\ IF message.connection \in channels
       THEN pc' = "closing" /\ onDisconnect(message.connection) /\ UNCHANGED batch
       ELSE batch' = Tail(batch) /\ UNCHANGED <<pc, appVars>>
    /\ UNCHANGED <<errorWhileUpdating, result, quit, outgoing, reads, history, netVars>>

\* The closing handshake is over, or has failed; the channel is erased.
closed ==
    /\ pc = "closing"
    /\ pc' = "process"
    /\ batch' = Tail(batch)
    /\ Net!Server_disconnect(message.connection)
    /\ UNCHANGED <<errorWhileUpdating, result, quit, outgoing, reads, history, appVars>>

\* The messages behind a shutdown are still processed.
processShutdown_Toggles ==
    /\ Processing("shutdown")
    /\ batch' = Tail(batch)
    /\ quit' = ~quit
    /\ UNCHANGED <<pc, errorWhileUpdating, result, outgoing, reads, history, appVars, netVars>>

processShutdown ==
    /\ Processing("shutdown")
    /\ batch' = Tail(batch)
    /\ quit' = TRUE
    /\ UNCHANGED <<pc, errorWhileUpdating, result, outgoing, reads, history, appVars, netVars>>

\* An exception that nothing catches ends the process.
terminate ==
    /\ pc' = "crashed"
    /\ Net!destroy
    /\ UNCHANGED <<errorWhileUpdating, batch, result, quit, outgoing, reads, history, appVars>>

\* message.text.at(0) of an empty text throws std::out_of_range.
processEmpty ==
    /\ Processing("empty")
    /\ terminate

\* The line is added whether or not there was a user to rename.
processNickname ==
    /\ Processing("nickname")
    /\ changeUserNickname(message.connection, message.text.arg)
    /\ Add(line("renamed", displayName, message.text.arg))
    /\ UNCHANGED <<netVars, clients, joined>>

\* Executing the game touches nothing but a GameState of its own (see module
\* GameRules); a rule may throw.
processExecute ==
    /\ Processing("execute")
    /\ IF Game = "throws"
       THEN terminate
       ELSE /\ Add(line(IF Game = "invalid" THEN "not loaded" ELSE "executed", NoName, NoName))
            /\ UNCHANGED <<netVars, appVars>>

processUnknown ==
    /\ Processing("unknown")
    /\ Add(line("not found", displayName, NoName))
    /\ UNCHANGED <<netVars, appVars>>

processChat ==
    /\ Processing("chat")
    /\ Add(line("chat", displayName, message.text.arg))
    /\ UNCHANGED <<netVars, appVars>>

-----------------------------------------------------------------------------
(***************************************************************************)
(* The rest of GameServer::run's iteration.                                *)
(***************************************************************************)

\* processMessages returns and buildOutgoing addresses the log to every client.
processed ==
    /\ pc = "process"
    /\ batch = <<>>
    /\ pc' = "send"
    /\ outgoing' = buildOutgoing(result)
    /\ history' = IF result = <<>> THEN history ELSE Append(history, result)
    /\ UNCHANGED <<netVars, appVars, errorWhileUpdating, batch, result, quit, reads>>

\* Server::send, one message of the list.
sendNext ==
    /\ pc = "send"
    /\ outgoing # <<>>
    /\ Net!send(Head(outgoing).connection, Head(outgoing).text)
    /\ outgoing' = Tail(outgoing)
    /\ UNCHANGED <<pc, errorWhileUpdating, batch, result, quit, appVars, reads, history>>

\* Leave the loop, which destroys the server, or sleep and start over.
endIteration ==
    /\ pc = "send"
    /\ outgoing = <<>>
    /\ IF quit \/ errorWhileUpdating
       THEN pc' = "stopped" /\ Net!destroy
       ELSE pc' = "update" /\ UNCHANGED netVars
    /\ UNCHANGED <<errorWhileUpdating, batch, result, quit, outgoing, appVars, reads, history>>

-----------------------------------------------------------------------------
Handlers ==
    \/ \E c \in Connection : upgrade(c)
    \/ \E c \in Connection, errorCode \in BOOLEAN : accepted(c, errorCode)
    \/ \E c \in Connection, text \in Text : messageRead(c, text)
    \/ \E c \in Connection : readFailed(c)
    \/ \E c \in Connection, errorCode \in BOOLEAN : written(c, errorCode)

processMessages ==
    \/ processQuit \/ processShutdown \/ processEmpty \/ processNickname
    \/ processExecute \/ processUnknown \/ processChat

run ==
    \/ \E error \in BOOLEAN : updateReturns(error)
    \/ processMessages
    \/ processed
    \/ sendNext
    \/ endIteration

\* The process has ended; nothing happens any more.
Ended == pc \in {"stopped", "crashed"} /\ UNCHANGED vars

Next == Handlers \/ run \/ closed \/ Ended

Spec == Init /\ [][Next]_vars

(***************************************************************************)
(* The loop goes on: poll runs out of handlers, and nothing else in it     *)
(* waits but websocket.close, which returns if the peer is not stalled.    *)
(* (After a failed read or write the websocket is no longer open and close *)
(* returns at once, so only a quit waits.)  poll runs every handler whose  *)
(* operation has completed before it returns (boost::asio), so a completed *)
(* one is run when update is called next; hence strong fairness, for the   *)
(* peers that are not stalled.                                             *)
(***************************************************************************)
Fairness ==
    /\ WF_vars(run)
    /\ WF_vars(closed /\ message.connection \notin Stalled)
    /\ \A c \in Connection \ Stalled :
          /\ SF_vars(\E errorCode \in BOOLEAN : accepted(c, errorCode))
          /\ SF_vars(\E errorCode \in BOOLEAN : written(c, errorCode))

FairSpec == Spec /\ Fairness

-----------------------------------------------------------------------------
(***************************************************************************)
(* Properties.                                                             *)
(***************************************************************************)

\* The application's idea of who is connected is the library's: `clients` and
\* `users` list exactly the registered channels, each once, in the same order,
\* however connects, failures of reads and writes, and quits are interleaved; only
\* the channel being closed is gone from them and still registered
\* (onConnect, onDisconnect, removeDisconnectedUser, Server::disconnect).
Membership ==
    running =>
        /\ \A i, j \in DOMAIN clients : clients[i] = clients[j] => i = j
        /\ ToSet(clients) = IF pc = "closing" THEN channels \ {message.connection} ELSE channels
        /\ [i \in DOMAIN users |-> users[i].connection] = clients

\* What is still to come for c of the list being sent; an empty log is no broadcast.
Outstanding(c) ==
    IF result # <<>> /\ \E m \in ToSet(outgoing) : m.connection = c THEN <<result>> ELSE <<>>

\* All clients see the same conversation: what has been sent to a client is the
\* sequence of all broadcasts since it was registered, without gap, repetition
\* or reordering (buildOutgoing, Server::send, Channel::send).
NobodyMissesABroadcast ==
    \A c \in channels :
        sent[c] \o Outstanding(c) = SubSeq(history, joined[c] + 1, Len(history))

\* The one thing that can hold up the loop for good.
WaitsForStalled == pc = "closing" /\ message.connection \in Stalled

ShutdownRead == \E i \in DOMAIN incoming : incoming[i].text.kind = "shutdown"

\* A shutdown message that has been read stops the server, whatever else is in
\* the same batch, unless the loop waits for a stalled peer to close
\* (GameServer::run, processMessages).
ShutdownStops == ShutdownRead ~> (pc \in {"stopped", "crashed"} \/ WaitsForStalled)

\* Every broadcast is written to the socket of every client that was registered
\* when it was made and whose peer is not stalled, unless the client goes, the
\* server ends, or the loop waits for a stalled peer to close.
BroadcastDelivered ==
    \A c \in Connection \ Stalled : \A n \in 1 .. MaxReads :
        (c \in channels /\ joined[c] < n /\ n <= Len(history))
            ~> (c \notin channels \/ n <= joined[c] + Len(delivered[c]) \/ WaitsForStalled)

-----------------------------------------------------------------------------
(***************************************************************************)
(* Statements of the documentation that the code does not meet.            *)
(***************************************************************************)

\* README.md:79-80: "Typing anything else will send a chat message to other
\* clients."  So no text a client sends may end the server by an exception.
TypingNeverCrashes == pc # "crashed"

\* README.md:78-79: "You can shut down the server and disconnect all clients by
\* typing `shutdown`."  So a shutdown that has been read stops the server.
ShutdownAlwaysStops == ShutdownRead ~> pc \in {"stopped", "crashed"}

\* README.md:78: "You can disconnect from the server by typing `quit`."  So a
\* quit disconnects the channel it was read from, not another client's.
QuitDisconnectsItsSender ==
    [][\A c \in channels \ channels' :
          closed => message.life = lives[c]]_vars
=============================================================================

# Verification of Social Gaming

TLA+ models of the server and the client of this repository, the TLC runs that check them
on small instances, and TLAPS proofs of what matters most for every instance.

    tlc -config NetworkServer.cfg MCNetworkServer           # a run
    tlapm NetworkServerProofs.tla                           # the proofs of a module

`PROJECT.json` lists the runs, which source lines each definition stands for,
the hazards the properties are aimed at, and the findings.

## 1. The system

One process per lobby: a single-threaded server that talks to clients over
websockets, relays their chat, and executes a game loaded from a JSON file.
Nothing is persistent and there are no threads. What is hard is that the one
thread runs completion handlers in whatever order the network makes them ready,
that these call back into the application, that the identity of a client is the
address of an object, and that peers fail or stall at any point.

| Component | State | Operations | Correct when |
|---|---|---|---|
| Channels (`lib/networking/src/Server.cpp`) | registered channels; per channel a write buffer, a `disconnected` flag, pending operations; the incoming messages | handlers of accept, read and write; `send`, `receive`, `disconnect`, destruction | one write at a time, nothing lost, reordered or stranded, every registered channel is read, disconnected ones are freed |
| HTTP sessions (same file) | the listening session; per session a request and pending operations | accept, read, answer, upgrade | one answer per request, one operation per socket, listening never ends |
| Game server (`src/GameServer`, `src/User`) | `clients`, `users` | `run`'s loop, connect and disconnect callbacks, the commands | application and library agree on who is connected; all see the same conversation; a shutdown ends it |
| Game state (`src/GameState`) | global and per-player variables, elements in scope | get and set by dotted key | a reference means the player its scope says |
| Game rules (`src/GameRules`) | a list of rules | `executeRule` of add, message, input-text, for-each, loop | scopes balanced, result independent of the order of players, loops end when they should |
| Parser (`src/JsonParser`) | aliases of for-each elements | JSON to variables and rules | faithful to lexical scope, all or nothing |
| Configuration, main program (`src/ServerConfig`, `src/main.cpp`) | port, page, invite code | validate, start, join | a client with the invite code reaches the server |
| Client library (`lib/networking/src/Client.cpp`) | write buffer, received text, `isClosed` | connect, handshake, read, send | texts arrive in order; a lost connection is noticed |

Interaction: `GameServer::run` calls `Server::update`, which runs handlers;
`registerChannel` and `Server::disconnect` call `onConnect` and `onDisconnect`
back, the latter also from inside `processMessages`. A websocket upgrade turns
an HTTP session into a channel. `/execute` builds a `GameState` for the present
users and runs the rules the parser made. A player's program turns the invite code
back into the port and talks to the server through the client library.

## 2. Modules

| Module | Models |
|---|---|
| `Delivery` | what the library promises: per connection, texts are delivered in the order posted, and to a responsive peer eventually, unless it leaves |
| `NetworkServer` | the channels; any application may call the server in any order |
| `HttpSession` | accepting and HTTP sessions, up to the upgrade |
| `GameServer` | the game server on top of `NetworkServer` (`INSTANCE`) |
| `GameState` | the class, as operators on a record |
| `GameRules` | execution of a game, on top of `GameState` |
| `GameMeaning` | what the text of a game means, as definitions without stacks or an order of players, and that executing it comes to that |
| `GameSpecParser` | loading a game file |
| `GameSpecMeaning` | which files are well-formed and what should come of them, as definitions with lexical scopes, and that the parser comes to that |
| `ServerConfig` | validation of the configuration, the port, the invite code, as operators |
| `Lobby` | hosting from `main` to the execution of the game: composes `ServerConfig`, `GameSpecParser` and `GameRules` |
| `NetworkClient` | the client library and the loop of a player who has joined |
| `ClientServer` | `NetworkClient` and `NetworkServer` on the two ends of one connection |
| `MC...` | instances for TLC; `MCGameRules`, `MCGameSpecParser` and `MCLobby` also hold the families of games and the recursive definitions results are compared with |
| `...Proofs` | the proofs about the module of that name, eight in all (section 4) |

In each module an operator named `f_Something` is `f` with a plausible slip in
it. These are not part of the specification: substituted for `f`, each makes one
property fail, which shows that the property is about the code.

**NetworkServer.** One action per handler or call, since each runs to its end.
`channels`, `incoming`, `disconnected` and `writeBuffer` are the code's;
`accepting`, `reading` and `writing` are the operations asio holds. `writing`
is a count, so that overlapping writes are a reachable state and their absence a
property. A connection is an address; `Live` says whether some `shared_ptr` owns
the object there, and `Upgrade` may reuse an address that is not live. `sent`,
`delivered` and `lives` are history; `Message.life` likewise only records which
of the objects at an address a message was read from. Disconnecting is one step
here; that `websocket.close` waits is in `GameServer`. Frames and bytes are left out.

**HttpSession.** A request is what the handler looks at: upgrade, method, whether
the target is the index, keep-alive. `responses` is a sequence because
`handleRequest` does not return after a refusal. `threw` is an exception
leaving `Server::update`, from the shutdown after a failed write.

**GameServer.** `pc` is where the loop is. In `"update"` any number of handlers run,
each the library's action with the callbacks it makes; `updateReturns` may carry
an exception. The branches of `processMessages` are one action each, a message at
a time, since callbacks run in between; `sendNext` is one round of `Server::send`.
A text is the branch it takes and its argument; a line is its kind, name and
argument. What the loaded game does when executed is the constant `Game`.
`processQuit` and `closed` are the two ends of `websocket.close`, which is synchronous:
in between (`pc = "closing"`) the callback has been made, the channel is still
registered and nothing else runs. After a failed read or write the websocket is no
longer open and `close` returns at once, so only a quit waits.

**GameState, GameRules.** A stack of activations stands for the C++ calls. A dotted
name is the sequence of its components, and is taken apart each time a rule is executed,
as the code does. What the code asks of the text of a component is a parameter:
`WithPlayers` are those in which `players` occurs (the code looks for it anywhere in
the name), `scopedElement` gives of `$x` the element `x`, and `stoul` of a component
the number `std::stoul` reads, as the text that is the key of the player's
variables (`007` is player `7`). For an element out of scope, or a name of fewer
than three components, the code moves an iterator past the end of the
string, and what the build makes of that is an exception; so is what `std::stoul`
makes of a component without a number. Values wrap at `Width` bits. `Rule` is any set of rules closed under taking bodies; `Games` are
lists over it.

**GameMeaning, GameSpecMeaning.** The reference definitions (`Added`, `WellScoped`,
`WellFormed`, `Expected`) are recursive over a text of any depth. They are constants here,
of which only the equations of the recursion are assumed, so that theorems can be
stated about them; the MC modules define them, and TLC evaluates the equations on
every list of an instance.

**GameSpecParser.** A stack stands for the recursion between `parseRules` and
`parseForEachRule`. A dotted name is the sequence of its components. An alias
always maps `x` to `players.$x`, so the map of aliases is a set of names. The rules in
a file are what iterating over the JSON value gives, since the parser only logs that
a value is not an array and then goes through it as it is.

**ServerConfig, Lobby.** A configuration file is whether it opens, whether it is JSON,
the types of its root elements, and the port. The port is narrowed to 16 bits; a
string of digits is the sequence of its digits, so that leading zeros count. `phase`
is where the host's program is; the parser's actions run in phase `parseGamefile`, those
of `GameRules` in `execute`. What the execution takes apart are the
names the parser wrote, so the two ideas of scope meet here: the parser's aliases and
the elements the execution has in scope.

**NetworkClient.** Handlers run in `update`, the user types in `window`. A text is its
number, so that order and loss show. `Client::send` starts a write without waiting
for the last one. What the websocket library does then is modelled from its rules:
with assertions on, the program aborts; without, the later write is suspended
behind the one under way, in the place of a write already suspended there, whose
handler is then never called. A write before the handshake is over fails
(`refused`). What the window shows is a sequence of frames; that a batch of them is
displayed as one string is left out.

**ClientServer.** The connection is external: what goes in at one end comes out at the
other in order, every operation may fail at any time, and the end of one side makes
the other's reads fail. The server's application may do anything.

## 3. Runs

| Run | Shows | Bounds |
|---|---|---|
| `network` | the write chain, registration, FIFO, refinement of `Delivery` with its liveness, channels are freed | 2 connections, one of a stalled peer, 2 objects per address, 3 texts each, 1 waiting message: a text can be sent before, during and after the write of another, fail at each point, and an address can be reused while the other connection is at any stage |
| `http_sessions` | sessions for supported requests | 2 sessions, 2 requests each: one kept alive and reused, next to another |
| `game_safety` | membership, nobody misses a broadcast | 2 connections, 2 objects per address, 2 messages read; every kind of text |
| `game_liveness` | shutdown, delivery | same, one peer stalled, a game that throws |
| `rules` | scopes, order of players, exceptions, loops, termination | up to 3 players in every order; for-each two deep with rules around; names by element, by number of a player connected or not, with leading zeros, too short, and globals with `players` in them; loop bodies adding 1 to 6, once or per player; 5-bit values so that sums overflow |
| `lobby` | listening, invite code, aliases, acceptance, translation, and what executing the game does | 2906 starts: ports of 1 to 5 digits with zeros at either end, 65535, 65536 and beyond; unusable configurations; an unknown game; game files with for-each two deep, bad rules at each level, bad roots, malformed per-player variables, and names of players' variables of every kind in targets and results; up to 2 players in every order |
| `client` | both ends of a connection | 2 texts to the client, the empty one among those tried, and 3 typed: the third finds one write under way and one suspended |

Runs that are expected to fail show where a statement of the repository and the code part:

| Run | Finding |
|---|---|
| `game_empty_text` | an empty text ends the server (`GameServer.cpp:133`) |
| `game_blocked_close` | a `quit` from a peer that does not answer the close frame blocks the loop, and a `shutdown` already read is never acted on (`Server.cpp:124`) |
| `game_quit` | a late `quit` disconnects another client at the same address (`Server.cpp:72`) |
| `http_target` | an illegal target is refused, and then sent the page (`Server.cpp:288`) |
| `spec_parser_invalid` | a bad rule inside a for-each is accepted as an empty body (`RuleParser.cpp:189`) |

Deadlock checking is off where the model really stops: after the destruction of
the server (`NetworkServer`), when the instance is out of sessions or an
exception has left the update (`HttpSession`), when both programs have ended
(`ClientServer`), and when the host's program has ended or has executed its game
(`Lobby`). The other modules have a final state that stutters, so TLC does check that
they stop nowhere else.

Seen while modelling, with no run of their own because no property would tell more than
the line does:

* `run` passes the path of the page, not its contents, as the HTTP message
  (`GameServer.cpp:196`; `Server.h` describes the parameter as the response itself);
  `getHTTPMessage` is never called.
* A text typed before the handshake is over closes the client (`Client.cpp:162`).
  The model has it: `send` on a websocket that is not open, then `afterRefusedWrite`.
* A failed connect or handshake leaves `isClosed` false, and the join loop runs on
  (`Client.cpp:77`, `:90`). `ServerGoneIsNoticed` therefore starts from an open websocket.
* A configured port of 0, 65536 or another multiple passes the validation and becomes 0; the system
  then chooses a port and the invite code `0` leads nowhere (`ServerConfig.cpp:48`), though
  `GameServer.cpp:38` announces that "Clients can connect with invite code" it.
  `InviteLeadsToServer` says for exactly which ports the code is good.
* A global variable with `players` anywhere in its name, such as `max_players`, is taken for a
  player's, and reading or setting it throws (`GameState.cpp:53`, `:308`). The comment above the
  test has other variables accessed directly. Both families of games have such a name, and
  `OnlyBadReferencesThrow` and `OnlyUnusableNamesThrow` count it among those that throw.
* A game with a malformed per-player variable is accepted without any of them
  (`JsonParser.cpp:85-91`); `AcceptedWhole` says so.
* Any exception of `Server::update`, such as one from shutting down a broken HTTP
  connection (`Server.cpp:244`), ends the loop for all. The model of the loop lets any
  update throw.
* A change of nickname is announced also for a user who is already gone
  (`GameServer.cpp:142`).

### Fairness

* `NetworkServer`: an operation of a peer that is not in `Stalled` completes, and
  its handler runs, because the application keeps calling `update` and `poll` runs
  every handler that is ready. Nothing is assumed of reads on open connections.
* `GameServer`: the loop goes on (`WF(run)`), as nothing in it waits but `sleep(1)`
  and `websocket.close`; the latter returns if the peer is not stalled
  (`WF(closed)`), and the liveness properties except a loop that waits for a stalled
  one. Handlers run only while `pc = "update"`, so they
  are enabled again and again rather than always; `poll` does not return before the
  ready ones have run, hence strong fairness for the peers that are not stalled.
* `GameRules`: a game is executed in one go.
* `ClientServer`: both programs keep calling `update`. The client's handlers run only
  there, hence strong fairness for its reads; a read fails by fairness only when the other
  end is closed. Nothing is assumed of connecting, of the handshake, of the user or
  of the server's application.

## 4. Proofs

Each theorem holds for every value of the constants that meets the named assumptions;
the runs show the same properties on small instances.

| Module | Theorems (the property each states) |
|---|---|
| `NetworkServerProofs` | `TypeCorrect` (`TypeOK`), `WritesDoNotOverlap` (`OneWriteAtATime`), `BufferIsPinned` (`BufferPinned`), `NothingStranded` (`NoStrandedOutput`), `Registration` (`RegisteredIsReading`), `Fifo` (`FifoDelivery`), `DeliveryRefinement` |
| `HttpSessionProofs` | `TypeCorrect` (`TypeOK`), `ListensOn` (`AlwaysListening`); for supported requests `OneOperationAtATime` (`OneOperation`), `EachAnsweredOnce` (`AnsweredOnce`), `CloseHonoured` (`CloseIsHonoured`) |
| `GameServerProofs` | `TypeCorrect` (`TypeOK`), `MembersAreRegistered` (`Membership`), `SameConversation` (`NobodyMissesABroadcast`), `LibraryKeepsItsPromises`, `ConversationDelivered`, `DeliveryRefinement` |
| `NetworkClientProofs`, `ClientServerProofs` | `TypeCorrect` (`TypeOK`), `WritesPinned` (`PendingWritesPinned`), `OrderOfWrites` (`WrittenInOrder`), `EndToEndOrder` (`ShownInOrder`) |
| `GameSpecParserProofs` | `NoAliasLeaks` (`AliasesNeverLeak`), `AcceptedAsAWhole` (`AcceptedWhole`), `WellFormedAreParsed` (`ParsesFaithfully`) |
| `GameRulesProofs` | `TypeCorrect` (`TypeOK`), `ScopesMatch` (`ScopeMatchesActivations`), `ForEachGoesOn`, `WellScopedNeverThrows` (`OnlyBadReferencesThrow`), `PlayerOrderIsIgnored` (`ResultIgnoresPlayerOrder`), `LoopsStopAtTen` (`LoopStopsAtTen`) |
| `LobbyProofs` | `LoadsAsParser`, `HostsTheGameDescribed` (`ParsesFaithfully`), `OnlyConfiguredListens` (`ListensAsConfigured`), `InvitesLeadToServers` (`InviteLeadsToServer`) |

Every module follows the same plan: an inductive invariant `IInv`, a lemma per action
that the action keeps it, `Invariance == Spec => []IInv`, and the theorems as
consequences. What the properties need besides themselves:

**NetworkServerProofs.** That a registered channel holds no
stranded text survives a failed write only because the channel is then unregistered,
which `onError` does only when its `disconnected` flag is not set, so the argument needs
`RegisteredIsReading`. That survives an accept only if a channel that is still being
accepted is unregistered, not disconnected and has an empty buffer
(`FreshWhileAccepting`), which in turn holds because `Upgrade` takes only addresses
no object lives at. `FifoDelivery` is inductive given this `IInv`. `BufferPinned` says that the
front of the buffer is the text being written, which is the first one sent and not
delivered: it follows from `FifoDelivery` and from the buffer of a channel with a write
pending not being empty.
The steps are those of `AnyStep`, which is `Next` without the bounds on texts and
messages, so that the modules that drive the library with bounds of their own can use
the lemmas. `DeliveryRefinement` shows every behaviour to be one of `Delivery`'s safety
part, with `members <- channels` and `posted <- sent`.

**HttpSessionProofs.** `TypeOK` and `AlwaysListening` hold for any requests. The other three
do not (run `http_target`): they are proved under `Supported`, by which every request
asks for an upgrade, or by GET or HEAD for the index. The run `http_sessions` has
requests of all these kinds. A session has no operation pending and no request
before it is accepted (`FreshUntilAccepted`); the response under way is the one
response to the last request (`OneExchange`); once the connection is to be closed no
read is pending (`NoReadAfterClose`). The action property follows from the last.

**GameServerProofs.** The steps of the game server are steps of the library (`AnyStep`)
with the application's variables beside it, so the library's invariant carries over
and `LibraryKeepsItsPromises` restates it here. `Membership` needs that `message` is
the one being worked on while a close waits (`Loop`). `NobodyMissesABroadcast` needs that what
is left of the list in `Server::send` is the log for registered channels, each at most
once (`Sending`); that there are no more broadcasts than
messages read (`Counted`, for the type of `joined`); and that nothing was sent to a channel before it is
registered (`NothingSentYet`, `JoinedInPast`). With `FifoDelivery` this gives
`ConversationDelivered`: the i-th text a member's socket has taken is the i-th
broadcast since the member joined, also at an address that was used before.

**ClientServerProofs.** The client's writes need that the buffer holds exactly the texts
typed and not yet popped, in order (`BufferIsContiguous`), and that the pending
writes are later than the completed ones (`WritesInOrder`): that a handler pops whatever is
at the front is harmless because handlers pop no more texts than were completed. That is in
`NetworkClientProofs`, as lemmas for any inbound frames. `ShownInOrder` is the
composition: what is shown and waiting is what was taken from the connection
(`ShownIsTaken`), which the server's `FifoDelivery` makes a prefix of what was sent, and
only one Channel object is ever at the other end (`NothingBeforeUpgrade`).

**GameSpecParserProofs.** `AliasesNeverLeak` needs that the aliases belong to the for-each
calls on the stack. `AcceptedWhole` needs the count of rules at the bottom of the stack (`TopLevelCall`):
made, left and under way add up to the file's, at every depth of the calls above it,
unless the call has given up and will return nothing; of the per-player variables `IInv` has
that they are all there or none is. `ParsesFaithfully` needs
`FaithfulInv`: the aliases are the elements of the for-eachs around the present list; each
call on the stack has made, of the part of its list it has been through, what the
text says in its scope (`Expected`); and the for-each a call waits for is the one the next
call is for. That this goes on from list to body and from body back to list is where
the equations of `Expected` are used, one at a time, so no induction on the text is needed.
What the code makes of a dotted name, by replacing each component that is an alias, is a
flattening; that it is the name with two components in front (`Flattened`) is an induction
on the number of components, done as a search for the smallest counterexample (`Smallest`).

**GameRulesProofs.** `ScopeMatchesActivations` is shown for pushing, popping and replacing the
innermost activation (`ForEachInFront`, `ForEachRemoved`, `OtherInFront`,
`SameRuleInFront`); it needs that a for-each being executed has a current player and that
the outermost activation is the top level's (`Frames`). `TypeOK` needs that a key that can
be read can be written (`SetValueKeepsShape`) and that wrapping gives an int (`WrapType`).
`ForEachGoesOn` says that two error branches of `ForEachRule::executeRuleImpl` are dead code.

`OnlyBadReferencesThrow` needs `ScopedInv`: what is left to do in each activation is well
scoped in the elements of the for-eachs around it, which are the ones
`activeScopeVariables` has; a name that is well scoped there can then be taken apart once the
players are put in (`ReferenceResolves`), which needs that the elements stand for connected
players and that `std::stoul` reads a player's own number back. `ResultIgnoresPlayerOrder` needs `BalancedInv`, an account per variable and
player: what the variable has now, and what the activations on the stack have yet to add to it,
come to its initial value and what the whole text adds, modulo 2^Width. An addition counts for the
variable its name means in the present scope, by element or by number (`SameVariable`). What an activation has yet to
add is the rest of its list, and for a for-each one round for each player who has not had
his turn; one of these rounds is the concerned player's or none is (`Round`, `AllRounds`), in
whatever order they come. At the end nothing is left to add, and a value of `Width` bits is determined by its class
(`CongruentUnique`).

`PlayerOrderIsIgnored` is about games without loops (`Loopless`), since the number of a loop's
iterations depends on values. `LoopStopsAtTen` is about the games that are one loop with such a body
(`SingleLoops`) and needs `LoopedInv`: the loop has not been reached; or its k-th iteration is
under way, the account being that of k executions of the body; or it has ended after k
iterations; and in the last two cases `debug_target` was not 10 after any fewer. The accounts know
where the loop is (`Placed`): on the top level, with all else inside it. A loop that ends has had
fewer than 2^Width iterations, since 2^Width iterations earlier it was at the same value
(`StopsEarly`). Loops inside other rules, and rules after a loop, are not covered by it.

**LobbyProofs.** `LoadsAsParser` is a refinement: every step of the lobby is one of the
parser or leaves its state alone, so the parser's theorems hold of hosting. The
port and the invite code need that a valid configuration comes from a usable file and an
existing game, and that the port and the code were made from it before anything listens
(`HostInv`). That the code leads back to the port rests on the port being the sum of its digits
(`Decimal`), for each of the 65536 ports, zeros at either end included; that it does not for port 0
rests on the system never assigning port 0.

Assumptions, all evaluated by TLC on the instances:

* `ConstantsAssumption`, `ConnectionAssumption`, `GameServerAssumption`, `HttpAssumption`: the empty text
  is a text, bounds are numbers, a request has the fields the handler looks at, there is a session;
* `GameSpecsAssumption`: the rules of a file are a list;
* `RulesAssumption`: games are lists of rules and so are bodies, a target of an add is a dotted name and
  what is added an integer, the players are finitely many and have the numbers `std::stoul` reads from
  their texts, and variables start as ints;
* `NamesAssumption`, `LobbyNamesAssumption`: `players` is a text in which `players` occurs and
  `debug_target` is not, and a component that refers to an element is `$` and the element;
* `ListsAssumption`, `SpecListsAssumption`: the sets of lists that the reference definitions are about
  are closed under taking ends and bodies, and the empty list is in those without loops;
* `WellScopedAssumption`, `AddedAssumption`, `WellFormedAssumption`, `ExpectedAssumption`: the
  equations of these recursions, and nothing of what follows from them;
* `HostsAssumption`: a usable configuration has a port, and a port the system assigns is one;
* `WidthAssumption`: the width is positive. It also states two facts of arithmetic about
  2^Width, for which the provers have no theory of exponentiation.

Only model-checked:

* liveness and what rests on fairness: the prover has neither;
* `OnlyUnusableNamesThrow` and `DoesWhatTheFileSays`: they go from the file's text to the final values, so
  they compose the recursion of the parser's text with that of the game's. The links are
  proved one by one (`HostsTheGameDescribed`, `WellScopedNeverThrows`,
  `PlayerOrderIsIgnored`); that the rules `Expected` gives are well scoped and add what the
  file says is an induction on the text, which the prover cannot do.

## 5. Not modelled

* The ncurses windows (`GameChatWindow.cpp`, `ChatWindow.cpp`): terminal I/O. `NetworkClient`
  has what the user may do in one.
* The example chat server: the loop of `GameServer` without users, commands and games.
  The example chat client: the loop of `NetworkClient`, but after an exception it
  displays once more before it ends. The Flutter client and the browser page: other
  peers of `NetworkServer`.
* A `$` inside a component of a name (`a$b.c`); a name is taken for one of elements only if
  a component begins with it. In the meaning of a text (`Variable` of `GameMeaning`), the variables of
  players that are named like a player or a reference.
* Logging: formatting only. `getHTTPMessage` and `setHtmlFilepath`: nothing calls them.
* The size of the write buffers: the code has no limit, which the source shows by itself.

Boost and the JSON library are external and appear as what the code relies on them for.

## 6. Plan

Done: the modules of section 2, their runs, and the proofs of section 4.

Left: the two properties of the lobby that need an induction on the text of a file, and what a game
with several loops, or with loops inside other rules, computes.

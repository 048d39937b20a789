------------------------------- MODULE Lobby -------------------------------
(***************************************************************************)
(* Hosting a lobby, from the start of the program to the execution of the  *)
(* game: main, GameServer::setupConfig with ServerConfig, the loading of   *)
(* the game (GameSpecParser), the start of the server in GameServer::run,  *)
(* and its command /execute (GameRules).                                   *)
(***************************************************************************)
EXTENDS GameSpecParser, ServerConfig
LOCAL INSTANCE SequencesExt

CONSTANTS
    Hosts,          \* what a host may start with: a configuration file, the name
                    \* of a game, and the file of the game
    Ephemeral,      \* a port the system assigns to who asks for port 0
    Players,        \* those who may have joined
    Width, WithPlayers, scopedElement, stoul    \* see GameState

ASSUME HostsAssumption ==
    /\ \A host \in Hosts :
          /\ host.gameFile \in GameSpecs
          /\ host.configFile.root = SC_ROOT_ELEMS => host.configFile.port \in Nat
    /\ Ephemeral \in Port \ {0}

ASSUME LobbyNamesAssumption ==
    /\ "players" \in WithPlayers
    /\ \A component \in DOMAIN scopedElement : component = reference(scopedElement[component])

VARIABLES
    configFile, gameName,   \* what the host starts with, with jsonObject
    phase,          \* "main", "setupConfig", "parseGamefile", "isValid", "run",
                    \* "execute", "exited" or "terminated"
    config,         \* the ServerConfig
    port, inviteCode,   \* GameServer
    listening,      \* the port the server's acceptor is bound to, or 0
    \* the execution (see GameRules)
    game, playerIDs, gameState, activations, result

Rules == INSTANCE GameRules WITH
            Rule <- {}, Games <- {}, variables <- <<>>, perPlayer <- <<>>, stack <- activations

hostVars == <<configFile, gameName, phase, config, port, inviteCode, listening>>
parserVars == <<jsonObject, pc, variableMap, perPlayerVariableMap,
                activeScopedVariableAliases, stack, gameData>>
ruleVars == <<game, playerIDs, gameState, activations, result>>
lobbyVars == <<hostVars, parserVars, ruleVars>>

LobbyInit ==
    /\ \E host \in Hosts :
          configFile = host.configFile /\ gameName = host.gameName /\ jsonObject = host.gameFile
    /\ pc = "parseJson"
    /\ variableMap = {}
    /\ perPlayerVariableMap = {}
    /\ activeScopedVariableAliases = {}
    /\ stack = <<>>
    /\ gameData = Invalid
    /\ phase = "main"
    /\ config = [port |-> Uninitialized, valid |-> FALSE]
    /\ port = Uninitialized
    /\ inviteCode = <<>>
    /\ listening = 0
    /\ game = <<>>
    /\ playerIDs = <<>>
    /\ gameState = <<>>
    /\ activations = <<>>
    /\ result = "none"

-----------------------------------------------------------------------------
(***************************************************************************)
(* main and GameServer::setupConfig.                                       *)
(***************************************************************************)

\* "1" is to host a lobby.  ("2" is to join one, see NetworkClient.)
main(command) ==
    /\ phase = "main"
    /\ phase' = IF command = "1" THEN "setupConfig" ELSE "exited"
    /\ UNCHANGED <<configFile, gameName, config, port, inviteCode, listening, parserVars, ruleVars>>

\* An unusable configuration is found out only after the game has been asked for,
\* and loaded if there is such a game.
setupConfig ==
    /\ phase = "setupConfig"
    /\ config' = parseGamefile(constructed(configFile), gameName)
    /\ phase' = IF gameName \in gameFilepaths THEN "parseGamefile" ELSE "isValid"
    /\ UNCHANGED <<configFile, gameName, port, inviteCode, listening, parserVars, ruleVars>>

loadGame ==
    /\ phase = "parseGamefile"
    /\ \/ parseJson \/ parseBothVariables
       \/ parseAddRule \/ parseGlobalMessageRule \/ parseInputTextRule \/ parseOtherRule
       \/ parseForEachRule \/ endForEach
       \/ returnGameData
    /\ UNCHANGED <<hostVars, ruleVars>>

gameLoaded ==
    /\ phase = "parseGamefile"
    /\ pc = "done"
    /\ phase' = "isValid"
    /\ UNCHANGED <<configFile, gameName, config, port, inviteCode, listening, parserVars, ruleVars>>

\* The rest of setupConfig.  That the game was loaded is not required.
isValid ==
    /\ phase = "isValid"
    /\ IF config.valid
       THEN /\ phase' = "run"
            /\ port' = config.port
            /\ inviteCode' = generateInviteCode(config.port)
       ELSE phase' = "exited" /\ UNCHANGED <<port, inviteCode>>
    /\ UNCHANGED <<configFile, gameName, config, listening, parserVars, ruleVars>>

\* The server is constructed; its acceptor throws if the port is taken.
run(bound) ==
    /\ phase = "run"
    /\ listening = 0
    /\ IF bound
       THEN listening' = (IF port = 0 THEN Ephemeral ELSE port) /\ UNCHANGED phase
       ELSE phase' = "terminated" /\ UNCHANGED listening
    /\ UNCHANGED <<configFile, gameName, config, port, inviteCode, parserVars, ruleVars>>

-----------------------------------------------------------------------------
(***************************************************************************)
(* The command /execute.                                                   *)
(***************************************************************************)

\* Every variable of the files starts at 0.
initialMap(names) == [v \in {<<name>> : name \in names} |-> 0]

execute(players) ==
    /\ phase = "run" /\ listening # 0
    /\ gameData.isValid
    /\ result = "none"
    /\ phase' = "execute"
    /\ playerIDs' = players
    /\ game' = gameData.topLevelRules
    /\ gameState' = Rules!construct(initialMap(gameData.variableMap), ToSet(players),
                                    initialMap(gameData.perPlayerVariableMap))
    /\ activations' = <<Rules!activation(Rules!toplevel, gameData.topLevelRules, <<>>)>>
    /\ result' = "running"
    /\ UNCHANGED <<configFile, gameName, config, port, inviteCode, listening, parserVars>>

executeRule ==
    /\ phase = "execute"
    /\ \/ Rules!AddRule \/ Rules!GlobalMessageRule \/ Rules!InputTextRule
       \/ Rules!ForEachRule \/ Rules!nextElement \/ Rules!gameFinished
    /\ UNCHANGED <<hostVars, parserVars>>

\* Back in the loop of run, which catches no exception of a rule.
executed ==
    /\ phase = "execute"
    /\ result # "running"
    /\ phase' = IF result = "threw" THEN "terminated" ELSE "run"
    /\ UNCHANGED <<configFile, gameName, config, port, inviteCode, listening, parserVars, ruleVars>>

-----------------------------------------------------------------------------
LobbyNext ==
    \/ \E command \in {"1", "2", "3"} : main(command)
    \/ setupConfig \/ loadGame \/ gameLoaded \/ isValid
    \/ \E bound \in BOOLEAN : run(bound)
    \/ \E players \in UNION {SetToSeqs(S) : S \in SUBSET Players} : execute(players)
    \/ executeRule \/ executed

LobbySpec == LobbyInit /\ [][LobbyNext]_lobbyVars

-----------------------------------------------------------------------------
(***************************************************************************)
(* Properties.                                                             *)
(***************************************************************************)

\* A server listens only with a validated configuration, for a game that exists,
\* on the configured port as far as it fits an unsigned short; never on the
\* uninitialized port of a configuration that failed (setupConfig, isValid).
ListensAsConfigured ==
    listening # 0 =>
        /\ configFile.opens /\ configFile.readable /\ configFile.root = SC_ROOT_ELEMS
        /\ gameName \in gameFilepaths
        /\ listening = configFile.port % 65536 \/ (listening = Ephemeral /\ port = 0)

\* The invite code a host is given leads a player to the port that the server
\* listens on, zeros at either end of the port included, exactly when the configured
\* port is not 0 as an unsigned short.  For 0, 65536 and its multiples, which pass
\* the validation, the system picks a port and the code leads to none
\* (ServerConfig::configure, generateInviteCode, parseInviteCode).
InviteLeadsToServer ==
    listening # 0 =>
        (number(parseInviteCode(inviteCode)) = listening <=> configFile.port % 65536 # 0)
=============================================================================

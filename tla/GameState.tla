----------------------------- MODULE GameState -----------------------------
(***************************************************************************)
(* The variables of a game being executed: class GameState                 *)
(* (src/GameState/GameState.cpp).  Its methods are operators on a record   *)
(*                                                                         *)
(*    variableMap           the global variables                           *)
(*    playerVariableMaps    per player, that player's variables            *)
(*    activeScopeVariables  the for-each elements in scope, per name the   *)
(*                          player it stands for                           *)
(*                                                                         *)
(* A nested variable name is the sequence of its components, those of      *)
(* "players.$elem.var" being "players", "$elem" and "var"; a variable has  *)
(* such a name too.  A '$' inside a component is left out.  A player is    *)
(* the text of its number, the key of playerVariableMaps.                  *)
(* A call gives an outcome, "ok", "failure" or "threw" (an exception), and *)
(* a value.                                                                *)
(***************************************************************************)
EXTENDS Integers, Sequences
LOCAL INSTANCE SequencesExt

CONSTANTS
    Width,          \* the width of VariableValue (int) in bits
    WithPlayers,    \* the components in whose text "players" occurs
    scopedElement,  \* of a component that begins with '$', what follows it
    stoul           \* of a component that std::stoul accepts, the text of the number

\* (The last two hold of every positive width; the proof system does not know it.)
ASSUME WidthAssumption ==
    /\ Width \in Nat \ {0}
    /\ 2 ^ (Width - 1) \in Nat \ {0}
    /\ 2 ^ Width = 2 * 2 ^ (Width - 1)

ASSUME NamesAssumption ==
    /\ "players" \in WithPlayers
    /\ "debug_target" \notin WithPlayers

VariableValue == -(2 ^ (Width - 1)) .. (2 ^ (Width - 1) - 1)

\* Overflow of an int, as the compiled code does it.
Wrap(x) == ((x + 2 ^ (Width - 1)) % 2 ^ Width) - 2 ^ (Width - 1)

ok(value) == [outcome |-> "ok", value |-> value]
failure == [outcome |-> "failure", value |-> 0]
threw == [outcome |-> "threw", value |-> 0]

\* The constructor: every player gets its own copy of the per-player variables.
construct(variableMap, players, perPlayerVariableMap) ==
    [ variableMap |-> variableMap,
      playerVariableMaps |-> [p \in players |-> perPlayerVariableMap],
      activeScopeVariables |-> <<>> ]

-----------------------------------------------------------------------------
\* The scope of for-each elements.

InScope(gs, elem) == elem \in DOMAIN gs.activeScopeVariables

setActiveScopeVariable_Noop(gs, elem, player) == gs
setActiveScopeVariable(gs, elem, player) ==
    [gs EXCEPT !.activeScopeVariables =
        [e \in DOMAIN @ \cup {elem} |-> IF e = elem THEN player ELSE @[e]]]

unsetActiveScopeVariable_Noop(gs, elem) == gs
unsetActiveScopeVariable(gs, elem) ==
    [gs EXCEPT !.activeScopeVariables = [e \in DOMAIN @ \ {elem} |-> @[e]]]

-----------------------------------------------------------------------------
\* Access by key.

getVariable(gs, var) ==
    IF var \in DOMAIN gs.variableMap THEN ok(gs.variableMap[var]) ELSE failure

getPlayerVariable(gs, player, var) ==
    IF player \in DOMAIN gs.playerVariableMaps /\ var \in DOMAIN gs.playerVariableMaps[player]
    THEN ok(gs.playerVariableMaps[player][var])
    ELSE failure

setVariable(gs, var, value) == [gs EXCEPT !.variableMap[var] = value]

setPlayerVariable_AllPlayers(gs, player, var, value) ==
    [gs EXCEPT !.playerVariableMaps = [p \in DOMAIN @ |-> [@[p] EXCEPT ![var] = value]]]
setPlayerVariable(gs, player, var, value) ==
    [gs EXCEPT !.playerVariableMaps[player][var] = value]

\* find("players"): the text of the name contains it somewhere.
OfPlayer(name) == \E i \in DOMAIN name : name[i] \in WithPlayers

\* The elements that a name refers to by a '$'.
References(name) == {i \in DOMAIN name : name[i] \in DOMAIN scopedElement}
Elements(name) == {scopedElement[name[i]] : i \in References(name)}

\* Every '$elem' is replaced by its player; one out of scope leaves an empty string.
parseRuntimeVariables(gs, name) ==
    IF \A elem \in Elements(name) : InScope(gs, elem)
    THEN [i \in DOMAIN name |-> IF i \in References(name)
                                THEN gs.activeScopeVariables[scopedElement[name[i]]]
                                ELSE name[i]]
    ELSE <<>>

\* extractPlayerVariableInfo takes the second component for the number of a player
\* and what follows for the player's variable, whatever the first one is.  With
\* fewer than three it builds a string from a reversed range, which throws
\* std::length_error; std::stoul throws for what is not a number.
Extractable(name) == Len(name) > 2 /\ name[2] \in DOMAIN stoul
playerOf(name) == stoul[name[2]]
variableOf(name) == SubSeq(name, 3, Len(name))

getValue(gs, rawName) ==
    LET name == parseRuntimeVariables(gs, rawName) IN
    IF ~OfPlayer(rawName) THEN getVariable(gs, rawName)
    ELSE IF Extractable(name) THEN getPlayerVariable(gs, playerOf(name), variableOf(name))
    ELSE threw

\* setValue fails and throws exactly when getValue does; otherwise it gives
\* the state with the variable set.
setValueOutcome(gs, rawName) == getValue(gs, rawName).outcome
setValue(gs, rawName, value) ==
    LET name == parseRuntimeVariables(gs, rawName) IN
    IF ~OfPlayer(rawName)
    THEN setVariable(gs, rawName, value)
    ELSE setPlayerVariable(gs, playerOf(name), variableOf(name), value)
=============================================================================

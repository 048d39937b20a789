----------------------------- MODULE GameRules -----------------------------
(***************************************************************************)
(* Execution of a game: the rules of src/GameRules/GameRules.cpp and the   *)
(* loop over the top level rules in GameServer::processMessages, as a      *)
(* machine with an explicit stack in place of the C++ calls of executeRule.*)
(*                                                                         *)
(* A rule is a record with the field `type` ("add", "message", "foreach",  *)
(* "input" or "loop") and the members of its class.                        *)
(***************************************************************************)
EXTENDS GameState, FiniteSets
LOCAL INSTANCE SequencesExt

CONSTANTS
    Rule,           \* the rules that games are made of
    Games,          \* the lists of top level rules to be executed
    Players,        \* those who may be connected, by the texts of their numbers
    variables,      \* GameData::variableMap
    perPlayer       \* GameData::perPlayerVariableMap

ASSUME RulesAssumption ==
    /\ Games \subseteq Seq(Rule)
    /\ \A r \in Rule : /\ r.type = "add" => r.target \in Seq(STRING) /\ r.value \in Int
                       /\ r.type = "input" => r.target \in Seq(STRING) /\ r.result \in Seq(STRING)
                       /\ r.type \in {"foreach", "loop"} => r.body \in Seq(Rule)
    /\ IsFiniteSet(Players) /\ \A p \in Players : p \in DOMAIN stoul /\ stoul[p] = p
    /\ variables \in [DOMAIN variables -> VariableValue]
    /\ perPlayer \in [DOMAIN perPlayer -> VariableValue]

VARIABLES
    game,           \* the list of rules being executed
    playerIDs,      \* the players connected, as the map of players is iterated
    gameState,
    stack,          \* the activations of rule lists, innermost first
    result          \* "running", "ok", "failure" or "threw"

vars == <<game, playerIDs, gameState, stack, result>>

(***************************************************************************)
(* An activation: the rule whose list is being executed, what is left of   *)
(* the list, and for a for-each the players from the current one on.       *)
(***************************************************************************)
activation(rule, rest, players) == [rule |-> rule, rest |-> rest, players |-> players]
toplevel == [type |-> "toplevel"]

Init ==
    /\ game \in Games
    /\ \E n \in 0 .. Cardinality(Players) : playerIDs \in [1 .. n -> Players]
    /\ \A i, j \in DOMAIN playerIDs : playerIDs[i] = playerIDs[j] => i = j
    /\ gameState = construct(variables, ToSet(playerIDs), perPlayer)
    /\ stack = <<activation(toplevel, game, <<>>)>>
    /\ result = "running"

top == Head(stack)

\* The rule to execute next is of this type.
Executing(type) == result = "running" /\ top.rest # <<>> /\ Head(top.rest).type = type
rule == Head(top.rest)

\* The current list has been executed; it belongs to a rule of this type.
Finished(type) == result = "running" /\ top.rest = <<>> /\ top.rule.type = type

\* A failed rule fails every rule around it, and an exception passes through.
stop(outcome) ==
    /\ result' = outcome
    /\ UNCHANGED <<gameState, stack>>

advanced == <<[top EXCEPT !.rest = Tail(@)]>> \o Tail(stack)

\* The rule has succeeded.
succeed(gs) ==
    /\ gameState' = gs
    /\ stack' = advanced
    /\ UNCHANGED result

-----------------------------------------------------------------------------
sum_NoWrap(x, y) == x + y
sum(x, y) == Wrap(x + y)

AddRule ==
    /\ Executing("add")
    /\ LET got == getValue(gameState, rule.target) IN
       IF got.outcome # "ok"
       THEN stop(got.outcome)
       ELSE succeed(setValue(gameState, rule.target, sum(got.value, rule.value)))
    /\ UNCHANGED <<game, playerIDs>>

GlobalMessageRule ==
    /\ Executing("message")
    /\ succeed(gameState)
    /\ UNCHANGED <<game, playerIDs>>

\* The rule is unfinished code: it sets the variable to a fixed value, in place of
\* the user's input, and fails all the same.
InputValue == Wrap(123456789)

InputTextRule ==
    /\ Executing("input")
    /\ LET got == getValue(gameState, rule.target)
           outcome == setValueOutcome(gameState, rule.result)
       IN  IF got.outcome # "ok" THEN stop(got.outcome)
           ELSE IF outcome # "ok" THEN stop(outcome)
           ELSE /\ gameState' = setValue(gameState, rule.result, InputValue)
                /\ result' = "failure"
                /\ UNCHANGED stack
    /\ UNCHANGED <<game, playerIDs>>

\* Put the element in scope for the first of these players and execute the body.
startElement(frames, fe, gs, players) ==
    IF InScope(gs, fe.elem)
    THEN stop("failure")
    ELSE /\ gameState' = setActiveScopeVariable(gs, fe.elem, Head(players))
         /\ stack' = <<activation(fe, fe.body, players)>> \o frames
         /\ UNCHANGED result

ForEachRule ==
    /\ Executing("foreach")
    /\ IF rule.list # "players" THEN stop("failure")
       ELSE IF playerIDs = <<>> THEN succeed(gameState)
       ELSE startElement(advanced, rule, gameState, playerIDs)
    /\ UNCHANGED <<game, playerIDs>>

\* The body is done for a player: take the element out of scope, and go on with
\* the next player or return.
nextElement ==
    /\ Finished("foreach")
    /\ LET gs == unsetActiveScopeVariable(gameState, top.rule.elem) IN
       IF ~InScope(gameState, top.rule.elem)
       THEN stop("failure")
       ELSE IF Len(top.players) = 1
       THEN gameState' = gs /\ stack' = Tail(stack) /\ UNCHANGED result
       ELSE startElement(Tail(stack), top.rule, gs, Tail(top.players))
    /\ UNCHANGED <<game, playerIDs>>

\* The hard-coded condition of a loop.
DebugTarget == getValue(gameState, <<"debug_target">>)
StopCondition_AtLeast == DebugTarget.value >= 10
StopCondition_Never == FALSE
StopCondition == DebugTarget.value = 10

LoopRule ==
    /\ Executing("loop")
    /\ IF DebugTarget.outcome # "ok" THEN stop("failure")
       ELSE IF StopCondition THEN succeed(gameState)
       ELSE /\ stack' = <<activation(rule, rule.body, <<>>)>> \o advanced
            /\ UNCHANGED <<gameState, result>>
    /\ UNCHANGED <<game, playerIDs>>

nextIteration ==
    /\ Finished("loop")
    /\ stack' = IF StopCondition
                THEN Tail(stack)
                ELSE <<activation(top.rule, top.rule.body, <<>>)>> \o Tail(stack)
    /\ UNCHANGED <<game, playerIDs, gameState, result>>

\* The last top level rule has been executed.
gameFinished ==
    /\ Finished("toplevel")
    /\ result' = "ok"
    /\ UNCHANGED <<game, playerIDs, gameState, stack>>

Done == result # "running" /\ UNCHANGED vars

Next ==
    \/ AddRule \/ GlobalMessageRule \/ InputTextRule
    \/ ForEachRule \/ nextElement
    \/ LoopRule \/ nextIteration
    \/ gameFinished
    \/ Done

Spec == Init /\ [][Next]_vars

\* The rules are executed in one go, on the thread of the server.
FairSpec == Spec /\ WF_vars(Next)

-----------------------------------------------------------------------------
(***************************************************************************)
(* Properties.                                                             *)
(***************************************************************************)

\* The types; in particular variables are neither added nor removed by the
\* erase and insert of setVariable, and every value fits an int.
TypeOK ==
    /\ game \in Games
    /\ gameState.variableMap \in [DOMAIN variables -> VariableValue]
    /\ gameState.playerVariableMaps \in [ToSet(playerIDs) -> [DOMAIN perPlayer -> VariableValue]]
    /\ \A e \in DOMAIN gameState.activeScopeVariables :
          gameState.activeScopeVariables[e] \in ToSet(playerIDs)
    /\ result \in {"running", "ok", "failure", "threw"}

ForEachs == {i \in DOMAIN stack : stack[i].rule.type = "foreach"}

\* The elements in scope are those of the for-each rules being executed, each
\* standing for the player its rule has come to, and no two rules share a name:
\* after any nesting and sequence of for-each rules no element is left behind
\* (set- and unsetActiveScopeVariable in ForEachRule::executeRuleImpl).
ScopeMatchesActivations ==
    LET scope == gameState.activeScopeVariables IN
    /\ DOMAIN scope = {stack[i].rule.elem : i \in ForEachs}
    /\ \A i \in ForEachs : scope[stack[i].rule.elem] = Head(stack[i].players)
    /\ \A i, j \in ForEachs : i # j => stack[i].rule.elem # stack[j].rule.elem
=============================================================================

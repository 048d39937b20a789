--------------------------- MODULE GameSpecParser ---------------------------
(***************************************************************************)
(* Loading a game: JsonParser::parseJsonFile_gameSpec with its             *)
(* VariableParser and RuleParser (src/JsonParser), as a machine with an    *)
(* explicit stack in place of the recursion between parseRules and         *)
(* parseForEachRule.                                                       *)
(*                                                                         *)
(* A game specification is a record of what the parser tells apart:        *)
(*    readable              the file exists and is JSON                    *)
(*    root                  the types of its root elements, by name        *)
(*    variables, perPlayer  the names of its variables, and whether one of *)
(*                          them has a value that is not a number          *)
(*    rules                 its list of rules                              *)
(* A rule is a record with the field `rule` and the properties of its      *)
(* kind; `shape` is "ok", "properties" (missing or too many) or "types". A *)
(* dotted name is the sequence of its components.  The rules of a for-each *)
(* rule are what iterating over the JSON value gives: the elements of an   *)
(* array, the values of an object, nothing for null and the value itself   *)
(* for any other, which then says no kind ("none"); that the value is not  *)
(* an array is only logged.                                                *)
(***************************************************************************)
EXTENDS Naturals, Sequences
LOCAL INSTANCE SequencesExt

CONSTANT GameSpecs      \* the files the parser may be given

ASSUME GameSpecsAssumption ==
    \A file \in GameSpecs : file.rules \in Seq({file.rules[i] : i \in DOMAIN file.rules})

VARIABLES
    jsonObject,         \* the file's content
    pc,                 \* "parseJson", "parseVariables", "parseRules" or "done"
    variableMap,        \* the names of the variables parsed
    perPlayerVariableMap,
    activeScopedVariableAliases,    \* the elements that stand for players
    stack,              \* the calls of parseRules under way, innermost first
    gameData            \* what parseJsonFile_gameSpec returns

maps == <<variableMap, perPlayerVariableMap>>
vars == <<jsonObject, pc, maps, activeScopedVariableAliases, stack, gameData>>

\* A call of parseRules: the rule whose list it parses, what is left of the
\* list, and the rules made so far (orderedRuleList).
call(rule, rest, rules) == [rule |-> rule, rest |-> rest, rules |-> rules]
toplevel == [rule |-> "toplevel"]

Invalid == [isValid |-> FALSE, variableMap |-> {}, perPlayerVariableMap |-> {}, topLevelRules |-> <<>>]

Init ==
    /\ jsonObject \in GameSpecs
    /\ pc = "parseJson"
    /\ variableMap = {}
    /\ perPlayerVariableMap = {}
    /\ activeScopedVariableAliases = {}
    /\ stack = <<>>
    /\ gameData = Invalid

-----------------------------------------------------------------------------
(***************************************************************************)
(* The root of the file, and its variables.                                *)
(***************************************************************************)

GS_ROOT_ELEMS ==
    [name \in {"configuration", "constants", "variables", "per-player", "per-audience", "rules"} |->
        IF name = "rules" THEN "array" ELSE "object"]

\* Exactly the expected elements, each of the expected type.
validateJsonContent_rootLevelElements(root, rootElemProperties) == root = rootElemProperties

parseJson ==
    /\ pc = "parseJson"
    /\ IF jsonObject.readable /\ validateJsonContent_rootLevelElements(jsonObject.root, GS_ROOT_ELEMS)
       THEN pc' = "parseVariables"
       ELSE pc' = "done"
    /\ UNCHANGED <<jsonObject, maps, activeScopedVariableAliases, stack, gameData>>

\* One value that is not a number, and no variable is returned at all.
parseVariables(variableJson) == IF variableJson.allNumbers THEN variableJson.names ELSE {}

parseBothVariables ==
    /\ pc = "parseVariables"
    /\ pc' = "parseRules"
    /\ variableMap' = parseVariables(jsonObject.variables)
    /\ perPlayerVariableMap' = parseVariables(jsonObject.perPlayer)
    /\ stack' = <<call(toplevel, jsonObject.rules, <<>>)>>
    /\ UNCHANGED <<jsonObject, activeScopedVariableAliases, gameData>>

-----------------------------------------------------------------------------
(***************************************************************************)
(* RuleParser.  An operator named f_Something is f with a plausible slip   *)
(* in it; it is not part of the specification and serves to show which     *)
(* property would notice the slip.                                         *)
(***************************************************************************)

top == Head(stack)
ruleJson == Head(top.rest)

\* parseRules comes to a rule of this kind.
Parsing(kind) == pc = "parseRules" /\ top.rest # <<>> /\ ruleJson.rule = kind

\* The component that refers to an element at run time: "$name".
reference(element) == "$" \o element

\* Every component that is the name of an element in scope becomes
\* "players.$name".
processScopedVariables_WholeNameOnly(name) ==
    IF Len(name) = 1 /\ name[1] \in activeScopedVariableAliases
    THEN <<"players", reference(name[1])>>
    ELSE name
processScopedVariables(name) ==
    FlattenSeq([i \in DOMAIN name |->
        IF name[i] \in activeScopedVariableAliases THEN <<"players", reference(name[i])>> ELSE <<name[i]>>])

\* A rule has been made, and is added to the list.
push_back(rule) ==
    /\ stack' = <<call(top.rule, Tail(top.rest), Append(top.rules, rule))>> \o Tail(stack)
    /\ UNCHANGED activeScopedVariableAliases

\* A rule could not be made: parseRules returns an empty list.
returnNothing_KeepsRules ==
    /\ stack' = <<call(top.rule, <<>>, top.rules)>> \o Tail(stack)
    /\ UNCHANGED activeScopedVariableAliases
returnNothing ==
    /\ stack' = <<call(top.rule, <<>>, <<>>)>> \o Tail(stack)
    /\ UNCHANGED activeScopedVariableAliases

parseAddRule ==
    /\ Parsing("add")
    /\ IF ruleJson.shape # "ok"
       THEN returnNothing
       ELSE push_back([type |-> "add", target |-> processScopedVariables(ruleJson.to),
                       value |-> ruleJson.value])
    /\ UNCHANGED <<jsonObject, pc, maps, gameData>>

parseGlobalMessageRule ==
    /\ Parsing("global-message")
    /\ IF ruleJson.shape # "ok" THEN returnNothing ELSE push_back([type |-> "message"])
    /\ UNCHANGED <<jsonObject, pc, maps, gameData>>

parseInputTextRule ==
    /\ Parsing("input-text")
    /\ IF ruleJson.shape # "ok"
       THEN returnNothing
       ELSE push_back([type |-> "input", target |-> processScopedVariables(ruleJson.to),
                       result |-> processScopedVariables(ruleJson.result)])
    /\ UNCHANGED <<jsonObject, pc, maps, gameData>>

\* A loop (its parser is commented out), a rule of a kind that is not known, and
\* one that does not say its kind ("none").
parseOtherRule ==
    /\ \E kind \in {"loop", "unknown", "none"} : Parsing(kind)
    /\ returnNothing
    /\ UNCHANGED <<jsonObject, pc, maps, gameData>>

\* The element becomes an alias while its rules are parsed.
parseForEachRule ==
    /\ Parsing("foreach")
    /\ IF ruleJson.shape # "ok" \/ ruleJson.list # "players"
       THEN returnNothing
       ELSE /\ activeScopedVariableAliases' = activeScopedVariableAliases \cup {ruleJson.element}
            /\ stack' = <<call(ruleJson, ruleJson.rules, <<>>),
                          call(top.rule, Tail(top.rest), top.rules)>> \o Tail(stack)
    /\ UNCHANGED <<jsonObject, pc, maps, gameData>>

\* The rest of parseForEachRule, once its call of parseRules has returned.
erase_Forgotten(element) == activeScopedVariableAliases
erase(element) == activeScopedVariableAliases \ {element}

endForEach ==
    LET outer == stack[2] IN
    /\ pc = "parseRules"
    /\ top.rest = <<>> /\ Len(stack) > 1
    /\ stack' = <<call(outer.rule, outer.rest,
                       Append(outer.rules, [type |-> "foreach", list |-> top.rule.list,
                                            elem |-> top.rule.element, body |-> top.rules]))>>
                \o SubSeq(stack, 3, Len(stack))
    /\ activeScopedVariableAliases' = erase(top.rule.element)
    /\ UNCHANGED <<jsonObject, pc, maps, gameData>>

\* The rest of parseJsonFile_gameSpec.
returnGameData ==
    /\ pc = "parseRules"
    /\ top.rest = <<>> /\ Len(stack) = 1
    /\ pc' = "done"
    /\ gameData' = IF variableMap = {} \/ top.rules = <<>>
                   THEN Invalid
                   ELSE [isValid |-> TRUE, variableMap |-> variableMap,
                         perPlayerVariableMap |-> perPlayerVariableMap, topLevelRules |-> top.rules]
    /\ UNCHANGED <<jsonObject, maps, activeScopedVariableAliases, stack>>

Done == pc = "done" /\ UNCHANGED vars

Next ==
    \/ parseJson \/ parseBothVariables
    \/ parseAddRule \/ parseGlobalMessageRule \/ parseInputTextRule \/ parseOtherRule
    \/ parseForEachRule \/ endForEach
    \/ returnGameData
    \/ Done

Spec == Init /\ [][Next]_vars

-----------------------------------------------------------------------------
(***************************************************************************)
(* Properties.                                                             *)
(***************************************************************************)

Enclosing == {stack[i].rule.element : i \in {j \in DOMAIN stack : stack[j].rule.rule = "foreach"}}

\* Only the elements of for-each rules being parsed are aliases, and none is left
\* once the rules have been parsed, whatever failed on the way (the insert and
\* the erase in parseForEachRule).
AliasesNeverLeak ==
    /\ activeScopedVariableAliases \subseteq Enclosing
    /\ pc = "done" => activeScopedVariableAliases = {}

\* A game that is accepted has a rule for each of its file's top level rules, and
\* all of its variables: never only those before one that could not be parsed
\* (parseRules, parseVariables).  Of its per-player variables it has all or none:
\* when one is not a number they are all dropped, and the game is accepted
\* without them.
AcceptedWhole ==
    gameData.isValid =>
        /\ Len(gameData.topLevelRules) = Len(jsonObject.rules)
        /\ gameData.variableMap = jsonObject.variables.names
        /\ gameData.perPlayerVariableMap \in {{}, jsonObject.perPlayer.names}
=============================================================================

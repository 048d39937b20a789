---------------------------- MODULE GameMeaning ----------------------------
(***************************************************************************)
(* What the text of a game means, by definitions that know nothing of      *)
(* stacks or the order of players, and that executing it comes to that.    *)
(*                                                                         *)
(* The definitions are recursive over the text, which may be of any depth: *)
(* they are parameters, of which the equations of the recursion are        *)
(* assumed (MCGameRules defines them).                                     *)
(***************************************************************************)
EXTENDS GameRules
LOCAL INSTANCE SequencesExt

CONSTANTS
    Lists,              \* the games, the bodies of their rules, and the ends of these
    Loopless,           \* those without a loop at any depth
    WellScoped(_, _),   \* the references of a list are to elements of this scope
    Added(_, _, _, _)   \* what a list adds to a variable, when there are n players and
                        \* these are the elements that stand for the one concerned

\* What is left of these lists after their first rules, and the bodies of those.
Tails(lists) == {Tail(l) : l \in lists \ {<<>>}}
Nested(lists) ==
    {Head(l).body : l \in {m \in lists \ {<<>>} : Head(m).type \in {"foreach", "loop"}}}

ASSUME ListsAssumption ==
    /\ Games \subseteq Lists /\ Lists \subseteq Seq(Rule) /\ Loopless \subseteq Lists
    /\ Tails(Lists) \cup Nested(Lists) \subseteq Lists
    /\ Tails(Loopless) \cup Nested(Loopless) \subseteq Loopless
    /\ <<>> \in Loopless
    /\ \A rules \in Loopless \ {<<>>} : Head(rules).type # "loop"

Elem == {r.elem : r \in {q \in Rule : q.type = "foreach"}}

\* A name in which "players" occurs can be taken apart in this scope: the elements it
\* refers to are in scope, and it has a player, by reference or by number, and a
\* variable.
Refers(name, scope) ==
    OfPlayer(name) => /\ Elements(name) \subseteq scope
                      /\ Len(name) > 2 /\ name[2] \in DOMAIN scopedElement \cup DOMAIN stoul

ASSUME WellScopedAssumption ==
    \A rules \in Lists \ {<<>>}, scope \in SUBSET Elem :
        WellScoped(rules, scope) =>
            LET r == Head(rules) IN
            /\ WellScoped(Tail(rules), scope)
            /\ r.type \in {"add", "input"} => Refers(r.target, scope)
            /\ r.type = "input" => Refers(r.result, scope)
            /\ r.type = "foreach" => WellScoped(r.body, scope \cup {r.elem})
            /\ r.type = "loop" => WellScoped(r.body, scope)

\* A variable: one of the game, or one of a player (but for those named like a
\* player or a reference, which a name can come to mean by what is put in for an
\* element).
PlainNames == {name \in DOMAIN perPlayer : \A i \in DOMAIN name : name[i] \notin DOMAIN scopedElement \cup Players}
Variable ==
    [ofPlayer : {FALSE}, name : DOMAIN variables]
    \cup [ofPlayer : {TRUE}, player : Players, name : PlainNames]

\* The name means the variable, when these elements stand for the variable's player.
Means(name, x, elems) ==
    IF x.ofPlayer
    THEN /\ OfPlayer(name) /\ variableOf(name) = x.name
         /\ IF 2 \in References(name)
            THEN scopedElement[name[2]] \in elems
            ELSE name[2] \in DOMAIN stoul /\ playerOf(name) = x.player
    ELSE ~OfPlayer(name) /\ name = x.name

\* A for-each has one round for the player concerned, and n - 1 for others.
AddedBy(x, r, n, elems) ==
    CASE r.type = "add" -> IF Means(r.target, x, elems) THEN r.value ELSE 0
      [] r.type = "foreach" ->
             IF n = 0 THEN 0
             ELSE Added(x, r.body, n, elems \cup {r.elem}) + (n - 1) * Added(x, r.body, n, elems)
      [] OTHER -> 0

ASSUME AddedAssumption ==
    \A x \in Variable, rules \in Loopless, n \in 0 .. Cardinality(Players), elems \in SUBSET Elem :
        /\ Added(x, rules, n, elems) \in Int
        /\ Added(x, rules, n, elems) =
              IF rules = <<>> THEN 0
              ELSE AddedBy(x, Head(rules), n, elems) + Added(x, Tail(rules), n, elems)

\* The games that are one loop, without loops in its body.
SingleLoops == {<<r>> : r \in {q \in Rule : q.type = "loop" /\ q.body \in Loopless}}

debugTarget == [ofPlayer |-> FALSE, name |-> <<"debug_target">>]

\* The numbers of iterations of a loop with this body after which debug_target
\* is 10.  (If there is one at all, there is one below the number of ints.)
Stops(body, n) ==
    {k \in 0 .. 2 ^ Width - 1 :
        Wrap(variables[debugTarget.name] + k * Added(debugTarget, body, n, {})) = 10}

-----------------------------------------------------------------------------
(***************************************************************************)
(* Properties.                                                             *)
(***************************************************************************)

\* Every variable has changed by `times` what these rules add to it.
Accumulated(rules, times) ==
    \A x \in Variable :
        LET added == times * Added(x, rules, Len(playerIDs), {}) IN
        IF x.ofPlayer
        THEN x.player \in ToSet(playerIDs) =>
                gameState.playerVariableMaps[x.player][x.name] = Wrap(perPlayer[x.name] + added)
        ELSE gameState.variableMap[x.name] = Wrap(variables[x.name] + added)

\* A game without loops that succeeds has added to every variable what its text
\* says, for any number of players and in whatever order the unordered_map yields
\* them (GameState::getPlayerIDs, ForEachRule::executeRuleImpl).
ResultIgnoresPlayerOrder == result = "ok" /\ game \in Loopless => Accumulated(game, 1)

\* Executing a rule throws, which ends the server, only in games with a name in
\* whose text "players" occurs and which refers to an element out of scope, names no
\* player by an element or a number, or no variable of the player
\* (parseRuntimeVariables, extractPlayerVariableInfo).
OnlyBadReferencesThrow == WellScoped(game, {}) => result # "threw"

\* A loop that ends has executed its body as often as it takes debug_target to
\* hit 10 exactly, for the first time; one that steps over it does not end there
\* (LoopRule::executeRuleImpl).
LoopStopsAtTen ==
    game \in SingleLoops /\ result = "ok" =>
        LET stops == Stops(game[1].body, Len(playerIDs)) IN
        \E k \in stops : (\A j \in stops : k <= j) /\ Accumulated(game[1].body, k)
=============================================================================

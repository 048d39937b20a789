---------------------------- MODULE MCGameRules ----------------------------
(***************************************************************************)
(* Families of games for TLC, and the meaning of their text.               *)
(***************************************************************************)
EXTENDS GameMeaning, TLC
LOCAL INSTANCE SequencesExt

ThreePlayers == {"7", "42", "789"}

MCvariables == <<"debug_target">> :> 0 @@ <<"score">> :> 3 @@ <<"max_players">> :> 4
MCperPlayer == <<"input">> :> 1

MCWithPlayers == {"players", "max_players"}
MCscopedElement == "$player" :> "player" @@ "$other" :> "other"
MCstoul == [p \in ThreePlayers \cup {"99"} |-> p] @@ "007" :> "7"

score == <<"score">>
inputOf(player) == <<"players", player, "input">>

add(target, value) == [type |-> "add", target |-> target, value |-> value]
message == [type |-> "message"]
input(target, variable) == [type |-> "input", target |-> target, result |-> variable]
foreach(elem, body) == [type |-> "foreach", list |-> "players", elem |-> elem, body |-> body]
loop(body) == [type |-> "loop", body |-> body]

-----------------------------------------------------------------------------
\* Rules in and out of scope, of existing and missing variables, within range
\* of int and beyond it.
Additions == { add(score, 9), add(inputOf("$player"), 2) }
Leaves == Additions \cup
    { message,
      add(<<"missing">>, 1), add(inputOf("$other"), -5),
      add(<<"players", "$player">>, 1),
      input(<<"players", "$player">>, inputOf("$player")),
      input(inputOf("$player"), inputOf("$player")) }

\* Names that are taken apart as they stand: with the number of a player who may be
\* connected or of nobody, with too few components or no number, a global variable
\* in whose name "players" occurs, and one that refers to two elements.
Names ==
    { inputOf("7"), inputOf("007"), inputOf("99"), inputOf("x"), <<"players", "7", "missing">>,
      <<"players", "7">>, <<"players">>, <<"max_players">>, <<"max_players", "$player", "input">>,
      <<"players", "$player", "$other">> }
NameLeaves ==
    { add(name, 5) : name \in Names } \cup { input(inputOf("7"), name) : name \in Names }

\* For-each rules nested up to two deep, with something before and after the
\* inner one; the inner one may reuse the outer one's element name.
Inner == { foreach(elem, <<leaf>>) : elem \in {"player", "other"}, leaf \in Leaves }
Outer == { foreach("player", <<before, inner, after>>) :
               before \in {message} \cup Additions, inner \in Inner \cup {message}, after \in Leaves }
OtherList == [foreach("player", <<message>>) EXCEPT !.list = "winners"]

ForEachGames ==
    { <<rule1, rule2>> : rule1 \in Outer, rule2 \in {message, add(score, 1),
                                                   foreach("player", <<message>>)} }
    \cup { <<leaf>> : leaf \in Leaves \cup NameLeaves } \cup { <<OtherList>>, <<>> }
    \cup { <<foreach("player", <<add(inputOf("$player"), 2), leaf>>)>> : leaf \in NameLeaves }

\* Loops whose body changes debug_target by 1 .. 6 in all, once or once per player.
LoopGames ==
    { <<loop(<<add(score, 1), add(<<"debug_target">>, step)>>)>> :
          step \in 1 .. 6 }
    \cup { <<loop(<<foreach("player", <<add(<<"debug_target">>, step),
                                       add(inputOf("$player"), 1)>>)>>)>> :
          step \in 1 .. 6 }

AllGames == ForEachGames \cup LoopGames

\* The ends of these lists, of up to three rules, and of the bodies in them, up to
\* two deep.
Ends(lists) == {SubSeq(l, i, Len(l)) : l \in lists, i \in 1 .. 4}
Bodies(lists) == {r.body : r \in {q \in UNION {ToSet(l) : l \in lists} : q.type \in {"foreach", "loop"}}}
Within(games) == Ends(games \cup Bodies(games) \cup Bodies(Bodies(games)))

AllLists == Within(AllGames)
LooplessLists == Within(ForEachGames \cup Bodies(LoopGames))
AllRules == UNION {ToSet(l) : l \in AllLists}

-----------------------------------------------------------------------------
RECURSIVE MCWellScoped(_, _)
MCWellScoped(rules, scope) ==
    \A i \in DOMAIN rules :
        LET r == rules[i] IN
        CASE r.type = "foreach" -> MCWellScoped(r.body, scope \cup {r.elem})
          [] r.type = "loop" -> MCWellScoped(r.body, scope)
          [] r.type = "add" -> Refers(r.target, scope)
          [] r.type = "input" -> Refers(r.target, scope) /\ Refers(r.result, scope)
          [] OTHER -> TRUE

RECURSIVE MCAdded(_, _, _, _)
MCAdded(x, rules, n, elems) ==
    IF rules = <<>> THEN 0
    ELSE LET r == Head(rules)
             here == CASE r.type = "add" -> IF Means(r.target, x, elems) THEN r.value ELSE 0
                       [] r.type = "foreach" /\ n > 0 ->
                              MCAdded(x, r.body, n, elems \cup {r.elem})
                              + (n - 1) * MCAdded(x, r.body, n, elems)
                       [] OTHER -> 0
         IN  here + MCAdded(x, Tail(rules), n, elems)

-----------------------------------------------------------------------------
\* Every game without loops ends, and so does every loop that can hit 10
\* (ForEachRule::executeRuleImpl, LoopRule::executeRuleImpl).
CanEnd == game \in SingleLoops => Stops(game[1].body, Len(playerIDs)) # {}
Terminates == CanEnd ~> result # "running"

=============================================================================

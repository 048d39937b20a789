------------------------------ MODULE MCLobby ------------------------------
(***************************************************************************)
(* Hosts for TLC, and what executing the game of a file should come to, by *)
(* definitions on the file's text.                                         *)
(***************************************************************************)
EXTENDS Lobby, MCGameSpecParser, TLC
LOCAL INSTANCE SequencesExt

TwoPlayers == {"7", "42"}

MCWithPlayers == {"players", "max_players"}
MCscopedElement == "$player" :> "player" @@ "$other" :> "other"
MCstoul == [p \in TwoPlayers \cup {"99"} |-> p]

Config(number_) ==
    [opens |-> TRUE, readable |-> TRUE, root |-> SC_ROOT_ELEMS, port |-> number_]

\* Ports of every length, with zeros at either end, at and beyond the limit.
Configs ==
    { Config(n) : n \in {0, 7, 10, 4000, 4002, 10203, 65535, 65536, 65546, 131072} }
    \cup { [Config(4000) EXCEPT !.opens = FALSE], [Config(4000) EXCEPT !.readable = FALSE],
           [Config(4000) EXCEPT !.root["port"] = "string"] }

Host(configuration, name, gameFile) ==
    [configFile |-> configuration, gameName |-> name, gameFile |-> gameFile]

MCHosts ==
    { Host(c, name, Plain) : c \in Configs, name \in {"Test", "Chess"} }
    \cup { Host(Config(4000), "Test", gameFile) : gameFile \in MCGameSpecs }

-----------------------------------------------------------------------------
\* The name is that of a variable of a player, in the scope of these elements.
ConcernsPlayers(name, scope) == \E i \in DOMAIN name : name[i] \in scope \cup WithPlayers

\* It says which player, by an element in scope or by number, and which variable.
Usable(name, scope) ==
    /\ \A i \in DOMAIN name : name[i] \in DOMAIN scopedElement => scopedElement[name[i]] \in scope
    /\ IF name[1] \in scope
       THEN Len(name) > 1
       ELSE /\ Len(name) > 2
            /\ name[2] \notin scope /\ name[2] \in DOMAIN scopedElement \cup DOMAIN stoul

RECURSIVE UnusableName(_, _)
UnusableName(rules, scope) ==
    \E i \in DOMAIN rules :
        LET r == rules[i]
            Bad(name) == ConcernsPlayers(name, scope) /\ ~Usable(name, scope)
        IN  CASE r.rule = "foreach" -> UnusableName(r.rules, scope \cup {r.element})
              [] r.rule = "add" -> Bad(r.to)
              [] r.rule = "input-text" -> Bad(r.to) \/ Bad(r.result)
              [] OTHER -> FALSE

\* Executing a game throws, which ends the server, only if its file has a name that
\* concerns players, or has "players" in its text, and does not say which player and
\* which variable.  The parser's scopes and those of the execution agree even in
\* files with bad rules, reused names and references out of scope (RuleParser's
\* aliases, GameState's activeScopeVariables).
OnlyUnusableNamesThrow == result = "threw" => UnusableName(jsonObject.rules, {})

\* What the text of the rules adds to the variable called <<v>>, or to the variable
\* v of each of n players.
RECURSIVE Adds(_, _, _, _)
Adds(rules, name, n, times) ==
    IF rules = <<>> THEN 0
    ELSE LET r == Head(rules)
             here == CASE r.rule = "add" /\ r.to = name -> r.value * times
                       [] r.rule = "foreach" -> Adds(r.rules, name, n, times * n)
                       [] OTHER -> 0
         IN  here + Adds(Tail(rules), name, n, times)

\* A game that was executed to its end has done what its well-formed file says, for
\* any number of players: from the JSON text, through the aliases and the scopes, to
\* the variables (parseRules, executeRule, GameState).  (Players get what is given to
\* them by number; what they get by elements is the same for all, and counted in total.)
DoesWhatTheFileSays ==
    result = "ok" /\ WellFormedFile =>
        LET n == Len(playerIDs)
            added(name) == Adds(jsonObject.rules, name, n, 1)
            byElement(p) == gameState.playerVariableMaps[p][<<"input">>] - added(<<"players", p, "input">>)
        IN  /\ gameState.variableMap[<<"score">>] = added(<<"score">>)
            /\ FoldLeft(LAMBDA s, p : s + byElement(p), 0, playerIDs)
                  = added(<<"player", "input">>) + added(<<"other", "input">>)
                    + added(<<"players", "$player", "input">>)
            /\ \A p, q \in ToSet(playerIDs) : byElement(p) = byElement(q)

=============================================================================

-------------------------- MODULE MCGameSpecParser --------------------------
(***************************************************************************)
(* Families of game files for TLC, and the meaning of their text.          *)
(***************************************************************************)
EXTENDS GameSpecMeaning
LOCAL INSTANCE SequencesExt

add(to, shape) == [rule |-> "add", to |-> to, value |-> 1, shape |-> shape]
message(shape) == [rule |-> "global-message", shape |-> shape]
input(to, result, shape) == [rule |-> "input-text", to |-> to, result |-> result, shape |-> shape]
other(kind) == [rule |-> kind]
foreach(element, rules) ==
    [rule |-> "foreach", list |-> "players", element |-> element, rules |-> rules,
     shape |-> "ok"]

GoodLeaves ==
    { add(<<"score">>, "ok"), add(<<"player", "score">>, "ok"), add(<<"other", "score">>, "ok"),
      add(<<"player", "input">>, "ok"), message("ok"), input(<<"player">>, <<"other", "input">>, "ok") }
BadLeaves ==
    { add(<<"score">>, "properties"), message("types"), input(<<"player">>, <<"score">>, "properties"),
      other("loop"), other("unknown"), other("none") }
Leaves == GoodLeaves \cup BadLeaves

\* For-each rules two deep, with rules before and after the inner one, which may
\* reuse the name of the outer one.
Inner ==
    { foreach(element, <<leaf>>) : element \in {"player", "other"}, leaf \in Leaves }
    \cup { [foreach("other", <<message("ok")>>) EXCEPT !.shape = "types"],
           [foreach("other", <<message("ok")>>) EXCEPT !.list = "winners"],
           [foreach("other", <<message("ok")>>) EXCEPT !.rules = <<>>] }
RuleLists ==
    { <<foreach("player", <<before, inner, after>>), last>> :
          before \in {message("ok"), message("types")}, inner \in Inner \cup Leaves,
          after \in Leaves,
          last \in {message("ok"), add(<<"player", "score">>, "ok"), other("loop")} }
    \cup { <<leaf>> : leaf \in Leaves } \cup {<<>>}

\* Names that the execution cannot take apart or only just: a bare element, names with
\* "players" in their text, references written out, and the numbers of players who
\* may be there or not; at the top level, in a for-each rule, and in one inside it.
Names ==
    { <<"player">>, <<"players">>, <<"players", "input">>, <<"players", "7">>, <<"max_players">>,
      <<"players", "7", "input">>, <<"players", "99", "input">>, <<"players", "$player", "input">>,
      <<"players", "player", "input">> }
NameLists ==
    LET leaves == { add(name, "ok") : name \in Names }
                  \cup { input(<<"score">>, name, "ok") : name \in Names }
    IN  { <<leaf>> : leaf \in leaves }
        \cup { <<foreach("player", <<leaf, add(<<"player", "input">>, "ok")>>)>> : leaf \in leaves }
        \cup { <<foreach("player", <<foreach("other", <<leaf>>), message("ok")>>)>> : leaf \in leaves }

Numbers(names) == [names |-> names, allNumbers |-> TRUE]
file(rules) ==
    [readable |-> TRUE, root |-> GS_ROOT_ELEMS, variables |-> Numbers({"score", "max_players"}),
     perPlayer |-> Numbers({"input"}), rules |-> rules]

Plain == file(<<message("ok")>>)
MCGameSpecs ==
    { file(rules) : rules \in RuleLists \cup NameLists }
    \cup { [Plain EXCEPT !.readable = FALSE],
           [Plain EXCEPT !.root["rules"] = "object"],
           [Plain EXCEPT !.root = [name \in DOMAIN GS_ROOT_ELEMS \ {"constants"} |-> GS_ROOT_ELEMS[name]]],
           [Plain EXCEPT !.variables.allNumbers = FALSE],
           [Plain EXCEPT !.variables.names = {}],
           [Plain EXCEPT !.perPlayer.allNumbers = FALSE] }

\* Files that are well-formed but for the body of their one for-each rule.
NestedSpecs == { file(<<foreach("player", <<message("ok"), leaf>>)>>) : leaf \in Leaves }

-----------------------------------------------------------------------------
\* The ends of the files' lists, of up to three rules, and of the bodies in them, up
\* to two deep.
Ends(lists) == {SubSeq(l, i, Len(l)) : l \in lists, i \in 1 .. 4}
Bodies(lists) == {r.rules : r \in {q \in UNION {ToSet(l) : l \in lists} : q.rule = "foreach"}}
Within(lists) == Ends(lists \cup Bodies(lists) \cup Bodies(Bodies(lists)))

MCSpecLists == Within({f.rules : f \in MCGameSpecs \cup NestedSpecs})

RECURSIVE MCWellFormed(_, _)
MCWellFormed(rules, scope) ==
    \A i \in DOMAIN rules :
        LET r == rules[i] IN
        /\ r.rule \in {"add", "global-message", "input-text", "foreach"} /\ r.shape = "ok"
        /\ r.rule \in {"add", "input-text"} => Clear(r.to, scope)
        /\ r.rule = "input-text" => Clear(r.result, scope)
        /\ r.rule = "foreach" =>
              /\ r.list = "players" /\ r.element \notin scope
              /\ MCWellFormed(r.rules, scope \cup {r.element})

RECURSIVE MCExpected(_, _)
MCExpected(rules, scope) ==
    [i \in DOMAIN rules |->
        LET r == rules[i]
            to == Meaning(r.to, scope)
        IN CASE r.rule = "add" -> [type |-> "add", target |-> to, value |-> r.value]
             [] r.rule = "global-message" -> [type |-> "message"]
             [] r.rule = "input-text" ->
                    [type |-> "input", target |-> to, result |-> Meaning(r.result, scope)]
             [] r.rule = "foreach" -> [type |-> "foreach", list |-> r.list, elem |-> r.element,
                                       body |-> MCExpected(r.rules, scope \cup {r.element})]]

\* JsonParser.cpp:69: "(invalid data is returned when game spec JSON is invalid)".
\* So a file with a rule that cannot be parsed, be it inside a for-each rule, does
\* not give valid data.
InvalidIsRefused == pc = "done" /\ ~WellFormedFile => ~gameData.isValid
=============================================================================

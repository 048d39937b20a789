-------------------------- MODULE GameSpecMeaning --------------------------
(***************************************************************************)
(* Which game files are well-formed and what should come of those, by      *)
(* definitions with lexical scopes and no state, and that the parser comes *)
(* to that.                                                                *)
(*                                                                         *)
(* The definitions are recursive over the text, which may be of any depth: *)
(* they are parameters, of which the equations of the recursion are        *)
(* assumed (MCGameSpecParser defines them).                                *)
(***************************************************************************)
EXTENDS GameSpecParser

CONSTANTS
    SpecLists,          \* the lists of rules in the files, at any depth, and their ends
    WellFormed(_, _),   \* every rule of a list in the scope of these elements can be parsed
    Expected(_, _)      \* the rules that should be made of it

\* The rules of these lists that come first, and those of them with their properties.
First(lists, kinds) == {r \in {Head(l) : l \in lists \ {<<>>}} : r.rule \in kinds}
Complete(lists, kinds) == {r \in First(lists, kinds) : r.shape = "ok"}

IsList(s) == s \in Seq({s[i] : i \in DOMAIN s})

ASSUME SpecListsAssumption ==
    /\ {file.rules : file \in GameSpecs} \subseteq SpecLists
    /\ \A l \in SpecLists : IsList(l)
    /\ {Tail(l) : l \in SpecLists \ {<<>>}} \subseteq SpecLists
    /\ {r.rules : r \in Complete(SpecLists, {"foreach"})} \subseteq SpecLists
    /\ \A r \in Complete(SpecLists, {"add", "input-text"}) : IsList(r.to) /\ r.to # <<>>
    /\ \A r \in Complete(SpecLists, {"input-text"}) : IsList(r.result) /\ r.result # <<>>

Element == {r.element : r \in Complete(SpecLists, {"foreach"})}

\* Only the first component of the name may be an element.
Clear(name, scope) == \A i \in 2 .. Len(name) : name[i] \notin scope

\* A rule of a supported kind, with its properties; a for-each rule does not reuse
\* the name of an element.
WellFormedRule(r, scope) ==
    /\ r.rule \in {"add", "global-message", "input-text", "foreach"}
    /\ r.shape = "ok"
    /\ r.rule \in {"add", "input-text"} => Clear(r.to, scope)
    /\ r.rule = "input-text" => Clear(r.result, scope)
    /\ r.rule = "foreach" =>
          /\ r.list = "players" /\ r.element \notin scope
          /\ WellFormed(r.rules, scope \cup {r.element})

ASSUME WellFormedAssumption ==
    \A rules \in SpecLists, scope \in SUBSET Element :
        WellFormed(rules, scope) <=>
            rules # <<>> => WellFormedRule(Head(rules), scope) /\ WellFormed(Tail(rules), scope)

\* A reference to an element goes to a player exactly in the scope of the element.
Meaning(name, scope) ==
    IF Head(name) \in scope THEN <<"players", reference(Head(name))>> \o Tail(name) ELSE name

ExpectedRule(r, scope) ==
    CASE r.rule = "add" -> [type |-> "add", target |-> Meaning(r.to, scope), value |-> r.value]
      [] r.rule = "global-message" -> [type |-> "message"]
      [] r.rule = "input-text" -> [type |-> "input", target |-> Meaning(r.to, scope),
                                   result |-> Meaning(r.result, scope)]
      [] r.rule = "foreach" -> [type |-> "foreach", list |-> r.list, elem |-> r.element,
                                body |-> Expected(r.rules, scope \cup {r.element})]

ASSUME ExpectedAssumption ==
    \A rules \in SpecLists, scope \in SUBSET Element :
        WellFormed(rules, scope) =>
            /\ IsList(Expected(rules, scope))
            /\ Expected(rules, scope) =
                  IF rules = <<>> THEN <<>>
                  ELSE <<ExpectedRule(Head(rules), scope)>> \o Expected(Tail(rules), scope)

-----------------------------------------------------------------------------
(***************************************************************************)
(* Properties.                                                             *)
(***************************************************************************)

WellFormedFile ==
    /\ jsonObject.readable /\ jsonObject.root = GS_ROOT_ELEMS
    /\ jsonObject.variables.allNumbers /\ jsonObject.variables.names # {}
    /\ jsonObject.perPlayer.allNumbers
    /\ jsonObject.rules # <<>> /\ WellFormed(jsonObject.rules, {})

\* A well-formed file is accepted, and its references to for-each elements are
\* resolved as their lexical scope says, before, inside and after nested rules
\* (the aliases of RuleParser).
ParsesFaithfully ==
    pc = "done" /\ WellFormedFile =>
        gameData.isValid /\ gameData.topLevelRules = Expected(jsonObject.rules, {})
=============================================================================

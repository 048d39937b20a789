-------------------------- MODULE GameRulesProofs --------------------------
(***************************************************************************)
(* Proofs about GameRules and GameMeaning, for any rules nested to any     *)
(* depth, any players in any order, and any width of int.                  *)
(***************************************************************************)
EXTENDS GameMeaning, SequenceTheorems, FiniteSetTheorems, TLAPS
LOCAL INSTANCE SequencesExt

\* A game state of these players.
Shape(gs, P) ==
    /\ gs = [variableMap |-> gs.variableMap,
             playerVariableMaps |-> gs.playerVariableMaps,
             activeScopeVariables |-> gs.activeScopeVariables]
    /\ gs.variableMap \in [DOMAIN variables -> VariableValue]
    /\ gs.playerVariableMaps \in [P -> [DOMAIN perPlayer -> VariableValue]]
    /\ \A e \in DOMAIN gs.activeScopeVariables : gs.activeScopeVariables[e] \in P

\* A scope with one more element, and with one less.
With(scope, elem, p) == [e \in DOMAIN scope \cup {elem} |-> IF e = elem THEN p ELSE scope[e]]
Without(scope, elem) == [e \in DOMAIN scope \ {elem} |-> scope[e]]

IsForEach(a) == a.rule.type = "foreach"

Activation(P) == [rule : Rule \cup {toplevel}, rest : Seq(Rule), players : Seq(P)]

\* The activations: the outermost is that of the top level rules, and a for-each
\* that is being executed has a current player.
Frames(st, P) ==
    /\ st \in Seq(Activation(P))
    /\ st # <<>>
    /\ st[Len(st)].rule = toplevel
    /\ \A i \in DOMAIN st : IsForEach(st[i]) => st[i].players # <<>>

\* ScopeMatchesActivations, of any scope and any activations.
StandsForCurrent(scope, a) == scope[a.rule.elem] = Head(a.players)
ForEachsOf(st) == {i \in DOMAIN st : IsForEach(st[i])}
ScopeOK(scope, st) ==
    /\ DOMAIN scope = {st[i].rule.elem : i \in ForEachsOf(st)}
    /\ \A i \in ForEachsOf(st) : StandsForCurrent(scope, st[i])
    /\ \A i, j \in ForEachsOf(st) : i # j => st[i].rule.elem # st[j].rule.elem

connected == ToSet(playerIDs)

\* The inductive invariant.
IInv ==
    /\ game \in Games
    /\ playerIDs \in Seq(connected) /\ connected \subseteq Players
    /\ Shape(gameState, connected)
    /\ Frames(stack, connected)
    /\ ScopeOK(gameState.activeScopeVariables, stack)
    /\ result \in {"running", "ok", "failure", "threw"}

-----------------------------------------------------------------------------
(***************************************************************************)
(* Values and game states.                                                 *)
(***************************************************************************)

\* Wrapping gives a value of an int.
LEMMA WrapType ==
    ASSUME NEW x \in Int
    PROVE  Wrap(x) \in VariableValue
  <1> DEFINE h == 2 ^ (Width - 1)
             m == 2 ^ Width
             y == x + h
             z == y % m
  <1>1. h \in Nat \ {0} /\ m = 2 * h
    BY WidthAssumption
  <1>2. Wrap(x) = z - h /\ VariableValue = -h .. (h - 1)
    BY DEF Wrap, VariableValue
  <1> HIDE DEF h
  <1>3. y \in Int
    BY <1>1
  <1> HIDE DEF m, y
  <1>4. m \in Nat \ {0} /\ m = h + h
    BY <1>1
  <1>5. z \in 0 .. m - 1
    BY <1>3, <1>4
  <1> HIDE DEF z
  <1>6. z - h \in -h .. (h - 1)
    BY <1>1, <1>4, <1>5
  <1> QED
    BY <1>2, <1>6

\* The values of an int are integers.
LEMMA ValuesAreIntegers == VariableValue \subseteq Int
  <1> DEFINE h == 2 ^ (Width - 1)
  <1>1. h \in Nat
    BY WidthAssumption
  <1>2. VariableValue = -h .. (h - 1)
    BY DEF VariableValue
  <1> HIDE DEF h
  <1> QED
    BY <1>1, <1>2

\* Reading gives one of the three outcomes, and a value when it is "ok".
LEMMA GotValue ==
    ASSUME NEW gs, NEW P, Shape(gs, P), NEW name
    PROVE  /\ getValue(gs, name).outcome \in {"ok", "failure", "threw"}
           /\ getValue(gs, name).outcome = "ok" => getValue(gs, name).value \in VariableValue
  <1>1. CASE ~OfPlayer(name)
    <2>1. getValue(gs, name) = getVariable(gs, name)
      BY <1>1 DEF getValue
    <2> QED
      BY <2>1 DEF getVariable, ok, failure, Shape
  <1> DEFINE q == parseRuntimeVariables(gs, name)
  <1>2. CASE OfPlayer(name) /\ Extractable(q)
    <2>1. getValue(gs, name) = getPlayerVariable(gs, playerOf(q), variableOf(q))
      BY <1>2 DEF getValue
    <2> QED
      BY <2>1 DEF getPlayerVariable, ok, failure, Shape
  <1>3. CASE OfPlayer(name) /\ ~Extractable(q)
    <2>1. getValue(gs, name) = threw
      BY <1>3 DEF getValue
    <2> QED
      BY <2>1 DEF threw
  <1> QED
    BY <1>1, <1>2, <1>3

\* Writing what could be read adds no variable, takes none away and leaves the
\* scope alone.
LEMMA SetValueKeepsShape ==
    ASSUME NEW gs, NEW P, Shape(gs, P), NEW name, getValue(gs, name).outcome = "ok",
           NEW v \in VariableValue
    PROVE  /\ Shape(setValue(gs, name, v), P)
           /\ setValue(gs, name, v).activeScopeVariables = gs.activeScopeVariables
  <1>1. CASE ~OfPlayer(name)
    <2>1. name \in DOMAIN gs.variableMap
      BY <1>1 DEF getValue, getVariable, failure
    <2>2. setValue(gs, name, v) =
              [variableMap |-> [gs.variableMap EXCEPT ![name] = v],
               playerVariableMaps |-> gs.playerVariableMaps,
               activeScopeVariables |-> gs.activeScopeVariables]
      BY <1>1 DEF setValue, setVariable, Shape
    <2>3. [gs.variableMap EXCEPT ![name] = v] \in [DOMAIN variables -> VariableValue]
      BY <2>1 DEF Shape
    <2> QED
      BY <2>2, <2>3 DEF Shape
  <1>2. CASE OfPlayer(name)
    <2> DEFINE q == parseRuntimeVariables(gs, name)
               p == playerOf(q)
               var == variableOf(q)
               pvm == [gs.playerVariableMaps EXCEPT ![p] =
                          [gs.playerVariableMaps[p] EXCEPT ![var] = v]]
    <2>1. Extractable(q)
      BY <1>2 DEF getValue, threw
    <2>2. getValue(gs, name) = getPlayerVariable(gs, p, var)
      BY <1>2, <2>1 DEF getValue
    <2>3. p \in DOMAIN gs.playerVariableMaps /\ var \in DOMAIN gs.playerVariableMaps[p]
      BY <2>2 DEF getPlayerVariable, failure
    <2> HIDE DEF p, var
    <2>4. setValue(gs, name, v) =
              [variableMap |-> gs.variableMap,
               playerVariableMaps |-> pvm,
               activeScopeVariables |-> gs.activeScopeVariables]
      BY <1>2 DEF setValue, setPlayerVariable, Shape, p, var
    <2>5. [gs.playerVariableMaps[p] EXCEPT ![var] = v] \in [DOMAIN perPlayer -> VariableValue]
      BY <2>3 DEF Shape
    <2>6. pvm \in [P -> [DOMAIN perPlayer -> VariableValue]]
      BY <2>3, <2>5 DEF Shape
    <2> HIDE DEF pvm
    <2> QED
      BY <2>4, <2>6 DEF Shape
  <1> QED
    BY <1>1, <1>2

\* parseRuntimeVariables puts in players for the elements of a name that is then taken
\* apart, and leaves its other components.
ParsedName(q, name, scope, P) ==
    /\ q \in Seq(STRING \cup P) /\ Len(q) = Len(name) /\ DOMAIN name = 1 .. Len(name)
    /\ \A i \in References(name) : /\ scopedElement[name[i]] \in DOMAIN scope
                                   /\ q[i] = scope[scopedElement[name[i]]] /\ q[i] \in P
    /\ \A i \in DOMAIN name \ References(name) : q[i] = name[i]

LEMMA ParsesName ==
    ASSUME NEW gs, NEW P, Shape(gs, P), NEW name \in Seq(STRING),
           \A elem \in Elements(name) : InScope(gs, elem)
    PROVE  ParsedName(parseRuntimeVariables(gs, name), name, gs.activeScopeVariables, P)
  <1> DEFINE scope == gs.activeScopeVariables
             q == [i \in DOMAIN name |-> IF i \in References(name)
                                        THEN scope[scopedElement[name[i]]] ELSE name[i]]
  <1>1. parseRuntimeVariables(gs, name) = q
    BY DEF parseRuntimeVariables
  <1>2. DOMAIN name = 1 .. Len(name) /\ Len(name) \in Nat
    OBVIOUS
  <1>3. ASSUME NEW i \in References(name)
        PROVE  scopedElement[name[i]] \in DOMAIN scope /\ scope[scopedElement[name[i]]] \in P
    <2>1. scopedElement[name[i]] \in Elements(name)
      BY DEF Elements
    <2> QED
      BY <2>1 DEF InScope, Shape
  <1>4. q \in Seq(STRING \cup P) /\ Len(q) = Len(name)
    <2>1. ASSUME NEW i \in DOMAIN name
          PROVE  (IF i \in References(name) THEN scope[scopedElement[name[i]]] ELSE name[i]) \in STRING \cup P
      BY <1>3
    <2>2. q \in [1 .. Len(name) -> STRING \cup P]
      BY <1>2, <2>1
    <2> HIDE DEF q
    <2> QED
      BY <1>2, <2>2
  <1>5. References(name) \subseteq DOMAIN name
    BY DEF References
  <1>6. ParsedName(q, name, scope, P)
    BY <1>2, <1>3, <1>4, <1>5 DEF ParsedName
  <1> QED
    BY <1>1, <1>6

\* A name that can be taken apart has its elements in scope.
LEMMA TakenApart ==
    ASSUME NEW gs, NEW name, Extractable(parseRuntimeVariables(gs, name))
    PROVE  \A elem \in Elements(name) : InScope(gs, elem)
  <1>1. Len(<<>>) = 0
    OBVIOUS
  <1>2. parseRuntimeVariables(gs, name) # <<>>
    BY <1>1 DEF Extractable
  <1> QED
    BY <1>2, Zenon DEF parseRuntimeVariables

\* Bringing an element into scope for a connected player.
LEMMA SetScopeKeepsShape ==
    ASSUME NEW gs, NEW P, Shape(gs, P), NEW elem, NEW p \in P
    PROVE  /\ Shape(setActiveScopeVariable(gs, elem, p), P)
           /\ setActiveScopeVariable(gs, elem, p).activeScopeVariables =
                  With(gs.activeScopeVariables, elem, p)
  <1> DEFINE scope == With(gs.activeScopeVariables, elem, p)
  <1>1. setActiveScopeVariable(gs, elem, p) =
            [variableMap |-> gs.variableMap,
             playerVariableMaps |-> gs.playerVariableMaps,
             activeScopeVariables |-> scope]
    BY DEF setActiveScopeVariable, Shape, With
  <1>2. \A e \in DOMAIN scope : scope[e] \in P
    BY DEF Shape, With
  <1> HIDE DEF scope
  <1>3. Shape(setActiveScopeVariable(gs, elem, p), P)
    BY <1>1, <1>2 DEF Shape
  <1>4. setActiveScopeVariable(gs, elem, p).activeScopeVariables = scope
    BY <1>1
  <1> QED
    BY <1>3, <1>4 DEF scope

\* Taking an element out of scope.
LEMMA UnsetScopeKeepsShape ==
    ASSUME NEW gs, NEW P, Shape(gs, P), NEW elem
    PROVE  /\ Shape(unsetActiveScopeVariable(gs, elem), P)
           /\ unsetActiveScopeVariable(gs, elem).activeScopeVariables =
                  Without(gs.activeScopeVariables, elem)
  <1> DEFINE scope == Without(gs.activeScopeVariables, elem)
  <1>1. unsetActiveScopeVariable(gs, elem) =
            [variableMap |-> gs.variableMap,
             playerVariableMaps |-> gs.playerVariableMaps,
             activeScopeVariables |-> scope]
    BY DEF unsetActiveScopeVariable, Shape, Without
  <1>2. \A e \in DOMAIN scope : scope[e] \in P
    BY DEF Shape, Without
  <1> HIDE DEF scope
  <1>3. Shape(unsetActiveScopeVariable(gs, elem), P)
    BY <1>1, <1>2 DEF Shape
  <1>4. unsetActiveScopeVariable(gs, elem).activeScopeVariables = scope
    BY <1>1
  <1> QED
    BY <1>3, <1>4 DEF scope

-----------------------------------------------------------------------------
(***************************************************************************)
(* Activations.                                                            *)
(***************************************************************************)

\* A sequence with one more in front.
LEMMA InFront ==
    ASSUME NEW S, NEW s \in Seq(S), NEW x \in S
    PROVE  /\ <<x>> \o s \in Seq(S)
           /\ <<x>> \o s # <<>>
           /\ Len(s) \in Nat
           /\ Len(<<x>> \o s) = Len(s) + 1
           /\ (<<x>> \o s)[1] = x
           /\ \A i \in 1 .. Len(s) : (<<x>> \o s)[i + 1] = s[i]
           /\ DOMAIN s = 1 .. Len(s)
           /\ DOMAIN (<<x>> \o s) = 1 .. Len(s) + 1
  OBVIOUS

\* A sequence is its head in front of its tail.
LEMMA HeadAndTail ==
    ASSUME NEW S, NEW s \in Seq(S), s # <<>>
    PROVE  s = <<Head(s)>> \o Tail(s) /\ Head(s) \in S /\ Tail(s) \in Seq(S) /\ Head(s) = s[1]
  OBVIOUS

\* The for-each activations of a stack are those of the ones underneath, and the
\* innermost if it is one.
LEMMA ForEachsInFront ==
    ASSUME NEW S, NEW s \in Seq(S), NEW x \in S
    PROVE  ForEachsOf(<<x>> \o s) =
               {i + 1 : i \in ForEachsOf(s)} \cup (IF IsForEach(x) THEN {1} ELSE {})
  <1> DEFINE t == <<x>> \o s
             n == Len(s)
  <1>1. /\ n \in Nat /\ t[1] = x /\ \A i \in 1 .. n : t[i + 1] = s[i]
        /\ DOMAIN s = 1 .. n /\ DOMAIN t = 1 .. n + 1
    BY InFront
  <1> HIDE DEF t, n
  <1>2. \A i \in ForEachsOf(s) : i + 1 \in ForEachsOf(t)
    BY <1>1 DEF ForEachsOf
  <1>3. 1 \in ForEachsOf(t) <=> IsForEach(x)
    BY <1>1 DEF ForEachsOf
  <1>4. ASSUME NEW j \in ForEachsOf(t), j # 1
        PROVE  \E i \in ForEachsOf(s) : j = i + 1
    <2>1. j - 1 \in 1 .. n /\ j = (j - 1) + 1
      BY <1>1, <1>4 DEF ForEachsOf
    <2>2. t[(j - 1) + 1] = s[j - 1]
      BY <1>1, <2>1
    <2>3. IsForEach(s[j - 1])
      BY <1>4, <2>1, <2>2 DEF ForEachsOf
    <2>4. j - 1 \in ForEachsOf(s)
      BY <1>1, <2>1, <2>3 DEF ForEachsOf
    <2> QED
      BY <2>1, <2>4
  <1> QED
    BY <1>2, <1>3, <1>4 DEF t

\* An activation of another kind in front is no matter for the scope.
LEMMA OtherInFront ==
    ASSUME NEW S, NEW s \in Seq(S), NEW x \in S, ~IsForEach(x), NEW scope
    PROVE  ScopeOK(scope, <<x>> \o s) <=> ScopeOK(scope, s)
  <1> DEFINE t == <<x>> \o s
             n == Len(s)
  <1>1. n \in Nat /\ DOMAIN s = 1 .. n /\ \A i \in 1 .. n : t[i + 1] = s[i]
    BY InFront
  <1>2. ForEachsOf(t) = {i + 1 : i \in ForEachsOf(s)}
    BY ForEachsInFront
  <1> HIDE DEF t, n
  <1>3. ForEachsOf(s) \subseteq 1 .. n
    BY <1>1 DEF ForEachsOf
  <1>4. {t[j].rule.elem : j \in ForEachsOf(t)} = {s[i].rule.elem : i \in ForEachsOf(s)}
    BY <1>1, <1>2, <1>3
  <1>5. \A i \in ForEachsOf(s) : i + 1 \in ForEachsOf(t) /\ t[i + 1] = s[i]
    BY <1>1, <1>2, <1>3
  <1>6. \A j \in ForEachsOf(t) : \E i \in ForEachsOf(s) : j = i + 1 /\ t[j] = s[i]
    BY <1>1, <1>2, <1>3
  <1>7. (\A j \in ForEachsOf(t) : StandsForCurrent(scope, t[j]))
           <=> (\A i \in ForEachsOf(s) : StandsForCurrent(scope, s[i]))
    BY <1>5, <1>6
  <1>8. ASSUME \A j, k \in ForEachsOf(t) : j # k => t[j].rule.elem # t[k].rule.elem,
               NEW i \in ForEachsOf(s), NEW l \in ForEachsOf(s), i # l
        PROVE  s[i].rule.elem # s[l].rule.elem
    <2>1. i + 1 # l + 1
      BY <1>1, <1>3, <1>8
    <2> QED
      BY <2>1, <1>5, <1>8
  <1>9. ASSUME \A i, l \in ForEachsOf(s) : i # l => s[i].rule.elem # s[l].rule.elem,
               NEW j \in ForEachsOf(t), NEW k \in ForEachsOf(t), j # k
        PROVE  t[j].rule.elem # t[k].rule.elem
    <2>1. PICK i \in ForEachsOf(s) : j = i + 1 /\ t[j] = s[i]
      BY <1>6
    <2>2. PICK l \in ForEachsOf(s) : k = l + 1 /\ t[k] = s[l]
      BY <1>6
    <2> QED
      BY <2>1, <2>2, <1>9
  <1> QED
    BY <1>4, <1>7, <1>8, <1>9 DEF ScopeOK, t

\* A for-each in front, of an element that was not in scope and now is.
LEMMA ForEachInFront ==
    ASSUME NEW S, NEW s \in Seq(S), NEW x \in S, IsForEach(x), NEW scope,
           ScopeOK(scope, s), x.rule.elem \notin DOMAIN scope
    PROVE  ScopeOK(With(scope, x.rule.elem, Head(x.players)), <<x>> \o s)
  <1> DEFINE t == <<x>> \o s
             n == Len(s)
             elem == x.rule.elem
             new == With(scope, elem, Head(x.players))
  <1>1. n \in Nat /\ DOMAIN s = 1 .. n /\ t[1] = x /\ \A i \in 1 .. n : t[i + 1] = s[i]
    BY InFront
  <1>2. ForEachsOf(t) = {i + 1 : i \in ForEachsOf(s)} \cup {1}
    BY ForEachsInFront
  <1>3. DOMAIN new = DOMAIN scope \cup {elem} /\ new[elem] = Head(x.players)
    BY DEF With
  <1>4. \A e \in DOMAIN scope : e # elem /\ new[e] = scope[e]
    BY DEF With
  <1> HIDE DEF t, n, new
  <1>5. ForEachsOf(s) \subseteq 1 .. n
    BY <1>1 DEF ForEachsOf
  <1>6. \A i \in ForEachsOf(s) : s[i].rule.elem \in DOMAIN scope
    BY DEF ScopeOK
  <1>7. {t[j].rule.elem : j \in ForEachsOf(t)} = {s[i].rule.elem : i \in ForEachsOf(s)} \cup {elem}
    BY <1>1, <1>2, <1>5
  <1>8. ASSUME NEW j \in ForEachsOf(t)
        PROVE  StandsForCurrent(new, t[j])
    <2>1. CASE j = 1
      BY <2>1, <1>1, <1>3 DEF StandsForCurrent
    <2>2. ASSUME NEW i \in ForEachsOf(s), j = i + 1
          PROVE  StandsForCurrent(new, t[j])
      <3>1. t[j] = s[i]
        BY <2>2, <1>1, <1>5
      <3>2. new[s[i].rule.elem] = scope[s[i].rule.elem]
        BY <1>4, <1>6
      <3>3. StandsForCurrent(scope, s[i])
        BY DEF ScopeOK
      <3> QED
        BY <3>1, <3>2, <3>3 DEF StandsForCurrent
    <2> QED
      BY <2>1, <2>2, <1>2
  <1>9. ASSUME NEW j \in ForEachsOf(t), NEW k \in ForEachsOf(t), j # k
        PROVE  t[j].rule.elem # t[k].rule.elem
    <2>1. ASSUME NEW i \in ForEachsOf(s)
          PROVE  t[i + 1].rule.elem # elem
      BY <1>1, <1>4, <1>5, <1>6
    <2>2. ASSUME NEW i \in ForEachsOf(s), NEW l \in ForEachsOf(s), i # l
          PROVE  t[i + 1].rule.elem # t[l + 1].rule.elem
      BY <2>2, <1>1, <1>5 DEF ScopeOK
    <2> QED
      BY <2>1, <2>2, <1>1, <1>2, <1>9
  <1>10. ScopeOK(new, t)
    BY <1>3, <1>7, <1>8, <1>9 DEF ScopeOK
  <1> QED
    BY <1>10 DEF t, new

\* The element of the innermost for-each is in scope, and when it is taken out the
\* scope is that of the activations around it.
LEMMA ForEachRemoved ==
    ASSUME NEW S, NEW s \in Seq(S), NEW x \in S, IsForEach(x), NEW scope,
           ScopeOK(scope, <<x>> \o s)
    PROVE  /\ x.rule.elem \in DOMAIN scope
           /\ ScopeOK(Without(scope, x.rule.elem), s)
  <1> DEFINE t == <<x>> \o s
             n == Len(s)
             elem == x.rule.elem
             new == Without(scope, elem)
  <1>1. n \in Nat /\ DOMAIN s = 1 .. n /\ t[1] = x /\ \A i \in 1 .. n : t[i + 1] = s[i]
    BY InFront
  <1>2. ForEachsOf(t) = {i + 1 : i \in ForEachsOf(s)} \cup {1}
    BY ForEachsInFront
  <1>3. DOMAIN new = DOMAIN scope \ {elem} /\ \A e \in DOMAIN new : new[e] = scope[e]
    BY DEF Without
  <1>4. ScopeOK(scope, t)
    OBVIOUS
  <1> HIDE DEF t, n, new
  <1>5. ForEachsOf(s) \subseteq 1 .. n
    BY <1>1 DEF ForEachsOf
  <1>6. \A i \in ForEachsOf(s) : i + 1 \in ForEachsOf(t) /\ i + 1 # 1 /\ t[i + 1] = s[i]
    BY <1>1, <1>2, <1>5
  <1>7. DOMAIN scope = {s[i].rule.elem : i \in ForEachsOf(s)} \cup {elem}
    <2>1. \A j \in ForEachsOf(t) : j = 1 \/ \E i \in ForEachsOf(s) : j = i + 1
      BY <1>2
    <2>2. t[1].rule.elem = elem /\ 1 \in ForEachsOf(t)
      BY <1>1, <1>2
    <2>3. {t[j].rule.elem : j \in ForEachsOf(t)} =
              {s[i].rule.elem : i \in ForEachsOf(s)} \cup {elem}
      <3> HIDE DEF elem
      <3> QED
        BY <1>6, <2>1, <2>2
    <2> QED
      BY <2>3, <1>4 DEF ScopeOK
  <1>8. \A i \in ForEachsOf(s) : s[i].rule.elem # elem
    BY <1>1, <1>2, <1>4, <1>6 DEF ScopeOK
  <1>9. DOMAIN new = {s[i].rule.elem : i \in ForEachsOf(s)}
    BY <1>3, <1>7, <1>8
  <1>10. ASSUME NEW i \in ForEachsOf(s)
         PROVE  StandsForCurrent(new, s[i])
    <2>1. StandsForCurrent(scope, s[i])
      BY <1>4, <1>6 DEF ScopeOK
    <2>2. new[s[i].rule.elem] = scope[s[i].rule.elem]
      BY <1>3, <1>9
    <2> QED
      BY <2>1, <2>2 DEF StandsForCurrent
  <1>11. ASSUME NEW i \in ForEachsOf(s), NEW l \in ForEachsOf(s), i # l
         PROVE  s[i].rule.elem # s[l].rule.elem
    <2>1. i + 1 # l + 1
      BY <1>1, <1>5, <1>11
    <2> QED
      BY <2>1, <1>4, <1>6 DEF ScopeOK
  <1>12. ScopeOK(new, s)
    BY <1>9, <1>10, <1>11 DEF ScopeOK
  <1> QED
    BY <1>7, <1>12 DEF new

\* Whatever is left of the innermost list of rules.
LEMMA SameRuleInFront ==
    ASSUME NEW S, NEW s \in Seq(S), NEW x \in S, NEW y \in S, NEW scope,
           y.rule = x.rule, y.players = x.players, ScopeOK(scope, <<x>> \o s)
    PROVE  ScopeOK(scope, <<y>> \o s)
  <1> DEFINE t == <<x>> \o s
             u == <<y>> \o s
             n == Len(s)
  <1>1. /\ n \in Nat /\ DOMAIN t = 1 .. n + 1 /\ DOMAIN u = 1 .. n + 1
        /\ t[1] = x /\ u[1] = y
        /\ \A i \in 1 .. n : t[i + 1] = s[i] /\ u[i + 1] = s[i]
    BY InFront
  <1>2. ScopeOK(scope, t)
    OBVIOUS
  <1> HIDE DEF t, u, n
  <1>3. ASSUME NEW i \in 1 .. n + 1
        PROVE  u[i].rule = t[i].rule /\ u[i].players = t[i].players
    <2>1. CASE i = 1
      BY <2>1, <1>1
    <2>2. CASE i # 1
      <3>1. i - 1 \in 1 .. n /\ i = (i - 1) + 1
        BY <2>2, <1>1
      <3> QED
        BY <3>1, <1>1
    <2> QED
      BY <2>1, <2>2
  <1>4. ForEachsOf(u) = ForEachsOf(t) /\ ForEachsOf(t) \subseteq 1 .. n + 1
    BY <1>1, <1>3 DEF ForEachsOf, IsForEach
  <1>5. {u[i].rule.elem : i \in ForEachsOf(u)} = {t[i].rule.elem : i \in ForEachsOf(t)}
    BY <1>3, <1>4
  <1>6. ASSUME NEW i \in ForEachsOf(u)
        PROVE  StandsForCurrent(scope, u[i])
    <2>1. StandsForCurrent(scope, t[i])
      BY <1>2, <1>4 DEF ScopeOK
    <2> QED
      BY <2>1, <1>3, <1>4 DEF StandsForCurrent
  <1>7. \A i, j \in ForEachsOf(u) : i # j => u[i].rule.elem # u[j].rule.elem
    BY <1>2, <1>3, <1>4 DEF ScopeOK
  <1> QED
    BY <1>2, <1>5, <1>6, <1>7 DEF ScopeOK, u

\* A call of executeRule.
LEMMA PushFrame ==
    ASSUME NEW P, NEW s, Frames(s, P), NEW x \in Activation(P), IsForEach(x) => x.players # <<>>
    PROVE  Frames(<<x>> \o s, P)
  <1> DEFINE t == <<x>> \o s
             n == Len(s)
  <1>0. s \in Seq(Activation(P)) /\ s # <<>>
    BY DEF Frames
  <1>1. /\ t \in Seq(Activation(P)) /\ t # <<>>
        /\ n \in Nat /\ Len(t) = n + 1 /\ DOMAIN s = 1 .. n /\ DOMAIN t = 1 .. n + 1
        /\ t[1] = x /\ \A i \in 1 .. n : t[i + 1] = s[i]
    BY <1>0, InFront
  <1>2. n \in 1 .. n
    BY <1>0
  <1> HIDE DEF t, n
  <1>3. t[Len(t)].rule = toplevel
    <2>1. s[n].rule = toplevel
      BY DEF Frames, n
    <2> QED
      BY <2>1, <1>1, <1>2
  <1>4. ASSUME NEW i \in DOMAIN t, IsForEach(t[i])
        PROVE  t[i].players # <<>>
    <2>1. CASE i = 1
      BY <2>1, <1>1, <1>4
    <2>2. CASE i # 1
      <3>1. i - 1 \in 1 .. n /\ i = (i - 1) + 1
        BY <2>2, <1>1
      <3>2. t[i] = s[i - 1]
        BY <3>1, <1>1
      <3> QED
        BY <3>1, <3>2, <1>1, <1>4 DEF Frames
    <2> QED
      BY <2>1, <2>2
  <1>5. Frames(t, P)
    BY <1>1, <1>3, <1>4 DEF Frames
  <1> QED
    BY <1>5 DEF t

\* Its return.
LEMMA PopFrame ==
    ASSUME NEW P, NEW st, Frames(st, P), Head(st).rule # toplevel \/ Tail(st) # <<>>
    PROVE  Frames(Tail(st), P)
  <1> DEFINE s == Tail(st)
             n == Len(st)
  <1>0. st \in Seq(Activation(P)) /\ st # <<>> /\ st[n].rule = toplevel
    BY DEF Frames
  <1>1. /\ n \in Nat \ {0} /\ s \in Seq(Activation(P)) /\ Len(s) = n - 1
        /\ DOMAIN s = 1 .. n - 1 /\ DOMAIN st = 1 .. n /\ Head(st) = st[1]
        /\ \A i \in 1 .. n - 1 : s[i] = st[i + 1]
    BY <1>0
  <1>a. s = <<>> <=> Len(s) = 0
    BY <1>1, EmptySeq, Zenon
  <1>b. Head(st).rule # toplevel \/ s # <<>>
    OBVIOUS
  <1> HIDE DEF s, n
  <1>2. n # 1
    BY <1>a, <1>b, <1>0, <1>1
  <1>3. s # <<>>
    BY <1>1, <1>2
  <1>4. s[Len(s)].rule = toplevel
    <2>1. n - 1 \in 1 .. n - 1 /\ (n - 1) + 1 = n
      BY <1>1, <1>2
    <2>2. s[n - 1] = st[n]
      BY <2>1, <1>1
    <2> QED
      BY <2>2, <1>0, <1>1
  <1>5. ASSUME NEW i \in DOMAIN s, IsForEach(s[i])
        PROVE  s[i].players # <<>>
    <2>1. i \in 1 .. n - 1 /\ i + 1 \in DOMAIN st
      BY <1>1
    <2>2. s[i] = st[i + 1]
      BY <2>1, <1>1
    <2> QED
      BY <2>1, <2>2, <1>5 DEF Frames
  <1>6. Frames(s, P)
    BY <1>1, <1>3, <1>4, <1>5 DEF Frames
  <1> QED
    BY <1>6 DEF s

\* The innermost activation goes on with its list.
LEMMA ReplaceFrame ==
    ASSUME NEW P, NEW st, Frames(st, P), NEW x \in Activation(P),
           x.rule = Head(st).rule, x.players = Head(st).players
    PROVE  Frames(<<x>> \o Tail(st), P)
  <1>0. st \in Seq(Activation(P)) /\ st # <<>>
    BY DEF Frames
  <1>1. /\ Head(st) = st[1] /\ Head(st) \in Activation(P)
        /\ 1 \in DOMAIN st /\ Tail(st) \in Seq(Activation(P))
    BY <1>0
  <1>2. IsForEach(x) => x.players # <<>>
    <2>1. IsForEach(x) => IsForEach(st[1])
      BY <1>1 DEF IsForEach
    <2>2. x.players = st[1].players
      BY <1>1
    <2> QED
      BY <2>1, <2>2, <1>1 DEF Frames
  <1>3. CASE Head(st).rule # toplevel \/ Tail(st) # <<>>
    BY <1>2, <1>3, PopFrame, PushFrame
  <1>4. CASE Head(st).rule = toplevel /\ Tail(st) = <<>>
    <2>1. <<x>> \o Tail(st) = <<x>>
      <3>1. <<x>> \in Seq(Activation(P))
        OBVIOUS
      <3> QED
        BY <3>1, <1>4, ConcatEmptySeq
    <2>2. Frames(<<x>>, P)
      <3>1. x.rule = toplevel
        BY <1>4
      <3>2. <<x>> \in Seq(Activation(P)) /\ <<x>> # <<>> /\ Len(<<x>>) = 1 /\ DOMAIN <<x>> = {1}
        OBVIOUS
      <3>3. <<x>>[1] = x
        OBVIOUS
      <3> QED
        BY <3>1, <3>2, <3>3, <1>2 DEF Frames
    <2> QED
      BY <2>1, <2>2
  <1> QED
    BY <1>3, <1>4

-----------------------------------------------------------------------------
(***************************************************************************)
(* The inductive invariant.                                                *)
(***************************************************************************)

\* What there is to show of a step: the game and the players do not change.
LEMMA Rebuild ==
    ASSUME IInv, UNCHANGED <<game, playerIDs>>,
           Shape(gameState', connected), Frames(stack', connected),
           ScopeOK(gameState'.activeScopeVariables, stack'),
           result' \in {"running", "ok", "failure", "threw"}
    PROVE  IInv'
  <1>1. connected' = connected
    BY DEF connected
  <1> QED
    BY <1>1 DEF IInv

\* The innermost activation and those around it.
LEMMA TopFrame ==
    ASSUME IInv
    PROVE  /\ stack \in Seq(Activation(connected)) /\ stack # <<>>
           /\ stack = <<top>> \o Tail(stack)
           /\ top \in Activation(connected)
           /\ Tail(stack) \in Seq(Activation(connected))
           /\ top.rule \in Rule \cup {toplevel} /\ top.rest \in Seq(Rule)
           /\ top.players \in Seq(connected)
  <1>1. stack \in Seq(Activation(connected)) /\ stack # <<>>
    BY DEF IInv, Frames
  <1>2. /\ stack = <<top>> \o Tail(stack) /\ top \in Activation(connected)
        /\ Tail(stack) \in Seq(Activation(connected))
    BY <1>1, HeadAndTail DEF top
  <1>3. /\ top.rule \in Rule \cup {toplevel} /\ top.rest \in Seq(Rule)
        /\ top.players \in Seq(connected)
    BY <1>2 DEF Activation
  <1> QED
    BY <1>1, <1>2, <1>3

\* A for-each being executed has a current player.
LEMMA HasCurrent ==
    ASSUME IInv, IsForEach(top)
    PROVE  top.players # <<>>
  <1>1. top = stack[1] /\ 1 \in DOMAIN stack
    BY TopFrame DEF top
  <1> QED
    BY <1>1 DEF IInv, Frames

\* The activations after a rule of the innermost list has been executed.
LEMMA Advanced ==
    ASSUME IInv, top.rest # <<>>
    PROVE  /\ rule \in Rule
           /\ Frames(advanced, connected)
           /\ ScopeOK(gameState.activeScopeVariables, advanced)
  <1> DEFINE x == [top EXCEPT !.rest = Tail(@)]
             s == Tail(stack)
             scope == gameState.activeScopeVariables
             A == Activation(connected)
  <1>1. top.rest \in Seq(Rule) /\ top \in A /\ s \in Seq(A) /\ stack = <<top>> \o s
    BY TopFrame
  <1>2. rule \in Rule /\ Tail(top.rest) \in Seq(Rule)
    BY <1>1 DEF rule
  <1>3. x \in A /\ x.rule = top.rule /\ x.players = top.players
    BY <1>1, <1>2 DEF Activation
  <1>4. advanced = <<x>> \o s
    BY DEF advanced
  <1>5. Frames(stack, connected) /\ ScopeOK(scope, <<top>> \o s)
    BY <1>1 DEF IInv
  <1>6. x.rule = Head(stack).rule /\ x.players = Head(stack).players
    BY <1>3 DEF top
  <1> HIDE DEF x, scope
  <1>7. Frames(<<x>> \o s, connected)
    BY <1>3, <1>5, <1>6, ReplaceFrame
  <1> HIDE DEF A, s
  <1>8. ScopeOK(scope, <<x>> \o s)
    BY <1>1, <1>3, <1>5, SameRuleInFront
  <1> QED
    BY <1>2, <1>4, <1>7, <1>8 DEF scope

\* A rule that fails or throws.
LEMMA StopStep ==
    ASSUME IInv, UNCHANGED <<game, playerIDs>>, NEW outcome \in {"ok", "failure", "threw"},
           stop(outcome)
    PROVE  IInv'
  <1>1. gameState' = gameState /\ stack' = stack /\ result' = outcome
    BY DEF stop
  <1>2. Shape(gameState', connected) /\ Frames(stack', connected)
    BY <1>1 DEF IInv
  <1>3. ScopeOK(gameState'.activeScopeVariables, stack')
    BY <1>1 DEF IInv
  <1> QED
    BY <1>1, <1>2, <1>3, Rebuild

\* A rule that succeeds, with the scope as it was.
LEMMA SucceedStep ==
    ASSUME IInv, UNCHANGED <<game, playerIDs>>, top.rest # <<>>, NEW gs, Shape(gs, connected),
           gs.activeScopeVariables = gameState.activeScopeVariables, succeed(gs)
    PROVE  IInv'
  <1>1. gameState' = gs /\ stack' = advanced /\ result' = result
    BY DEF succeed
  <1>2. Shape(gameState', connected) /\ Frames(stack', connected)
    BY <1>1, Advanced
  <1>3. ScopeOK(gameState'.activeScopeVariables, stack')
    BY <1>1, Advanced
  <1>4. result' \in {"running", "ok", "failure", "threw"}
    BY <1>1 DEF IInv
  <1> QED
    BY <1>2, <1>3, <1>4, Rebuild

\* The start of a for-each or its going on with the next player.
LEMMA StartElementStep ==
    ASSUME IInv, UNCHANGED <<game, playerIDs>>,
           NEW frames, Frames(frames, connected),
           NEW fe \in Rule, fe.type = "foreach",
           NEW gs, Shape(gs, connected), ScopeOK(gs.activeScopeVariables, frames),
           NEW players \in Seq(connected), players # <<>>,
           startElement(frames, fe, gs, players)
    PROVE  IInv'
  <1>1. CASE InScope(gs, fe.elem)
    BY <1>1, StopStep DEF startElement
  <1>2. CASE ~InScope(gs, fe.elem)
    <2> DEFINE x == activation(fe, fe.body, players)
               p == Head(players)
               A == Activation(connected)
               new == setActiveScopeVariable(gs, fe.elem, p)
    <2>1. gameState' = new /\ stack' = <<x>> \o frames /\ result' = result
      BY <1>2 DEF startElement
    <2>2. p \in connected
      OBVIOUS
    <2>3. fe.body \in Seq(Rule)
      BY RulesAssumption
    <2>4. x \in A /\ IsForEach(x) /\ x.players = players /\ x.rule = fe
      BY <2>3 DEF activation, Activation, IsForEach
    <2>5. frames \in Seq(A)
      BY DEF Frames
    <2>6. x.rule.elem \notin DOMAIN gs.activeScopeVariables
      BY <1>2, <2>4 DEF InScope
    <2> HIDE DEF A, x
    <2>7. ScopeOK(With(gs.activeScopeVariables, x.rule.elem, Head(x.players)), <<x>> \o frames)
      BY <2>4, <2>5, <2>6, ForEachInFront
    <2>8. x.rule.elem = fe.elem /\ Head(x.players) = p
      BY <2>4
    <2> HIDE DEF p
    <2>9. Shape(new, connected) /\ new.activeScopeVariables = With(gs.activeScopeVariables, fe.elem, p)
      BY <2>2, SetScopeKeepsShape
    <2> HIDE DEF new
    <2>10. ScopeOK(new.activeScopeVariables, <<x>> \o frames)
      BY <2>7, <2>8, <2>9
    <2>11. Frames(<<x>> \o frames, connected)
      BY <2>4, PushFrame DEF A
    <2>12. result' \in {"running", "ok", "failure", "threw"}
      BY <2>1 DEF IInv
    <2> QED
      BY <2>1, <2>9, <2>10, <2>11, <2>12, Rebuild
  <1> QED
    BY <1>1, <1>2

\* AddRule::executeRuleImpl.
LEMMA AddRuleStep ==
    ASSUME IInv, AddRule
    PROVE  IInv'
  <1> DEFINE got == getValue(gameState, rule.target)
             v == sum(got.value, rule.value)
             gs == setValue(gameState, rule.target, v)
  <1>1. /\ top.rest # <<>> /\ rule.type = "add"
        /\ IF got.outcome # "ok" THEN stop(got.outcome) ELSE succeed(gs)
        /\ UNCHANGED <<game, playerIDs>>
    BY DEF AddRule, Executing, rule
  <1>2. Shape(gameState, connected)
    BY DEF IInv
  <1>3. /\ got.outcome \in {"ok", "failure", "threw"}
        /\ got.outcome = "ok" => got.value \in VariableValue
    BY <1>2, GotValue
  <1>4. CASE got.outcome # "ok"
    BY <1>1, <1>3, <1>4, StopStep
  <1>5. CASE got.outcome = "ok"
    <2>1. rule.value \in Int
      BY <1>1, Advanced, RulesAssumption
    <2>2. got.value \in Int
      BY <1>3, <1>5, ValuesAreIntegers
    <2>3. v \in VariableValue
      BY <2>1, <2>2, WrapType DEF sum
    <2>4. Shape(gs, connected) /\ gs.activeScopeVariables = gameState.activeScopeVariables
      <3> HIDE DEF v
      <3> QED
        BY <1>2, <1>5, <2>3, SetValueKeepsShape
    <2> HIDE DEF gs
    <2> QED
      BY <1>1, <1>5, <2>4, SucceedStep
  <1> QED
    BY <1>4, <1>5

\* GlobalMessageRule::executeRuleImpl.
LEMMA GlobalMessageRuleStep ==
    ASSUME IInv, GlobalMessageRule
    PROVE  IInv'
  <1>1. top.rest # <<>> /\ succeed(gameState) /\ UNCHANGED <<game, playerIDs>>
    BY DEF GlobalMessageRule, Executing
  <1>2. Shape(gameState, connected)
    BY DEF IInv
  <1> QED
    BY <1>1, <1>2, SucceedStep

\* InputTextRule::executeRuleImpl.
LEMMA InputTextRuleStep ==
    ASSUME IInv, InputTextRule
    PROVE  IInv'
  <1> DEFINE got == getValue(gameState, rule.target)
             outcome == setValueOutcome(gameState, rule.result)
             gs == setValue(gameState, rule.result, InputValue)
  <1>1. /\ IF got.outcome # "ok" THEN stop(got.outcome)
           ELSE IF outcome # "ok" THEN stop(outcome)
           ELSE gameState' = gs /\ result' = "failure" /\ UNCHANGED stack
        /\ UNCHANGED <<game, playerIDs>>
    BY DEF InputTextRule
  <1>2. Shape(gameState, connected)
    BY DEF IInv
  <1>3. got.outcome \in {"ok", "failure", "threw"}
    BY <1>2, GotValue
  <1>4. outcome = getValue(gameState, rule.result).outcome
    BY DEF setValueOutcome
  <1>5. outcome \in {"ok", "failure", "threw"}
    BY <1>2, <1>4, GotValue
  <1>6. CASE got.outcome # "ok"
    BY <1>1, <1>3, <1>6, StopStep
  <1>7. CASE got.outcome = "ok" /\ outcome # "ok"
    <2> HIDE DEF outcome
    <2> QED
      BY <1>1, <1>5, <1>7, StopStep
  <1>8. CASE got.outcome = "ok" /\ outcome = "ok"
    <2>1. InputValue \in VariableValue
      BY WrapType DEF InputValue
    <2>2. Shape(gs, connected) /\ gs.activeScopeVariables = gameState.activeScopeVariables
      BY <1>2, <1>4, <1>8, <2>1, SetValueKeepsShape
    <2>3. gameState' = gs /\ result' = "failure" /\ stack' = stack
      BY <1>1, <1>8
    <2> HIDE DEF gs
    <2>4. Frames(stack', connected) /\ ScopeOK(gameState'.activeScopeVariables, stack')
      BY <2>2, <2>3 DEF IInv
    <2>5. Shape(gameState', connected)
      BY <2>2, <2>3
    <2> QED
      BY <1>1, <2>3, <2>4, <2>5, Rebuild
  <1> QED
    BY <1>6, <1>7, <1>8

\* ForEachRule::executeRuleImpl up to the body for the first player.
LEMMA ForEachRuleStep ==
    ASSUME IInv, ForEachRule
    PROVE  IInv'
  <1>1. /\ top.rest # <<>> /\ rule.type = "foreach"
        /\ IF rule.list # "players" THEN stop("failure")
           ELSE IF playerIDs = <<>> THEN succeed(gameState)
           ELSE startElement(advanced, rule, gameState, playerIDs)
        /\ UNCHANGED <<game, playerIDs>>
    BY DEF ForEachRule, Executing, rule
  <1>2. Shape(gameState, connected) /\ playerIDs \in Seq(connected)
    BY DEF IInv
  <1>3. CASE rule.list # "players"
    BY <1>1, <1>3, StopStep
  <1>4. CASE rule.list = "players" /\ playerIDs = <<>>
    BY <1>1, <1>2, <1>4, SucceedStep
  <1>5. CASE rule.list = "players" /\ playerIDs # <<>>
    <2>1. startElement(advanced, rule, gameState, playerIDs)
      BY <1>1, <1>5
    <2>2. /\ rule \in Rule /\ Frames(advanced, connected)
          /\ ScopeOK(gameState.activeScopeVariables, advanced)
      BY <1>1, Advanced
    <2> QED
      BY <1>1, <1>2, <1>5, <2>1, <2>2, StartElementStep
  <1> QED
    BY <1>3, <1>4, <1>5

\* When the body of a for-each is done its element is in scope; without it the
\* state is fit to go on.
LEMMA ElementReleased ==
    ASSUME IInv, Finished("foreach")
    PROVE  /\ top.rule \in Rule /\ top.rule.type = "foreach"
           /\ InScope(gameState, top.rule.elem)
           /\ Frames(Tail(stack), connected)
           /\ Shape(unsetActiveScopeVariable(gameState, top.rule.elem), connected)
           /\ ScopeOK(unsetActiveScopeVariable(gameState, top.rule.elem).activeScopeVariables,
                      Tail(stack))
           /\ top.rule.elem \notin
                  DOMAIN unsetActiveScopeVariable(gameState, top.rule.elem).activeScopeVariables
  <1> DEFINE scope == gameState.activeScopeVariables
             elem == top.rule.elem
             s == Tail(stack)
             A == Activation(connected)
             gs == unsetActiveScopeVariable(gameState, elem)
  <1>1. top.rule.type = "foreach" /\ IsForEach(top)
    BY DEF Finished, IsForEach
  <1>2. top.rule # toplevel
    BY <1>1 DEF toplevel
  <1>3. top.rule \in Rule
    BY <1>2, TopFrame
  <1>4. top \in A /\ s \in Seq(A) /\ stack = <<top>> \o s
    BY TopFrame
  <1>5. Frames(s, connected)
    BY <1>2, PopFrame DEF IInv, top
  <1>6. ScopeOK(scope, <<top>> \o s)
    BY <1>4 DEF IInv
  <1>7. /\ Shape(gs, connected)
        /\ gs.activeScopeVariables = Without(scope, elem)
    BY UnsetScopeKeepsShape DEF IInv
  <1> HIDE DEF A, s, scope, gs
  <1>8. elem \in DOMAIN scope /\ ScopeOK(Without(scope, elem), s)
    BY <1>1, <1>4, <1>6, ForEachRemoved
  <1>9. ScopeOK(gs.activeScopeVariables, s)
    BY <1>7, <1>8, Zenon
  <1>10. elem \notin DOMAIN gs.activeScopeVariables
    BY <1>7 DEF Without
  <1> QED
    BY <1>1, <1>3, <1>5, <1>7, <1>8, <1>9, <1>10 DEF InScope, scope, gs, s

\* ForEachRule::executeRuleImpl after the body for a player.
LEMMA nextElementStep ==
    ASSUME IInv, nextElement
    PROVE  IInv'
  <1> DEFINE gs == unsetActiveScopeVariable(gameState, top.rule.elem)
  <1>1. Finished("foreach") /\ UNCHANGED <<game, playerIDs>>
    BY DEF nextElement
  <1>2. /\ top.rule \in Rule /\ top.rule.type = "foreach" /\ InScope(gameState, top.rule.elem)
        /\ Frames(Tail(stack), connected) /\ Shape(gs, connected)
        /\ ScopeOK(gs.activeScopeVariables, Tail(stack))
    BY <1>1, ElementReleased
  <1>3. IF Len(top.players) = 1
        THEN gameState' = gs /\ stack' = Tail(stack) /\ UNCHANGED result
        ELSE startElement(Tail(stack), top.rule, gs, Tail(top.players))
    BY <1>2 DEF nextElement
  <1> HIDE DEF gs
  <1>4. CASE Len(top.players) = 1
    <2>1. gameState' = gs /\ stack' = Tail(stack) /\ result' = result
      BY <1>3, <1>4
    <2>2. result' \in {"running", "ok", "failure", "threw"}
      BY <2>1 DEF IInv
    <2> QED
      BY <1>1, <1>2, <2>1, <2>2, Rebuild
  <1>5. CASE Len(top.players) # 1
    <2>1. top.players \in Seq(connected) /\ top.players # <<>>
      BY <1>2, TopFrame, HasCurrent DEF IsForEach
    <2>2. Tail(top.players) \in Seq(connected) /\ Len(Tail(top.players)) # 0
      BY <1>5, <2>1
    <2>3. Tail(top.players) # <<>>
      BY <2>2, EmptySeq, Zenon
    <2> QED
      BY <1>1, <1>2, <1>3, <1>5, <2>2, <2>3, StartElementStep
  <1> QED
    BY <1>4, <1>5

\* LoopRule::executeRuleImpl up to the first iteration.
LEMMA LoopRuleStep ==
    ASSUME IInv, LoopRule
    PROVE  IInv'
  <1> DEFINE x == activation(rule, rule.body, <<>>)
             A == Activation(connected)
  <1>1. /\ top.rest # <<>> /\ rule.type = "loop"
        /\ \/ stop("failure")
           \/ succeed(gameState)
           \/ stack' = <<x>> \o advanced /\ UNCHANGED <<gameState, result>>
        /\ UNCHANGED <<game, playerIDs>>
    BY DEF LoopRule, Executing, rule
  <1>2. Shape(gameState, connected)
    BY DEF IInv
  <1>3. CASE stop("failure")
    BY <1>1, <1>3, StopStep
  <1>4. CASE succeed(gameState)
    BY <1>1, <1>2, <1>4, SucceedStep
  <1>5. CASE stack' = <<x>> \o advanced /\ UNCHANGED <<gameState, result>>
    <2>1. /\ rule \in Rule /\ Frames(advanced, connected)
          /\ ScopeOK(gameState.activeScopeVariables, advanced)
      BY <1>1, Advanced
    <2>2. x \in A /\ ~IsForEach(x)
      BY <1>1, <2>1, RulesAssumption DEF activation, Activation, IsForEach
    <2>3. advanced \in Seq(A)
      BY <2>1 DEF Frames
    <2> HIDE DEF x
    <2>4. Frames(<<x>> \o advanced, connected)
      BY <2>1, <2>2, PushFrame
    <2> HIDE DEF A
    <2>5. ScopeOK(gameState.activeScopeVariables, <<x>> \o advanced)
      BY <2>1, <2>2, <2>3, OtherInFront
    <2>6. result' \in {"running", "ok", "failure", "threw"}
      BY <1>5 DEF IInv
    <2> QED
      BY <1>1, <1>2, <1>5, <2>4, <2>5, <2>6, Rebuild
  <1> QED
    BY <1>1, <1>3, <1>4, <1>5

\* LoopRule::executeRuleImpl after an iteration.
LEMMA nextIterationStep ==
    ASSUME IInv, nextIteration
    PROVE  IInv'
  <1> DEFINE x == activation(top.rule, top.rule.body, <<>>)
             s == Tail(stack)
             A == Activation(connected)
             scope == gameState.activeScopeVariables
  <1>1. /\ top.rule.type = "loop"
        /\ stack' = s \/ stack' = <<x>> \o s
        /\ UNCHANGED <<game, playerIDs, gameState, result>>
    BY DEF nextIteration, Finished
  <1>2. top.rule # toplevel /\ ~IsForEach(top)
    BY <1>1 DEF toplevel, IsForEach
  <1>3. top.rule \in Rule /\ top \in A /\ s \in Seq(A) /\ stack = <<top>> \o s
    BY <1>2, TopFrame
  <1>4. Frames(s, connected)
    BY <1>2, PopFrame DEF IInv, top
  <1>5. x \in A /\ ~IsForEach(x)
    BY <1>1, <1>3, RulesAssumption DEF activation, Activation, IsForEach
  <1> HIDE DEF x
  <1>6. Frames(<<x>> \o s, connected)
    BY <1>4, <1>5, PushFrame
  <1>7. ScopeOK(scope, <<top>> \o s)
    BY <1>3 DEF IInv
  <1> HIDE DEF A, s, scope
  <1>8. ScopeOK(scope, s)
    BY <1>2, <1>3, <1>7, OtherInFront
  <1>9. ScopeOK(scope, <<x>> \o s)
    BY <1>3, <1>5, <1>8, OtherInFront
  <1>10. Frames(stack', connected) /\ ScopeOK(gameState'.activeScopeVariables, stack')
    BY <1>1, <1>4, <1>6, <1>8, <1>9 DEF scope
  <1>11. Shape(gameState', connected) /\ result' \in {"running", "ok", "failure", "threw"}
    BY <1>1 DEF IInv
  <1> QED
    BY <1>1, <1>10, <1>11, Rebuild

\* The connected players when the game begins.
LEMMA InitialPlayers ==
    ASSUME Init
    PROVE  playerIDs \in Seq(connected)
  <1>1. PICK n \in 0 .. Cardinality(Players) : playerIDs \in [1 .. n -> Players]
    BY DEF Init
  <1>2. n \in Nat
    BY RulesAssumption, FS_CardinalityType
  <1>3. playerIDs \in [1 .. n -> connected]
    BY <1>1 DEF connected, ToSet
  <1> QED
    BY <1>2, <1>3

\* The inductive invariant holds in every reachable state.
THEOREM Invariance == Spec => []IInv
  <1>1. Init => IInv
    <2> SUFFICES ASSUME Init PROVE IInv
      OBVIOUS
    <2> DEFINE a == activation(toplevel, game, <<>>)
    <2>1. playerIDs \in Seq(connected) /\ game \in Games /\ game \in Seq(Rule) /\ result = "running"
      BY InitialPlayers, RulesAssumption DEF Init
    <2>2. gameState = [variableMap |-> variables,
                       playerVariableMaps |-> [p \in connected |-> perPlayer],
                       activeScopeVariables |-> <<>>]
      BY DEF Init, construct, connected
    <2>3. Shape(gameState, connected)
      BY <2>2, RulesAssumption DEF Shape
    <2>4. stack = <<a>> /\ DOMAIN stack = {1} /\ Len(stack) = 1 /\ stack[1] = a /\ stack # <<>>
      BY DEF Init
    <2>5. a \in Activation(connected) /\ a.rule = toplevel /\ ~IsForEach(a)
      BY <2>1 DEF activation, Activation, toplevel, IsForEach
    <2> HIDE DEF a
    <2>6. Frames(stack, connected)
      BY <2>4, <2>5 DEF Frames
    <2>7. ForEachsOf(stack) = {}
      BY <2>4, <2>5 DEF ForEachsOf
    <2>8. ScopeOK(gameState.activeScopeVariables, stack)
      BY <2>2, <2>7 DEF ScopeOK
    <2>9. connected \subseteq Players
      BY DEF Init, connected, ToSet
    <2> QED
      BY <2>1, <2>3, <2>6, <2>8, <2>9 DEF IInv
  <1>2. IInv /\ [Next]_vars => IInv'
    <2> SUFFICES ASSUME IInv, [Next]_vars PROVE IInv'
      OBVIOUS
    <2>1. CASE AddRule
      BY <2>1, AddRuleStep
    <2>2. CASE GlobalMessageRule
      BY <2>2, GlobalMessageRuleStep
    <2>3. CASE InputTextRule
      BY <2>3, InputTextRuleStep
    <2>4. CASE ForEachRule
      BY <2>4, ForEachRuleStep
    <2>5. CASE nextElement
      BY <2>5, nextElementStep
    <2>6. CASE LoopRule
      BY <2>6, LoopRuleStep
    <2>7. CASE nextIteration
      BY <2>7, nextIterationStep
    <2>8. CASE gameFinished
      BY <2>8, StopStep DEF gameFinished, stop
    <2>9. CASE Done \/ UNCHANGED vars
      <3>1. UNCHANGED vars
        BY <2>9 DEF Done
      <3>2. connected' = connected
        BY <3>1 DEF vars, connected
      <3> QED
        BY <3>1, <3>2 DEF IInv, vars
    <2> QED
      BY <2>1, <2>2, <2>3, <2>4, <2>5, <2>6, <2>7, <2>8, <2>9 DEF Next
  <1> QED
    BY <1>1, <1>2, PTL DEF Spec

-----------------------------------------------------------------------------
(***************************************************************************)
(* What follows.                                                           *)
(***************************************************************************)

\* Whatever the rules, no variable is added, removed or given a value that is
\* not an int, and elements stand for connected players (AddRule, InputTextRule
\* and ForEachRule, GameState::setValue).
THEOREM TypeCorrect == Spec => []TypeOK
  <1>1. IInv => TypeOK
    BY DEF IInv, TypeOK, Shape, connected
  <1> QED
    BY <1>1, Invariance, PTL

\* However deep for-each rules and loops are nested, and wherever a rule fails or
\* throws, the elements in scope are exactly those of the for-each rules being
\* executed (ForEachRule::executeRuleImpl).
THEOREM ScopesMatch == Spec => []ScopeMatchesActivations
  <1>1. IInv => ScopeMatchesActivations
    <2>1. ForEachs = ForEachsOf(stack)
      BY DEF ForEachs, ForEachsOf, IsForEach
    <2> QED
      BY <2>1 DEF IInv, ScopeMatchesActivations, ScopeOK, StandsForCurrent
  <1> QED
    BY <1>1, Invariance, PTL

\* The error branches of the loop over the players, for an element that cannot be
\* released or put in scope again, are never taken (ForEachRule::executeRuleImpl).
NextElementSucceeds == [][nextElement => UNCHANGED result]_vars

\* A for-each fails on its first player or not at all.
THEOREM ForEachGoesOn == Spec => NextElementSucceeds
  <1>1. IInv /\ [Next]_vars => [nextElement => UNCHANGED result]_vars
    <2> SUFFICES ASSUME IInv, nextElement PROVE result' = result
      OBVIOUS
    <2> DEFINE gs == unsetActiveScopeVariable(gameState, top.rule.elem)
    <2>1. Finished("foreach")
      BY DEF nextElement
    <2>2. InScope(gameState, top.rule.elem) /\ ~InScope(gs, top.rule.elem)
      BY <2>1, ElementReleased DEF InScope
    <2>3. \/ UNCHANGED result
          \/ startElement(Tail(stack), top.rule, gs, Tail(top.players))
      BY <2>2 DEF nextElement
    <2> HIDE DEF gs
    <2> QED
      BY <2>2, <2>3 DEF startElement
  <1> QED
    BY <1>1, Invariance, PTL DEF Spec, NextElementSucceeds

-----------------------------------------------------------------------------
(***************************************************************************)
(* What a game's text says of the elements it refers to.                   *)
(***************************************************************************)

\* The lists of rules are closed under taking the first rule away, and under
\* going into it.
LEMMA ListsInside ==
    ASSUME NEW rules \in Lists, rules # <<>>
    PROVE  /\ rules \in Seq(Rule) /\ Head(rules) \in Rule
           /\ Tail(rules) \in Lists
           /\ Head(rules).type \in {"foreach", "loop"} => Head(rules).body \in Lists
  <1>1. Lists \subseteq Seq(Rule) /\ Tails(Lists) \subseteq Lists /\ Nested(Lists) \subseteq Lists
    BY ListsAssumption
  <1>2. rules \in Seq(Rule) /\ Head(rules) \in Rule
    BY <1>1
  <1>3. Tail(rules) \in Lists
    BY <1>1, Zenon DEF Tails
  <1>4. ASSUME Head(rules).type \in {"foreach", "loop"}
        PROVE  Head(rules).body \in Lists
    BY <1>1, <1>4, Zenon DEF Nested
  <1> QED
    BY <1>2, <1>3, <1>4

\* An activation whose references are to elements of this scope.
Scoped(a, scope) ==
    /\ a.rest \in Lists /\ WellScoped(a.rest, scope)
    /\ a.rule.type \in {"foreach", "loop"} =>
          a.rule.body \in Lists /\ WellScoped(a.rule.body, scope)

\* The elements of the for-each rules from the i-th activation outwards.
ScopeAt(st, i) == {st[j].rule.elem : j \in {k \in ForEachsOf(st) : k >= i}}

AllScoped(st) == \A i \in DOMAIN st : Scoped(st[i], ScopeAt(st, i))

\* An activation in front changes nothing for those around it.
LEMMA ScopeAtInFront ==
    ASSUME NEW S, NEW s \in Seq(S), NEW x \in S, NEW i \in 1 .. Len(s)
    PROVE  ScopeAt(<<x>> \o s, i + 1) = ScopeAt(s, i)
  <1> DEFINE t == <<x>> \o s
             n == Len(s)
             K == {k \in ForEachsOf(s) : k >= i}
             L == {k \in ForEachsOf(t) : k >= i + 1}
  <1>1. n \in Nat /\ DOMAIN s = 1 .. n /\ \A j \in 1 .. n : t[j + 1] = s[j]
    BY InFront
  <1>2. ForEachsOf(t) = {j + 1 : j \in ForEachsOf(s)} \cup (IF IsForEach(x) THEN {1} ELSE {})
    BY ForEachsInFront
  <1> HIDE DEF t, n
  <1>3. ForEachsOf(s) \subseteq 1 .. n /\ i \in 1 .. n
    BY <1>1 DEF ForEachsOf, n
  <1>4. L = {j + 1 : j \in K}
    BY <1>1, <1>2, <1>3
  <1>5. K \subseteq 1 .. n
    BY <1>3
  <1> HIDE DEF K, L
  <1>6. {t[j].rule.elem : j \in L} = {s[j].rule.elem : j \in K}
    <2>1. \A j \in L : \E k \in K : j = k + 1
      BY <1>4
    <2>2. \A k \in K : k + 1 \in L /\ t[k + 1] = s[k]
      BY <1>1, <1>4, <1>5
    <2> QED
      BY <2>1, <2>2
  <1> QED
    BY <1>6 DEF ScopeAt, t, K, L

\* All of the for-each rules make up the scope.
LEMMA WholeScope ==
    ASSUME NEW S, NEW st \in Seq(S), NEW scope, ScopeOK(scope, st)
    PROVE  ScopeAt(st, 1) = DOMAIN scope
  <1>1. {k \in ForEachsOf(st) : k >= 1} = ForEachsOf(st)
    BY DEF ForEachsOf
  <1> QED
    BY <1>1, Zenon DEF ScopeAt, ScopeOK

\* Activations taken apart into the innermost and those around it.
LEMMA AllScopedInFront ==
    ASSUME NEW S, NEW s \in Seq(S), NEW x \in S, NEW scope, ScopeOK(scope, <<x>> \o s)
    PROVE  AllScoped(<<x>> \o s) <=> AllScoped(s) /\ Scoped(x, DOMAIN scope)
  <1> DEFINE t == <<x>> \o s
             n == Len(s)
  <1>1. /\ n \in Nat /\ DOMAIN s = 1 .. n /\ DOMAIN t = 1 .. n + 1 /\ t[1] = x /\ t \in Seq(S)
        /\ \A j \in 1 .. n : t[j + 1] = s[j]
    BY InFront
  <1>2. \A i \in 1 .. n : ScopeAt(t, i + 1) = ScopeAt(s, i)
    BY ScopeAtInFront
  <1>3. ScopeAt(t, 1) = DOMAIN scope
    BY <1>1, WholeScope
  <1> HIDE DEF t, n
  <1>4. ASSUME AllScoped(t) PROVE AllScoped(s) /\ Scoped(x, DOMAIN scope)
    <2>1. 1 \in DOMAIN t /\ \A i \in 1 .. n : i + 1 \in DOMAIN t
      BY <1>1
    <2>2. Scoped(x, DOMAIN scope)
      BY <2>1, <1>1, <1>3, <1>4 DEF AllScoped
    <2>3. ASSUME NEW i \in DOMAIN s PROVE Scoped(s[i], ScopeAt(s, i))
      BY <2>1, <1>1, <1>2, <1>4 DEF AllScoped
    <2> QED
      BY <2>2, <2>3 DEF AllScoped
  <1>5. ASSUME AllScoped(s), Scoped(x, DOMAIN scope) PROVE AllScoped(t)
    <2> SUFFICES ASSUME NEW i \in DOMAIN t PROVE Scoped(t[i], ScopeAt(t, i))
      BY DEF AllScoped
    <2>1. CASE i = 1
      BY <2>1, <1>1, <1>3, <1>5
    <2>2. CASE i # 1
      <3>1. i - 1 \in 1 .. n /\ i = (i - 1) + 1
        BY <2>2, <1>1
      <3>2. t[i] = s[i - 1] /\ ScopeAt(t, i) = ScopeAt(s, i - 1)
        BY <3>1, <1>1, <1>2
      <3> QED
        BY <3>1, <3>2, <1>1, <1>5 DEF AllScoped
    <2> QED
      BY <2>1, <2>2
  <1> QED
    BY <1>4, <1>5 DEF t

\* The elements in scope are those of some for-each rules.
LEMMA ScopeOfElements ==
    ASSUME IInv
    PROVE  DOMAIN gameState.activeScopeVariables \subseteq Elem
  <1>1. stack \in Seq(Activation(connected))
    BY TopFrame
  <1>2. ASSUME NEW i \in ForEachsOf(stack) PROVE stack[i].rule.elem \in Elem
    <2>1. stack[i] \in Activation(connected) /\ stack[i].rule.type = "foreach"
      BY <1>1 DEF ForEachsOf, IsForEach
    <2>2. stack[i].rule \in Rule
      BY <2>1 DEF Activation, toplevel
    <2> QED
      BY <2>1, <2>2, Zenon DEF Elem
  <1> QED
    BY <1>2 DEF IInv, ScopeOK

\* What WellScoped says of the rule to be executed next.
LEMMA NextRuleScoped ==
    ASSUME IInv, AllScoped(stack), top.rest # <<>>,
           NEW scope, scope = DOMAIN gameState.activeScopeVariables
    PROVE  /\ AllScoped(advanced)
           /\ rule.type \in {"add", "input"} => Refers(rule.target, scope)
           /\ rule.type = "input" => Refers(rule.result, scope)
           /\ rule.type = "foreach" =>
                 rule.body \in Lists /\ WellScoped(rule.body, scope \cup {rule.elem})
           /\ rule.type = "loop" => rule.body \in Lists /\ WellScoped(rule.body, scope)
  <1> DEFINE x == [top EXCEPT !.rest = Tail(@)]
             s == Tail(stack)
             A == Activation(connected)
  <1>1. top \in A /\ s \in Seq(A) /\ stack = <<top>> \o s
    BY TopFrame
  <1>2. x \in A /\ x.rule = top.rule /\ x.rest = Tail(top.rest)
    <2>1. top.rest \in Seq(Rule) /\ Tail(top.rest) \in Seq(Rule)
      BY TopFrame
    <2> QED
      BY <1>1, <2>1 DEF Activation
  <1>3. ScopeOK(gameState.activeScopeVariables, stack) /\ ScopeOK(gameState.activeScopeVariables, advanced)
    BY Advanced DEF IInv
  <1>4. advanced = <<x>> \o s
    BY DEF advanced
  <1> HIDE DEF A, s, x
  <1>5. AllScoped(s) /\ Scoped(top, scope)
    BY <1>1, <1>3, AllScopedInFront
  <1>6. top.rest \in Lists /\ WellScoped(top.rest, scope) /\ scope \in SUBSET Elem
    BY <1>5, ScopeOfElements DEF Scoped
  <1>7. /\ Tail(top.rest) \in Lists
        /\ rule.type \in {"foreach", "loop"} => rule.body \in Lists
    BY <1>6, ListsInside DEF rule
  <1>8. /\ WellScoped(Tail(top.rest), scope)
        /\ rule.type \in {"add", "input"} => Refers(rule.target, scope)
        /\ rule.type = "input" => Refers(rule.result, scope)
        /\ rule.type = "foreach" => WellScoped(rule.body, scope \cup {rule.elem})
        /\ rule.type = "loop" => WellScoped(rule.body, scope)
    BY <1>6, WellScopedAssumption, Zenon DEF rule
  <1>9. Scoped(x, scope)
    BY <1>2, <1>5, <1>7, <1>8 DEF Scoped
  <1>10. AllScoped(advanced)
    BY <1>1, <1>2, <1>3, <1>4, <1>5, <1>9, AllScopedInFront
  <1> QED
    BY <1>7, <1>8, <1>10

\* A name that refers to elements in scope can be taken apart.
LEMMA ReferenceResolves ==
    ASSUME NEW gs, NEW P, Shape(gs, P), P \subseteq Players, NEW name \in Seq(STRING),
           Refers(name, DOMAIN gs.activeScopeVariables)
    PROVE  getValue(gs, name).outcome # "threw"
  <1>1. CASE ~OfPlayer(name)
    BY <1>1 DEF getValue, getVariable, ok, failure
  <1>2. CASE OfPlayer(name)
    <2> DEFINE q == parseRuntimeVariables(gs, name)
    <2>0. /\ \A elem \in Elements(name) : InScope(gs, elem)
          /\ Len(name) > 2 /\ name[2] \in DOMAIN scopedElement \cup DOMAIN stoul
      BY <1>2 DEF Refers, InScope
    <2>1. Extractable(q)
      <3>1. ParsedName(q, name, gs.activeScopeVariables, P)
        BY <2>0, ParsesName
      <3> HIDE DEF q
      <3>2. Len(q) > 2 /\ 2 \in DOMAIN name
        BY <2>0, <3>1 DEF ParsedName
      <3>3. q[2] \in DOMAIN stoul
        <4>1. CASE 2 \in References(name)
          <5>1. q[2] \in Players
            BY <3>1, <4>1, Zenon DEF ParsedName
          <5> QED
            BY <5>1, RulesAssumption
        <4>2. CASE 2 \notin References(name)
          <5>1. q[2] = name[2] /\ name[2] \notin DOMAIN scopedElement
            BY <3>1, <3>2, <4>2 DEF ParsedName, References
          <5> QED
            BY <2>0, <5>1
        <4> QED
          BY <4>1, <4>2
      <3> QED
        BY <3>2, <3>3 DEF Extractable
    <2> HIDE DEF q
    <2> QED
      BY <1>2, <2>1 DEF getValue, getPlayerVariable, ok, failure, q
  <1> QED
    BY <1>1, <1>2

\* The inductive invariant, of well-scoped games.
ScopedInv == WellScoped(game, {}) => AllScoped(stack) /\ result # "threw"

\* A rule that stops, with anything but an exception, and one that succeeds.
LEMMA StopScoped ==
    ASSUME AllScoped(stack), NEW outcome, outcome # "threw", stop(outcome)
    PROVE  AllScoped(stack') /\ result' # "threw"
  BY DEF stop

LEMMA SucceedScoped ==
    ASSUME IInv, AllScoped(stack), result # "threw", top.rest # <<>>, NEW gs, succeed(gs)
    PROVE  AllScoped(stack') /\ result' # "threw"
  <1>1. AllScoped(advanced)
    BY NextRuleScoped
  <1> QED
    BY <1>1 DEF succeed

\* The body of a for-each is executed in the scope it was written for.
LEMMA StartElementScoped ==
    ASSUME IInv', UNCHANGED playerIDs, AllScoped(stack), result # "threw",
           NEW frames, Frames(frames, connected), AllScoped(frames),
           NEW fe \in Rule, fe.type = "foreach",
           NEW gs, Shape(gs, connected),
           NEW players \in Seq(connected), players # <<>>,
           startElement(frames, fe, gs, players),
           fe.body \in Lists, WellScoped(fe.body, DOMAIN gs.activeScopeVariables \cup {fe.elem})
    PROVE  AllScoped(stack') /\ result' # "threw"
  <1>1. CASE InScope(gs, fe.elem)
    BY <1>1, StopScoped DEF startElement
  <1>2. CASE ~InScope(gs, fe.elem)
    <2> DEFINE x == activation(fe, fe.body, players)
               p == Head(players)
               A == Activation(connected)
               new == setActiveScopeVariable(gs, fe.elem, p)
               scope == DOMAIN gs.activeScopeVariables \cup {fe.elem}
    <2>1. gameState' = new /\ stack' = <<x>> \o frames /\ result' = result
      BY <1>2 DEF startElement
    <2>2. p \in connected
      OBVIOUS
    <2>3. x \in A /\ frames \in Seq(A)
      BY RulesAssumption DEF activation, Activation, Frames
    <2>4. x.rule = fe /\ x.rest = fe.body
      BY DEF activation
    <2> HIDE DEF p
    <2>5. new.activeScopeVariables = With(gs.activeScopeVariables, fe.elem, p)
      BY <2>2, SetScopeKeepsShape
    <2>6. DOMAIN new.activeScopeVariables = scope
      BY <2>5 DEF With
    <2> HIDE DEF new, x, A
    <2>7. ScopeOK(new.activeScopeVariables, <<x>> \o frames)
      BY <2>1 DEF IInv
    <2>8. Scoped(x, scope)
      BY <2>4 DEF Scoped
    <2>9. AllScoped(<<x>> \o frames)
      <3> HIDE DEF scope
      <3> QED
        BY <2>3, <2>6, <2>7, <2>8, AllScopedInFront
    <2> QED
      BY <2>1, <2>9
  <1> QED
    BY <1>1, <1>2

\* Every step of a well-scoped game keeps its activations well-scoped, and throws
\* no exception.
LEMMA StepScopedInv == IInv /\ IInv' /\ ScopedInv /\ [Next]_vars => ScopedInv'
  <1> SUFFICES ASSUME IInv, IInv', ScopedInv, [Next]_vars, WellScoped(game, {})', Next
               PROVE  AllScoped(stack') /\ result' # "threw"
    <2>1. CASE UNCHANGED vars
      BY <2>1 DEF vars, ScopedInv
    <2> QED
      BY <2>1 DEF ScopedInv
  <1>0. UNCHANGED <<game, playerIDs>>
    BY Zenon DEF Next, AddRule, GlobalMessageRule, InputTextRule, ForEachRule, nextElement,
           LoopRule, nextIteration, gameFinished, Done, vars
  <1>1. AllScoped(stack) /\ result # "threw"
    BY <1>0 DEF ScopedInv
  <1> DEFINE scope == DOMAIN gameState.activeScopeVariables
             A == Activation(connected)
  <1>2. Shape(gameState, connected) /\ playerIDs \in Seq(connected) /\ connected \subseteq Players
    BY DEF IInv
  <1>3. CASE AddRule
    <2> DEFINE got == getValue(gameState, rule.target)
               gs == setValue(gameState, rule.target, sum(got.value, rule.value))
    <2>1. /\ top.rest # <<>> /\ rule.type = "add"
          /\ stop(got.outcome) \/ succeed(gs)
      BY <1>3 DEF AddRule, Executing, rule
    <2>2. Refers(rule.target, scope)
      BY <1>1, <2>1, NextRuleScoped
    <2>3. rule.target \in Seq(STRING)
      BY <2>1, Advanced, RulesAssumption
    <2>4. got.outcome # "threw"
      BY <1>2, <2>2, <2>3, ReferenceResolves
    <2> HIDE DEF got, gs
    <2> QED
      BY <1>1, <2>1, <2>4, StopScoped, SucceedScoped
  <1>4. CASE GlobalMessageRule
    BY <1>1, <1>4, SucceedScoped DEF GlobalMessageRule, Executing
  <1>5. CASE InputTextRule
    <2> DEFINE got == getValue(gameState, rule.target)
               outcome == setValueOutcome(gameState, rule.result)
    <2>1. /\ top.rest # <<>> /\ rule.type = "input"
          /\ stop(got.outcome) \/ stop(outcome) \/ (stack' = stack /\ result' = "failure")
      BY <1>5 DEF InputTextRule, Executing, rule
    <2>2. Refers(rule.target, scope) /\ Refers(rule.result, scope)
      BY <1>1, <2>1, NextRuleScoped
    <2>3. rule.target \in Seq(STRING) /\ rule.result \in Seq(STRING)
      BY <2>1, Advanced, RulesAssumption
    <2>4. got.outcome # "threw" /\ outcome # "threw"
      BY <1>2, <2>2, <2>3, ReferenceResolves DEF setValueOutcome
    <2> HIDE DEF got, outcome
    <2> QED
      BY <1>1, <2>1, <2>4, StopScoped
  <1>6. CASE ForEachRule
    <2>1. /\ top.rest # <<>> /\ rule.type = "foreach"
          /\ \/ stop("failure")
             \/ succeed(gameState)
             \/ playerIDs # <<>> /\ startElement(advanced, rule, gameState, playerIDs)
      BY <1>6 DEF ForEachRule, Executing, rule
    <2>2. /\ AllScoped(advanced) /\ rule.body \in Lists
          /\ WellScoped(rule.body, scope \cup {rule.elem})
      BY <1>1, <2>1, NextRuleScoped
    <2>3. rule \in Rule /\ Frames(advanced, connected)
      BY <2>1, Advanced
    <2>4. CASE playerIDs # <<>> /\ startElement(advanced, rule, gameState, playerIDs)
      BY <1>0, <1>1, <1>2, <2>1, <2>2, <2>3, <2>4, StartElementScoped
    <2> QED
      BY <1>1, <2>1, <2>4, StopScoped, SucceedScoped
  <1>7. AllScoped(Tail(stack)) /\ Scoped(top, scope)
    <2>1. top \in A /\ Tail(stack) \in Seq(A) /\ stack = <<top>> \o Tail(stack)
      BY TopFrame
    <2>2. ScopeOK(gameState.activeScopeVariables, stack)
      BY DEF IInv
    <2> HIDE DEF A
    <2> QED
      BY <1>1, <2>1, <2>2, AllScopedInFront
  <1>8. CASE nextElement
    <2> DEFINE gs == unsetActiveScopeVariable(gameState, top.rule.elem)
               elem == top.rule.elem
    <2>1. Finished("foreach")
      BY <1>8 DEF nextElement
    <2>2. /\ top.rule \in Rule /\ top.rule.type = "foreach" /\ InScope(gameState, elem)
          /\ Frames(Tail(stack), connected) /\ Shape(gs, connected)
      BY <2>1, ElementReleased
    <2>3. DOMAIN gs.activeScopeVariables \cup {elem} = scope
      <3>1. gs.activeScopeVariables = Without(gameState.activeScopeVariables, elem)
        BY <1>2, UnsetScopeKeepsShape
      <3> QED
        BY <3>1, <2>2 DEF InScope, Without
    <2>4. top.rule.body \in Lists /\ WellScoped(top.rule.body, scope)
      BY <1>7, <2>2 DEF Scoped
    <2>5. \/ stack' = Tail(stack) /\ result' = result
          \/ Len(top.players) # 1 /\ startElement(Tail(stack), top.rule, gs, Tail(top.players))
      BY <1>8, <2>2 DEF nextElement
    <2>6. CASE Len(top.players) # 1 /\ startElement(Tail(stack), top.rule, gs, Tail(top.players))
      <3>1. top.players \in Seq(connected) /\ top.players # <<>>
        BY <2>2, TopFrame, HasCurrent DEF IsForEach
      <3>2. Tail(top.players) \in Seq(connected) /\ Len(Tail(top.players)) # 0
        BY <2>6, <3>1
      <3>3. Tail(top.players) # <<>>
        BY <3>2, EmptySeq, Zenon
      <3>4. WellScoped(top.rule.body, DOMAIN gs.activeScopeVariables \cup {elem})
        BY <2>3, <2>4
      <3> HIDE DEF gs
      <3> QED
        BY <1>0, <1>1, <1>7, <2>2, <2>4, <2>6, <3>2, <3>3, <3>4, StartElementScoped
    <2> QED
      BY <1>1, <1>7, <2>5, <2>6
  <1>9. CASE LoopRule
    <2> DEFINE x == activation(rule, rule.body, <<>>)
    <2>1. /\ top.rest # <<>> /\ rule.type = "loop"
          /\ \/ stop("failure")
             \/ succeed(gameState)
             \/ stack' = <<x>> \o advanced /\ UNCHANGED <<gameState, result>>
      BY <1>9 DEF LoopRule, Executing, rule
    <2>2. AllScoped(advanced) /\ rule.body \in Lists /\ WellScoped(rule.body, scope)
      BY <1>1, <2>1, NextRuleScoped
    <2>3. CASE stack' = <<x>> \o advanced /\ UNCHANGED <<gameState, result>>
      <3>1. rule \in Rule /\ Frames(advanced, connected)
        BY <2>1, Advanced
      <3>2. x \in A /\ advanced \in Seq(A)
        BY <2>1, <3>1, RulesAssumption DEF activation, Activation, Frames
      <3>3. Scoped(x, scope)
        BY <2>1, <2>2 DEF Scoped, activation
      <3>4. ScopeOK(gameState.activeScopeVariables, <<x>> \o advanced)
        BY <2>3 DEF IInv
      <3> HIDE DEF x, A
      <3>5. AllScoped(<<x>> \o advanced)
        BY <2>2, <3>2, <3>3, <3>4, AllScopedInFront
      <3> QED
        BY <1>1, <2>3, <3>5
    <2> QED
      BY <1>1, <2>1, <2>3, StopScoped, SucceedScoped
  <1>10. CASE nextIteration
    <2> DEFINE x == activation(top.rule, top.rule.body, <<>>)
    <2>1. /\ top.rule.type = "loop" /\ UNCHANGED <<gameState, result>>
          /\ stack' = Tail(stack) \/ stack' = <<x>> \o Tail(stack)
      BY <1>10 DEF nextIteration, Finished
    <2>2. CASE stack' = <<x>> \o Tail(stack)
      <3>1. top.rule \in Rule /\ Tail(stack) \in Seq(A)
        BY <2>1, TopFrame DEF toplevel
      <3>2. x \in A
        BY <2>1, <3>1, RulesAssumption DEF activation, Activation
      <3>3. Scoped(x, scope)
        BY <1>7, <2>1 DEF Scoped, activation
      <3>4. ScopeOK(gameState.activeScopeVariables, <<x>> \o Tail(stack))
        BY <2>1, <2>2 DEF IInv
      <3> HIDE DEF x, A
      <3>5. AllScoped(<<x>> \o Tail(stack))
        BY <1>7, <3>1, <3>2, <3>3, <3>4, AllScopedInFront
      <3> QED
        BY <1>1, <2>1, <2>2, <3>5
    <2> QED
      BY <1>1, <1>7, <2>1, <2>2
  <1>11. CASE gameFinished
    BY <1>1, <1>11 DEF gameFinished
  <1>12. CASE Done
    BY <1>1, <1>12 DEF Done, vars
  <1> QED
    BY <1>3, <1>4, <1>5, <1>6, <1>8, <1>9, <1>10, <1>11, <1>12 DEF Next

\* A game whose references are well-scoped never throws, however deep its rules are
\* nested and whoever plays (parseRuntimeVariables, extractPlayerVariableInfo).
THEOREM WellScopedNeverThrows == Spec => []OnlyBadReferencesThrow
  <1>1. Init => ScopedInv
    <2> SUFFICES ASSUME Init, WellScoped(game, {}) PROVE AllScoped(stack) /\ result # "threw"
      BY DEF ScopedInv
    <2> DEFINE a == activation(toplevel, game, <<>>)
    <2>1. stack = <<a>> /\ DOMAIN stack = {1} /\ stack[1] = a /\ result = "running" /\ game \in Lists
      BY ListsAssumption DEF Init
    <2>2. a.rule.type = "toplevel" /\ a.rest = game
      BY DEF activation, toplevel
    <2> HIDE DEF a
    <2>3. ScopeAt(stack, 1) = {}
      BY <2>1, <2>2 DEF ScopeAt, ForEachsOf, IsForEach
    <2>4. Scoped(a, {})
      BY <2>1, <2>2 DEF Scoped
    <2> QED
      BY <2>1, <2>3, <2>4 DEF AllScoped
  <1>2. ScopedInv => OnlyBadReferencesThrow
    BY DEF ScopedInv, OnlyBadReferencesThrow
  <1> QED
    BY <1>1, <1>2, StepScopedInv, Invariance, PTL DEF Spec

-----------------------------------------------------------------------------
(***************************************************************************)
(* What a game's text says it adds.                                        *)
(*                                                                         *)
(* A concern is a variable, the number of players, the player whom the     *)
(* variable is looked at for, the loop that the game is, if it is one, and *)
(* what the variable should come to.                                       *)
(***************************************************************************)

AddedFor(c, rules, elems) == Added(c.var, rules, c.n, elems)

\* What a for-each adds in its rounds for these players.
Rounds(c, fe, players, elems) ==
    Len(players) * AddedFor(c, fe.body, elems)
    + (IF c.player \in ToSet(players) THEN AddedFor(c, fe.body, elems \cup {fe.elem}) - AddedFor(c, fe.body, elems) ELSE 0)

\* The elements that stand for the player in the list of an activation, when those
\* do around it.
Inner(c, a, elems) ==
    IF IsForEach(a) /\ Head(a.players) = c.player THEN elems \cup {a.rule.elem} ELSE elems

\* What the rest of a for-each adds after the current round.
Later(c, a, elems) == IF IsForEach(a) THEN Rounds(c, a.rule, Tail(a.players), elems) ELSE 0

\* An account of activations: the elements standing for the player, what the
\* activations have yet to add, and the type of the innermost one's rule.
Account == [elems : SUBSET Elem, rem : Int, of : {"none", "toplevel", "loop", "foreach"}]
NoAccount == [elems |-> {}, rem |-> 0, of |-> "none"]
TopAccount == [elems |-> {}, rem |-> 0, of |-> "toplevel"]

Looping(c) == c.loop.type = "loop"

\* Where an activation may be: in a game that is a loop, that of the loop is on that
\* of the top level, which has nothing else to do, and the others are inside it.
Placed(c, a, h) ==
    /\ IsForEach(a) /\ Looping(c) => h.of # "toplevel"
    /\ a.rule.type = "loop" => a.rule = c.loop /\ h = TopAccount
    /\ a.rule.type \notin {"foreach", "loop"} => h = NoAccount /\ (Looping(c) => a.rest = <<>>)

Distinct(s) == \A i, j \in DOMAIN s : s[i] = s[j] => i = j

\* The account with an activation, over the account of those around it.
Link(c, a, g, h) ==
    /\ a.rest \in Loopless
    /\ Placed(c, a, h) /\ g.of = a.rule.type
    /\ IsForEach(a) => a.rule.body \in Loopless /\ a.rule.elem \in Elem \ h.elems /\ Distinct(a.players)
    /\ g.elems = Inner(c, a, h.elems)
    /\ g.rem = AddedFor(c, a.rest, g.elems) + Later(c, a, h.elems) + h.rem

Linked(c, st, accounts) ==
    /\ accounts \in Seq(Account) /\ Len(accounts) = Len(st) + 1
    /\ accounts[Len(st) + 1] = NoAccount
    /\ \A i \in 1 .. Len(st) : Link(c, st[i], accounts[i], accounts[i + 1])

Accounted(c, st, g) == \E accounts : Linked(c, st, accounts) /\ accounts[1] = g

\* The account of no activations.
LEMMA NothingAccounted ==
    ASSUME NEW c
    PROVE  Accounted(c, <<>>, NoAccount)
  <1> DEFINE accounts == <<NoAccount>>
  <1>1. NoAccount \in Account
    BY DEF NoAccount, Account
  <1>2. accounts \in Seq(Account) /\ Len(accounts) = 1 /\ accounts[1] = NoAccount /\ Len(<<>>) = 0
    BY <1>1
  <1> HIDE DEF accounts
  <1>3. Linked(c, <<>>, accounts)
    BY <1>2 DEF Linked
  <1> QED
    BY <1>2, <1>3 DEF Accounted

\* The account of one more activation.
LEMMA AccountPush ==
    ASSUME NEW c, NEW S, NEW s \in Seq(S), NEW a \in S, NEW h, Accounted(c, s, h),
           NEW g \in Account, Link(c, a, g, h)
    PROVE  Accounted(c, <<a>> \o s, g)
  <1>1. PICK hs : Linked(c, s, hs) /\ hs[1] = h
    BY DEF Accounted
  <1> DEFINE gs == <<g>> \o hs
             t == <<a>> \o s
             n == Len(s)
  <1>2. hs \in Seq(Account) /\ Len(hs) = n + 1 /\ hs[n + 1] = NoAccount
    BY <1>1 DEF Linked
  <1>3. /\ n \in Nat /\ Len(t) = n + 1 /\ t[1] = a /\ \A i \in 1 .. n : t[i + 1] = s[i]
    BY InFront
  <1>4. /\ gs \in Seq(Account) /\ Len(gs) = Len(hs) + 1 /\ gs[1] = g
        /\ \A i \in 1 .. Len(hs) : gs[i + 1] = hs[i]
    BY <1>2, InFront
  <1> HIDE DEF gs, t, n
  <1>5. ASSUME NEW i \in 1 .. n + 1 PROVE Link(c, t[i], gs[i], gs[i + 1])
    <2>1. CASE i = 1
      <3>1. gs[1 + 1] = hs[1]
        BY <1>2, <1>3, <1>4
      <3>2. t[i] = a /\ gs[i] = g /\ gs[i + 1] = h
        BY <2>1, <3>1, <1>1, <1>3, <1>4
      <3> QED
        BY <3>2
    <2>2. CASE i # 1
      <3>1. i - 1 \in 1 .. n /\ i - 1 \in 1 .. n + 1 /\ i \in 1 .. n + 1 /\ i = (i - 1) + 1
        BY <2>2, <1>3
      <3>2. t[i] = s[i - 1] /\ gs[i] = hs[i - 1] /\ gs[i + 1] = hs[i]
        BY <3>1, <1>2, <1>3, <1>4
      <3>3. Link(c, s[i - 1], hs[i - 1], hs[(i - 1) + 1])
        BY <1>1, <3>1 DEF Linked, n
      <3> QED
        BY <3>1, <3>2, <3>3
    <2> QED
      BY <2>1, <2>2
  <1>6. gs[Len(t) + 1] = NoAccount
    <2>1. n + 1 \in 1 .. Len(hs) /\ Len(t) + 1 = (n + 1) + 1
      BY <1>2, <1>3
    <2> QED
      BY <2>1, <1>2, <1>4
  <1>7. Linked(c, t, gs)
    <2>1. Len(gs) = Len(t) + 1
      BY <1>2, <1>3, <1>4
    <2> QED
      BY <1>3, <1>4, <1>5, <1>6, <2>1 DEF Linked
  <1> QED
    BY <1>4, <1>7 DEF Accounted, t

\* The account of one activation less.
LEMMA AccountPop ==
    ASSUME NEW c, NEW S, NEW s \in Seq(S), NEW a \in S, NEW g, Accounted(c, <<a>> \o s, g)
    PROVE  g \in Account /\ \E h \in Account : Accounted(c, s, h) /\ Link(c, a, g, h)
  <1> DEFINE t == <<a>> \o s
             n == Len(s)
  <1>1. PICK gs : Linked(c, t, gs) /\ gs[1] = g
    BY DEF Accounted
  <1>3. /\ n \in Nat /\ Len(t) = n + 1 /\ t[1] = a /\ \A i \in 1 .. n : t[i + 1] = s[i]
    BY InFront
  <1>2. gs \in Seq(Account) /\ Len(gs) = Len(t) + 1 /\ gs[Len(t) + 1] = NoAccount
    BY <1>1 DEF Linked
  <1> HIDE DEF t, n
  <1> DEFINE hs == Tail(gs)
  <1>4. hs \in Seq(Account) /\ Len(hs) = n + 1 /\ \A i \in 1 .. n + 1 : hs[i] = gs[i + 1]
    BY <1>2, <1>3
  <1> HIDE DEF hs
  <1>5. ASSUME NEW i \in 1 .. n PROVE Link(c, s[i], hs[i], hs[i + 1])
    <2>1. i + 1 \in 1 .. n + 1 /\ i \in 1 .. n + 1 /\ i + 1 \in 1 .. Len(t)
      BY <1>3
    <2>2. hs[i] = gs[i + 1] /\ hs[i + 1] = gs[(i + 1) + 1] /\ s[i] = t[i + 1]
      BY <2>1, <1>3, <1>4
    <2>3. Link(c, t[i + 1], gs[i + 1], gs[(i + 1) + 1])
      BY <2>1, <1>1 DEF Linked
    <2> QED
      BY <2>2, <2>3
  <1>6. hs[n + 1] = NoAccount
    BY <1>2, <1>3, <1>4
  <1>7. Linked(c, s, hs)
    BY <1>4, <1>5, <1>6 DEF Linked, n
  <1>8. hs[1] = gs[2] /\ hs[1] \in Account /\ g \in Account
    BY <1>1, <1>2, <1>3, <1>4
  <1>9. Link(c, a, g, hs[1])
    <2>1. Link(c, t[1], gs[1], gs[1 + 1])
      BY <1>1, <1>3 DEF Linked
    <2> QED
      BY <2>1, <1>1, <1>3, <1>8
  <1> QED
    BY <1>7, <1>8, <1>9, Zenon DEF Accounted

\* The lists without loops are closed in the same way.
LEMMA LooplessInside ==
    ASSUME NEW rules \in Loopless, rules # <<>>
    PROVE  /\ rules \in Lists /\ Head(rules) \in Rule
           /\ Tail(rules) \in Loopless
           /\ Head(rules).type # "loop"
           /\ Head(rules).type = "foreach" => Head(rules).body \in Loopless
  <1>1. /\ Loopless \subseteq Lists /\ Tails(Loopless) \subseteq Loopless
        /\ Nested(Loopless) \subseteq Loopless
        /\ \A l \in Loopless \ {<<>>} : Head(l).type # "loop"
    BY ListsAssumption
  <1>2. rules \in Lists /\ Head(rules) \in Rule
    BY <1>1, ListsInside
  <1>3. Tail(rules) \in Loopless
    BY <1>1, Zenon DEF Tails
  <1>4. Head(rules).type # "loop"
    BY <1>1
  <1>5. ASSUME Head(rules).type = "foreach"
        PROVE  Head(rules).body \in Loopless
    <2>1. Head(rules).type \in {"foreach", "loop"}
      BY <1>5
    <2> QED
      BY <1>1, <2>1, Zenon DEF Nested
  <1> QED
    BY <1>2, <1>3, <1>4, <1>5

IsConcern(c) == c.var \in Variable /\ c.n \in 0 .. Cardinality(Players) /\ c.n \in Nat

\* What is added is a number.
LEMMA AddedType ==
    ASSUME NEW c, IsConcern(c), NEW rules \in Loopless, NEW elems \in SUBSET Elem
    PROVE  /\ AddedFor(c, rules, elems) \in Int
           /\ rules = <<>> => AddedFor(c, rules, elems) = 0
           /\ rules # <<>> =>
                 AddedFor(c, rules, elems) =
                     AddedBy(c.var, Head(rules), c.n, elems) + AddedFor(c, Tail(rules), elems)
  BY AddedAssumption, Zenon DEF AddedFor, IsConcern

\* Arithmetic.
LEMMA OneMore ==
    ASSUME NEW k \in Nat, NEW x \in Int, NEW y \in Int
    PROVE  (k + 1) * x + y = x + (k * x + y) /\ k * x \in Int
  OBVIOUS

\* The members of a sequence are its head and those of its tail.
LEMMA ToSetParts ==
    ASSUME NEW P, NEW s \in Seq(P), s # <<>>
    PROVE  ToSet(s) = {Head(s)} \cup ToSet(Tail(s))
  <1> DEFINE n == Len(s)
             t == Tail(s)
  <1>1. /\ n \in Nat \ {0} /\ DOMAIN s = 1 .. n /\ DOMAIN t = 1 .. n - 1
        /\ Head(s) = s[1] /\ \A i \in 1 .. n - 1 : t[i] = s[i + 1]
    OBVIOUS
  <1> HIDE DEF n, t
  <1>2. ASSUME NEW i \in 1 .. n PROVE s[i] = s[1] \/ \E j \in 1 .. n - 1 : s[i] = t[j]
    <2>1. CASE i # 1
      <3>1. i - 1 \in 1 .. n - 1 /\ (i - 1) + 1 = i
        BY <1>1, <2>1
      <3> QED
        BY <3>1, <1>1
    <2> QED
      BY <2>1
  <1>3. \A j \in 1 .. n - 1 : \E i \in 1 .. n : t[j] = s[i]
    BY <1>1
  <1>4. 1 \in 1 .. n
    BY <1>1
  <1>5. ToSet(s) = {s[i] : i \in 1 .. n} /\ ToSet(t) = {t[j] : j \in 1 .. n - 1}
    BY <1>1, Zenon DEF ToSet
  <1>6. \A v \in ToSet(s) : v \in {s[1]} \cup ToSet(t)
    BY <1>2, <1>5
  <1>7. \A v \in {s[1]} \cup ToSet(t) : v \in ToSet(s)
    BY <1>3, <1>4, <1>5
  <1> QED
    BY <1>1, <1>6, <1>7 DEF t

\* The rounds of a for-each are the first and the others.
LEMMA Round ==
    ASSUME NEW c, IsConcern(c), NEW fe, fe.body \in Loopless, fe.elem \in Elem,
           NEW elems \in SUBSET Elem,
           NEW P, NEW players \in Seq(P), players # <<>>, Distinct(players)
    PROVE  /\ Rounds(c, fe, players, elems) =
                  AddedFor(c, fe.body, IF Head(players) = c.player THEN elems \cup {fe.elem} ELSE elems)
                  + Rounds(c, fe, Tail(players), elems)
           /\ Rounds(c, fe, Tail(players), elems) \in Int
  <1> DEFINE k == Len(Tail(players))
             x == AddedFor(c, fe.body, elems)
             y == AddedFor(c, fe.body, elems \cup {fe.elem})
             first == Head(players) = c.player
             later == c.player \in ToSet(Tail(players))
  <1>1. x \in Int /\ y \in Int
    BY AddedType
  <1>2. k \in Nat /\ Len(players) = k + 1
    BY HeadTailProperties
  <1>3. c.player \in ToSet(players) <=> first \/ later
    BY ToSetParts
  <1>4. ~(first /\ later)
    <2> SUFFICES ASSUME first, later PROVE FALSE
      OBVIOUS
    <2>1. PICK i \in DOMAIN Tail(players) : Tail(players)[i] = c.player
      BY DEF ToSet
    <2>2. i + 1 \in DOMAIN players /\ players[i + 1] = c.player /\ i + 1 # 1 /\ 1 \in DOMAIN players /\ players[1] = c.player
      BY <2>1
    <2> QED
      BY <2>2 DEF Distinct
  <1>5. Rounds(c, fe, players, elems) = (k + 1) * x + (IF first \/ later THEN y - x ELSE 0)
    BY <1>2, <1>3, Zenon DEF Rounds
  <1>6. Rounds(c, fe, Tail(players), elems) = k * x + (IF later THEN y - x ELSE 0)
    BY Zenon DEF Rounds
  <1>7. AddedFor(c, fe.body, IF first THEN elems \cup {fe.elem} ELSE elems) = IF first THEN y ELSE x
    BY Zenon
  <1> HIDE DEF k, x, y, first, later
  <1>8. k * x \in Int /\ (k + 1) * x + 0 = x + (k * x + 0) /\ (k + 1) * x + (y - x) = x + (k * x + (y - x))
    BY <1>1, <1>2, OneMore
  <1> DEFINE m == k * x
             o == (k + 1) * x
  <1> HIDE DEF m, o
  <1>9. m + (IF later THEN y - x ELSE 0) \in Int
    <2>1. m \in Int
      BY <1>8 DEF m
    <2>2. CASE later
      BY <2>1, <2>2, <1>1
    <2>3. CASE ~later
      BY <2>1, <2>3
    <2> QED
      BY <2>2, <2>3
  <1>10. o + (IF first \/ later THEN y - x ELSE 0) =
            (IF first THEN y ELSE x) + (m + (IF later THEN y - x ELSE 0))
    <2>1. m \in Int /\ o + 0 = x + (m + 0) /\ o + (y - x) = x + (m + (y - x))
      BY <1>8 DEF m, o
    <2>2. CASE first /\ ~later
      <3>1. o + (y - x) = y + (m + 0)
        BY <2>1, <1>1
      <3> QED
        BY <2>2, <3>1, Zenon
    <2>3. CASE ~first /\ later
      BY <2>1, <2>3, Zenon
    <2>4. CASE ~first /\ ~later
      BY <2>1, <2>4, Zenon
    <2> QED
      BY <1>4, <2>2, <2>3, <2>4
  <1> QED
    BY <1>5, <1>6, <1>7, <1>9, <1>10 DEF first, m, o

\* A for-each adds what its text says, when it is executed for all the players.
LEMMA AllRounds ==
    ASSUME NEW c, IsConcern(c), NEW fe, fe.type = "foreach", fe.body \in Loopless, fe.elem \in Elem,
           NEW elems \in SUBSET Elem,
           NEW players, Len(players) = c.n, players # <<>> => c.player \in ToSet(players),
           NEW P, players \in Seq(P)
    PROVE  AddedBy(c.var, fe, c.n, elems) = Rounds(c, fe, players, elems)
  <1> DEFINE x == AddedFor(c, fe.body, elems)
             y == AddedFor(c, fe.body, elems \cup {fe.elem})
             n == c.n
  <1>1. x \in Int /\ y \in Int /\ n \in Nat
    BY AddedType DEF IsConcern
  <1>2. AddedBy(c.var, fe, n, elems) = IF n = 0 THEN 0 ELSE y + (n - 1) * x
    BY DEF AddedBy, AddedFor
  <1>3. Rounds(c, fe, players, elems) = n * x + (IF c.player \in ToSet(players) THEN y - x ELSE 0)
    BY Zenon DEF Rounds
  <1>4. CASE n = 0
    <2>1. players = <<>>
      BY <1>4, EmptySeq
    <2>2. c.player \notin ToSet(players)
      BY <2>1 DEF ToSet
    <2>3. 0 * x + 0 = 0
      <3> HIDE DEF x
      <3> QED
        BY <1>1
    <2> HIDE DEF n, x, y
    <2> QED
      BY <1>2, <1>3, <1>4, <2>2, <2>3, Zenon DEF n
  <1>5. CASE n # 0
    <2>1. c.player \in ToSet(players)
      BY <1>5
    <2> HIDE DEF n, x, y
    <2>2. n - 1 \in Nat /\ n = (n - 1) + 1 /\ y - x \in Int
      BY <1>1, <1>5
    <2>3. n * x + (y - x) = x + ((n - 1) * x + (y - x)) /\ (n - 1) * x \in Int
      BY <1>1, <2>2, OneMore
    <2>4. n * x + (y - x) = y + (n - 1) * x
      BY <1>1, <2>3
    <2> QED
      BY <1>2, <1>3, <1>5, <2>1, <2>4, Zenon DEF n
  <1> QED
    BY <1>4, <1>5 DEF n

-----------------------------------------------------------------------------
(***************************************************************************)
(* Arithmetic of an int.                                                   *)
(***************************************************************************)

\* Equal but for overflow.
Congruent(x, y) == \E q \in Int : x = y + q * 2 ^ Width

\* The number of values of an int.
LEMMA Modulus == 2 ^ Width \in Nat \ {0} /\ 2 ^ (Width - 1) \in Nat \ {0} /\ 2 ^ Width = 2 * 2 ^ (Width - 1)
  <1> DEFINE h == 2 ^ (Width - 1)
             m == 2 ^ Width
  <1>1. h \in Nat \ {0} /\ m = 2 * h
    BY WidthAssumption
  <1> HIDE DEF h, m
  <1>2. m \in Nat \ {0}
    BY <1>1
  <1> QED
    BY <1>1, <1>2 DEF h, m

\* Wrapping changes a number by a multiple of that.
LEMMA WrapCongruent ==
    ASSUME NEW x \in Int
    PROVE  Congruent(Wrap(x), x)
  <1> DEFINE h == 2 ^ (Width - 1)
             m == 2 ^ Width
             d == (x + h) \div m
             r == (x + h) % m
  <1>1. h \in Nat \ {0} /\ m \in Nat \ {0} /\ Wrap(x) = r - h
    BY Modulus DEF Wrap
  <1> HIDE DEF h, m
  <1>2. x + h \in Int
    BY <1>1
  <1>3. x + h = m * d + r /\ d \in Int /\ r \in Int
    BY <1>1, <1>2
  <1> HIDE DEF d, r
  <1>4. -d \in Int /\ (-d) * m = -(m * d) /\ m * d \in Int
    BY <1>1, <1>3
  <1>5. r - h = x + (-d) * m
    BY <1>1, <1>3, <1>4
  <1> QED
    BY <1>1, <1>4, <1>5, Zenon DEF Congruent, m

\* Adding on both sides.
LEMMA CongruentPlus ==
    ASSUME NEW x \in Int, NEW y \in Int, NEW z \in Int, Congruent(x, y)
    PROVE  Congruent(x + z, y + z)
  <1> DEFINE m == 2 ^ Width
  <1>1. m \in Nat \ {0}
    BY Modulus
  <1>2. PICK q \in Int : x = y + q * m
    BY DEF Congruent
  <1> HIDE DEF m
  <1>3. q * m \in Int
    BY <1>1
  <1>4. x + z = (y + z) + q * m
    BY <1>2, <1>3
  <1> QED
    BY <1>4, Zenon DEF Congruent, m

\* Congruence is transitive.
LEMMA CongruentTransitive ==
    ASSUME NEW x \in Int, NEW y \in Int, NEW z \in Int, Congruent(x, y), Congruent(y, z)
    PROVE  Congruent(x, z)
  <1> DEFINE m == 2 ^ Width
  <1>1. m \in Nat \ {0}
    BY Modulus
  <1>2. PICK q \in Int : x = y + q * m
    BY DEF Congruent
  <1>3. PICK r \in Int : y = z + r * m
    BY DEF Congruent
  <1> HIDE DEF m
  <1>4. q + r \in Int /\ (q + r) * m = q * m + r * m /\ q * m \in Int /\ r * m \in Int
    BY <1>1
  <1>5. x = z + (q + r) * m
    BY <1>2, <1>3, <1>4
  <1> QED
    BY <1>4, <1>5, Zenon DEF Congruent, m

\* There is one int congruent to a number.
LEMMA CongruentUnique ==
    ASSUME NEW x \in VariableValue, NEW y \in Int, Congruent(x, y)
    PROVE  x = Wrap(y)
  <1> DEFINE h == 2 ^ (Width - 1)
             m == 2 ^ Width
             d == (y + h) \div m
             r == (y + h) % m
  <1>1. h \in Nat \ {0} /\ m \in Nat \ {0} /\ m = 2 * h /\ Wrap(y) = r - h /\ VariableValue = -h .. (h - 1)
    BY Modulus DEF Wrap, VariableValue
  <1>2. PICK q \in Int : x = y + q * m
    BY DEF Congruent
  <1> HIDE DEF h, m
  <1>3. y + h \in Int
    BY <1>1
  <1>4. y + h = m * d + r /\ d \in Int /\ r \in 0 .. m - 1
    BY <1>1, <1>3
  <1>5. x \in Int /\ x + h \in 0 .. m - 1
    BY <1>1
  <1> HIDE DEF d, r
  <1> DEFINE t == d + q
  <1>6. t \in Int /\ m * t = m * d + q * m /\ m * d \in Int /\ q * m \in Int /\ m * t \in Int
    BY <1>1, <1>4
  <1> HIDE DEF t
  <1>7. x + h = m * t + r
    BY <1>1, <1>2, <1>4, <1>6
  <1>8. ~(t >= 1)
    <2> SUFFICES ASSUME t >= 1 PROVE FALSE
      OBVIOUS
    <2>1. m * t >= m
      BY <1>1, <1>6
    <2> QED
      BY <2>1, <1>1, <1>4, <1>5, <1>6, <1>7
  <1>9. ~(t <= -1)
    <2> SUFFICES ASSUME t <= -1 PROVE FALSE
      OBVIOUS
    <2>1. m * t <= -m
      BY <1>1, <1>6
    <2> QED
      BY <2>1, <1>1, <1>4, <1>5, <1>6, <1>7
  <1>10. t = 0 /\ m * 0 = 0
    BY <1>1, <1>6, <1>8, <1>9
  <1>11. x = r - h
    BY <1>1, <1>4, <1>5, <1>7, <1>10
  <1> QED
    BY <1>1, <1>11

-----------------------------------------------------------------------------
(***************************************************************************)
(* The value of a variable, and what an addition does to it.               *)
(***************************************************************************)

\* The elements that stand for the player.
StandFor(scope, p) == {e \in DOMAIN scope : scope[e] = p}

ValueOf(c, gs) ==
    IF c.var.ofPlayer THEN gs.playerVariableMaps[c.player][c.var.name] ELSE gs.variableMap[c.var.name]
InitialOf(c) == IF c.var.ofPlayer THEN perPlayer[c.var.name] ELSE variables[c.var.name]

\* The two kinds of variables.
LEMMA VariableKinds ==
    ASSUME NEW x \in Variable
    PROVE  \/ x.ofPlayer = TRUE /\ x.name \in DOMAIN perPlayer /\ x.name \in PlainNames /\ x.player \in Players
           \/ x.ofPlayer = FALSE /\ x.name \in DOMAIN variables
  BY DEF Variable, PlainNames

\* The player concerned is connected.
Owner(c, P) == c.var.ofPlayer => c.player \in P /\ c.player = c.var.player

\* Variables have values.
LEMMA ValueType ==
    ASSUME NEW gs, NEW P, Shape(gs, P), NEW c, IsConcern(c), Owner(c, P)
    PROVE  ValueOf(c, gs) \in VariableValue /\ InitialOf(c) \in VariableValue
  <1>1. CASE c.var.ofPlayer = TRUE /\ c.var.name \in DOMAIN perPlayer
    <2>1. ValueOf(c, gs) = gs.playerVariableMaps[c.player][c.var.name] /\ InitialOf(c) = perPlayer[c.var.name]
      BY <1>1, Zenon DEF ValueOf, InitialOf
    <2>2. c.player \in P
      BY <1>1, Zenon DEF Owner
    <2>3. gs.playerVariableMaps[c.player] \in [DOMAIN perPlayer -> VariableValue]
      BY <2>2 DEF Shape
    <2>4. perPlayer \in [DOMAIN perPlayer -> VariableValue]
      BY RulesAssumption
    <2> QED
      BY <1>1, <2>1, <2>3, <2>4
  <1>2. CASE c.var.ofPlayer = FALSE /\ c.var.name \in DOMAIN variables
    <2>1. ValueOf(c, gs) = gs.variableMap[c.var.name] /\ InitialOf(c) = variables[c.var.name]
      BY <1>2, Zenon DEF ValueOf, InitialOf
    <2>2. gs.variableMap \in [DOMAIN variables -> VariableValue]
      BY DEF Shape
    <2>3. variables \in [DOMAIN variables -> VariableValue]
      BY RulesAssumption
    <2> QED
      BY <1>2, <2>1, <2>2, <2>3
  <1> QED
    BY <1>1, <1>2, VariableKinds, Zenon DEF IsConcern

\* The variable in a name is the same before and after the players are put in, if it
\* is one that is not named like these.
LEMMA SameVariable ==
    ASSUME NEW q, NEW name \in Seq(STRING), NEW scope, NEW P, P \subseteq Players,
           ParsedName(q, name, scope, P), Len(name) > 2, NEW x \in PlainNames
    PROVE  variableOf(q) = x <=> variableOf(name) = x
  <1> DEFINE v == variableOf(q)
             w == variableOf(name)
             n == Len(name)
             m == n - 2
  <1>1. n \in Nat /\ m \in Nat /\ Len(q) = n /\ q \in Seq(STRING \cup P) /\ DOMAIN name = 1 .. n
    BY DEF ParsedName
  <1>2. /\ w \in Seq(STRING \cup P) /\ Len(w) = m /\ DOMAIN w = 1 .. m
        /\ \A i \in 1 .. m : w[i] = name[i + 2]
    BY <1>1 DEF variableOf
  <1>3. /\ v \in Seq(STRING \cup P) /\ Len(v) = m /\ DOMAIN v = 1 .. m
        /\ \A i \in 1 .. m : v[i] = q[i + 2]
    BY <1>1 DEF variableOf
  <1>4. \A i \in DOMAIN x : x[i] \notin DOMAIN scopedElement \cup Players
    BY DEF PlainNames
  <1> HIDE DEF v, w, m
  <1>5. ASSUME \A i \in 1 .. m : i + 2 \notin References(name) PROVE v = w
    <2>1. ASSUME NEW i \in 1 .. m PROVE v[i] = w[i]
      <3>1. i + 2 \in 1 .. n
        BY <1>1 DEF m
      <3> QED
        BY <1>1, <1>2, <1>3, <1>5, <3>1 DEF ParsedName
    <2> QED
      BY <1>2, <1>3, <2>1, SeqEqual
  <1>6. ASSUME NEW i \in 1 .. m, i + 2 \in References(name) PROVE v # x /\ w # x
    <2>1. w[i] \in DOMAIN scopedElement /\ v[i] \in Players
      BY <1>2, <1>3, <1>6 DEF ParsedName, References
    <2> QED
      BY <1>2, <1>3, <1>4, <2>1
  <1>7. v = x <=> w = x
    BY <1>5, <1>6
  <1> QED
    BY <1>7 DEF v, w

\* The player in a name is the one concerned.
LEMMA SamePlayer ==
    ASSUME NEW q, NEW name \in Seq(STRING), NEW scope, NEW P, P \subseteq Players,
           ParsedName(q, name, scope, P), Extractable(q), NEW p \in P
    PROVE  playerOf(q) = p <=> IF 2 \in References(name)
                               THEN scopedElement[name[2]] \in StandFor(scope, p)
                               ELSE name[2] \in DOMAIN stoul /\ playerOf(name) = p
  <1>1. Len(q) > 2 /\ q[2] \in DOMAIN stoul /\ Len(q) = Len(name) /\ DOMAIN name = 1 .. Len(name)
    BY DEF Extractable, ParsedName
  <1>2. CASE 2 \in References(name)
    <2>1. /\ scopedElement[name[2]] \in DOMAIN scope /\ q[2] \in P
          /\ q[2] = scope[scopedElement[name[2]]]
      BY <1>2, Zenon DEF ParsedName
    <2>2. stoul[q[2]] = q[2]
      BY <2>1, RulesAssumption
    <2> QED
      BY <1>2, <2>1, <2>2 DEF playerOf, StandFor
  <1>3. CASE 2 \notin References(name)
    <2>1. 2 \in DOMAIN name
      BY <1>1
    <2>2. q[2] = name[2]
      BY <1>3, <2>1 DEF ParsedName
    <2> QED
      BY <1>1, <1>3, <2>2, Zenon DEF playerOf
  <1> QED
    BY <1>2, <1>3

\* An addition adds to the variable that the name means, for the player whom the
\* element stands for, and to no other.
LEMMA AddValue ==
    ASSUME NEW gs, NEW P, Shape(gs, P), P \subseteq Players, NEW c, IsConcern(c), Owner(c, P),
           NEW name \in Seq(STRING), getValue(gs, name).outcome = "ok", NEW elems,
           elems = StandFor(gs.activeScopeVariables, c.player), NEW n
    PROVE  /\ Means(name, c.var, elems) =>
                 /\ getValue(gs, name).value = ValueOf(c, gs)
                 /\ ValueOf(c, setValue(gs, name, n)) = n
           /\ ~Means(name, c.var, elems) => ValueOf(c, setValue(gs, name, n)) = ValueOf(c, gs)
  <1> DEFINE new == setValue(gs, name, n)
             x == c.var
  <1>0. \/ x.ofPlayer = TRUE /\ x.name \in DOMAIN perPlayer /\ x.name \in PlainNames
        \/ x.ofPlayer = FALSE /\ x.name \in DOMAIN variables
    BY VariableKinds DEF IsConcern
  <1>1. CASE ~OfPlayer(name)
    <2>1. name \in DOMAIN gs.variableMap /\ getValue(gs, name).value = gs.variableMap[name]
      BY <1>1 DEF getValue, getVariable, failure, ok
    <2>2. /\ new.variableMap = [gs.variableMap EXCEPT ![name] = n]
          /\ new.playerVariableMaps = gs.playerVariableMaps
      BY <1>1 DEF setValue, setVariable, Shape
    <2> HIDE DEF new
    <2>3. CASE x.ofPlayer = TRUE
      <3>1. ~Means(name, x, elems)
        BY <1>1, <2>3, Zenon DEF Means
      <3>2. ValueOf(c, new) = ValueOf(c, gs)
        BY <2>2, <2>3, Zenon DEF ValueOf
      <3> QED
        BY <3>1, <3>2 DEF new
    <2>4. CASE x.ofPlayer = FALSE /\ x.name \in DOMAIN variables
      <3>1. Means(name, x, elems) <=> name = x.name
        BY <1>1, <2>4, Zenon DEF Means
      <3>2. ValueOf(c, new) = new.variableMap[x.name] /\ ValueOf(c, gs) = gs.variableMap[x.name]
        BY <2>4, Zenon DEF ValueOf
      <3>3. DOMAIN gs.variableMap = DOMAIN variables
        BY DEF Shape
      <3>4. new.variableMap[x.name] = IF name = x.name THEN n ELSE gs.variableMap[x.name]
        BY <2>2, <2>4, <3>3
      <3> QED
        BY <2>1, <3>1, <3>2, <3>4 DEF new
    <2> QED
      BY <1>0, <2>3, <2>4
  <1>2. CASE OfPlayer(name)
    <2> DEFINE q == parseRuntimeVariables(gs, name)
               p == playerOf(q)
               v == variableOf(q)
               old == gs.playerVariableMaps
    <2>1. Extractable(q)
      BY <1>2 DEF getValue, threw
    <2>2. getValue(gs, name) = getPlayerVariable(gs, p, v)
      BY <1>2, <2>1 DEF getValue
    <2>3. p \in DOMAIN old /\ v \in DOMAIN old[p] /\ getValue(gs, name).value = old[p][v]
      BY <2>2 DEF getPlayerVariable, failure, ok
    <2>4. /\ new.variableMap = gs.variableMap
          /\ new.playerVariableMaps = [old EXCEPT ![p] = [old[p] EXCEPT ![v] = n]]
      BY <1>2 DEF setValue, setPlayerVariable, Shape
    <2>5. ParsedName(q, name, gs.activeScopeVariables, P) /\ Len(name) > 2
      <3>1. ParsedName(q, name, gs.activeScopeVariables, P)
        BY <2>1, TakenApart, ParsesName
      <3> QED
        BY <2>1, <3>1 DEF ParsedName, Extractable
    <2> HIDE DEF q
    <2> HIDE DEF new, p, v
    <2>6. CASE x.ofPlayer = FALSE
      <3>1. ~Means(name, x, elems)
        BY <1>2, <2>6, Zenon DEF Means
      <3>2. ValueOf(c, new) = ValueOf(c, gs)
        BY <2>4, <2>6, Zenon DEF ValueOf
      <3> QED
        BY <3>1, <3>2 DEF new
    <2>7. CASE x.ofPlayer = TRUE /\ x.name \in DOMAIN perPlayer /\ x.name \in PlainNames
      <3>0. c.player \in P /\ c.player = x.player
        BY <2>7, Zenon DEF Owner
      <3>1. Means(name, x, elems) <=> p = c.player /\ v = x.name
        <4>1. v = x.name <=> variableOf(name) = x.name
          BY <2>5, <2>7, SameVariable DEF v
        <4>2. p = c.player <=> IF 2 \in References(name)
                               THEN scopedElement[name[2]] \in elems
                               ELSE name[2] \in DOMAIN stoul /\ playerOf(name) = x.player
          BY <2>1, <2>5, <3>0, SamePlayer DEF p
        <4> QED
          BY <1>2, <2>7, <4>1, <4>2, Zenon DEF Means
      <3>2. ValueOf(c, new) = new.playerVariableMaps[c.player][x.name] /\ ValueOf(c, gs) = old[c.player][x.name]
        BY <2>7, Zenon DEF ValueOf
      <3>3. c.player \in P
        BY <2>7, Zenon DEF Owner
      <3>4. old \in [P -> [DOMAIN perPlayer -> VariableValue]]
        BY DEF Shape
      <3> HIDE DEF old
      <3>5. new.playerVariableMaps[c.player][x.name] = IF p = c.player /\ v = x.name THEN n ELSE old[c.player][x.name]
        BY <2>3, <2>4, <2>7, <3>3, <3>4
      <3> QED
        BY <2>3, <3>1, <3>2, <3>5 DEF new
    <2> QED
      BY <1>0, <2>6, <2>7
  <1> QED
    BY <1>1, <1>2

-----------------------------------------------------------------------------
(***************************************************************************)
(* What has been added and what has yet to be come to what the text says.  *)
(***************************************************************************)

\* The account of the activations is right for this concern.
Balanced(c, gs, st, g) ==
    /\ g \in Account
    /\ Accounted(c, st, g)
    /\ g.elems = StandFor(gs.activeScopeVariables, c.player)
    /\ Looping(c) => g.of # "toplevel"
    /\ Congruent(ValueOf(c, gs) + g.rem, c.total)

\* The variables of the game, for any player or for nobody if there is none, and
\* those of each player.
Concern(c) ==
    /\ IsConcern(c) /\ Owner(c, connected)
    /\ c.n = Len(playerIDs)
    /\ playerIDs # <<>> => c.player \in connected
    /\ c.total \in Int

\* The concern with a game that is executed once.
Once(c) == c.loop = toplevel /\ c.total = InitialOf(c) + AddedFor(c, game, {})

\* The inductive invariant.
BalancedInv ==
    /\ Len(playerIDs) \in 0 .. Cardinality(Players) /\ Distinct(playerIDs)
    /\ game \in Loopless /\ result \in {"running", "ok"} =>
          \A c : Concern(c) /\ Once(c) =>
              \E g : Balanced(c, gameState, stack, g) /\ (result = "ok" => g.rem = 0)

\* What an account says of the innermost activation, and of its next rule.
LEMMA BalancedTop ==
    ASSUME IInv, NEW c, Concern(c), NEW g, Balanced(c, gameState, stack, g)
    PROVE  /\ g.elems \in SUBSET Elem /\ g.rem \in Int
           /\ ValueOf(c, gameState) \in Int /\ c.total \in Int
           /\ \E h \in Account : /\ Accounted(c, Tail(stack), h) /\ Link(c, top, g, h)
                                 /\ h.elems \in SUBSET Elem /\ h.rem \in Int
                                 /\ Later(c, top, h.elems) \in Int
  <1>1. top \in Activation(connected) /\ Tail(stack) \in Seq(Activation(connected)) /\ stack = <<top>> \o Tail(stack)
    BY TopFrame
  <1>2. Accounted(c, <<top>> \o Tail(stack), g) /\ g \in Account
    BY <1>1 DEF Balanced
  <1>3. PICK h \in Account : Accounted(c, Tail(stack), h) /\ Link(c, top, g, h)
    BY <1>1, <1>2, AccountPop
  <1>4. g.elems \in SUBSET Elem /\ g.rem \in Int /\ h.elems \in SUBSET Elem /\ h.rem \in Int
    BY <1>2 DEF Account
  <1>5. ValueOf(c, gameState) \in Int /\ InitialOf(c) \in Int
    BY ValueType, ValuesAreIntegers DEF IInv, Concern
  <1>6. c.total \in Int
    BY DEF Concern
  <1>7. Later(c, top, h.elems) \in Int
    <2>1. CASE IsForEach(top)
      <3>1. top.players \in Seq(connected) /\ top.players # <<>>
        BY <2>1, TopFrame, HasCurrent
      <3>2. top.rule.body \in Loopless /\ top.rule.elem \in Elem /\ Distinct(top.players)
        BY <1>3, <2>1 DEF Link
      <3>3. Rounds(c, top.rule, Tail(top.players), h.elems) \in Int
        BY <1>4, <3>1, <3>2, Round DEF Concern
      <3> QED
        BY <2>1, <3>3 DEF Later
    <2>2. CASE ~IsForEach(top)
      BY <2>2 DEF Later
    <2> QED
      BY <2>1, <2>2
  <1> QED
    BY <1>3, <1>4, <1>5, <1>6, <1>7

\* The account when the innermost list goes on to the next rule.
LEMMA AccountAdvance ==
    ASSUME IInv, NEW c, Concern(c), NEW g, Balanced(c, gameState, stack, g),
           top.rest # <<>>, NEW n \in Int, n = AddedBy(c.var, rule, c.n, g.elems)
    PROVE  \E g2 \in Account : /\ Accounted(c, advanced, g2) /\ g2.of = g.of
                               /\ g2.elems = g.elems /\ g2.rem = g.rem - n
  <1> DEFINE x == [top EXCEPT !.rest = Tail(@)]
             s == Tail(stack)
             B == Activation(connected)
             g2 == [elems |-> g.elems, rem |-> g.rem - n, of |-> g.of]
  <1>1. PICK h \in Account :
           /\ Accounted(c, s, h) /\ Link(c, top, g, h) /\ h.elems \in SUBSET Elem /\ h.rem \in Int
           /\ Later(c, top, h.elems) \in Int
    BY BalancedTop
  <1>2. g.elems \in SUBSET Elem /\ g.rem \in Int
    BY BalancedTop
  <1>3. top \in B /\ s \in Seq(B) /\ top.rest \in Seq(Rule) /\ Tail(top.rest) \in Seq(Rule)
    BY TopFrame
  <1>4. x \in B /\ x.rule = top.rule /\ x.rest = Tail(top.rest) /\ x.players = top.players
    BY <1>3 DEF Activation
  <1>5. advanced = <<x>> \o s
    BY DEF advanced
  <1>6. g2 \in Account /\ g2.elems = g.elems /\ g2.rem = g.rem - n /\ g2.of = g.of
    BY <1>2 DEF Account, Balanced
  <1> HIDE DEF g2, s, B, x
  <1>7. top.rest \in Loopless /\ Tail(top.rest) \in Loopless
    BY <1>1, LooplessInside DEF Link
  <1>8. /\ AddedFor(c, top.rest, g.elems) = n + AddedFor(c, Tail(top.rest), g.elems)
        /\ AddedFor(c, Tail(top.rest), g.elems) \in Int
    BY <1>2, <1>7, AddedType DEF Concern, rule
  <1>9. Link(c, x, g2, h)
    <2>1. /\ IsForEach(x) = IsForEach(top) /\ Inner(c, x, h.elems) = Inner(c, top, h.elems)
          /\ Later(c, x, h.elems) = Later(c, top, h.elems)
      BY <1>4 DEF IsForEach, Inner, Later
    <2>2. g.rem = AddedFor(c, top.rest, g.elems) + Later(c, top, h.elems) + h.rem
      BY <1>1 DEF Link
    <2>3. g2.rem = AddedFor(c, x.rest, g2.elems) + Later(c, x, h.elems) + h.rem
      BY <1>1, <1>2, <1>4, <1>6, <1>8, <2>1, <2>2
    <2>4. Placed(c, x, h)
      BY <1>1, <1>4, <2>1 DEF Link, Placed
    <2> QED
      BY <1>1, <1>4, <1>6, <1>7, <2>1, <2>3, <2>4 DEF Link
  <1>10. Accounted(c, advanced, g2)
    BY <1>1, <1>3, <1>4, <1>5, <1>6, <1>9, AccountPush
  <1> QED
    BY <1>6, <1>10

\* A rule that has succeeded, and added to the variable what its text says.
LEMMA BalancedAdvance ==
    ASSUME IInv, NEW c, Concern(c), NEW g, Balanced(c, gameState, stack, g),
           top.rest # <<>>, NEW gs, Shape(gs, connected),
           gs.activeScopeVariables = gameState.activeScopeVariables,
           NEW n \in Int, n = AddedBy(c.var, rule, c.n, g.elems),
           Congruent(ValueOf(c, gs), ValueOf(c, gameState) + n)
    PROVE  \E g2 : Balanced(c, gs, advanced, g2)
  <1> DEFINE total == c.total
             new == ValueOf(c, gs)
             old == ValueOf(c, gameState)
  <1>1. PICK g2 \in Account : /\ Accounted(c, advanced, g2) /\ g2.of = g.of
                              /\ g2.elems = g.elems /\ g2.rem = g.rem - n
    BY AccountAdvance
  <1>2. g.elems \in SUBSET Elem /\ g.rem \in Int /\ old \in Int /\ total \in Int
    BY BalancedTop
  <1> HIDE DEF new, old
  <1>3. new \in VariableValue
    BY ValueType DEF new, Concern
  <1>4. new \in Int /\ old + n \in Int
    BY <1>2, <1>3, ValuesAreIntegers
  <1>5. Congruent(new, old + n)
    BY Zenon DEF new, old
  <1>6. Congruent(old + g.rem, total)
    BY Zenon DEF old, Balanced
  <1> DEFINE z == g2.rem
             r == g.rem
  <1>a. z = r - n /\ r \in Int
    BY <1>1, <1>2
  <1>7. z \in Int /\ (old + n) + z = old + g.rem /\ new + z \in Int /\ old + g.rem \in Int
    <2> HIDE DEF z, r, total
    <2>1. z \in Int /\ (old + n) + z = old + r /\ new + z \in Int /\ old + r \in Int
      BY <1>2, <1>4, <1>a
    <2> QED
      BY <2>1 DEF r
  <1> HIDE DEF z, total
  <1>8. Congruent(new + z, (old + n) + z)
    BY <1>4, <1>5, <1>7, CongruentPlus
  <1>9. Congruent(new + z, old + g.rem)
    BY <1>7, <1>8, Zenon
  <1>10. Congruent(new + z, total)
    BY <1>2, <1>6, <1>7, <1>9, CongruentTransitive
  <1>11. g2.elems = StandFor(gs.activeScopeVariables, c.player)
    BY <1>1, Zenon DEF Balanced
  <1> QED
    BY <1>1, <1>10, <1>11, Zenon DEF Balanced, new, z, total

\* Bringing an element into scope for a player, or taking it out, changes nothing
\* but whom elements stand for.
LEMMA ScopeChange ==
    ASSUME NEW gs, NEW P, Shape(gs, P), NEW elem, NEW p, NEW c
    PROVE  /\ ValueOf(c, setActiveScopeVariable(gs, elem, p)) = ValueOf(c, gs)
           /\ ValueOf(c, unsetActiveScopeVariable(gs, elem)) = ValueOf(c, gs)
  <1>1. /\ setActiveScopeVariable(gs, elem, p).variableMap = gs.variableMap
        /\ setActiveScopeVariable(gs, elem, p).playerVariableMaps = gs.playerVariableMaps
    BY DEF setActiveScopeVariable, Shape
  <1>2. /\ unsetActiveScopeVariable(gs, elem).variableMap = gs.variableMap
        /\ unsetActiveScopeVariable(gs, elem).playerVariableMaps = gs.playerVariableMaps
    BY DEF unsetActiveScopeVariable, Shape
  <1> QED
    BY <1>1, <1>2, Zenon DEF ValueOf

\* Whom the elements stand for afterwards.
LEMMA StandForWith ==
    ASSUME NEW scope, NEW elem, elem \notin DOMAIN scope, NEW p, NEW q
    PROVE  StandFor(With(scope, elem, p), q) = StandFor(scope, q) \cup (IF p = q THEN {elem} ELSE {})
  BY DEF StandFor, With

LEMMA StandForWithout ==
    ASSUME NEW scope, NEW elem, NEW q
    PROVE  StandFor(Without(scope, elem), q) = StandFor(scope, q) \ {elem}
  BY DEF StandFor, Without

\* The first round of a for-each for these players.
LEMMA BalancedStart ==
    ASSUME IInv, NEW c, Concern(c),
           NEW frames, Frames(frames, connected), NEW h \in Account, Accounted(c, frames, h),
           Looping(c) => h.of # "toplevel",
           NEW fe \in Rule, fe.type = "foreach", fe.body \in Loopless,
           NEW gs, Shape(gs, connected), ~InScope(gs, fe.elem),
           h.elems = StandFor(gs.activeScopeVariables, c.player),
           NEW players \in Seq(connected), players # <<>>, Distinct(players),
           Congruent(ValueOf(c, gs) + (Rounds(c, fe, players, h.elems) + h.rem), c.total)
    PROVE  \E g : Balanced(c, setActiveScopeVariable(gs, fe.elem, Head(players)),
                           <<activation(fe, fe.body, players)>> \o frames, g)
  <1> DEFINE x == activation(fe, fe.body, players)
             p == Head(players)
             B == Activation(connected)
             new == setActiveScopeVariable(gs, fe.elem, p)
             E == h.elems
             I == IF p = c.player THEN E \cup {fe.elem} ELSE E
             rounds == Rounds(c, fe, players, E)
             later == Rounds(c, fe, Tail(players), E)
             g == [elems |-> I, rem |-> rounds + h.rem, of |-> "foreach"]
  <1>1. p \in connected
    OBVIOUS
  <1>2. x \in B /\ frames \in Seq(B)
    BY RulesAssumption DEF activation, Activation, Frames
  <1>3. x.rule = fe /\ x.rest = fe.body /\ x.players = players /\ IsForEach(x)
    BY DEF activation, IsForEach
  <1>4. fe.elem \in Elem /\ E \in SUBSET Elem /\ h.rem \in Int
    BY Zenon DEF Elem, Account
  <1>5. rounds = AddedFor(c, fe.body, I) + later /\ later \in Int
    BY <1>4, Round DEF Concern
  <1>6. I \in SUBSET Elem
    BY <1>4
  <1>7. AddedFor(c, fe.body, I) \in Int
    BY <1>6, AddedType DEF Concern
  <1> HIDE DEF rounds, later, x, I
  <1>8. rounds + h.rem \in Int /\ rounds + h.rem = AddedFor(c, fe.body, I) + later + h.rem
    BY <1>4, <1>5, <1>7
  <1>9. g \in Account /\ g.elems = I /\ g.rem = rounds + h.rem /\ g.of = "foreach"
    BY <1>6, <1>8 DEF Account
  <1> HIDE DEF g, p
  <1>10. new.activeScopeVariables = With(gs.activeScopeVariables, fe.elem, p)
    BY <1>1, SetScopeKeepsShape
  <1>11. fe.elem \notin DOMAIN gs.activeScopeVariables
    BY DEF InScope
  <1>12. fe.elem \notin E
    BY <1>11 DEF StandFor
  <1>13. StandFor(new.activeScopeVariables, c.player) = I
    <2>1. StandFor(new.activeScopeVariables, c.player) =
              E \cup (IF p = c.player THEN {fe.elem} ELSE {})
      <3>1. StandFor(With(gs.activeScopeVariables, fe.elem, p), c.player) =
                StandFor(gs.activeScopeVariables, c.player) \cup (IF p = c.player THEN {fe.elem} ELSE {})
        BY <1>11, StandForWith
      <3> QED
        BY <1>10, <3>1, Zenon
    <2> QED
      BY <2>1 DEF I
  <1>14. Link(c, x, g, h)
    <2>1. Inner(c, x, E) = I /\ Later(c, x, E) = later
      BY <1>3, Zenon DEF Inner, Later, I, later, p
    <2>2. Placed(c, x, h) /\ g.of = x.rule.type
      BY <1>3, <1>9 DEF Placed
    <2> QED
      BY <1>3, <1>4, <1>8, <1>9, <1>12, <2>1, <2>2 DEF Link
  <1>15. Accounted(c, <<x>> \o frames, g)
    <2> HIDE DEF B
    <2> QED
      BY <1>2, <1>9, <1>14, AccountPush
  <1>16. ValueOf(c, new) = ValueOf(c, gs)
    BY ScopeChange
  <1>17. Congruent(ValueOf(c, new) + g.rem, c.total)
    BY <1>9, <1>16, Zenon DEF rounds
  <1>18. Balanced(c, new, <<x>> \o frames, g)
    <2>1. g.of # "toplevel"
      BY <1>9
    <2> QED
      BY <2>1, <1>9, <1>13, <1>15, <1>17, Zenon DEF Balanced
  <1> QED
    BY <1>18 DEF x, p

\* What there is to show of a step of a running game.
Rebalanced(c) == \E g : Balanced(c, gameState', stack', g) /\ (result' = "ok" => g.rem = 0)

\* A rule that has succeeded.
LEMMA SucceedBalanced ==
    ASSUME IInv, NEW c, Concern(c), NEW g, Balanced(c, gameState, stack, g),
           result = "running", top.rest # <<>>, NEW gs, Shape(gs, connected),
           gs.activeScopeVariables = gameState.activeScopeVariables,
           NEW n \in Int, n = AddedBy(c.var, rule, c.n, g.elems),
           Congruent(ValueOf(c, gs), ValueOf(c, gameState) + n),
           succeed(gs)
    PROVE  Rebalanced(c)
  <1>1. gameState' = gs /\ stack' = advanced /\ result' # "ok"
    BY DEF succeed
  <1>2. PICK g2 : Balanced(c, gs, advanced, g2)
    BY BalancedAdvance
  <1> QED
    BY <1>1, <1>2, Zenon DEF Rebalanced

\* A rule that adds nothing.
LEMMA NothingAdded ==
    ASSUME IInv, NEW c, Concern(c), NEW g, Balanced(c, gameState, stack, g),
           result = "running", top.rest # <<>>, AddedBy(c.var, rule, c.n, g.elems) = 0,
           succeed(gameState)
    PROVE  Rebalanced(c)
  <1> DEFINE v == ValueOf(c, gameState)
  <1>1. v \in Int
    BY BalancedTop
  <1>2. Shape(gameState, connected)
    BY DEF IInv
  <1> HIDE DEF v
  <1>3. Congruent(v, v + 0)
    <2>1. v = (v + 0) + 0 * 2 ^ Width /\ 0 \in Int
      <3> DEFINE m == 2 ^ Width
      <3>1. m \in Nat
        BY Modulus
      <3> HIDE DEF m
      <3>2. v = (v + 0) + 0 * m
        BY <1>1, <3>1
      <3> QED
        BY <3>2 DEF m
    <2> QED
      BY <2>1, Zenon DEF Congruent
  <1>4. 0 \in Int /\ 0 = AddedBy(c.var, rule, c.n, g.elems)
    OBVIOUS
  <1>5. Congruent(ValueOf(c, gameState), ValueOf(c, gameState) + 0)
    BY <1>3 DEF v
  <1> QED
    BY <1>2, <1>4, <1>5, SucceedBalanced

LEMMA AddRuleBalanced ==
    ASSUME IInv, NEW c, Concern(c), NEW g, Balanced(c, gameState, stack, g),
           AddRule, result' \in {"running", "ok"}
    PROVE  Rebalanced(c)
  <1> DEFINE got == getValue(gameState, rule.target)
             v == sum(got.value, rule.value)
             gs == setValue(gameState, rule.target, v)
             n == AddedBy(c.var, rule, c.n, g.elems)
             old == ValueOf(c, gameState)
  <1>1. /\ result = "running" /\ top.rest # <<>> /\ rule.type = "add"
        /\ IF got.outcome # "ok" THEN stop(got.outcome) ELSE succeed(gs)
    BY DEF AddRule, Executing, rule
  <1>2. Shape(gameState, connected)
    BY DEF IInv
  <1>3. /\ got.outcome \in {"ok", "failure", "threw"}
        /\ got.outcome = "ok" => got.value \in VariableValue
    BY <1>2, GotValue
  <1>4. got.outcome = "ok" /\ succeed(gs)
    BY <1>1, <1>3 DEF stop
  <1>5. rule.value \in Int /\ rule.target \in Seq(STRING)
    BY <1>1, Advanced, RulesAssumption
  <1>6. got.value \in Int
    BY <1>3, <1>4, ValuesAreIntegers
  <1>7. v = Wrap(got.value + rule.value) /\ v \in VariableValue /\ got.value + rule.value \in Int
    BY <1>5, <1>6, WrapType DEF sum
  <1> HIDE DEF v, n
  <1>8. Shape(gs, connected) /\ gs.activeScopeVariables = gameState.activeScopeVariables
    BY <1>2, <1>4, <1>7, SetValueKeepsShape
  <1>9. /\ IsConcern(c) /\ Owner(c, connected) /\ connected \subseteq Players
        /\ g.elems = StandFor(gameState.activeScopeVariables, c.player)
    BY DEF Concern, Balanced, IInv
  <1>10. n = IF Means(rule.target, c.var, g.elems) THEN rule.value ELSE 0
    BY <1>1 DEF n, AddedBy
  <1>11. n \in Int
    BY <1>5, <1>10
  <1>12. old \in Int
    BY BalancedTop
  <1>13. Congruent(ValueOf(c, gs), old + n)
    <2>1. CASE Means(rule.target, c.var, g.elems)
      <3>1. got.value = old /\ ValueOf(c, gs) = v
        BY <1>2, <1>4, <1>5, <1>9, <2>1, AddValue
      <3>2. Congruent(v, got.value + rule.value)
        BY <1>7, WrapCongruent
      <3> QED
        BY <1>10, <2>1, <3>1, <3>2, Zenon
    <2>2. CASE ~Means(rule.target, c.var, g.elems)
      <3>1. ValueOf(c, gs) = old
        BY <1>2, <1>4, <1>5, <1>9, <2>2, AddValue
      <3> HIDE DEF old
      <3>2. old = (old + 0) + 0 * 2 ^ Width
        <4> DEFINE m == 2 ^ Width
        <4>1. m \in Nat
          BY Modulus
        <4> HIDE DEF m
        <4>2. old = (old + 0) + 0 * m
          BY <1>12, <4>1
        <4> QED
          BY <4>2 DEF m
      <3>3. Congruent(old, old + 0)
        <4>1. 0 \in Int
          OBVIOUS
        <4> QED
          BY <3>2, <4>1, Zenon DEF Congruent
      <3> QED
        BY <1>10, <2>2, <3>1, <3>3, Zenon
    <2> QED
      BY <2>1, <2>2
  <1>14. n = AddedBy(c.var, rule, c.n, g.elems)
    BY DEF n
  <1> HIDE DEF gs
  <1> QED
    BY <1>1, <1>4, <1>8, <1>11, <1>13, <1>14, SucceedBalanced

LEMMA ForEachBalanced ==
    ASSUME IInv, Distinct(playerIDs),
           NEW c, Concern(c), NEW g, Balanced(c, gameState, stack, g),
           ForEachRule, result' \in {"running", "ok"}
    PROVE  Rebalanced(c)
  <1>1. /\ result = "running" /\ top.rest # <<>> /\ rule.type = "foreach"
        /\ \/ stop("failure")
           \/ playerIDs = <<>> /\ succeed(gameState)
           \/ playerIDs # <<>> /\ startElement(advanced, rule, gameState, playerIDs)
    BY DEF ForEachRule, Executing, rule
  <1>2. Shape(gameState, connected) /\ playerIDs \in Seq(connected)
    BY DEF IInv
  <1>3. PICK h \in Account : Link(c, top, g, h)
    BY BalancedTop
  <1>4. rule \in Rule /\ rule.body \in Loopless
    BY <1>1, <1>3, LooplessInside DEF Link, rule
  <1>5. rule.elem \in Elem
    BY <1>1, <1>4, Zenon DEF Elem
  <1>6. g.elems \in SUBSET Elem /\ g.rem \in Int /\ ValueOf(c, gameState) \in Int
    BY BalancedTop
  <1> DEFINE n == AddedBy(c.var, rule, c.n, g.elems)
  <1>7. n = Rounds(c, rule, playerIDs, g.elems)
    BY <1>1, <1>2, <1>4, <1>5, <1>6, AllRounds DEF Concern, connected
  <1>8. CASE playerIDs = <<>> /\ succeed(gameState)
    <2>1. n = 0
      <3>1. c.n = 0
        BY <1>8 DEF Concern
      <3> QED
        BY <1>1, <3>1 DEF AddedBy
    <2> QED
      BY <1>1, <1>8, <2>1, NothingAdded
  <1>9. CASE playerIDs # <<>> /\ startElement(advanced, rule, gameState, playerIDs)
    <2>1. /\ ~InScope(gameState, rule.elem) /\ result' = result
          /\ gameState' = setActiveScopeVariable(gameState, rule.elem, Head(playerIDs))
          /\ stack' = <<activation(rule, rule.body, playerIDs)>> \o advanced
      BY <1>9 DEF startElement, stop
    <2>2. n \in Int
      <3>1. Rounds(c, rule, Tail(playerIDs), g.elems) \in Int
            /\ n = AddedFor(c, rule.body, IF Head(playerIDs) = c.player THEN g.elems \cup {rule.elem} ELSE g.elems)
                   + Rounds(c, rule, Tail(playerIDs), g.elems)
        BY <1>2, <1>4, <1>5, <1>6, <1>7, <1>9, Round DEF Concern
      <3>2. AddedFor(c, rule.body, IF Head(playerIDs) = c.player THEN g.elems \cup {rule.elem} ELSE g.elems) \in Int
        <4>1. (IF Head(playerIDs) = c.player THEN g.elems \cup {rule.elem} ELSE g.elems) \in SUBSET Elem
          BY <1>5, <1>6
        <4> QED
          BY <1>4, <4>1, AddedType DEF Concern
      <3> QED
        BY <3>1, <3>2
    <2> HIDE DEF n
    <2>3. PICK g2 \in Account : /\ Accounted(c, advanced, g2) /\ g2.of = g.of
                                /\ g2.elems = g.elems /\ g2.rem = g.rem - n
      BY <1>1, <2>2, AccountAdvance DEF n
    <2>4. Frames(advanced, connected)
      BY <1>1, Advanced
    <2>5. g2.elems = StandFor(gameState.activeScopeVariables, c.player) /\ (Looping(c) => g2.of # "toplevel")
      BY <2>3 DEF Balanced
    <2>6. n + g2.rem = g.rem /\ n = Rounds(c, rule, playerIDs, g2.elems)
      BY <1>6, <1>7, <2>2, <2>3
    <2>7. Congruent(ValueOf(c, gameState) + (Rounds(c, rule, playerIDs, g2.elems) + g2.rem), c.total)
      BY <2>6, Zenon DEF Balanced
    <2>8. \E g3 : Balanced(c, setActiveScopeVariable(gameState, rule.elem, Head(playerIDs)),
                           <<activation(rule, rule.body, playerIDs)>> \o advanced, g3)
      BY <1>1, <1>2, <1>4, <1>9, <2>1, <2>3, <2>4, <2>5, <2>7, BalancedStart
    <2>9. PICK g3 : Balanced(c, gameState', stack', g3)
      BY <2>1, <2>8, Zenon
    <2>10. result' # "ok"
      BY <1>1, <2>1
    <2> QED
      BY <2>9, <2>10, Zenon DEF Rebalanced
  <1> QED
    BY <1>1, <1>8, <1>9 DEF stop

LEMMA nextElementBalanced ==
    ASSUME IInv,
           NEW c, Concern(c), NEW g, Balanced(c, gameState, stack, g), nextElement
    PROVE  Rebalanced(c)
  <1> DEFINE fe == top.rule
             gs == unsetActiveScopeVariable(gameState, fe.elem)
             s == Tail(stack)
  <1>1. Finished("foreach") /\ result = "running" /\ top.rest = <<>>
    BY DEF nextElement, Finished
  <1>2. /\ fe \in Rule /\ fe.type = "foreach" /\ InScope(gameState, fe.elem)
        /\ Frames(s, connected) /\ Shape(gs, connected)
        /\ ScopeOK(gs.activeScopeVariables, s) /\ ~InScope(gs, fe.elem)
    BY <1>1, ElementReleased DEF InScope
  <1>3. IF Len(top.players) = 1
        THEN gameState' = gs /\ stack' = s /\ UNCHANGED result
        ELSE startElement(s, fe, gs, Tail(top.players))
    BY <1>2 DEF nextElement
  <1>4. IsForEach(top)
    BY <1>2 DEF IsForEach
  <1>5. top.players \in Seq(connected) /\ top.players # <<>>
    BY <1>4, TopFrame, HasCurrent
  <1>6. PICK h \in Account :
           /\ Accounted(c, s, h) /\ Link(c, top, g, h)
           /\ h.elems \in SUBSET Elem /\ h.rem \in Int /\ Later(c, top, h.elems) \in Int
    BY BalancedTop
  <1>7. g.elems \in SUBSET Elem /\ g.rem \in Int
    BY BalancedTop
  <1>8. /\ fe.body \in Loopless /\ fe.elem \in Elem \ h.elems /\ Distinct(top.players)
        /\ g.elems = Inner(c, top, h.elems)
        /\ g.rem = AddedFor(c, <<>>, g.elems) + Later(c, top, h.elems) + h.rem
    BY <1>1, <1>4, <1>6 DEF Link
  <1>9. AddedFor(c, <<>>, g.elems) = 0
    <2>1. <<>> \in Loopless
      BY <1>1, <1>6 DEF Link
    <2> QED
      BY <1>7, <2>1, AddedType DEF Concern
  <1> DEFINE later == Rounds(c, fe, Tail(top.players), h.elems)
  <1>10. g.rem = later + h.rem /\ later \in Int
    <2>1. Later(c, top, h.elems) = later
      BY <1>4 DEF Later
    <2> HIDE DEF later
    <2> QED
      BY <1>6, <1>8, <1>9, <2>1
  <1>11. h.elems = StandFor(gs.activeScopeVariables, c.player)
    <2>1. gs.activeScopeVariables = Without(gameState.activeScopeVariables, fe.elem)
      BY UnsetScopeKeepsShape DEF IInv
    <2>2. StandFor(gs.activeScopeVariables, c.player) = g.elems \ {fe.elem}
      <3>1. StandFor(Without(gameState.activeScopeVariables, fe.elem), c.player) =
                StandFor(gameState.activeScopeVariables, c.player) \ {fe.elem}
        BY StandForWithout, Zenon
      <3> QED
        BY <2>1, <3>1, Zenon DEF Balanced
    <2>3. g.elems \ {fe.elem} = h.elems
      BY <1>8 DEF Inner
    <2> QED
      BY <2>2, <2>3
  <1>12. ValueOf(c, gs) = ValueOf(c, gameState)
    BY ScopeChange DEF IInv
  <1>13. Congruent(ValueOf(c, gs) + (later + h.rem), c.total) /\ (Looping(c) => h.of # "toplevel")
    <2>1. Looping(c) => h.of # "toplevel"
      BY <1>4, <1>6 DEF Link, Placed
    <2> QED
      BY <1>10, <1>12, <2>1, Zenon DEF Balanced
  <1> HIDE DEF gs, s
  <1>14. CASE Len(top.players) = 1
    <2>1. later = 0
      <3>0. Tail(top.players) \in Seq(connected) /\ Len(Tail(top.players)) = 0
        BY <1>5, <1>14
      <3>1. Tail(top.players) = <<>>
        BY <3>0, EmptySeq, Zenon
      <3>2. Len(<<>>) = 0 /\ ToSet(<<>>) = {}
        BY DEF ToSet
      <3> DEFINE x == AddedFor(c, fe.body, h.elems)
      <3>3. x \in Int
        BY <1>6, <1>8, AddedType DEF Concern
      <3>4. later = 0 * x + 0
        BY <3>1, <3>2, Zenon DEF Rounds
      <3> HIDE DEF x, later
      <3> QED
        BY <3>3, <3>4
    <2>2. later + h.rem = h.rem
      BY <1>6, <2>1
    <2>3. Balanced(c, gs, s, h)
      BY <1>6, <1>11, <1>13, <2>2, Zenon DEF Balanced
    <2>4. gameState' = gs /\ stack' = s /\ result' # "ok"
      BY <1>1, <1>3, <1>14
    <2> QED
      BY <2>3, <2>4, Zenon DEF Rebalanced
  <1>15. CASE Len(top.players) # 1
    <2> DEFINE rest == Tail(top.players)
    <2>1. rest \in Seq(connected) /\ Len(rest) # 0 /\ DOMAIN rest = 1 .. Len(top.players) - 1
          /\ Len(top.players) \in Nat /\ DOMAIN top.players = 1 .. Len(top.players)
          /\ \A i \in 1 .. Len(top.players) - 1 : rest[i] = top.players[i + 1]
      BY <1>5, <1>15
    <2>2. rest # <<>>
      BY <2>1, EmptySeq, Zenon
    <2>3. Distinct(rest)
      <3> HIDE DEF rest
      <3> SUFFICES ASSUME NEW i \in DOMAIN rest, NEW j \in DOMAIN rest, rest[i] = rest[j] PROVE i = j
        BY DEF Distinct
      <3> DEFINE ps == top.players
                 m == Len(ps)
      <3>0. m \in Nat /\ DOMAIN ps = 1 .. m /\ DOMAIN rest = 1 .. m - 1 /\ \A k \in 1 .. m - 1 : rest[k] = ps[k + 1]
        BY <2>1, Zenon
      <3> HIDE DEF ps, m
      <3>1. i + 1 \in DOMAIN ps /\ j + 1 \in DOMAIN ps /\ ps[i + 1] = ps[j + 1]
        BY <3>0
      <3> USE DEF ps
      <3>2. i + 1 = j + 1
        BY <1>8, <3>1, Zenon DEF Distinct
      <3> QED
        BY <2>1, <3>2
    <2>4. /\ gameState' = setActiveScopeVariable(gs, fe.elem, Head(rest))
          /\ stack' = <<activation(fe, fe.body, rest)>> \o s /\ result' = result
      BY <1>2, <1>3, <1>15 DEF startElement
    <2>5. \E g3 : Balanced(c, setActiveScopeVariable(gs, fe.elem, Head(rest)),
                           <<activation(fe, fe.body, rest)>> \o s, g3)
      <3> HIDE DEF rest
      <3>1. Congruent(ValueOf(c, gs) + (Rounds(c, fe, rest, h.elems) + h.rem), c.total)
        BY <1>13 DEF rest
      <3> QED
        BY <1>2, <1>6, <1>8, <1>11, <1>13, <2>1, <2>2, <2>3, <3>1, BalancedStart
    <2>6. PICK g3 : Balanced(c, gameState', stack', g3)
      BY <2>4, <2>5, Zenon
    <2>7. result' # "ok"
      BY <1>1, <2>4
    <2> QED
      BY <2>6, <2>7, Zenon DEF Rebalanced
  <1> QED
    BY <1>14, <1>15

\* The game has been executed to its end.
LEMMA FinishedBalanced ==
    ASSUME IInv,
           NEW c, Concern(c), NEW g, Balanced(c, gameState, stack, g), gameFinished
    PROVE  Rebalanced(c)
  <1>1. top.rest = <<>> /\ top.rule.type = "toplevel" /\ gameState' = gameState /\ stack' = stack
    BY DEF gameFinished, Finished
  <1>2. ~IsForEach(top)
    BY <1>1 DEF IsForEach
  <1>3. PICK h \in Account : Link(c, top, g, h)
    BY BalancedTop
  <1>4. g.elems \in SUBSET Elem
    BY BalancedTop
  <1>5. /\ g.rem = AddedFor(c, <<>>, g.elems) + 0 + 0 /\ <<>> \in Loopless
    BY <1>1, <1>2, <1>3 DEF Link, Placed, Later, NoAccount
  <1>6. AddedFor(c, <<>>, g.elems) = 0
    BY <1>4, <1>5, AddedType DEF Concern
  <1>7. g.rem = 0
    BY <1>5, <1>6
  <1> QED
    BY <1>1, <1>7, Zenon DEF Rebalanced

\* Congruence is reflexive.
LEMMA CongruentSelf ==
    ASSUME NEW x \in Int
    PROVE  Congruent(x, x)
  <1> DEFINE m == 2 ^ Width
  <1>1. m \in Nat
    BY Modulus
  <1> HIDE DEF m
  <1>2. x = x + 0 * m /\ 0 \in Int
    BY <1>1
  <1> QED
    BY <1>2, Zenon DEF Congruent, m

\* A step that goes on or succeeds keeps the balance, unless an iteration ends.
LEMMA StepBalanced ==
    ASSUME IInv, Distinct(playerIDs), result = "running", Next, ~nextIteration,
           result' \in {"running", "ok"},
           NEW c, Concern(c), NEW g, Balanced(c, gameState, stack, g)
    PROVE  Rebalanced(c)
  <1>1. PICK h \in Account : Link(c, top, g, h)
    BY BalancedTop
  <1>2. top.rest \in Loopless
    BY <1>1 DEF Link
  <1>3. top.rest # <<>> => rule.type # "loop"
    BY <1>2, LooplessInside DEF rule
  <1>4. CASE AddRule
    BY <1>4, AddRuleBalanced
  <1>5. CASE GlobalMessageRule
    <2>1. top.rest # <<>> /\ rule.type = "message" /\ succeed(gameState)
      BY <1>5 DEF GlobalMessageRule, Executing, rule
    <2>2. AddedBy(c.var, rule, c.n, g.elems) = 0
      BY <2>1 DEF AddedBy
    <2> QED
      BY <2>1, <2>2, NothingAdded
  <1>6. ~InputTextRule
    <2> DEFINE got == getValue(gameState, rule.target)
               outcome == setValueOutcome(gameState, rule.result)
    <2> SUFFICES ASSUME InputTextRule PROVE FALSE
      OBVIOUS
    <2>1. \/ got.outcome # "ok" /\ result' = got.outcome
          \/ outcome # "ok" /\ result' = outcome
          \/ result' = "failure"
      BY DEF InputTextRule, stop
    <2>2. got.outcome \in {"ok", "failure", "threw"} /\ outcome \in {"ok", "failure", "threw"}
      BY GotValue DEF setValueOutcome, IInv
    <2> QED
      BY <2>1, <2>2
  <1>7. CASE ForEachRule
    BY <1>7, ForEachBalanced
  <1>8. CASE nextElement
    BY <1>8, nextElementBalanced
  <1>9. ~LoopRule
    BY <1>3 DEF LoopRule, Executing, rule
  <1>10. CASE gameFinished
    BY <1>10, FinishedBalanced
  <1> QED
    BY <1>4, <1>5, <1>6, <1>7, <1>8, <1>9, <1>10 DEF Next, Done

LEMMA StepBalancedInv == IInv /\ BalancedInv /\ [Next]_vars => BalancedInv'
  <1> SUFFICES ASSUME IInv, BalancedInv, [Next]_vars PROVE BalancedInv'
    OBVIOUS
  <1>1. game' = game /\ playerIDs' = playerIDs
    BY Zenon DEF Next, AddRule, GlobalMessageRule, InputTextRule, ForEachRule, nextElement,
           LoopRule, nextIteration, gameFinished, Done, vars
  <1>2. Len(playerIDs) \in 0 .. Cardinality(Players) /\ Distinct(playerIDs)
    BY DEF BalancedInv
  <1>3. ASSUME game \in Loopless, result' \in {"running", "ok"}, NEW c, Concern(c), Once(c)
        PROVE  Rebalanced(c)
    <2>1. CASE UNCHANGED vars
      <3>1. gameState' = gameState /\ stack' = stack /\ result' = result
        BY <2>1 DEF vars
      <3>2. PICK g : Balanced(c, gameState, stack, g) /\ (result = "ok" => g.rem = 0)
        BY <1>3, <3>1 DEF BalancedInv
      <3> QED
        BY <3>1, <3>2, Zenon DEF Rebalanced
    <2>2. CASE ~(UNCHANGED vars)
      <3>1. Next /\ result = "running"
        BY <2>2 DEF Next, AddRule, GlobalMessageRule, InputTextRule, ForEachRule, nextElement,
           LoopRule, nextIteration, gameFinished, Done, Executing, Finished
      <3>2. PICK g : Balanced(c, gameState, stack, g)
        BY <1>3, <3>1 DEF BalancedInv
      <3>3. ~nextIteration
        <4>1. PICK h : Link(c, top, g, h)
          BY <1>3, <3>2, BalancedTop
        <4> QED
          BY <1>3, <4>1 DEF nextIteration, Finished, Link, Placed, Once, toplevel
      <3> QED
        BY <1>2, <1>3, <3>1, <3>2, <3>3, StepBalanced
    <2> QED
      BY <2>1, <2>2
  <1>4. ASSUME game \in Loopless, result' \in {"running", "ok"}, NEW c, (Concern(c) /\ Once(c))'
        PROVE  \E g : Balanced(c, gameState, stack, g)' /\ (result' = "ok" => g.rem = 0)
    <2>1. Concern(c) /\ Once(c)
      BY <1>1, <1>4, Zenon DEF Concern, Once, connected
    <2>2. PICK g : Balanced(c, gameState', stack', g) /\ (result' = "ok" => g.rem = 0)
      BY <1>3, <1>4, <2>1 DEF Rebalanced
    <2>3. Balanced(c, gameState, stack, g)'
      BY <1>1, <2>2, Zenon DEF Balanced
    <2> QED
      BY <2>2, <2>3
  <1> QED
    BY <1>1, <1>2, <1>4, Zenon DEF BalancedInv

\* The account of a game that has yet to begin.
LEMMA InitBalanced == Init => BalancedInv
  <1> SUFFICES ASSUME Init PROVE BalancedInv
    OBVIOUS
  <1>1. Len(playerIDs) \in 0 .. Cardinality(Players)
    <2>1. PICK n \in 0 .. Cardinality(Players) : playerIDs \in [1 .. n -> Players]
      BY DEF Init
    <2>2. n \in Nat
      BY RulesAssumption, FS_CardinalityType
    <2>3. Len(playerIDs) = n
      BY <2>1, <2>2
    <2> QED
      BY <2>1, <2>3
  <1>2. Distinct(playerIDs) /\ result = "running"
    BY Zenon DEF Init, Distinct
  <1>3. ASSUME game \in Loopless, NEW c, Concern(c), Once(c)
        PROVE  \E g : Balanced(c, gameState, stack, g) /\ (result = "ok" => g.rem = 0)
    <2> DEFINE a == activation(toplevel, game, <<>>)
               B == Activation(connected)
               n == AddedFor(c, game, {})
               g == [elems |-> {}, rem |-> n, of |-> "toplevel"]
               v == InitialOf(c)
    <2>1. a \in B /\ a.rule.type = "toplevel" /\ a.rest = game
      BY RulesAssumption DEF Init, activation, Activation, toplevel
    <2>2. stack = <<a>> \o <<>>
      <3>1. <<a>> \in Seq(B) /\ stack = <<a>>
        BY <2>1 DEF Init
      <3> HIDE DEF a, B
      <3> QED
        BY <3>1, ConcatEmptySeq
    <2>3. gameState = [variableMap |-> variables,
                       playerVariableMaps |-> [p \in connected |-> perPlayer],
                       activeScopeVariables |-> <<>>]
      BY DEF Init, construct, connected
    <2>4. n \in Int
      BY <1>3, AddedType DEF Concern
    <2> HIDE DEF n
    <2>5. g \in Account /\ g.elems = {} /\ g.rem = n /\ g.of = "toplevel"
      BY <2>4 DEF Account
    <2> HIDE DEF a, B, g
    <2>6. ~IsForEach(a)
      BY <2>1 DEF IsForEach
    <2>7. Link(c, a, g, NoAccount)
      <3>1. Inner(c, a, {}) = {} /\ Later(c, a, {}) = 0
        BY <2>6 DEF Inner, Later
      <3>2. AddedFor(c, a.rest, g.elems) = n
        BY <2>1, <2>5 DEF n
      <3>3. n = n + 0 + 0
        BY <2>4
      <3>4. NoAccount.elems = {} /\ NoAccount.rem = 0
        BY DEF NoAccount
      <3>5. Placed(c, a, NoAccount)
        BY <1>3, <2>1, <2>6 DEF Placed, Once, Looping, toplevel
      <3> QED
        BY <1>3, <2>1, <2>5, <2>6, <3>1, <3>2, <3>3, <3>4, <3>5 DEF Link
    <2>8. Accounted(c, <<>>, NoAccount)
      BY NothingAccounted
    <2>9. Accounted(c, stack, g)
      <3>1. <<>> \in Seq(B)
        OBVIOUS
      <3> QED
        BY <2>1, <2>2, <2>5, <2>7, <2>8, <3>1, AccountPush
    <2>10. g.elems = StandFor(gameState.activeScopeVariables, c.player)
      BY <2>3, <2>5 DEF StandFor
    <2>11. ValueOf(c, gameState) = v /\ v \in Int
      <3>1. Shape(gameState, connected)
        BY <2>3, RulesAssumption DEF Shape
      <3>2. v \in Int
        BY <1>3, <3>1, ValueType, ValuesAreIntegers DEF Concern
      <3>3. c.var.ofPlayer => gameState.playerVariableMaps[c.player] = perPlayer
        BY <1>3, <2>3 DEF Concern, Owner
      <3>4. gameState.variableMap = variables
        BY <2>3
      <3> QED
        BY <3>2, <3>3, <3>4, Zenon DEF ValueOf, InitialOf
    <2> HIDE DEF v
    <2>12. Congruent(v + n, v + n)
      <3>1. v + n \in Int
        BY <2>4, <2>11
      <3> QED
        BY <3>1, CongruentSelf
    <2>13. Balanced(c, gameState, stack, g)
      <3>1. ~Looping(c)
        BY <1>3 DEF Once, Looping, toplevel
      <3> QED
        BY <1>3, <2>5, <2>9, <2>10, <2>11, <2>12, <3>1, Zenon DEF Balanced, Once, v, n
    <2> QED
      BY <1>2, <2>13
  <1> QED
    BY <1>1, <1>2, <1>3, Zenon DEF BalancedInv

\* A variable of a game that has succeeded has what its text says.
LEMMA BalancedResult ==
    ASSUME IInv, BalancedInv, result = "ok", game \in Loopless, NEW c, Concern(c), Once(c)
    PROVE  ValueOf(c, gameState) = Wrap(InitialOf(c) + 1 * AddedFor(c, game, {}))
  <1> DEFINE x == ValueOf(c, gameState)
             i == InitialOf(c)
             n == AddedFor(c, game, {})
  <1>1. PICK g : Balanced(c, gameState, stack, g) /\ g.rem = 0
    BY DEF BalancedInv
  <1>2. Congruent(x + g.rem, i + n)
    BY <1>1, Zenon DEF Balanced, Once
  <1>3. x \in VariableValue /\ i \in VariableValue
    BY ValueType DEF IInv, Concern
  <1>4. n \in Int
    BY AddedType DEF Concern
  <1> HIDE DEF x, i, n
  <1>5. x \in Int /\ i \in Int
    BY <1>3, ValuesAreIntegers
  <1>6. x + 0 = x /\ i + n \in Int /\ 1 * n = n
    BY <1>4, <1>5
  <1>7. Congruent(x, i + n)
    BY <1>1, <1>2, <1>6, Zenon
  <1>8. x = Wrap(i + n)
    BY <1>3, <1>6, <1>7, CongruentUnique
  <1> QED
    BY <1>6, <1>8, Zenon DEF x, i, n

\* A player, if there is one.
LEMMA SomePlayer ==
    ASSUME IInv
    PROVE  \E p : playerIDs # <<>> => p \in connected
  <1>1. CASE playerIDs # <<>>
    <2>1. Head(playerIDs) \in connected
      BY <1>1 DEF IInv
    <2> QED
      BY <2>1, Zenon
  <1> QED
    BY <1>1, Zenon

\* Every concern's variable has changed by so much.
EachChanged(loop, rules, times) ==
    \A c : /\ Concern(c) /\ c.loop = loop
           /\ c.total = InitialOf(c) + times * AddedFor(c, rules, {})
           => ValueOf(c, gameState) = Wrap(InitialOf(c) + times * AddedFor(c, rules, {}))

\* Then every variable has.
LEMMA AccumulatedFor ==
    ASSUME IInv, Len(playerIDs) \in 0 .. Cardinality(Players), NEW rules \in Loopless, NEW times \in Nat,
           NEW loop, EachChanged(loop, rules, times)
    PROVE  Accumulated(rules, times)
  <1> SUFFICES ASSUME NEW x \in Variable
               PROVE  LET added == times * Added(x, rules, Len(playerIDs), {}) IN
                      IF x.ofPlayer
                      THEN x.player \in ToSet(playerIDs) =>
                              gameState.playerVariableMaps[x.player][x.name] = Wrap(perPlayer[x.name] + added)
                      ELSE gameState.variableMap[x.name] = Wrap(variables[x.name] + added)
    BY Zenon DEF Accumulated
  <1> DEFINE n == Len(playerIDs)
             added == times * Added(x, rules, n, {})
             initial == IF x.ofPlayer THEN perPlayer[x.name] ELSE variables[x.name]
             C(p) == [var |-> x, n |-> n, player |-> p, loop |-> loop, total |-> initial + added]
  <1>1. n \in Nat
    BY DEF IInv
  <1>2. ASSUME NEW p, x.ofPlayer => p \in connected /\ p = x.player, playerIDs # <<>> => p \in connected
        PROVE  ValueOf(C(p), gameState) = Wrap(InitialOf(C(p)) + added)
    <2> DEFINE c == C(p)
    <2>1. c.var = x /\ c.n = n /\ c.player = p /\ c.loop = loop /\ c.total = initial + added
      OBVIOUS
    <2> HIDE DEF C
    <2>2. IsConcern(c) /\ Owner(c, connected)
      BY <1>1, <1>2, <2>1, Zenon DEF IsConcern, Owner
    <2>3. InitialOf(c) = initial /\ AddedFor(c, rules, {}) = Added(x, rules, n, {})
      BY <2>1, Zenon DEF InitialOf, AddedFor
    <2>4. InitialOf(c) \in Int /\ AddedFor(c, rules, {}) \in Int
      BY <2>2, ValueType, ValuesAreIntegers, AddedType DEF IInv
    <2>5. c.total \in Int
      <3> DEFINE i == initial
                 a == Added(x, rules, n, {})
      <3>1. i \in Int /\ a \in Int /\ c.total = i + times * a
        BY <2>1, <2>3, <2>4
      <3> HIDE DEF i, a, c
      <3> QED
        BY <3>1
    <2>6. Concern(c)
      BY <1>2, <2>1, <2>2, <2>5, Zenon DEF Concern
    <2> HIDE DEF c
    <2>7. ValueOf(c, gameState) = Wrap(InitialOf(c) + times * AddedFor(c, rules, {}))
      BY <2>1, <2>3, <2>6, Zenon DEF EachChanged
    <2> QED
      BY <2>3, <2>7, Zenon DEF c
  <1>3. CASE x.ofPlayer = TRUE
    <2>1. ASSUME x.player \in ToSet(playerIDs)
          PROVE  gameState.playerVariableMaps[x.player][x.name] = Wrap(perPlayer[x.name] + added)
      <3> DEFINE p == x.player
      <3>1. ValueOf(C(p), gameState) = Wrap(InitialOf(C(p)) + added)
        BY <1>2, <2>1, Zenon DEF connected
      <3>2. C(p).var = x /\ C(p).player = p
        OBVIOUS
      <3> HIDE DEF C
      <3> QED
        BY <1>3, <3>1, <3>2, Zenon DEF ValueOf, InitialOf
    <2> QED
      BY <1>3, <2>1, Zenon
  <1>4. CASE x.ofPlayer = FALSE
    <2>1. PICK p : playerIDs # <<>> => p \in connected
      BY SomePlayer
    <2>2. ValueOf(C(p), gameState) = Wrap(InitialOf(C(p)) + added)
      BY <1>2, <1>4, <2>1, Zenon
    <2>3. C(p).var = x
      OBVIOUS
    <2> HIDE DEF C
    <2>4. gameState.variableMap[x.name] = Wrap(variables[x.name] + added)
      BY <1>4, <2>2, <2>3, Zenon DEF ValueOf, InitialOf
    <2> QED
      BY <1>4, <2>4, Zenon
  <1> QED
    BY <1>3, <1>4, VariableKinds

\* A game without loops that succeeds has added to every variable what its text
\* says, whatever the nesting of its rules, for any number of players and in
\* whatever order the unordered_map yields them, overflow included
\* (GameState::getPlayerIDs, ForEachRule::executeRuleImpl, AddRule).
THEOREM PlayerOrderIsIgnored == Spec => []ResultIgnoresPlayerOrder
  <1>1. IInv /\ BalancedInv => ResultIgnoresPlayerOrder
    <2> SUFFICES ASSUME IInv, BalancedInv, result = "ok", game \in Loopless
                 PROVE  Accumulated(game, 1)
      BY DEF ResultIgnoresPlayerOrder
    <2>1. ASSUME NEW c, Concern(c), c.loop = toplevel, c.total = InitialOf(c) + 1 * AddedFor(c, game, {})
          PROVE  ValueOf(c, gameState) = Wrap(InitialOf(c) + 1 * AddedFor(c, game, {}))
      <3>1. AddedFor(c, game, {}) \in Int
        BY <2>1, AddedType DEF Concern
      <3>2. Once(c)
        BY <2>1, <3>1 DEF Once
      <3> QED
        BY <2>1, <3>2, BalancedResult
    <2>2. Len(playerIDs) \in 0 .. Cardinality(Players) /\ 1 \in Nat
      BY DEF BalancedInv
    <2>3. EachChanged(toplevel, game, 1)
      BY <2>1, Zenon DEF EachChanged
    <2> QED
      BY <2>2, <2>3, AccumulatedFor
  <1> QED
    BY <1>1, InitBalanced, StepBalancedInv, Invariance, PTL DEF Spec

-----------------------------------------------------------------------------
(***************************************************************************)
(* Games that are one loop.                                                *)
(***************************************************************************)

\* What such a game is.
LEMMA LoopGame ==
    ASSUME game \in SingleLoops
    PROVE  /\ game = <<game[1]>> /\ Head(game) = game[1] /\ Tail(game) = <<>> /\ game # <<>>
           /\ game[1] \in Rule /\ game[1].type = "loop" /\ game[1].body \in Loopless
  <1>1. PICK r \in Rule : r.type = "loop" /\ r.body \in Loopless /\ game = <<r>>
    BY Zenon DEF SingleLoops
  <1>2. Head(<<r>>) = r /\ <<r>>[1] = r /\ Tail(<<r>>) = <<>> /\ <<r>> # <<>>
    OBVIOUS
  <1> QED
    BY <1>1, <1>2, Zenon

\* The concern with so many iterations.
Iterated(c, k) == c.loop = game[1] /\ c.total = InitialOf(c) + k * AddedFor(c, game[1].body, {})

\* debug_target after so many iterations, and that it was not 10 after fewer.
TargetAfter(k) ==
    Wrap(variables[debugTarget.name] + k * Added(debugTarget, game[1].body, Len(playerIDs), {}))
NoStopBefore(k) == \A j \in 0 .. k - 1 : TargetAfter(j) # 10

\* Every variable has what so many iterations make of it.
Reached(k, gs) == \A c : Concern(c) /\ Iterated(c, k) => Congruent(ValueOf(c, gs), c.total)

\* The loop has not been reached.
NotBegun(gs, st) ==
    /\ st = <<activation(toplevel, game, <<>>)>>
    /\ DOMAIN gs.activeScopeVariables = {}
    /\ Reached(0, gs)

\* The k-th iteration is under way.
InIteration(k, gs, st) ==
    /\ debugTarget.name \in DOMAIN variables
    /\ NoStopBefore(k)
    /\ \A c : Concern(c) /\ Iterated(c, k) => \E g : Balanced(c, gs, st, g)

\* The loop has ended after k iterations.
Ended(k, gs, st) ==
    /\ Head(st).rule.type = "toplevel" /\ Head(st).rest = <<>>
    /\ debugTarget.name \in DOMAIN variables
    /\ NoStopBefore(k) /\ TargetAfter(k) = 10
    /\ Reached(k, gs)

\* The inductive invariant.
LoopedInv ==
    game \in SingleLoops /\ result \in {"running", "ok"} =>
        \/ result = "running" /\ NotBegun(gameState, stack)
        \/ result = "running" /\ \E k \in Nat : InIteration(k, gameState, stack)
        \/ \E k \in Nat : Ended(k, gameState, stack)

\* Some of the players may be there.
Counted == Len(playerIDs) \in 0 .. Cardinality(Players) /\ Distinct(playerIDs)

\* The concern with a variable.
ConcernOf(x, p, loop, total) ==
    [var |-> x, n |-> Len(playerIDs), player |-> p, loop |-> loop, total |-> total]

\* The player may be looked at for it.
Eligible(x, p) == (x.ofPlayer => p \in connected /\ p = x.player) /\ (playerIDs # <<>> => p \in connected)

\* A concern with it, for that loop and that total.
IsConcernOf(c, x, p, loop, total) ==
    Concern(c) /\ c.var = x /\ c.n = Len(playerIDs) /\ c.player = p /\ c.loop = loop /\ c.total = total

\* There is one for every variable and every player it can be looked at for.
LEMMA ConcernOfType ==
    ASSUME IInv, Counted, NEW x \in Variable, NEW p, Eligible(x, p), NEW loop, NEW total \in Int
    PROVE  \E c : IsConcernOf(c, x, p, loop, total)
  <1> DEFINE c == ConcernOf(x, p, loop, total)
  <1>1. c.var = x /\ c.n = Len(playerIDs) /\ c.player = p /\ c.loop = loop /\ c.total = total
    BY DEF ConcernOf
  <1>2. Len(playerIDs) \in Nat
    BY DEF IInv
  <1> HIDE DEF c
  <1>3. Concern(c)
    BY <1>1, <1>2, Zenon DEF Concern, IsConcern, Owner, Counted, Eligible
  <1> QED
    BY <1>1, <1>3, Zenon DEF IsConcernOf

\* Concerns that differ in their totals only.
Alike(c, d) == c.var = d.var /\ c.n = d.n /\ c.player = d.player /\ c.loop = d.loop

\* They have the same values.
LEMMA AlikeValues ==
    ASSUME NEW c, NEW d, Alike(c, d)
    PROVE  /\ InitialOf(d) = InitialOf(c) /\ \A gs : ValueOf(d, gs) = ValueOf(c, gs)
           /\ \A rules, elems : AddedFor(d, rules, elems) = AddedFor(c, rules, elems)
  BY Zenon DEF Alike, InitialOf, ValueOf, AddedFor

\* They have the same accounts.
LEMMA AlikeAccounts ==
    ASSUME NEW c, NEW d, Alike(c, d), NEW st, NEW g, Accounted(c, st, g)
    PROVE  Accounted(d, st, g)
  <1>1. PICK gs : Linked(c, st, gs) /\ gs[1] = g
    BY DEF Accounted
  <1>2. ASSUME NEW a, NEW x, NEW h, Link(c, a, x, h) PROVE Link(d, a, x, h)
    <2>1. \A rules, elems : AddedFor(d, rules, elems) = AddedFor(c, rules, elems)
      BY AlikeValues
    <2>2. c.player = d.player /\ c.loop = d.loop
      BY DEF Alike
    <2>3. Later(d, a, h.elems) = Later(c, a, h.elems)
      BY <2>1, <2>2, Zenon DEF Later, Rounds
    <2>4. Inner(d, a, h.elems) = Inner(c, a, h.elems)
      BY <2>2, Zenon DEF Inner
    <2>5. AddedFor(d, a.rest, x.elems) = AddedFor(c, a.rest, x.elems)
      BY <2>1
    <2>6. Placed(c, a, h) => Placed(d, a, h)
      BY <2>2, Zenon DEF Placed, Looping
    <2> QED
      BY <1>2, <2>3, <2>4, <2>5, <2>6, Zenon DEF Link
  <1>3. Linked(d, st, gs)
    BY <1>1, <1>2, Zenon DEF Linked
  <1> QED
    BY <1>1, <1>3, Zenon DEF Accounted

\* A concern with so many iterations.
LEMMA ConcernWith ==
    ASSUME IInv, Counted, game \in SingleLoops, NEW c, Concern(c), c.loop = game[1], NEW k \in Nat
    PROVE  /\ \E d : Concern(d) /\ Iterated(d, k) /\ Alike(c, d) /\ Alike(d, c)
           /\ InitialOf(c) \in Int /\ AddedFor(c, game[1].body, {}) \in Int
           /\ InitialOf(c) + k * AddedFor(c, game[1].body, {}) \in Int
  <1> DEFINE i == InitialOf(c)
             a == AddedFor(c, game[1].body, {})
             t == i + k * a
  <1>1. i \in Int
    BY ValueType, ValuesAreIntegers DEF IInv, Concern
  <1>2. a \in Int
    BY LoopGame, AddedType DEF Concern
  <1> HIDE DEF i, a
  <1>3. t \in Int
    BY <1>1, <1>2
  <1> HIDE DEF t
  <1>4. c.var \in Variable /\ c.n = Len(playerIDs) /\ Eligible(c.var, c.player)
    BY Zenon DEF Concern, IsConcern, Owner, Eligible
  <1>0. \E d : IsConcernOf(d, c.var, c.player, game[1], t)
    BY <1>3, <1>4, ConcernOfType
  <1>5. PICK d : IsConcernOf(d, c.var, c.player, game[1], t)
    BY <1>0
  <1>6. Alike(c, d) /\ Alike(d, c)
    BY <1>4, <1>5, Zenon DEF Alike, IsConcernOf
  <1>7. Iterated(d, k)
    <2>1. InitialOf(d) = i /\ AddedFor(d, game[1].body, {}) = a
      BY <1>6, AlikeValues DEF i, a
    <2> QED
      BY <1>5, <2>1, Zenon DEF Iterated, IsConcernOf, t
  <1> QED
    BY <1>1, <1>2, <1>3, <1>5, <1>6, <1>7, Zenon DEF IsConcernOf, i, a, t

\* What a variable has.
LEMMA ReachedFor ==
    ASSUME IInv, Counted, game \in SingleLoops, NEW c, Concern(c), c.loop = game[1], NEW k \in Nat,
           NEW gs, Reached(k, gs)
    PROVE  Congruent(ValueOf(c, gs), InitialOf(c) + k * AddedFor(c, game[1].body, {}))
  <1>1. PICK d : Concern(d) /\ Iterated(d, k) /\ Alike(c, d)
    BY ConcernWith
  <1>2. Congruent(ValueOf(d, gs), d.total)
    BY <1>1, Zenon DEF Reached
  <1>3. /\ InitialOf(d) = InitialOf(c) /\ ValueOf(d, gs) = ValueOf(c, gs)
        /\ AddedFor(d, game[1].body, {}) = AddedFor(c, game[1].body, {})
    BY <1>1, AlikeValues
  <1> QED
    BY <1>1, <1>2, <1>3, Zenon DEF Iterated

\* debug_target, when it is a variable.
LEMMA TargetConcern ==
    ASSUME IInv, Counted, game \in SingleLoops, debugTarget.name \in DOMAIN variables
    PROVE  \E c : Concern(c) /\ c.loop = game[1] /\ c.var = debugTarget /\ c.n = Len(playerIDs)
  <1>1. debugTarget \in Variable /\ debugTarget.ofPlayer = FALSE
    BY DEF debugTarget, Variable
  <1>2. PICK p : playerIDs # <<>> => p \in connected
    BY SomePlayer
  <1>3. Eligible(debugTarget, p) /\ 0 \in Int
    BY <1>1, <1>2 DEF Eligible
  <1>4. \E c : IsConcernOf(c, debugTarget, p, game[1], 0)
    BY <1>1, <1>3, ConcernOfType
  <1> QED
    BY <1>4, Zenon DEF IsConcernOf

\* What StopCondition reads is what so many iterations make of debug_target.
LEMMA TargetValue ==
    ASSUME IInv, Counted, game \in SingleLoops, debugTarget.name \in DOMAIN variables,
           NEW k \in Nat, Reached(k, gameState)
    PROVE  DebugTarget.value = TargetAfter(k)
  <1>1. PICK c : Concern(c) /\ c.loop = game[1] /\ c.var = debugTarget /\ c.n = Len(playerIDs)
    BY TargetConcern
  <1> DEFINE v == ValueOf(c, gameState)
             y == InitialOf(c) + k * AddedFor(c, game[1].body, {})
  <1>2. Congruent(v, y) /\ y \in Int
    BY <1>1, ReachedFor, ConcernWith
  <1>3. v \in VariableValue
    BY <1>1, ValueType DEF IInv, Concern
  <1>4. v = Wrap(y)
    BY <1>2, <1>3, CongruentUnique
  <1>5. debugTarget.ofPlayer = FALSE /\ debugTarget.name = <<"debug_target">>
    BY DEF debugTarget
  <1>6. v = gameState.variableMap[<<"debug_target">>]
    BY <1>1, <1>5, Zenon DEF ValueOf
  <1>7. Wrap(y) = TargetAfter(k)
    BY <1>1, <1>5, Zenon DEF TargetAfter, InitialOf, AddedFor
  <1>8. DebugTarget.value = gameState.variableMap[<<"debug_target">>]
    <2>1. ~OfPlayer(<<"debug_target">>)
      BY NamesAssumption DEF OfPlayer
    <2>2. <<"debug_target">> \in DOMAIN gameState.variableMap
      BY <1>5 DEF IInv, Shape
    <2> QED
      BY <2>1, <2>2 DEF DebugTarget, getValue, getVariable, ok
  <1> QED
    BY <1>4, <1>6, <1>7, <1>8

\* debug_target is a variable if it can be read.
LEMMA TargetIsVariable ==
    ASSUME IInv, DebugTarget.outcome = "ok"
    PROVE  debugTarget.name \in DOMAIN variables
  <1>1. ~OfPlayer(<<"debug_target">>)
    BY NamesAssumption DEF OfPlayer
  <1>2. <<"debug_target">> \in DOMAIN gameState.variableMap
    BY <1>1 DEF DebugTarget, getValue, getVariable, failure
  <1> QED
    BY <1>2 DEF IInv, Shape, debugTarget

\* The top level, with nothing else to do.
LEMMA TopAccounted ==
    ASSUME NEW c, IsConcern(c), NEW S, NEW a \in S, a.rule.type = "toplevel", a.rest = <<>>
    PROVE  Accounted(c, <<a>> \o <<>>, TopAccount)
  <1>1. TopAccount \in Account /\ TopAccount.elems = {} /\ TopAccount.rem = 0 /\ TopAccount.of = "toplevel"
    BY DEF TopAccount, Account
  <1>2. ~IsForEach(a)
    BY DEF IsForEach
  <1>3. <<>> \in Loopless
    BY ListsAssumption
  <1>4. AddedFor(c, <<>>, {}) = 0
    BY <1>3, AddedType
  <1>5. NoAccount.elems = {} /\ NoAccount.rem = 0
    BY DEF NoAccount
  <1>6. Inner(c, a, {}) = {} /\ Later(c, a, {}) = 0
    BY <1>2 DEF Inner, Later
  <1>7. Placed(c, a, NoAccount)
    BY <1>2 DEF Placed
  <1>8. Link(c, a, TopAccount, NoAccount)
    BY <1>1, <1>2, <1>3, <1>4, <1>5, <1>6, <1>7 DEF Link
  <1>9. <<>> \in Seq(S)
    OBVIOUS
  <1> QED
    BY <1>1, <1>8, <1>9, NothingAccounted, AccountPush

\* An iteration begins.
LEMMA IterationBegins ==
    ASSUME IInv, Counted, game \in SingleLoops, NEW k \in Nat, Reached(k, gameState),
           NEW c, Concern(c), Iterated(c, k + 1),
           StandFor(gameState.activeScopeVariables, c.player) = {},
           NEW frames \in Seq(Activation(connected)), Accounted(c, frames, TopAccount)
    PROVE  \E g : Balanced(c, gameState, <<activation(game[1], game[1].body, <<>>)>> \o frames, g)
  <1> DEFINE r == game[1]
             x == activation(r, r.body, <<>>)
             a == AddedFor(c, r.body, {})
             i == InitialOf(c)
             v == ValueOf(c, gameState)
             g == [elems |-> {}, rem |-> a, of |-> "loop"]
  <1>1. r \in Rule /\ r.type = "loop" /\ r.body \in Loopless
    BY LoopGame
  <1>2. c.loop = r /\ c.total = i + (k + 1) * a
    BY DEF Iterated
  <1>3. a \in Int /\ i \in Int /\ i + k * a \in Int /\ Congruent(v, i + k * a)
    BY <1>2, ConcernWith, ReachedFor
  <1>4. v \in Int
    BY ValueType, ValuesAreIntegers DEF IInv, Concern
  <1>5. x \in Activation(connected) /\ x.rule = r /\ x.rest = r.body
    BY <1>1, RulesAssumption DEF activation, Activation
  <1> HIDE DEF r, a, i, v, x
  <1>6. g \in Account /\ g.elems = {} /\ g.rem = a /\ g.of = "loop"
    BY <1>3 DEF Account
  <1> HIDE DEF g
  <1>7. ~IsForEach(x)
    BY <1>1, <1>5 DEF IsForEach
  <1>8. TopAccount.elems = {} /\ TopAccount.rem = 0
    BY DEF TopAccount
  <1>9. Inner(c, x, {}) = {} /\ Later(c, x, {}) = 0
    BY <1>7 DEF Inner, Later
  <1>10. Placed(c, x, TopAccount)
    BY <1>1, <1>2, <1>5, <1>7 DEF Placed
  <1>11. Link(c, x, g, TopAccount)
    <2>1. AddedFor(c, x.rest, g.elems) = a
      BY <1>5, <1>6 DEF a
    <2>2. a = a + 0 + 0
      BY <1>3
    <2> QED
      BY <1>1, <1>5, <1>6, <1>7, <1>8, <1>9, <1>10, <2>1, <2>2 DEF Link
  <1>12. Accounted(c, <<x>> \o frames, g)
    BY <1>5, <1>6, <1>11, AccountPush
  <1>13. Congruent(v + g.rem, c.total)
    <2>1. Congruent(v + a, (i + k * a) + a)
      BY <1>3, <1>4, CongruentPlus
    <2>2. (i + k * a) + a = i + (k + 1) * a
      <3>1. (k + 1) * a + 0 = a + (k * a + 0) /\ k * a \in Int
        BY <1>3, OneMore
      <3> DEFINE m == k * a
                 o == (k + 1) * a
      <3>2. m \in Int /\ o + 0 = a + (m + 0) /\ o \in Int
        BY <1>3, <3>1
      <3> HIDE DEF m, o
      <3>3. (i + m) + a = i + o
        BY <1>3, <3>2
      <3> QED
        BY <3>3 DEF m, o
    <2> QED
      BY <1>2, <1>6, <2>1, <2>2, Zenon
  <1>14. Looping(c) => g.of # "toplevel"
    BY <1>6
  <1> QED
    BY <1>6, <1>12, <1>13, <1>14, Zenon DEF Balanced, x, r, v

\* The loop is reached: it ends at once, or its first iteration begins.
LEMMA LoopRuleLooped ==
    ASSUME IInv, Counted, game \in SingleLoops, result = "running", NotBegun(gameState, stack),
           LoopRule, result' \in {"running", "ok"}
    PROVE  result' = "running" /\ (InIteration(1, gameState', stack') \/ Ended(0, gameState', stack'))
  <1> DEFINE a == activation(toplevel, game, <<>>)
             x == [top EXCEPT !.rest = Tail(@)]
             B == Activation(connected)
             r == game[1]
  <1>1. a \in B /\ a.rule = toplevel /\ a.rest = game
    BY RulesAssumption DEF IInv, activation, Activation
  <1>2. stack = <<a>>
    BY DEF NotBegun
  <1> HIDE DEF a
  <1>3. top = a /\ Tail(stack) = <<>>
    BY <1>2 DEF top
  <1>4. rule = r /\ r.type = "loop" /\ Tail(game) = <<>>
    BY <1>1, <1>3, LoopGame DEF rule
  <1>5. x \in B /\ x.rule.type = "toplevel" /\ x.rest = <<>>
    <2>1. Tail(top.rest) = <<>> /\ top.rest # <<>>
      BY <1>1, <1>3, <1>4, LoopGame, Zenon
    <2>2. top \in B /\ Tail(top.rest) \in Seq(Rule)
      BY <2>1, TopFrame
    <2>3. x \in B /\ x.rule = top.rule /\ x.rest = Tail(top.rest)
      BY <2>2 DEF Activation
    <2> HIDE DEF x, B
    <2> QED
      BY <1>1, <1>3, <2>1, <2>3 DEF toplevel
  <1>6. advanced = <<x>> \o <<>>
    BY <1>3 DEF advanced
  <1> HIDE DEF x, B, r
  <1>7. <<x>> \o <<>> \in Seq(B) /\ Head(<<x>> \o <<>>) = x
    BY <1>5
  <1>8. IF DebugTarget.outcome # "ok" THEN stop("failure")
        ELSE IF StopCondition THEN succeed(gameState)
        ELSE /\ stack' = <<activation(rule, rule.body, <<>>)>> \o advanced
             /\ UNCHANGED <<gameState, result>>
    BY DEF LoopRule
  <1>9. DebugTarget.outcome = "ok"
    BY <1>8 DEF stop
  <1>10. debugTarget.name \in DOMAIN variables
    BY <1>9, TargetIsVariable
  <1>11. DebugTarget.value = TargetAfter(0) /\ Reached(0, gameState)
    BY <1>10, TargetValue DEF NotBegun
  <1>12. CASE StopCondition
    <2>1. gameState' = gameState /\ stack' = <<x>> \o <<>> /\ result' = "running"
      BY <1>6, <1>8, <1>9, <1>12 DEF succeed
    <2>2. NoStopBefore(0)
      BY DEF NoStopBefore
    <2>3. TargetAfter(0) = 10
      BY <1>11, <1>12, Zenon DEF StopCondition
    <2>4. Ended(0, gameState, <<x>> \o <<>>)
      BY <1>5, <1>7, <1>10, <1>11, <2>2, <2>3, Zenon DEF Ended
    <2> QED
      BY <2>1, <2>4, Zenon
  <1>13. CASE ~StopCondition
    <2>1. /\ gameState' = gameState /\ result' = "running"
          /\ stack' = <<activation(r, r.body, <<>>)>> \o (<<x>> \o <<>>)
      BY <1>4, <1>6, <1>8, <1>9, <1>13
    <2>2. TargetAfter(0) # 10
      BY <1>11, <1>13, Zenon DEF StopCondition
    <2>3. NoStopBefore(1)
      <3>1. \A j \in 0 .. 1 - 1 : j = 0
        OBVIOUS
      <3> QED
        BY <2>2, <3>1, Zenon DEF NoStopBefore
    <2>4. ASSUME NEW c, Concern(c), Iterated(c, 1)
          PROVE  \E g : Balanced(c, gameState, <<activation(r, r.body, <<>>)>> \o (<<x>> \o <<>>), g)
      <3>1. Accounted(c, <<x>> \o <<>>, TopAccount)
        BY <1>5, <2>4, TopAccounted DEF Concern
      <3>2. StandFor(gameState.activeScopeVariables, c.player) = {}
        BY DEF NotBegun, StandFor
      <3>3. 0 + 1 = 1 /\ 0 \in Nat
        OBVIOUS
      <3>4. Iterated(c, 0 + 1)
        BY <2>4, <3>3, Zenon
      <3> QED
        BY <1>7, <1>11, <2>4, <3>1, <3>2, <3>3, <3>4, IterationBegins, Zenon DEF r, B
    <2>5. InIteration(1, gameState, <<activation(r, r.body, <<>>)>> \o (<<x>> \o <<>>))
      BY <1>10, <2>3, <2>4, Zenon DEF InIteration
    <2> QED
      BY <2>1, <2>5, Zenon
  <1> QED
    BY <1>12, <1>13

\* A step inside an iteration.
LEMMA BodyLooped ==
    ASSUME IInv, Counted, game \in SingleLoops, result = "running", NEW k \in Nat,
           InIteration(k, gameState, stack), Next, ~nextIteration, result' \in {"running", "ok"}
    PROVE  result' = "running" /\ InIteration(k, gameState', stack')
  <1>1. ASSUME NEW c, Concern(c), Iterated(c, k) PROVE \E g : Balanced(c, gameState', stack', g)
    <2>1. PICK g : Balanced(c, gameState, stack, g)
      BY <1>1 DEF InIteration
    <2>2. Rebalanced(c)
      BY <1>1, <2>1, StepBalanced DEF Counted
    <2> QED
      BY <2>2, Zenon DEF Rebalanced
  <1>2. InIteration(k, gameState', stack')
    BY <1>1, Zenon DEF InIteration
  <1>3. top.rule.type # "toplevel"
    <2>1. PICK c : Concern(c) /\ c.loop = game[1]
      BY TargetConcern DEF InIteration
    <2>2. PICK d : Concern(d) /\ Iterated(d, k)
      BY <2>1, ConcernWith
    <2>3. PICK g : Balanced(d, gameState, stack, g)
      BY <2>2 DEF InIteration
    <2>4. PICK h : Link(d, top, g, h)
      BY <2>2, <2>3, BalancedTop
    <2>5. Looping(d)
      BY <2>2, LoopGame DEF Looping, Iterated
    <2> QED
      BY <2>3, <2>4, <2>5 DEF Balanced, Link
  <1>4. result' # "ok"
    <2>1. ~gameFinished
      BY <1>3 DEF gameFinished, Finished
    <2>2. CASE AddRule
      BY <2>2 DEF AddRule, stop, succeed
    <2>3. CASE InputTextRule
      BY <2>3 DEF InputTextRule, stop
    <2>4. CASE GlobalMessageRule \/ ForEachRule \/ nextElement \/ LoopRule \/ Done
      BY <2>4 DEF GlobalMessageRule, ForEachRule, nextElement, LoopRule, Done, startElement, stop, succeed, vars
    <2> QED
      BY <2>1, <2>2, <2>3, <2>4 DEF Next
  <1> QED
    BY <1>2, <1>4

\* An iteration is over.
LEMMA IterationOver ==
    ASSUME IInv, game \in SingleLoops, top.rest = <<>>, top.rule.type = "loop",
           NEW k \in Nat, NEW c, Concern(c), Iterated(c, k), NEW g, Balanced(c, gameState, stack, g)
    PROVE  /\ Congruent(ValueOf(c, gameState), c.total)
           /\ StandFor(gameState.activeScopeVariables, c.player) = {}
           /\ Accounted(c, Tail(stack), TopAccount)
           /\ top.rule = game[1]
  <1>1. PICK h \in Account : Accounted(c, Tail(stack), h) /\ Link(c, top, g, h)
    BY BalancedTop
  <1>2. top.rule = game[1] /\ h = TopAccount
    BY <1>1 DEF Link, Placed, Iterated
  <1>3. ~IsForEach(top) /\ TopAccount.elems = {} /\ TopAccount.rem = 0
    BY DEF IsForEach, TopAccount
  <1>4. g.elems = {} /\ g.rem = AddedFor(c, <<>>, {}) + 0 + 0 /\ <<>> \in Loopless
    BY <1>1, <1>2, <1>3 DEF Link, Inner, Later
  <1>5. AddedFor(c, <<>>, {}) = 0
    BY <1>4, AddedType DEF Concern
  <1>6. g.rem = 0
    BY <1>4, <1>5
  <1> DEFINE v == ValueOf(c, gameState)
  <1>7. v \in Int /\ Congruent(v + g.rem, c.total)
    BY BalancedTop, Zenon DEF Balanced
  <1> HIDE DEF v
  <1>8. v + 0 = v
    BY <1>7
  <1>9. Congruent(v, c.total)
    BY <1>6, <1>7, <1>8, Zenon
  <1>10. StandFor(gameState.activeScopeVariables, c.player) = {}
    BY <1>4, Zenon DEF Balanced
  <1> QED
    BY <1>1, <1>2, <1>9, <1>10, Zenon DEF v

\* What is below the loop.
LEMMA BelowLoop ==
    ASSUME IInv, game \in SingleLoops, top.rule.type = "loop",
           NEW k, NEW c, Concern(c), Iterated(c, k), Accounted(c, Tail(stack), TopAccount)
    PROVE  Head(Tail(stack)).rule.type = "toplevel" /\ Head(Tail(stack)).rest = <<>>
  <1> DEFINE s == Tail(stack)
             b == Head(s)
             B == Activation(connected)
  <1>1. s \in Seq(B) /\ stack \in Seq(B) /\ stack # <<>> /\ stack[1] = top /\ stack[Len(stack)].rule = toplevel
    BY TopFrame DEF IInv, Frames, top
  <1>2. s # <<>>
    <2> SUFFICES ASSUME s = <<>> PROVE FALSE
      OBVIOUS
    <2>1. Len(stack) = 1
      <3>1. Len(stack) \in Nat \ {0} /\ Len(s) = Len(stack) - 1
        BY <1>1, HeadTailProperties
      <3> HIDE DEF s
      <3>2. Len(s) = 0
        OBVIOUS
      <3> QED
        BY <3>1, <3>2
    <2> QED
      BY <1>1, <2>1 DEF toplevel
  <1> HIDE DEF s, B
  <1>3. b \in B /\ Tail(s) \in Seq(B) /\ s = <<b>> \o Tail(s)
    BY <1>1, <1>2, HeadAndTail
  <1> HIDE DEF b
  <1>4. Accounted(c, <<b>> \o Tail(s), TopAccount)
    BY <1>3, Zenon DEF s
  <1>5. PICK h \in Account : Link(c, b, TopAccount, h)
    BY <1>3, <1>4, AccountPop
  <1>6. b.rule.type = "toplevel"
    BY <1>5 DEF Link, TopAccount
  <1>7. Looping(c)
    BY LoopGame DEF Looping, Iterated
  <1>8. b.rest = <<>>
    BY <1>5, <1>6, <1>7 DEF Link, Placed
  <1> QED
    BY <1>6, <1>8 DEF b, s

\* The body has been executed: the loop ends, or its next iteration begins.
LEMMA nextIterationLooped ==
    ASSUME IInv, Counted, game \in SingleLoops, result = "running", NEW k \in Nat,
           InIteration(k, gameState, stack), nextIteration
    PROVE  /\ result' = "running"
           /\ InIteration(k + 1, gameState', stack') \/ Ended(k, gameState', stack')
  <1> DEFINE s == Tail(stack)
             r == game[1]
  <1>1. /\ top.rest = <<>> /\ top.rule.type = "loop" /\ gameState' = gameState /\ result' = "running"
        /\ stack' = IF StopCondition THEN s ELSE <<activation(top.rule, top.rule.body, <<>>)>> \o s
    BY DEF nextIteration, Finished
  <1>2. debugTarget.name \in DOMAIN variables /\ NoStopBefore(k)
    BY DEF InIteration
  <1>3. ASSUME NEW c, Concern(c), Iterated(c, k)
        PROVE  /\ Congruent(ValueOf(c, gameState), c.total)
               /\ StandFor(gameState.activeScopeVariables, c.player) = {}
               /\ Accounted(c, s, TopAccount)
               /\ top.rule = r
    <2>1. PICK g : Balanced(c, gameState, stack, g)
      BY <1>3 DEF InIteration
    <2> QED
      BY <1>1, <1>3, <2>1, IterationOver
  <1>4. Reached(k, gameState)
    BY <1>3, Zenon DEF Reached
  <1>5. DebugTarget.value = TargetAfter(k)
    BY <1>2, <1>4, TargetValue
  <1>6. PICK d : Concern(d) /\ Iterated(d, k)
    <2>1. PICK c : Concern(c) /\ c.loop = game[1]
      BY <1>2, TargetConcern
    <2> QED
      BY <2>1, ConcernWith
  <1> HIDE DEF s, r
  <1>7. CASE StopCondition
    <2>1. stack' = s
      BY <1>1, <1>7
    <2>2. TargetAfter(k) = 10
      BY <1>5, <1>7, Zenon DEF StopCondition
    <2>3. Head(s).rule.type = "toplevel" /\ Head(s).rest = <<>>
      BY <1>1, <1>3, <1>6, BelowLoop DEF s
    <2>4. Ended(k, gameState, s)
      BY <1>2, <1>4, <2>2, <2>3, Zenon DEF Ended
    <2> QED
      BY <1>1, <2>1, <2>4, Zenon
  <1>8. CASE ~StopCondition
    <2>1. stack' = <<activation(r, r.body, <<>>)>> \o s
      BY <1>1, <1>3, <1>6, <1>8
    <2>2. TargetAfter(k) # 10
      BY <1>5, <1>8, Zenon DEF StopCondition
    <2>3. NoStopBefore(k + 1)
      <3>1. \A j \in 0 .. (k + 1) - 1 : j = k \/ j \in 0 .. k - 1
        OBVIOUS
      <3> QED
        BY <1>2, <2>2, <3>1, Zenon DEF NoStopBefore
    <2>4. ASSUME NEW c, Concern(c), Iterated(c, k + 1)
          PROVE  \E g : Balanced(c, gameState, <<activation(r, r.body, <<>>)>> \o s, g)
      <3>1. c.loop = game[1]
        BY <2>4 DEF Iterated
      <3>2. PICK e : Concern(e) /\ Iterated(e, k) /\ Alike(e, c)
        BY <2>4, <3>1, ConcernWith
      <3>3. Accounted(c, s, TopAccount)
        BY <1>3, <3>2, AlikeAccounts
      <3>4. StandFor(gameState.activeScopeVariables, c.player) = {}
        BY <1>3, <3>2, Zenon DEF Alike
      <3>5. s \in Seq(Activation(connected))
        BY TopFrame DEF s
      <3> QED
        BY <1>4, <2>4, <3>3, <3>4, <3>5, IterationBegins DEF r
    <2>5. InIteration(k + 1, gameState, <<activation(r, r.body, <<>>)>> \o s)
      BY <1>2, <2>3, <2>4, Zenon DEF InIteration
    <2> QED
      BY <1>1, <2>1, <2>5, Zenon
  <1> QED
    BY <1>7, <1>8

\* Every step keeps the invariant.
LEMMA StepLoopedInv == IInv /\ BalancedInv /\ LoopedInv /\ [Next]_vars => LoopedInv'
  <1> SUFFICES ASSUME IInv, BalancedInv, LoopedInv, [Next]_vars,
                      game' \in SingleLoops, result' \in {"running", "ok"}
               PROVE  (\/ result = "running" /\ NotBegun(gameState, stack)
                       \/ result = "running" /\ \E k \in Nat : InIteration(k, gameState, stack)
                       \/ \E k \in Nat : Ended(k, gameState, stack))'
    BY Zenon DEF LoopedInv
  <1>1. game' = game /\ playerIDs' = playerIDs
    BY Zenon DEF Next, AddRule, GlobalMessageRule, InputTextRule, ForEachRule, nextElement,
           LoopRule, nextIteration, gameFinished, Done, vars
  <1>2. Counted /\ game \in SingleLoops
    BY <1>1 DEF BalancedInv, Counted
  <1>3. /\ NotBegun(gameState, stack)' <=> NotBegun(gameState', stack')
        /\ \A k \in Nat : /\ InIteration(k, gameState, stack)' <=> InIteration(k, gameState', stack')
                          /\ Ended(k, gameState, stack)' <=> Ended(k, gameState', stack')
    <2>1. \A c : (Concern(c)' <=> Concern(c)) /\ (\A k \in Nat : Iterated(c, k)' <=> Iterated(c, k))
      BY <1>1, Zenon DEF Concern, Iterated, connected
    <2>2. \A k \in Nat : NoStopBefore(k)' <=> NoStopBefore(k)
      BY <1>1, Zenon DEF NoStopBefore, TargetAfter
    <2>3. \A k \in Nat : TargetAfter(k)' = TargetAfter(k)
      BY <1>1, Zenon DEF TargetAfter
    <2>4. \A k \in Nat : Reached(k, gameState)' <=> Reached(k, gameState')
      BY <2>1, Zenon DEF Reached
    <2>5. NotBegun(gameState, stack)' <=> NotBegun(gameState', stack')
      BY <1>1, <2>4 DEF NotBegun
    <2>6. \A k \in Nat : InIteration(k, gameState, stack)' <=> InIteration(k, gameState', stack')
      BY <2>1, <2>2, Zenon DEF InIteration
    <2>7. \A k \in Nat : Ended(k, gameState, stack)' <=> Ended(k, gameState', stack')
      BY <2>2, <2>3, <2>4, Zenon DEF Ended
    <2> QED
      BY <2>5, <2>6, <2>7
  <1> SUFFICES \/ result' = "running" /\ NotBegun(gameState', stack')
               \/ result' = "running" /\ \E k \in Nat : InIteration(k, gameState', stack')
               \/ \E k \in Nat : Ended(k, gameState', stack')
    BY <1>3, Zenon
  <1>4. CASE UNCHANGED vars
    <2>1. gameState' = gameState /\ stack' = stack /\ result' = result
      BY <1>4 DEF vars
    <2> QED
      BY <1>2, <2>1, Zenon DEF LoopedInv
  <1>5. CASE ~(UNCHANGED vars)
    <2>1. Next /\ result = "running"
      BY <1>5 DEF Next, AddRule, GlobalMessageRule, InputTextRule, ForEachRule, nextElement,
           LoopRule, nextIteration, gameFinished, Done, Executing, Finished
    <2>2. \/ NotBegun(gameState, stack)
          \/ \E k \in Nat : InIteration(k, gameState, stack)
          \/ \E k \in Nat : Ended(k, gameState, stack)
      BY <1>2, <2>1, Zenon DEF LoopedInv
    <2>3. CASE NotBegun(gameState, stack)
      <3>1. top.rest = game
        BY <2>3 DEF NotBegun, top, activation
      <3>2. top.rest # <<>> /\ Head(top.rest).type = "loop"
        BY <1>2, <3>1, LoopGame
      <3>3. LoopRule
        BY <2>1, <1>5, <3>2 DEF Next, AddRule, GlobalMessageRule, InputTextRule, ForEachRule, nextElement,
           nextIteration, gameFinished, Done, Executing, Finished
      <3>4. result' = "running" /\ (InIteration(1, gameState', stack') \/ Ended(0, gameState', stack'))
        BY <1>2, <2>1, <2>3, <3>3, LoopRuleLooped
      <3>5. 0 \in Nat /\ 1 \in Nat
        OBVIOUS
      <3> QED
        BY <3>4, <3>5, Zenon
    <2>4. ASSUME NEW k \in Nat, InIteration(k, gameState, stack)
          PROVE  /\ result' = "running"
                 /\ \E j \in Nat : InIteration(j, gameState', stack') \/ Ended(j, gameState', stack')
      <3>1. CASE nextIteration
        <4>1. /\ result' = "running"
              /\ InIteration(k + 1, gameState', stack') \/ Ended(k, gameState', stack')
          BY <1>2, <2>1, <2>4, <3>1, nextIterationLooped
        <4>2. k + 1 \in Nat
          OBVIOUS
        <4> QED
          BY <4>1, <4>2, Zenon
      <3>2. CASE ~nextIteration
        <4>1. result' = "running" /\ InIteration(k, gameState', stack')
          BY <1>2, <2>1, <2>4, <3>2, BodyLooped
        <4> QED
          BY <4>1, Zenon
      <3> QED
        BY <3>1, <3>2
    <2>5. ASSUME NEW k \in Nat, Ended(k, gameState, stack)
          PROVE  Ended(k, gameState', stack')
      <3>1. top.rule.type = "toplevel" /\ top.rest = <<>>
        BY <2>5 DEF Ended, top
      <3>2. gameFinished
        BY <2>1, <1>5, <3>1 DEF Next, AddRule, GlobalMessageRule, InputTextRule, ForEachRule, nextElement,
           LoopRule, nextIteration, Done, Executing, Finished
      <3>3. gameState' = gameState /\ stack' = stack
        BY <3>2 DEF gameFinished
      <3> QED
        BY <2>5, <3>3, Zenon
    <2> QED
      BY <2>2, <2>3, <2>4, <2>5, Zenon
  <1> QED
    BY <1>4, <1>5

\* It holds before the first step.
LEMMA InitLooped == Init => LoopedInv
  <1> SUFFICES ASSUME Init, game \in SingleLoops PROVE result = "running" /\ NotBegun(gameState, stack)
    BY DEF LoopedInv
  <1>1. /\ result = "running" /\ stack = <<activation(toplevel, game, <<>>)>>
        /\ gameState = [variableMap |-> variables,
                        playerVariableMaps |-> [p \in connected |-> perPlayer],
                        activeScopeVariables |-> <<>>]
    BY DEF Init, construct, connected
  <1>2. DOMAIN gameState.activeScopeVariables = {}
    BY <1>1
  <1>3. ASSUME NEW c, Concern(c), Iterated(c, 0) PROVE Congruent(ValueOf(c, gameState), c.total)
    <2> DEFINE i == InitialOf(c)
               a == AddedFor(c, game[1].body, {})
    <2>1. Shape(gameState, connected)
      BY <1>1, RulesAssumption DEF Shape
    <2>2. i \in Int
      BY <1>3, <2>1, ValueType, ValuesAreIntegers DEF Concern
    <2>3. a \in Int
      BY <1>3, LoopGame, AddedType DEF Concern
    <2>4. c.total = i + 0 * a
      BY <1>3 DEF Iterated
    <2>5. ValueOf(c, gameState) = i
      <3>1. c.var.ofPlayer => gameState.playerVariableMaps[c.player] = perPlayer
        BY <1>1, <1>3 DEF Concern, Owner
      <3>2. gameState.variableMap = variables
        BY <1>1
      <3> QED
        BY <3>1, <3>2, Zenon DEF ValueOf, InitialOf
    <2> HIDE DEF i, a
    <2>6. c.total = i
      BY <2>2, <2>3, <2>4
    <2> QED
      BY <2>2, <2>5, <2>6, CongruentSelf
  <1> QED
    BY <1>1, <1>2, <1>3, Zenon DEF NotBegun, Reached

\* From v, by a each time, value is reached after k steps and not before.
FirstHit(v, a, k, value) ==
    Wrap(v + k * a) = value /\ \A j \in 0 .. k - 1 : Wrap(v + j * a) # value

\* An int that comes up at all comes up in as many iterations as there are ints.
LEMMA StopsEarly ==
    ASSUME NEW v \in Int, NEW a \in Int, NEW k \in Nat, NEW value, FirstHit(v, a, k, value)
    PROVE  k \in 0 .. 2 ^ Width - 1
  <1> DEFINE m == 2 ^ Width
             j == k - m
             x == v + k * a
             y == v + j * a
  <1>1. m \in Nat \ {0}
    BY Modulus
  <1> HIDE DEF m
  <1> SUFFICES ASSUME ~(k \in 0 .. m - 1) PROVE FALSE
    BY DEF m
  <1>2. j \in Nat /\ j \in 0 .. k - 1 /\ k = j + m
    BY <1>1
  <1> HIDE DEF j
  <1>3. x \in Int /\ y \in Int
    BY <1>2
  <1>4. x = y + a * m
    <2>1. (j + m) * a = j * a + a * m /\ j * a \in Int /\ a * m \in Int
      BY <1>1, <1>2
    <2>2. k * a = j * a + a * m
      BY <1>2, <2>1, Zenon
    <2> DEFINE ja == j * a
               am == a * m
               ka == k * a
    <2>3. ja \in Int /\ am \in Int /\ ka = ja + am
      BY <2>1, <2>2
    <2> HIDE DEF ja, am, ka
    <2>4. v + ka = (v + ja) + am
      BY <2>3
    <2> QED
      BY <2>4 DEF ja, am, ka
  <1> HIDE DEF x, y
  <1>5. Wrap(x) = value
    BY Zenon DEF x, FirstHit
  <1>6. Congruent(x, y)
    BY <1>4, Zenon DEF Congruent, m
  <1>7. Congruent(Wrap(x), x) /\ Wrap(x) \in VariableValue /\ Wrap(x) \in Int
    BY <1>3, WrapCongruent, WrapType, ValuesAreIntegers
  <1>8. Congruent(Wrap(x), y)
    BY <1>3, <1>6, <1>7, CongruentTransitive
  <1>9. Wrap(x) = Wrap(y)
    BY <1>3, <1>7, <1>8, CongruentUnique
  <1> QED
    BY <1>2, <1>5, <1>9, Zenon DEF y, FirstHit

\* A loop that ends has executed its body as often as it takes debug_target to hit
\* 10 exactly for the first time, overflow included, and every variable has what so
\* many iterations make of it, whatever the loop's body and whoever plays
\* (LoopRule::executeRuleImpl).
THEOREM LoopsStopAtTen == Spec => []LoopStopsAtTen
  <1>1. IInv /\ BalancedInv /\ LoopedInv => LoopStopsAtTen
    <2> DEFINE body == game[1].body
               n == Len(playerIDs)
               stops == Stops(body, n)
    <2> SUFFICES ASSUME IInv, BalancedInv, LoopedInv, game \in SingleLoops, result = "ok"
                 PROVE  \E k \in stops : (\A j \in stops : k <= j) /\ Accumulated(body, k)
      BY Zenon DEF LoopStopsAtTen
    <2>1. Counted /\ result # "running" /\ body \in Loopless
      BY LoopGame DEF BalancedInv, Counted
    <2>2. PICK k \in Nat : Ended(k, gameState, stack)
      BY <2>1 DEF LoopedInv
    <2>3. /\ NoStopBefore(k) /\ TargetAfter(k) = 10 /\ Reached(k, gameState)
          /\ debugTarget.name \in DOMAIN variables
      BY <2>2 DEF Ended
    <2> HIDE DEF body, n
    <2> DEFINE v == variables[debugTarget.name]
               a == Added(debugTarget, body, n, {})
    <2>4. v \in Int /\ a \in Int
      <3>1. PICK c : Concern(c) /\ c.loop = game[1] /\ c.var = debugTarget /\ c.n = Len(playerIDs)
        BY <2>1, <2>3, TargetConcern
      <3>2. InitialOf(c) \in Int /\ AddedFor(c, game[1].body, {}) \in Int
        BY <2>1, <3>1, ConcernWith
      <3>3. debugTarget.ofPlayer = FALSE
        BY DEF debugTarget
      <3> QED
        BY <3>1, <3>2, <3>3, Zenon DEF InitialOf, AddedFor, body, n
    <2>5. \A j \in Nat : TargetAfter(j) = Wrap(v + j * a)
      BY Zenon DEF TargetAfter, body, n
    <2>6. stops = {j \in 0 .. 2 ^ Width - 1 : Wrap(v + j * a) = 10}
      BY Zenon DEF Stops
    <2> HIDE DEF v, a, stops
    <2>7. Wrap(v + k * a) = 10 /\ \A j \in 0 .. k - 1 : Wrap(v + j * a) # 10
      <3>1. \A j \in 0 .. k - 1 : j \in Nat
        OBVIOUS
      <3> QED
        BY <2>3, <2>5, <3>1, Zenon DEF NoStopBefore
    <2>8. k \in 0 .. 2 ^ Width - 1
      <3>1. FirstHit(v, a, k, 10)
        BY <2>7, Zenon DEF FirstHit
      <3> QED
        BY <2>4, <3>1, StopsEarly, Zenon
    <2>9. k \in stops
      BY <2>6, <2>7, <2>8, Zenon
    <2>10. ASSUME NEW j \in stops PROVE k <= j
      <3>1. j \in 0 .. 2 ^ Width - 1 /\ Wrap(v + j * a) = 10
        BY <2>6, Zenon
      <3>2. j \notin 0 .. k - 1
        BY <2>7, <3>1, Zenon
      <3> DEFINE m == 2 ^ Width
      <3>3. m \in Nat
        BY Modulus
      <3>4. j \in 0 .. m - 1
        BY <3>1
      <3> HIDE DEF m
      <3> QED
        BY <3>2, <3>3, <3>4
    <2>11. EachChanged(game[1], body, k)
      <3>1. ASSUME NEW c, Concern(c), c.loop = game[1]
            PROVE  ValueOf(c, gameState) = Wrap(InitialOf(c) + k * AddedFor(c, game[1].body, {}))
        <4> DEFINE x == ValueOf(c, gameState)
                   y == InitialOf(c) + k * AddedFor(c, game[1].body, {})
        <4>1. Congruent(x, y) /\ y \in Int
          BY <2>1, <2>3, <3>1, ReachedFor, ConcernWith
        <4>2. x \in VariableValue
          BY <3>1, ValueType DEF IInv, Concern
        <4> QED
          BY <4>1, <4>2, CongruentUnique
      <3> QED
        BY <3>1, Zenon DEF EachChanged, body
    <2>12. Accumulated(body, k)
      BY <2>1, <2>11, AccumulatedFor DEF Counted
    <2> QED
      BY <2>9, <2>10, <2>12, Zenon
  <1> QED
    BY <1>1, InitBalanced, StepBalancedInv, InitLooped, StepLoopedInv, Invariance, PTL DEF Spec
=============================================================================

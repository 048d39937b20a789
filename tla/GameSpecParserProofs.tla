------------------------ MODULE GameSpecParserProofs ------------------------
(***************************************************************************)
(* Proofs about GameSpecParser, for any game files, nested to any depth.   *)
(***************************************************************************)
EXTENDS GameSpecMeaning, SequenceTheorems, TLAPS
LOCAL INSTANCE SequencesExt
LOCAL INSTANCE WellFoundedInduction

\* The outermost call of parseRules.
bottom == stack[Len(stack)]

\* Of `total` rules these have been made, these are left, and n are under way.
Accounts(rules, rest, n, total) == Len(rules) + Len(rest) + n = total

\* It parses the top level rules, and has made one for each that it has been
\* through, but for the one whose own list is being parsed; or it gave up.
TopLevelCall ==
    /\ bottom.rule = toplevel
    /\ IsList(bottom.rest) /\ IsList(bottom.rules)
    /\ Len(stack) # 1 => Accounts(bottom.rules, bottom.rest, 1, Len(jsonObject.rules))
    /\ Len(stack) = 1 => \/ Accounts(bottom.rules, bottom.rest, 0, Len(jsonObject.rules))
                         \/ bottom.rest = <<>> /\ bottom.rules = <<>>

Calls ==
    /\ pc \in {"parseJson", "parseVariables"} => stack = <<>> /\ activeScopedVariableAliases = {}
    /\ pc = "parseRules" => IsList(stack) /\ stack # <<>> /\ TopLevelCall

\* The inductive invariant.
IInv ==
    /\ jsonObject \in GameSpecs
    /\ Calls
    /\ variableMap \in {{}, jsonObject.variables.names}
    /\ perPlayerVariableMap \in {{}, jsonObject.perPlayer.names}
    /\ AliasesNeverLeak
    /\ AcceptedWhole

-----------------------------------------------------------------------------
(***************************************************************************)
(* Lists.                                                                  *)
(***************************************************************************)

\* The members of a sequence over any set make it a list.
LEMMA SeqIsList ==
    ASSUME NEW S, NEW s \in Seq(S)
    PROVE  IsList(s)
  <1>1. s \in [1 .. Len(s) -> {s[i] : i \in DOMAIN s}] /\ Len(s) \in Nat
    OBVIOUS
  <1> QED
    BY <1>1 DEF IsList

\* One more element.
LEMMA AppendList ==
    ASSUME NEW s, IsList(s), NEW x
    PROVE  IsList(Append(s, x)) /\ Len(Append(s, x)) = Len(s) + 1 /\ Len(s) \in Nat
  <1> DEFINE S == {s[i] : i \in DOMAIN s}
             T == S \cup {x}
  <1>0. s \in Seq(S)
    BY DEF IsList
  <1> HIDE DEF S
  <1>1. s \in Seq(T)
    BY <1>0
  <1> HIDE DEF T
  <1>2. x \in T
    BY DEF T
  <1>3. Append(s, x) \in Seq(T) /\ Len(Append(s, x)) = Len(s) + 1 /\ Len(s) \in Nat
    BY <1>1, <1>2, AppendProperties
  <1> QED
    BY <1>3, SeqIsList

\* One element less.
LEMMA TailList ==
    ASSUME NEW s, IsList(s), s # <<>>
    PROVE  IsList(Tail(s)) /\ Len(Tail(s)) = Len(s) - 1 /\ Len(s) \in Nat /\ Len(s) # 0
  <1> DEFINE S == {s[i] : i \in DOMAIN s}
  <1>0. s \in Seq(S)
    BY DEF IsList
  <1> HIDE DEF S
  <1>1. Tail(s) \in Seq(S) /\ Len(Tail(s)) = Len(s) - 1 /\ Len(s) \in Nat /\ Len(s) # 0
    BY <1>0, HeadTailProperties, EmptySeq
  <1> QED
    BY <1>1, SeqIsList

\* A rule is taken from the list, and one is made.
LEMMA TakeAndMake ==
    ASSUME NEW rules, IsList(rules), NEW rest, IsList(rest), NEW x, NEW total
    PROVE  /\ rest # <<>> /\ Accounts(rules, rest, 0, total) => Accounts(rules, Tail(rest), 1, total)
           /\ Accounts(rules, rest, 1, total) => Accounts(Append(rules, x), rest, 0, total)
           /\ rest # <<>> /\ Accounts(rules, rest, 0, total)
                 => Accounts(Append(rules, x), Tail(rest), 0, total)
  <1>1. Len(Append(rules, x)) = Len(rules) + 1 /\ Len(rules) \in Nat
    BY AppendList
  <1>2. Len(rest) \in Nat
    BY DEF IsList
  <1>3. rest # <<>> => Len(Tail(rest)) = Len(rest) - 1
    BY TailList
  <1>4. \A a, b \in Nat : \A n : /\ a + b + 0 = n => a + (b - 1) + 1 = n
                                 /\ a + b + 1 = n => (a + 1) + b + 0 = n
                                 /\ a + b + 0 = n => (a + 1) + (b - 1) + 0 = n
    OBVIOUS
  <1>5. ASSUME rest # <<>>, Accounts(rules, rest, 0, total)
        PROVE  Accounts(rules, Tail(rest), 1, total) /\ Accounts(Append(rules, x), Tail(rest), 0, total)
    BY <1>1, <1>2, <1>3, <1>4, <1>5 DEF Accounts
  <1>6. ASSUME Accounts(rules, rest, 1, total) PROVE Accounts(Append(rules, x), rest, 0, total)
    BY <1>1, <1>2, <1>4, <1>6 DEF Accounts
  <1> QED
    BY <1>5, <1>6

\* A sequence with a first element.
LEMMA SeqNotEmpty ==
    ASSUME NEW S, NEW t \in Seq(S)
    PROVE  DOMAIN t = 1 .. Len(t) /\ Len(t) \in Nat /\ (Len(t) # 0 => t # <<>>)
  OBVIOUS

\* One element in front of a list.
LEMMA InFront ==
    ASSUME NEW S, NEW r \in Seq(S), NEW x \in S
    PROVE  /\ <<x>> \o r \in Seq(S) /\ Len(<<x>> \o r) = Len(r) + 1 /\ Len(r) \in Nat
           /\ (<<x>> \o r)[1] = x
           /\ \A i \in 1 .. Len(r) : (<<x>> \o r)[i + 1] = r[i]
  <1> DEFINE o == <<x>>
  <1>1. o \in Seq(S) /\ Len(o) = 1 /\ o[1] = x
    OBVIOUS
  <1> HIDE DEF o
  <1>2. /\ o \o r \in Seq(S) /\ Len(o \o r) = 1 + Len(r) /\ Len(r) \in Nat
        /\ \A i \in 1 .. (1 + Len(r)) : (o \o r)[i] = IF i <= 1 THEN o[i] ELSE r[i - 1]
    <2>1. /\ o \o r \in Seq(S) /\ Len(o \o r) = Len(o) + Len(r) /\ Len(r) \in Nat
          /\ \A i \in 1 .. (Len(o) + Len(r)) : (o \o r)[i] = IF i <= Len(o) THEN o[i] ELSE r[i - Len(o)]
      <3>1. o \in Seq(S) /\ r \in Seq(S) /\ Len(r) \in Nat
        BY <1>1
      <3> QED
        BY <3>1, ConcatProperties, Zenon
    <2> QED
      BY <1>1, <2>1, Zenon
  <1>3. ASSUME NEW i \in 1 .. Len(r) PROVE (o \o r)[i + 1] = r[i]
    <2>1. i + 1 \in 1 .. (1 + Len(r)) /\ ~(i + 1 <= 1) /\ (i + 1) - 1 = i
      BY <1>2
    <2> QED
      BY <1>2, <2>1
  <1>4. (o \o r)[1] = x
    BY <1>1, <1>2
  <1> QED
    BY <1>2, <1>3, <1>4 DEF o

\* The same for two.
LEMMA TwoInFront ==
    ASSUME NEW S, NEW r \in Seq(S), NEW x \in S, NEW y \in S
    PROVE  /\ <<x, y>> \o r \in Seq(S) /\ Len(<<x, y>> \o r) = Len(r) + 2 /\ Len(r) \in Nat
           /\ (<<x, y>> \o r)[1] = x /\ (<<x, y>> \o r)[2] = y
           /\ \A i \in 1 .. Len(r) : (<<x, y>> \o r)[i + 2] = r[i]
  <1> DEFINE o == <<x, y>>
  <1>1. o \in Seq(S) /\ Len(o) = 2 /\ o[1] = x /\ o[2] = y
    OBVIOUS
  <1> HIDE DEF o
  <1>2. /\ o \o r \in Seq(S) /\ Len(o \o r) = 2 + Len(r) /\ Len(r) \in Nat
        /\ \A i \in 1 .. (2 + Len(r)) : (o \o r)[i] = IF i <= 2 THEN o[i] ELSE r[i - 2]
    <2>1. /\ o \o r \in Seq(S) /\ Len(o \o r) = Len(o) + Len(r) /\ Len(r) \in Nat
          /\ \A i \in 1 .. (Len(o) + Len(r)) : (o \o r)[i] = IF i <= Len(o) THEN o[i] ELSE r[i - Len(o)]
      <3>1. o \in Seq(S) /\ r \in Seq(S) /\ Len(r) \in Nat
        BY <1>1
      <3> QED
        BY <3>1, ConcatProperties, Zenon
    <2> QED
      BY <1>1, <2>1, Zenon
  <1>3. ASSUME NEW i \in 1 .. Len(r) PROVE (o \o r)[i + 2] = r[i]
    <2>1. i + 2 \in 1 .. (2 + Len(r)) /\ ~(i + 2 <= 2) /\ (i + 2) - 2 = i
      BY <1>2
    <2> QED
      BY <1>2, <2>1
  <1>4. (o \o r)[1] = x /\ (o \o r)[2] = y
    BY <1>1, <1>2
  <1> QED
    BY <1>2, <1>3, <1>4 DEF o

\* The tail of a list of elements of S.
LEMMA TailOf ==
    ASSUME NEW s, IsList(s), s # <<>>, NEW X
    PROVE  \E T : /\ X \subseteq T /\ s \in Seq(T) /\ Tail(s) \in Seq(T)
                  /\ Len(Tail(s)) = Len(s) - 1 /\ Len(s) \in Nat \ {0} /\ Head(s) = s[1]
                  /\ DOMAIN s = 1 .. Len(s)
                  /\ \A i \in 1 .. (Len(s) - 1) : Tail(s)[i] = s[i + 1]
  <1> DEFINE S == {s[i] : i \in DOMAIN s}
             T == S \cup X
  <1>0. s \in Seq(S)
    BY DEF IsList
  <1> HIDE DEF S
  <1>1. s \in Seq(T) /\ X \subseteq T
    BY <1>0
  <1> HIDE DEF T
  <1>2. /\ Tail(s) \in Seq(T) /\ Len(Tail(s)) = Len(s) - 1 /\ Len(s) \in Nat \ {0} /\ Head(s) = s[1]
        /\ \A i \in 1 .. Len(Tail(s)) : Tail(s)[i] = s[i + 1]
    BY <1>1, HeadTailProperties, EmptySeq
  <1> QED
    BY <1>1, <1>2

\* The innermost call is replaced.
Replaced(s, t, x) ==
    /\ IsList(t) /\ t # <<>> /\ Len(t) = Len(s) /\ Len(s) \in Nat \ {0}
    /\ DOMAIN t = 1 .. Len(s) /\ DOMAIN s = 1 .. Len(s)
    /\ Head(s) = s[1] /\ t[1] = x
    /\ \A i \in 2 .. Len(s) : t[i] = s[i]

\* That is what the parser does when it goes on in the same list.
LEMMA ReplaceTop ==
    ASSUME NEW s, IsList(s), s # <<>>, NEW x
    PROVE  Replaced(s, <<x>> \o Tail(s), x)
  <1> DEFINE t == <<x>> \o Tail(s)
  <1>1. PICK T : /\ {x} \subseteq T /\ s \in Seq(T) /\ Tail(s) \in Seq(T)
                 /\ Len(Tail(s)) = Len(s) - 1 /\ Len(s) \in Nat \ {0} /\ Head(s) = s[1]
                 /\ DOMAIN s = 1 .. Len(s)
                 /\ \A i \in 1 .. (Len(s) - 1) : Tail(s)[i] = s[i + 1]
    BY TailOf
  <1> DEFINE r == Tail(s)
  <1> HIDE DEF r
  <1>2. r \in Seq(T) /\ x \in T
    BY <1>1 DEF r
  <1>3. /\ <<x>> \o r \in Seq(T) /\ Len(<<x>> \o r) = Len(r) + 1 /\ Len(r) \in Nat
        /\ (<<x>> \o r)[1] = x
        /\ \A i \in 1 .. Len(r) : (<<x>> \o r)[i + 1] = r[i]
    BY <1>2, InFront
  <1>4. /\ t \in Seq(T) /\ Len(t) = Len(r) + 1 /\ t[1] = x
        /\ \A i \in 1 .. Len(r) : t[i + 1] = r[i]
    BY <1>3, Zenon DEF r
  <1> HIDE DEF t
  <1>5. Len(r) = Len(s) - 1 /\ \A i \in 1 .. Len(r) : r[i] = s[i + 1]
    BY <1>1 DEF r
  <1>6. Len(t) = Len(s) /\ IsList(t) /\ t # <<>> /\ DOMAIN t = 1 .. Len(s)
    <2>1. Len(t) = Len(s) /\ Len(t) # 0
      BY <1>1, <1>4, <1>5
    <2>2. IsList(t) /\ DOMAIN t = 1 .. Len(t) /\ (Len(t) # 0 => t # <<>>)
      BY <1>4, SeqIsList, SeqNotEmpty, Zenon
    <2> QED
      BY <2>1, <2>2, Zenon
  <1>7. ASSUME NEW i \in 2 .. Len(s) PROVE t[i] = s[i]
    <2> DEFINE k == i - 1
    <2>1. k \in 1 .. Len(r) /\ k + 1 = i
      BY <1>1, <1>5
    <2> HIDE DEF k
    <2> QED
      BY <1>4, <1>5, <2>1
  <1>8. Replaced(s, t, x)
    BY <1>1, <1>4, <1>6, <1>7 DEF Replaced
  <1> QED
    BY <1>8 DEF t

\* A call is made: the innermost one is replaced by itself and the new one.
Pushed(s, t, x, y) ==
    /\ IsList(t) /\ t # <<>> /\ Len(t) = Len(s) + 1 /\ Len(s) \in Nat \ {0}
    /\ DOMAIN t = 1 .. (Len(s) + 1) /\ DOMAIN s = 1 .. Len(s)
    /\ Head(s) = s[1] /\ t[1] = x /\ t[2] = y
    /\ \A i \in 2 .. Len(s) : t[i + 1] = s[i]

\* That is what parseForEachRule does before it calls parseRules.
LEMMA PushCall ==
    ASSUME NEW s, IsList(s), s # <<>>, NEW x, NEW y
    PROVE  Pushed(s, <<x, y>> \o Tail(s), x, y)
  <1> DEFINE t == <<x, y>> \o Tail(s)
  <1>1. PICK T : /\ {x, y} \subseteq T /\ s \in Seq(T) /\ Tail(s) \in Seq(T)
                 /\ Len(Tail(s)) = Len(s) - 1 /\ Len(s) \in Nat \ {0} /\ Head(s) = s[1]
                 /\ DOMAIN s = 1 .. Len(s)
                 /\ \A i \in 1 .. (Len(s) - 1) : Tail(s)[i] = s[i + 1]
    BY TailOf
  <1> DEFINE r == Tail(s)
  <1> HIDE DEF r
  <1>2. r \in Seq(T) /\ x \in T /\ y \in T
    BY <1>1 DEF r
  <1>3. /\ <<x, y>> \o r \in Seq(T) /\ Len(<<x, y>> \o r) = Len(r) + 2 /\ Len(r) \in Nat
        /\ (<<x, y>> \o r)[1] = x /\ (<<x, y>> \o r)[2] = y
        /\ \A i \in 1 .. Len(r) : (<<x, y>> \o r)[i + 2] = r[i]
    BY <1>2, TwoInFront
  <1>4. /\ t \in Seq(T) /\ Len(t) = Len(r) + 2 /\ t[1] = x /\ t[2] = y
        /\ \A i \in 1 .. Len(r) : t[i + 2] = r[i]
    BY <1>3, Zenon DEF r
  <1> HIDE DEF t
  <1>5. Len(r) = Len(s) - 1 /\ \A i \in 1 .. Len(r) : r[i] = s[i + 1]
    BY <1>1 DEF r
  <1>6. Len(t) = Len(s) + 1 /\ IsList(t) /\ t # <<>> /\ DOMAIN t = 1 .. (Len(s) + 1)
    <2>1. Len(t) = Len(s) + 1 /\ Len(t) # 0
      BY <1>1, <1>4, <1>5
    <2>2. IsList(t) /\ DOMAIN t = 1 .. Len(t) /\ (Len(t) # 0 => t # <<>>)
      BY <1>4, SeqIsList, SeqNotEmpty, Zenon
    <2> QED
      BY <2>1, <2>2, Zenon
  <1>7. ASSUME NEW i \in 2 .. Len(s) PROVE t[i + 1] = s[i]
    <2> DEFINE k == i - 1
    <2>1. k \in 1 .. Len(r) /\ k + 1 = i /\ k + 2 = i + 1
      BY <1>1, <1>5
    <2> HIDE DEF k
    <2> QED
      BY <1>4, <1>5, <2>1
  <1>8. Pushed(s, t, x, y)
    BY <1>1, <1>4, <1>6, <1>7 DEF Pushed
  <1> QED
    BY <1>8 DEF t

\* A call returns: it goes, and the one around it is replaced.
Popped(s, t, x) ==
    /\ IsList(t) /\ t # <<>> /\ Len(t) = Len(s) - 1 /\ Len(s) \in Nat \ {0}
    /\ DOMAIN t = 1 .. (Len(s) - 1) /\ DOMAIN s = 1 .. Len(s)
    /\ t[1] = x
    /\ \A i \in 2 .. (Len(s) - 1) : t[i] = s[i + 1]

\* That is what it does after the call.
LEMMA PopCall ==
    ASSUME NEW s, IsList(s), Len(s) > 1, NEW x
    PROVE  Popped(s, <<x>> \o SubSeq(s, 3, Len(s)), x)
  <1> DEFINE t == <<x>> \o SubSeq(s, 3, Len(s))
  <1> DEFINE S == {s[i] : i \in DOMAIN s}
             T == S \cup {x}
             r == SubSeq(s, 3, Len(s))
  <1>0. s \in Seq(S)
    BY DEF IsList
  <1> HIDE DEF S
  <1>1. s \in Seq(T) /\ x \in T /\ Len(s) \in Nat /\ DOMAIN s = 1 .. Len(s)
    BY <1>0
  <1> HIDE DEF T
  <1>2. r \in Seq(T) /\ Len(r) = Len(s) - 2 /\ \A i \in 1 .. (Len(s) - 2) : r[i] = s[i + 2]
    BY <1>1
  <1> HIDE DEF r
  <1>3. /\ <<x>> \o r \in Seq(T) /\ Len(<<x>> \o r) = Len(r) + 1 /\ Len(r) \in Nat
        /\ (<<x>> \o r)[1] = x
        /\ \A i \in 1 .. Len(r) : (<<x>> \o r)[i + 1] = r[i]
    <2>1. r \in Seq(T) /\ x \in T
      BY <1>1, <1>2
    <2> QED
      BY <2>1, InFront
  <1>4. /\ t \in Seq(T) /\ Len(t) = Len(r) + 1 /\ t[1] = x
        /\ \A i \in 1 .. Len(r) : t[i + 1] = r[i]
    BY <1>3, Zenon DEF r
  <1> HIDE DEF t
  <1>6. Len(t) = Len(s) - 1 /\ IsList(t) /\ t # <<>> /\ DOMAIN t = 1 .. (Len(s) - 1)
    <2>1. Len(t) = Len(s) - 1 /\ Len(t) # 0
      BY <1>1, <1>2, <1>4
    <2>2. IsList(t) /\ DOMAIN t = 1 .. Len(t) /\ (Len(t) # 0 => t # <<>>)
      BY <1>4, SeqIsList, SeqNotEmpty, Zenon
    <2> QED
      BY <2>1, <2>2, Zenon
  <1>7. ASSUME NEW i \in 2 .. (Len(s) - 1) PROVE t[i] = s[i + 1]
    <2> DEFINE k == i - 1
    <2>1. k \in 1 .. Len(r) /\ k \in 1 .. (Len(s) - 2) /\ k + 1 = i /\ k + 2 = i + 1
      BY <1>1, <1>2
    <2> HIDE DEF k
    <2> QED
      BY <1>2, <1>4, <2>1
  <1>8. Len(s) \in Nat \ {0}
    BY <1>1
  <1>9. Popped(s, t, x)
    BY <1>1, <1>4, <1>6, <1>7, <1>8, Zenon DEF Popped
  <1> QED
    BY <1>9 DEF t

-----------------------------------------------------------------------------
\* The inductive invariant holds initially.
LEMMA InitIInv == Init => IInv
  BY DEF Init, IInv, Calls, AliasesNeverLeak, AcceptedWhole, Invalid

\* The innermost call goes on, with the rule it has made, or without any.
LEMMA GoesOn ==
    ASSUME IInv, pc = "parseRules", top.rest # <<>>,
           (\E rule : push_back(rule)) \/ returnNothing,
           UNCHANGED <<jsonObject, pc, maps, gameData>>
    PROVE  IInv'
  <1> USE DEF IInv
  <1>0. IsList(stack) /\ stack # <<>> /\ TopLevelCall
    BY DEF Calls
  <1>1. PICK rest, rules :
          /\ stack' = <<call(top.rule, rest, rules)>> \o Tail(stack)
          /\ \/ rest = Tail(top.rest) /\ \E rule : rules = Append(top.rules, rule)
             \/ rest = <<>> /\ rules = <<>>
          /\ activeScopedVariableAliases' = activeScopedVariableAliases
    BY DEF push_back, returnNothing
  <1> DEFINE x == call(top.rule, rest, rules)
  <1>2. x.rule = top.rule /\ x.rest = rest /\ x.rules = rules
    BY DEF call
  <1> HIDE DEF x
  <1>3. /\ IsList(stack') /\ stack' # <<>> /\ Len(stack') = Len(stack) /\ Len(stack) \in Nat \ {0}
        /\ DOMAIN stack' = 1 .. Len(stack) /\ DOMAIN stack = 1 .. Len(stack)
        /\ Head(stack) = stack[1] /\ stack'[1] = x
        /\ \A i \in 2 .. Len(stack) : stack'[i] = stack[i]
    <2>1. stack' = <<x>> \o Tail(stack)
      BY <1>1 DEF x
    <2>2. Replaced(stack, stack', x)
      BY <1>0, <2>1, ReplaceTop, Zenon
    <2> QED
      BY <2>2, Zenon DEF Replaced
  <1>4. \A i \in DOMAIN stack : stack'[i].rule = stack[i].rule
    BY <1>2, <1>3 DEF top
  <1>5. Enclosing' = Enclosing
    BY <1>3, <1>4 DEF Enclosing
  <1>6. /\ AliasesNeverLeak' /\ AcceptedWhole' /\ variableMap' \in {{}, jsonObject'.variables.names}
        /\ perPlayerVariableMap' \in {{}, jsonObject'.perPlayer.names}
    BY <1>1, <1>5 DEF AliasesNeverLeak, AcceptedWhole, maps
  <1>7. TopLevelCall'
    <2>1. CASE Len(stack) = 1
      <3>1. bottom = top /\ bottom' = x /\ Len(stack') = 1
        BY <1>3, <2>1 DEF bottom, top
      <3>2. bottom'.rule = toplevel /\ bottom'.rest = rest /\ bottom'.rules = rules
        BY <1>0, <1>2, <3>1 DEF TopLevelCall
      <3>3. CASE rest = <<>> /\ rules = <<>>
        <4>1. IsList(<<>>)
          BY DEF IsList
        <4> QED
          BY <3>1, <3>2, <3>3, <4>1, Zenon DEF TopLevelCall
      <3>4. CASE rest = Tail(top.rest) /\ \E rule : rules = Append(top.rules, rule)
        <4>1. IsList(top.rest) /\ IsList(top.rules) /\ Accounts(top.rules, top.rest, 0, Len(jsonObject.rules))
          BY <1>0, <2>1, <3>1, Zenon DEF TopLevelCall
        <4>2. IsList(rest)
          BY <3>4, <4>1, TailList, Zenon
        <4>3. IsList(rules)
          BY <3>4, <4>1, AppendList, Zenon
        <4>4. Accounts(rules, rest, 0, Len(jsonObject.rules))
          BY <3>4, <4>1, TakeAndMake, Zenon
        <4>5. Len(jsonObject'.rules) = Len(jsonObject.rules)
          OBVIOUS
        <4> QED
          BY <3>1, <3>2, <4>2, <4>3, <4>4, <4>5, Zenon DEF TopLevelCall
      <3> QED
        BY <1>1, <3>3, <3>4
    <2>2. CASE Len(stack) # 1
      <3>1. bottom' = bottom
        BY <1>3, <2>2 DEF bottom
      <3> QED
        BY <1>0, <1>3, <3>1 DEF TopLevelCall
    <2> QED
      BY <2>1, <2>2
  <1> QED
    BY <1>3, <1>6, <1>7 DEF Calls

\* parseForEachRule parses the rules of a for-each rule.
LEMMA ForEachStep ==
    ASSUME IInv, parseForEachRule
    PROVE  IInv'
  <1> USE DEF IInv
  <1>1. CASE ruleJson.shape # "ok" \/ ruleJson.list # "players"
    BY <1>1, GoesOn DEF parseForEachRule, Parsing
  <1>2. CASE ~(ruleJson.shape # "ok" \/ ruleJson.list # "players")
    <2>0. /\ pc = "parseRules" /\ top.rest # <<>> /\ ruleJson.rule = "foreach"
          /\ IsList(stack) /\ stack # <<>> /\ TopLevelCall
      BY DEF parseForEachRule, Parsing, Calls
    <2> DEFINE x == call(ruleJson, ruleJson.rules, <<>>)
               y == call(top.rule, Tail(top.rest), top.rules)
    <2>1. /\ stack' = <<x, y>> \o Tail(stack)
          /\ activeScopedVariableAliases' = activeScopedVariableAliases \cup {ruleJson.element}
          /\ UNCHANGED <<jsonObject, pc, maps, gameData>>
      BY <1>2 DEF parseForEachRule
    <2>2. x.rule = ruleJson /\ y.rule = top.rule /\ y.rest = Tail(top.rest) /\ y.rules = top.rules
      BY DEF call
    <2> HIDE DEF x, y
    <2>3. /\ IsList(stack') /\ stack' # <<>> /\ Len(stack') = Len(stack) + 1 /\ Len(stack) \in Nat \ {0}
          /\ DOMAIN stack' = 1 .. (Len(stack) + 1) /\ DOMAIN stack = 1 .. Len(stack)
          /\ Head(stack) = stack[1] /\ stack'[1] = x /\ stack'[2] = y
          /\ \A i \in 2 .. Len(stack) : stack'[i + 1] = stack[i]
      <3>1. Pushed(stack, stack', x, y)
        BY <2>0, <2>1, PushCall, Zenon
      <3> QED
        BY <3>1, Zenon DEF Pushed
    <2>4. \A i \in DOMAIN stack : i + 1 \in DOMAIN stack' /\ stack'[i + 1].rule = stack[i].rule
      <3> SUFFICES ASSUME NEW i \in 1 .. Len(stack)
                   PROVE  i + 1 \in DOMAIN stack' /\ stack'[i + 1].rule = stack[i].rule
        BY <2>3
      <3>1. CASE i = 1
        BY <2>2, <2>3, <3>1 DEF top
      <3>2. CASE i # 1
        BY <2>3, <3>2
      <3> QED
        BY <3>1, <3>2
    <2>5. Enclosing \cup {ruleJson.element} \subseteq Enclosing'
      <3>1. Enclosing \subseteq Enclosing'
        BY <2>4 DEF Enclosing
      <3>2. 1 \in DOMAIN stack' /\ stack'[1].rule.rule = "foreach" /\ stack'[1].rule.element = ruleJson.element
        BY <2>0, <2>2, <2>3
      <3>3. ruleJson.element \in Enclosing'
        BY <3>2 DEF Enclosing
      <3> QED
        BY <3>1, <3>3
    <2>6. /\ AliasesNeverLeak' /\ AcceptedWhole' /\ variableMap' \in {{}, jsonObject'.variables.names}
        /\ perPlayerVariableMap' \in {{}, jsonObject'.perPlayer.names}
      BY <2>0, <2>1, <2>5 DEF AliasesNeverLeak, AcceptedWhole, maps
    <2>7. TopLevelCall'
      <3>1. CASE Len(stack) = 1
        <4>1. bottom = top /\ bottom' = y /\ Len(stack') = 2
          BY <2>3, <3>1 DEF bottom, top
        <4>2. IsList(top.rest) /\ IsList(top.rules) /\ Accounts(top.rules, top.rest, 0, Len(jsonObject.rules))
          BY <2>0, <3>1, <4>1, Zenon DEF TopLevelCall
        <4>3. IsList(Tail(top.rest))
          BY <2>0, <4>2, TailList, Zenon
        <4>4. Accounts(top.rules, Tail(top.rest), 1, Len(jsonObject.rules))
          BY <2>0, <4>2, TakeAndMake, Zenon
        <4>5. top.rule = toplevel /\ jsonObject' = jsonObject /\ Len(stack') # 1
          BY <2>0, <2>1, <4>1 DEF TopLevelCall
        <4> QED
          BY <2>2, <4>1, <4>2, <4>3, <4>4, <4>5, Zenon DEF TopLevelCall
      <3>2. CASE Len(stack) # 1
        <4>1. bottom' = bottom /\ Len(stack') # 1
          BY <2>3, <3>2 DEF bottom
        <4> QED
          BY <2>0, <2>1, <3>2, <4>1, Zenon DEF TopLevelCall
      <3> QED
        BY <3>1, <3>2
    <2> QED
      BY <2>0, <2>1, <2>3, <2>6, <2>7 DEF Calls
  <1> QED
    BY <1>1, <1>2

\* The rest of parseForEachRule: its element is no alias any more.
LEMMA EndForEachStep ==
    ASSUME IInv, endForEach
    PROVE  IInv'
  <1> USE DEF IInv
  <1> DEFINE outer == stack[2]
             made == [type |-> "foreach", list |-> top.rule.list, elem |-> top.rule.element, body |-> top.rules]
             x == call(outer.rule, outer.rest, Append(outer.rules, made))
  <1>0. /\ pc = "parseRules" /\ Len(stack) > 1
        /\ IsList(stack) /\ stack # <<>> /\ TopLevelCall
    BY DEF endForEach, Calls
  <1>1. /\ stack' = <<x>> \o SubSeq(stack, 3, Len(stack))
        /\ activeScopedVariableAliases' = activeScopedVariableAliases \ {top.rule.element}
        /\ UNCHANGED <<jsonObject, pc, maps, gameData>>
    BY DEF endForEach, erase
  <1>2. x.rule = outer.rule /\ x.rest = outer.rest /\ x.rules = Append(outer.rules, made)
    BY DEF call
  <1> HIDE DEF x, made
  <1>3. /\ IsList(stack') /\ stack' # <<>> /\ Len(stack') = Len(stack) - 1 /\ Len(stack) \in Nat \ {0}
        /\ DOMAIN stack' = 1 .. (Len(stack) - 1) /\ DOMAIN stack = 1 .. Len(stack)
        /\ stack'[1] = x
        /\ \A i \in 2 .. (Len(stack) - 1) : stack'[i] = stack[i + 1]
    <2>1. Popped(stack, stack', x)
      BY <1>0, <1>1, PopCall, Zenon
    <2> QED
      BY <2>1, Zenon DEF Popped
  <1>4. ASSUME NEW i \in DOMAIN stack, i # 1
        PROVE  \E k \in DOMAIN stack' : stack'[k].rule = stack[i].rule
    <2> DEFINE k == i - 1
    <2>1. k \in DOMAIN stack' /\ k + 1 = i /\ (k = 1 \/ k \in 2 .. (Len(stack) - 1))
      BY <1>0, <1>3, <1>4
    <2> HIDE DEF k
    <2>2. CASE k = 1
      BY <1>2, <1>3, <2>1, <2>2
    <2>3. CASE k # 1
      BY <1>3, <2>1, <2>3
    <2> QED
      BY <2>2, <2>3
  <1>5. Enclosing \subseteq Enclosing' \cup {top.rule.element}
    <2> SUFFICES ASSUME NEW i \in DOMAIN stack, stack[i].rule.rule = "foreach"
                 PROVE  stack[i].rule.element \in Enclosing' \cup {top.rule.element}
      BY DEF Enclosing
    <2>1. CASE i = 1
      <3>1. Head(stack) = stack[1]
        BY <1>0 DEF IsList
      <3> QED
        BY <2>1, <3>1 DEF top
    <2>2. CASE i # 1
      BY <1>4, <2>2 DEF Enclosing
    <2> QED
      BY <2>1, <2>2
  <1>6. /\ AliasesNeverLeak' /\ AcceptedWhole' /\ variableMap' \in {{}, jsonObject'.variables.names}
        /\ perPlayerVariableMap' \in {{}, jsonObject'.perPlayer.names}
    BY <1>0, <1>1, <1>5 DEF AliasesNeverLeak, AcceptedWhole, maps
  <1>7. TopLevelCall'
    <2>1. /\ bottom.rule = toplevel /\ IsList(bottom.rest) /\ IsList(bottom.rules)
          /\ Accounts(bottom.rules, bottom.rest, 1, Len(jsonObject.rules)) /\ jsonObject' = jsonObject
      BY <1>0, <1>1 DEF TopLevelCall
    <2>2. CASE Len(stack) = 2
      <3>1. bottom = outer /\ bottom' = x /\ Len(stack') = 1
        BY <1>3, <2>2 DEF bottom
      <3>2. IsList(x.rules) /\ Accounts(x.rules, x.rest, 0, Len(jsonObject.rules))
        BY <1>2, <2>1, <3>1, AppendList, TakeAndMake, Zenon
      <3> QED
        BY <1>2, <2>1, <3>1, <3>2, Zenon DEF TopLevelCall
    <2>3. CASE Len(stack) # 2
      <3>1. bottom' = bottom /\ Len(stack') # 1
        BY <1>0, <1>3, <2>3 DEF bottom
      <3> QED
        BY <2>1, <3>1, Zenon DEF TopLevelCall
    <2> QED
      BY <2>2, <2>3
  <1> QED
    BY <1>0, <1>1, <1>3, <1>6, <1>7 DEF Calls

\* Every step of the parser keeps the inductive invariant.
LEMMA StepIInv == IInv /\ [Next]_vars => IInv'
  <1> SUFFICES ASSUME IInv, [Next]_vars PROVE IInv'
    OBVIOUS
  <1>1. CASE parseJson
    BY <1>1 DEF parseJson, IInv, Calls, AliasesNeverLeak, AcceptedWhole, Enclosing, maps
  <1>2. CASE parseBothVariables
    <2> DEFINE x == call(toplevel, jsonObject.rules, <<>>)
    <2>0. /\ stack' = <<x>> /\ pc' = "parseRules" /\ stack = <<>> /\ activeScopedVariableAliases = {}
          /\ UNCHANGED <<jsonObject, activeScopedVariableAliases, gameData>>
          /\ variableMap' = parseVariables(jsonObject.variables)
          /\ perPlayerVariableMap' = parseVariables(jsonObject.perPlayer)
      BY <1>2 DEF parseBothVariables, IInv, Calls
    <2>1. x.rule = toplevel /\ x.rest = jsonObject.rules /\ x.rules = <<>>
      BY DEF call
    <2> HIDE DEF x
    <2>2. Len(stack') = 1 /\ stack'[1] = x /\ stack' # <<>> /\ IsList(stack') /\ bottom' = x
      BY <2>0 DEF bottom, IsList
    <2>3. IsList(jsonObject.rules) /\ IsList(<<>>)
      BY GameSpecsAssumption DEF IInv, IsList
    <2>4. Accounts(<<>>, jsonObject.rules, 0, Len(jsonObject.rules))
      BY <2>3 DEF Accounts, IsList
    <2>5. TopLevelCall'
      BY <2>0, <2>1, <2>2, <2>3, <2>4, Zenon DEF TopLevelCall
    <2>6. AliasesNeverLeak' /\ AcceptedWhole'
      BY <2>0 DEF IInv, AliasesNeverLeak, AcceptedWhole
    <2>7. /\ variableMap' \in {{}, jsonObject'.variables.names} /\ jsonObject' \in GameSpecs
          /\ perPlayerVariableMap' \in {{}, jsonObject'.perPlayer.names}
      BY <2>0 DEF IInv, parseVariables
    <2> QED
      BY <2>0, <2>2, <2>5, <2>6, <2>7 DEF IInv, Calls
  <1>3. CASE parseAddRule
    BY <1>3, GoesOn DEF parseAddRule, Parsing
  <1>4. CASE parseGlobalMessageRule
    BY <1>4, GoesOn DEF parseGlobalMessageRule, Parsing
  <1>5. CASE parseInputTextRule
    BY <1>5, GoesOn DEF parseInputTextRule, Parsing
  <1>6. CASE parseOtherRule
    BY <1>6, GoesOn DEF parseOtherRule, Parsing
  <1>7. CASE parseForEachRule
    BY <1>7, ForEachStep
  <1>8. CASE endForEach
    BY <1>8, EndForEachStep
  <1>9. CASE returnGameData
    <2>0. /\ pc = "parseRules" /\ pc' = "done" /\ top.rest = <<>> /\ Len(stack) = 1
          /\ IsList(stack) /\ stack # <<>> /\ TopLevelCall
          /\ UNCHANGED <<jsonObject, variableMap, perPlayerVariableMap, activeScopedVariableAliases, stack>>
      BY <1>9 DEF returnGameData, IInv, Calls, maps
    <2>1. bottom = stack[1] /\ top = stack[1] /\ DOMAIN stack = {1}
      BY <2>0 DEF bottom, top, IsList
    <2>2. Enclosing = {} /\ Enclosing' = {}
      BY <2>0, <2>1 DEF Enclosing, TopLevelCall, toplevel
    <2>3. AliasesNeverLeak'
      BY <2>0, <2>2 DEF IInv, AliasesNeverLeak
    <2>4. AcceptedWhole'
      <3>1. CASE variableMap = {} \/ top.rules = <<>>
        BY <1>9, <3>1 DEF returnGameData, AcceptedWhole, Invalid
      <3>2. CASE ~(variableMap = {} \/ top.rules = <<>>)
        <4>1. /\ gameData'.topLevelRules = top.rules /\ gameData'.variableMap = variableMap
              /\ gameData'.perPlayerVariableMap = perPlayerVariableMap
          BY <1>9, <3>2 DEF returnGameData
        <4>2. Accounts(top.rules, <<>>, 0, Len(jsonObject.rules)) /\ IsList(top.rules)
          BY <2>0, <2>1, <3>2, Zenon DEF TopLevelCall
        <4>3. Len(top.rules) = Len(jsonObject.rules)
          <5>1. Len(top.rules) \in Nat /\ Len(<<>>) = 0
            BY <4>2 DEF IsList
          <5>2. \A n \in Nat : n + 0 + 0 = n
            OBVIOUS
          <5> QED
            BY <4>2, <5>1, <5>2, Zenon DEF Accounts
        <4>4. variableMap = jsonObject.variables.names /\ perPlayerVariableMap \in {{}, jsonObject.perPlayer.names}
          BY <3>2 DEF IInv
        <4> QED
          BY <2>0, <4>1, <4>3, <4>4, Zenon DEF AcceptedWhole
      <3> QED
        BY <3>1, <3>2
    <2> QED
      BY <2>0, <2>3, <2>4 DEF IInv, Calls
  <1>10. CASE UNCHANGED vars
    BY <1>10, Zenon DEF vars, maps, IInv, Calls, TopLevelCall, bottom, AliasesNeverLeak, Enclosing, AcceptedWhole
  <1> QED
    BY <1>1, <1>2, <1>3, <1>4, <1>5, <1>6, <1>7, <1>8, <1>9, <1>10 DEF Next, Done

\* The inductive invariant holds in every reachable state.
THEOREM Invariance == Spec => []IInv
  BY InitIInv, StepIInv, PTL DEF Spec

\* RuleParser::parseForEachRule takes back every alias it makes, for game files
\* nested to any depth and with any rules that cannot be parsed in them.
THEOREM NoAliasLeaks == Spec => []AliasesNeverLeak
  <1>1. IInv => AliasesNeverLeak
    BY DEF IInv
  <1> QED
    BY <1>1, Invariance, PTL

\* parseJsonFile_gameSpec never accepts a file with only some of its top level
\* rules, or of its variables.
THEOREM AcceptedAsAWhole == Spec => []AcceptedWhole
  <1>1. IInv => AcceptedWhole
    BY DEF IInv
  <1> QED
    BY <1>1, Invariance, PTL

-----------------------------------------------------------------------------
(***************************************************************************)
(* Names.                                                                  *)
(***************************************************************************)

\* The order of the natural numbers.
Less == {ss \in Nat \X Nat : ss[1] < ss[2]}

\* A set of numbers has a smallest one.
LEMMA Smallest ==
    ASSUME NEW T, T \subseteq Nat, T # {}
    PROVE  \E n \in T : \A k \in T : ~(k < n)
  <1>1. IsWellFoundedOn(Less, Nat)
    BY NatLessThanWellFounded, Zenon DEF OpToRel, Less
  <1>2. PICK n \in T : \A k \in T : ~(<<k, n>> \in Less)
    BY <1>1, WFMin
  <1> QED
    BY <1>2 DEF Less

\* Running n sequences together, f[i] being the first i of them.
RunsTogether(f, seqs, n) == f = [i \in 1 .. n |-> IF i = 1 THEN seqs[i] ELSE f[i - 1] \o seqs[i]]

\* There is one way to do that.
LEMMA RunsTogetherOnce ==
    ASSUME NEW seqs, NEW n \in Nat \ {0}, NEW f, RunsTogether(f, seqs, n), NEW g, RunsTogether(g, seqs, n)
    PROVE  f[n] = g[n]
  <1> DEFINE T == {i \in 1 .. n : f[i] # g[i]}
  <1> SUFFICES ASSUME f[n] # g[n] PROVE FALSE
    OBVIOUS
  <1>1. T \subseteq Nat /\ n \in T
    OBVIOUS
  <1>2. PICK i \in T : \A k \in T : ~(k < i)
    <2> HIDE DEF T
    <2> QED
      BY <1>1, Smallest
  <1>3. /\ f[i] = IF i = 1 THEN seqs[i] ELSE f[i - 1] \o seqs[i]
        /\ g[i] = IF i = 1 THEN seqs[i] ELSE g[i - 1] \o seqs[i]
    <2>1. i \in 1 .. n
      OBVIOUS
    <2> QED
      BY <2>1, Zenon DEF RunsTogether
  <1>4. i # 1
    BY <1>2, <1>3
  <1>5. i - 1 \in 1 .. n /\ i - 1 < i
    BY <1>2, <1>4
  <1>6. f[i - 1] = g[i - 1]
    BY <1>2, <1>5
  <1> QED
    BY <1>2, <1>3, <1>6

\* FlattenSeq does it.
LEMMA Flattened ==
    ASSUME NEW seqs, NEW n \in Nat \ {0}, Len(seqs) = n, NEW f, RunsTogether(f, seqs, n)
    PROVE  FlattenSeq(seqs) = f[n]
  <1> DEFINE g == CHOOSE g : g = [i \in 1 .. Len(seqs) |-> IF i = 1 THEN seqs[i] ELSE g[i - 1] \o seqs[i]]
  <1>1. FlattenSeq(seqs) = g[n]
    BY DEF FlattenSeq
  <1>2. RunsTogether(g, seqs, n)
    <2>1. \E h : h = [i \in 1 .. Len(seqs) |-> IF i = 1 THEN seqs[i] ELSE h[i - 1] \o seqs[i]]
      BY Zenon DEF RunsTogether
    <2> QED
      BY <2>1, Zenon DEF RunsTogether
  <1> HIDE DEF g
  <1> QED
    BY <1>1, <1>2, RunsTogetherOnce

\* The beginnings of a sequence.
LEMMA Beginnings ==
    ASSUME NEW S, NEW s \in Seq(S), s # <<>>
    PROVE  /\ SubSeq(s, 1, 1) = <<s[1]>> /\ SubSeq(s, 1, Len(s)) = s
           /\ \A i \in 2 .. Len(s) :
                 /\ SubSeq(s, 1, i) = SubSeq(s, 1, i - 1) \o <<s[i]>>
                 /\ SubSeq(s, 1, i - 1) \in Seq(S) /\ <<s[i]>> \in Seq(S)
  <1>1. SubSeq(s, 1, 1) = <<s[1]>>
    <2> DEFINE t == SubSeq(s, 1, 1)
               u == <<s[1]>>
    <2>1. t \in Seq(S) /\ u \in Seq(S) /\ Len(t) = 1 /\ Len(u) = 1 /\ t[1] = u[1]
      OBVIOUS
    <2> HIDE DEF t, u
    <2>2. Len(t) = Len(u) /\ \A i \in 1 .. Len(t) : t[i] = u[i]
      BY <2>1
    <2>3. t = u
      BY <2>1, <2>2, SeqEqual, Zenon
    <2> QED
      BY <2>3 DEF t, u
  <1>2. SubSeq(s, 1, Len(s)) = s
    <2> DEFINE t == SubSeq(s, 1, Len(s))
    <2>1. t \in Seq(S) /\ Len(t) = Len(s) /\ \A i \in 1 .. Len(t) : t[i] = s[i]
      OBVIOUS
    <2> HIDE DEF t
    <2>2. t = s
      BY <2>1, SeqEqual, Zenon
    <2> QED
      BY <2>2 DEF t
  <1>3. ASSUME NEW i \in 2 .. Len(s)
        PROVE  /\ SubSeq(s, 1, i) = SubSeq(s, 1, i - 1) \o <<s[i]>>
               /\ SubSeq(s, 1, i - 1) \in Seq(S) /\ <<s[i]>> \in Seq(S)
    OBVIOUS
  <1> QED
    BY <1>1, <1>2, <1>3

\* The beginnings of its tail.
LEMMA TailBeginnings ==
    ASSUME NEW S, NEW s \in Seq(S), s # <<>>
    PROVE  /\ SubSeq(Tail(s), 1, 0) = <<>> /\ SubSeq(Tail(s), 1, Len(s) - 1) = Tail(s)
           /\ \A i \in 2 .. Len(s) :
                 /\ SubSeq(Tail(s), 1, i - 1) = SubSeq(Tail(s), 1, (i - 1) - 1) \o <<s[i]>>
                 /\ SubSeq(Tail(s), 1, (i - 1) - 1) \in Seq(S) /\ <<s[i]>> \in Seq(S)
  <1> DEFINE t == Tail(s)
  <1>1. /\ t \in Seq(S) /\ Len(t) = Len(s) - 1 /\ Len(s) \in Nat \ {0}
        /\ \A i \in 1 .. Len(t) : t[i] = s[i + 1]
    BY HeadTailProperties, EmptySeq
  <1> HIDE DEF t
  <1>2. SubSeq(t, 1, 0) = <<>>
    BY <1>1
  <1>3. SubSeq(t, 1, Len(s) - 1) = t
    <2> DEFINE u == SubSeq(t, 1, Len(s) - 1)
    <2>1. u \in Seq(S) /\ Len(u) = Len(t) /\ \A i \in 1 .. Len(u) : u[i] = t[i]
      BY <1>1
    <2> HIDE DEF u
    <2>2. u = t
      BY <1>1, <2>1, SeqEqual, Zenon
    <2> QED
      BY <2>2 DEF u
  <1>4. ASSUME NEW i \in 2 .. Len(s)
        PROVE  /\ SubSeq(t, 1, i - 1) = SubSeq(t, 1, (i - 1) - 1) \o <<s[i]>>
               /\ SubSeq(t, 1, (i - 1) - 1) \in Seq(S) /\ <<s[i]>> \in Seq(S)
    <2> DEFINE k == i - 1
    <2>1. k \in 1 .. Len(t) /\ k + 1 = i /\ t[k] = s[i]
      BY <1>1
    <2> HIDE DEF k
    <2>2. /\ SubSeq(t, 1, k) = SubSeq(t, 1, k - 1) \o <<t[k]>>
          /\ SubSeq(t, 1, k - 1) \in Seq(S) /\ <<t[k]>> \in Seq(S)
      BY <1>1, <2>1
    <2> QED
      BY <2>1, <2>2 DEF k
  <1> QED
    BY <1>2, <1>3, <1>4 DEF t

\* processScopedVariables goes through a name component by component; if only the
\* first can be an element, this comes to looking at the first.
LEMMA Processed ==
    ASSUME NEW name, IsList(name), name # <<>>, Clear(name, activeScopedVariableAliases)
    PROVE  processScopedVariables(name) = Meaning(name, activeScopedVariableAliases)
  <1> DEFINE n == Len(name)
             scope == activeScopedVariableAliases
             prefix == <<"players", reference(name[1])>>
             seqs == [i \in DOMAIN name |->
                         IF name[i] \in scope THEN <<"players", reference(name[i])>> ELSE <<name[i]>>]
             S == {name[i] : i \in DOMAIN name} \cup {"players", reference(name[1])}
  <1>0. name \in Seq({name[i] : i \in DOMAIN name}) /\ "players" \in S /\ reference(name[1]) \in S
    BY DEF IsList
  <1>1. /\ n \in Nat \ {0} /\ DOMAIN name = 1 .. n /\ Head(name) = name[1]
        /\ 1 \in 1 .. n /\ n \in 1 .. n /\ name \in Seq(S)
    BY <1>0
  <1>2. ASSUME NEW i \in 2 .. n PROVE seqs[i] = <<name[i]>>
    BY <1>1 DEF Clear
  <1>3. Len(seqs) = n /\ seqs[1] = IF name[1] \in scope THEN prefix ELSE <<name[1]>>
    <2>1. DOMAIN seqs = 1 .. n
      BY <1>1
    <2>2. Len(seqs) = n
      <3> HIDE DEF seqs
      <3> QED
        BY <1>1, <2>1
    <2> QED
      BY <1>1, <2>2
  <1>4. processScopedVariables(name) = FlattenSeq(seqs)
    BY DEF processScopedVariables
  <1> HIDE DEF seqs, n, S
  <1>5. SubSeq(name, 1, 1) = <<name[1]>> /\ SubSeq(name, 1, n) = name
    BY <1>1, Beginnings, Zenon DEF n
  <1>6. ASSUME NEW i \in 2 .. n
        PROVE  /\ SubSeq(name, 1, i) = SubSeq(name, 1, i - 1) \o <<name[i]>>
               /\ SubSeq(name, 1, i - 1) \in Seq(S) /\ <<name[i]>> \in Seq(S)
    BY <1>1, Beginnings, Zenon DEF n
  <1>7. CASE name[1] \in scope
    <2> DEFINE f == [i \in 1 .. n |-> prefix \o SubSeq(Tail(name), 1, i - 1)]
    <2>0. /\ SubSeq(Tail(name), 1, 0) = <<>> /\ SubSeq(Tail(name), 1, n - 1) = Tail(name)
          /\ \A i \in 2 .. n :
                /\ SubSeq(Tail(name), 1, i - 1) = SubSeq(Tail(name), 1, (i - 1) - 1) \o <<name[i]>>
                /\ SubSeq(Tail(name), 1, (i - 1) - 1) \in Seq(S) /\ <<name[i]>> \in Seq(S)
      BY <1>1, TailBeginnings, Zenon DEF n
    <2>1. prefix \in Seq(S) /\ prefix \o <<>> = prefix
      BY <1>0, ConcatEmptySeq
    <2> HIDE DEF prefix
    <2>2. ASSUME NEW i \in 1 .. n
          PROVE  f[i] = IF i = 1 THEN seqs[i] ELSE f[i - 1] \o seqs[i]
      <3>1. CASE i = 1
        BY <1>3, <1>7, <2>0, <2>1, <3>1
      <3>2. CASE i # 1
        <4>1. i \in 2 .. n /\ i - 1 \in 1 .. n
          BY <1>1, <3>2
        <4>2. prefix \o (SubSeq(Tail(name), 1, (i - 1) - 1) \o <<name[i]>>)
                 = (prefix \o SubSeq(Tail(name), 1, (i - 1) - 1)) \o <<name[i]>>
          <5> DEFINE a == SubSeq(Tail(name), 1, (i - 1) - 1)
                     b == <<name[i]>>
          <5>1. a \in Seq(S) /\ b \in Seq(S)
            BY <2>0, <4>1, Zenon
          <5> HIDE DEF a, b
          <5>2. prefix \o (a \o b) = (prefix \o a) \o b
            BY <2>1, <5>1, ConcatAssociative
          <5> QED
            BY <5>2, Zenon DEF a, b
        <4> QED
          BY <1>2, <2>0, <3>2, <4>1, <4>2
      <3> QED
        BY <3>1, <3>2
    <2>3. RunsTogether(f, seqs, n)
      BY <2>2 DEF RunsTogether
    <2>4. FlattenSeq(seqs) = f[n]
      <3> HIDE DEF f
      <3> QED
        BY <1>1, <1>3, <2>3, Flattened
    <2>5. f[n] = prefix \o Tail(name)
      <3>1. n \in 1 .. n
        BY <1>1
      <3> QED
        BY <2>0, <3>1
    <2> QED
      BY <1>1, <1>4, <1>7, <2>4, <2>5, Zenon DEF Meaning, prefix
  <1>8. CASE name[1] \notin scope
    <2> DEFINE f == [i \in 1 .. n |-> SubSeq(name, 1, i)]
    <2>2. ASSUME NEW i \in 1 .. n
          PROVE  f[i] = IF i = 1 THEN seqs[i] ELSE f[i - 1] \o seqs[i]
      <3>1. CASE i = 1
        BY <1>3, <1>5, <1>8, <3>1
      <3>2. CASE i # 1
        <4>1. i \in 2 .. n /\ i - 1 \in 1 .. n
          BY <1>1, <3>2
        <4> QED
          BY <1>2, <1>6, <3>2, <4>1
      <3> QED
        BY <3>1, <3>2
    <2>3. RunsTogether(f, seqs, n)
      BY <2>2 DEF RunsTogether
    <2>4. FlattenSeq(seqs) = f[n]
      <3> HIDE DEF f
      <3> QED
        BY <1>1, <1>3, <2>3, Flattened
    <2>5. f[n] = name
      BY <1>1, <1>5
    <2> QED
      BY <1>1, <1>4, <1>8, <2>4, <2>5, Zenon DEF Meaning
  <1> QED
    BY <1>7, <1>8

-----------------------------------------------------------------------------
(***************************************************************************)
(* What is made of well-formed lists.                                      *)
(***************************************************************************)

\* These rules and those expected of the rest are what is expected of the whole.
Made(rules, rest, scope, whole) ==
    /\ scope \in SUBSET Element
    /\ rest \in SpecLists /\ WellFormed(rest, scope)
    /\ IsList(rules)
    /\ rules \o Expected(rest, scope) = Expected(whole, scope)

\* The first rule of a well-formed list.
LEMMA FirstRule ==
    ASSUME NEW rest \in SpecLists, rest # <<>>, NEW scope \in SUBSET Element, WellFormed(rest, scope)
    PROVE  /\ WellFormedRule(Head(rest), scope)
           /\ Head(rest) \in Complete(SpecLists, {Head(rest).rule})
           /\ Tail(rest) \in SpecLists /\ WellFormed(Tail(rest), scope)
           /\ Expected(rest, scope) = <<ExpectedRule(Head(rest), scope)>> \o Expected(Tail(rest), scope)
           /\ IsList(Expected(Tail(rest), scope))
  <1>1. WellFormedRule(Head(rest), scope) /\ WellFormed(Tail(rest), scope)
    BY WellFormedAssumption, Zenon
  <1>2. Tail(rest) \in SpecLists
    BY SpecListsAssumption, Zenon
  <1>3. Expected(rest, scope) = <<ExpectedRule(Head(rest), scope)>> \o Expected(Tail(rest), scope)
    BY ExpectedAssumption, Zenon
  <1>4. IsList(Expected(Tail(rest), scope))
    BY <1>1, <1>2, ExpectedAssumption, Zenon
  <1>5. Head(rest) \in Complete(SpecLists, {Head(rest).rule})
    BY <1>1, Zenon DEF WellFormedRule, Complete, First
  <1> QED
    BY <1>1, <1>2, <1>3, <1>4, <1>5

\* Adding an element at the end of one list or in front of the next.
LEMMA Between ==
    ASSUME NEW s, IsList(s), NEW t, IsList(t), NEW x
    PROVE  Append(s, x) \o t = s \o (<<x>> \o t)
  <1> DEFINE S == {s[i] : i \in DOMAIN s}
             T == {t[i] : i \in DOMAIN t}
             U == S \cup T \cup {x}
  <1>1. s \in Seq(S) /\ t \in Seq(T)
    BY DEF IsList
  <1> HIDE DEF S, T
  <1>2. s \in Seq(U) /\ t \in Seq(U) /\ x \in U
    BY <1>1
  <1> HIDE DEF U
  <1>3. Append(s, x) = s \o <<x>> /\ <<x>> \in Seq(U)
    BY <1>2, AppendIsConcat
  <1>4. (s \o <<x>>) \o t = s \o (<<x>> \o t)
    BY <1>2, <1>3, ConcatAssociative
  <1> QED
    BY <1>3, <1>4

\* The first rule of the rest is made as expected.
LEMMA MakeFirst ==
    ASSUME NEW rules, NEW rest, NEW scope, NEW whole, Made(rules, rest, scope, whole), rest # <<>>
    PROVE  Made(Append(rules, ExpectedRule(Head(rest), scope)), Tail(rest), scope, whole)
  <1> DEFINE x == ExpectedRule(Head(rest), scope)
             e == Expected(Tail(rest), scope)
  <1>1. /\ scope \in SUBSET Element /\ rest \in SpecLists /\ WellFormed(rest, scope) /\ IsList(rules)
        /\ rules \o Expected(rest, scope) = Expected(whole, scope)
    BY DEF Made
  <1>2. Tail(rest) \in SpecLists /\ WellFormed(Tail(rest), scope) /\ Expected(rest, scope) = <<x>> \o e /\ IsList(e)
    BY <1>1, FirstRule, Zenon
  <1> HIDE DEF x, e
  <1>3. Append(rules, x) \o e = rules \o (<<x>> \o e) /\ IsList(Append(rules, x))
    <2>1. Append(rules, x) \o e = rules \o (<<x>> \o e)
      <3>1. IsList(rules) /\ IsList(e)
        BY <1>1, <1>2, Zenon
      <3> QED
        BY <3>1, Between
    <2>2. IsList(Append(rules, x))
      BY <1>1, AppendList, Zenon
    <2> QED
      BY <2>1, <2>2
  <1>4. Append(rules, x) \o e = Expected(whole, scope)
    BY <1>1, <1>2, <1>3, Zenon
  <1> QED
    BY <1>1, <1>2, <1>3, <1>4, Zenon DEF Made, x, e

\* The list of a for-each rule.
LEMMA MakeInner ==
    ASSUME NEW rest, NEW scope, rest \in SpecLists, scope \in SUBSET Element, WellFormed(rest, scope),
           rest # <<>>, Head(rest).rule = "foreach"
    PROVE  /\ Head(rest).element \notin scope
           /\ Made(<<>>, Head(rest).rules, scope \cup {Head(rest).element}, Head(rest).rules)
  <1> DEFINE r == Head(rest)
             inner == scope \cup {r.element}
             e == Expected(r.rules, inner)
  <1>1. WellFormedRule(r, scope) /\ r \in Complete(SpecLists, {"foreach"})
    BY FirstRule, Zenon
  <1>2. r.element \notin scope /\ WellFormed(r.rules, inner)
    BY <1>1, Zenon DEF WellFormedRule
  <1>3. r.rules \in SpecLists
    BY <1>1, <1>2, SpecListsAssumption, Zenon
  <1>4. inner \in SUBSET Element
    <2>1. r.element \in Element
      BY <1>1, Zenon DEF Element
    <2> QED
      BY <2>1
  <1>5. IsList(e)
    BY <1>2, <1>3, <1>4, ExpectedAssumption, Zenon
  <1> HIDE DEF inner, e
  <1>6. <<>> \o e = e /\ IsList(<<>>)
    BY <1>5 DEF IsList
  <1> QED
    BY <1>2, <1>3, <1>4, <1>6, Zenon DEF Made, e, inner

\* Nothing is left.
LEMMA MadeAll ==
    ASSUME NEW rules, NEW scope, NEW whole, Made(rules, <<>>, scope, whole)
    PROVE  rules = Expected(whole, scope)
  <1>1. Expected(<<>>, scope) = <<>>
    BY ExpectedAssumption, Zenon DEF Made
  <1>2. IsList(rules) /\ rules \o Expected(<<>>, scope) = Expected(whole, scope)
    BY DEF Made
  <1>3. rules \o <<>> = rules
    BY <1>2 DEF IsList
  <1> QED
    BY <1>1, <1>2, <1>3

-----------------------------------------------------------------------------
(***************************************************************************)
(* The calls under way: each has made what is expected of the part of its  *)
(* list it has been through, in the scope of the calls around it.          *)
(***************************************************************************)

\* The elements of the for-each rules from the i-th call outwards.
ScopeFrom(st, i) == {st[j].rule.element : j \in {k \in i .. Len(st) : st[k].rule.rule = "foreach"}}

\* The list that is parsed for a rule; `file` is the top level's.
Whole(rule, file) == IF rule.rule = "foreach" THEN rule.rules ELSE file

\* The innermost call goes through its list.
Goes(st, file) == Made(st[1].rules, st[1].rest, ScopeFrom(st, 1), Whole(st[1].rule, file))

\* Another waits for the rule whose list the next one in parses.
Waits(st, i, file) ==
    Made(Append(st[i].rules, ExpectedRule(st[i - 1].rule, ScopeFrom(st, i))), st[i].rest,
         ScopeFrom(st, i), Whole(st[i].rule, file))

\* The i-th call is of a for-each rule that does not reuse a name.
Fresh(st, i) == st[i].rule.rule = "foreach" /\ st[i].rule.element \notin ScopeFrom(st, i + 1)

Faithful(st, aliases, file) ==
    /\ aliases = ScopeFrom(st, 1)
    /\ Goes(st, file)
    /\ \A i \in 2 .. Len(st) : Waits(st, i, file)
    /\ \A i \in 1 .. Len(st) - 1 : Fresh(st, i)

\* t is s with one more call, whatever the calls have made.
OneMore(s, t) ==
    /\ Len(s) \in Nat /\ Len(t) = Len(s) + 1
    /\ \A i \in 1 .. Len(s) : t[i + 1].rule = s[i].rule

\* The scopes of the calls around it are the same.
LEMMA ScopeOfOuter ==
    ASSUME NEW s, NEW t, OneMore(s, t), NEW i \in 1 .. Len(s) + 1
    PROVE  ScopeFrom(t, i + 1) = ScopeFrom(s, i)
  <1> DEFINE n == Len(s)
             K == {k \in i .. n : s[k].rule.rule = "foreach"}
             L == {k \in i + 1 .. n + 1 : t[k].rule.rule = "foreach"}
  <1>1. n \in Nat /\ Len(t) = n + 1 /\ (\A j \in 1 .. n : t[j + 1].rule = s[j].rule) /\ i \in 1 .. n + 1
    BY DEF OneMore
  <1> HIDE DEF n
  <1>2. ASSUME NEW k \in K PROVE k + 1 \in L /\ t[k + 1].rule = s[k].rule
    <2>1. k \in i .. n /\ s[k].rule.rule = "foreach"
      OBVIOUS
    <2>2. k \in 1 .. n /\ k + 1 \in i + 1 .. n + 1
      BY <1>1, <2>1
    <2>3. t[k + 1].rule = s[k].rule
      BY <1>1, <2>2
    <2> QED
      BY <2>1, <2>2, <2>3
  <1>3. ASSUME NEW l \in L PROVE \E k \in K : l = k + 1
    <2> DEFINE k == l - 1
    <2>1. l \in i + 1 .. n + 1 /\ t[l].rule.rule = "foreach"
      OBVIOUS
    <2>2. k \in i .. n /\ k \in 1 .. n /\ l = k + 1
      BY <1>1, <2>1
    <2> HIDE DEF k
    <2>3. t[k + 1].rule = s[k].rule
      BY <1>1, <2>2
    <2>4. s[k].rule.rule = "foreach"
      BY <2>1, <2>2, <2>3
    <2> QED
      BY <2>2, <2>4
  <1>4. ScopeFrom(s, i) = {s[j].rule.element : j \in K} /\ ScopeFrom(t, i + 1) = {t[j].rule.element : j \in L}
    BY <1>1, Zenon DEF ScopeFrom, n
  <1> HIDE DEF K, L
  <1> QED
    BY <1>2, <1>3, <1>4

\* The innermost for-each rule adds its element to the scope.
LEMMA ScopeOfInnermost ==
    ASSUME NEW st, Len(st) \in Nat \ {0}, st[1].rule.rule = "foreach"
    PROVE  ScopeFrom(st, 1) = ScopeFrom(st, 2) \cup {st[1].rule.element}
  <1> DEFINE n == Len(st)
             K == {k \in 1 .. n : st[k].rule.rule = "foreach"}
             L == {k \in 2 .. n : st[k].rule.rule = "foreach"}
  <1> HIDE DEF n
  <1>1. n \in Nat \ {0}
    BY DEF n
  <1>2. K = L \cup {1}
    BY <1>1
  <1>3. ScopeFrom(st, 1) = {st[j].rule.element : j \in K} /\ ScopeFrom(st, 2) = {st[j].rule.element : j \in L}
    BY DEF ScopeFrom, n
  <1> HIDE DEF K, L
  <1> QED
    BY <1>2, <1>3

\* Without one there is none.
LEMMA ScopeOfTopLevel ==
    ASSUME NEW st, Len(st) = 1, st[1].rule = toplevel
    PROVE  ScopeFrom(st, 1) = {}
  BY DEF ScopeFrom, toplevel

\* Replacing a call by one of the same rule leaves the scopes as they are.
LEMMA ScopeOfSame ==
    ASSUME NEW s, NEW t, Len(s) \in Nat, Len(t) = Len(s), \A i \in 1 .. Len(s) : t[i].rule = s[i].rule,
           NEW i \in Nat \ {0}
    PROVE  ScopeFrom(t, i) = ScopeFrom(s, i)
  <1> DEFINE K == {k \in i .. Len(s) : s[k].rule.rule = "foreach"}
             L == {k \in i .. Len(s) : t[k].rule.rule = "foreach"}
  <1>1. \A k \in i .. Len(s) : t[k].rule = s[k].rule
    OBVIOUS
  <1>2. K = L
    BY <1>1
  <1>3. \A k \in K : t[k].rule = s[k].rule
    BY <1>1
  <1>4. ScopeFrom(s, i) = {s[j].rule.element : j \in K} /\ ScopeFrom(t, i) = {t[j].rule.element : j \in L}
    BY DEF ScopeFrom
  <1> HIDE DEF K, L
  <1> QED
    BY <1>2, <1>3, <1>4

\* The innermost call has made a rule.
LEMMA FaithfulReplaced ==
    ASSUME NEW s, NEW t, NEW x, NEW aliases, NEW file, Faithful(s, aliases, file), Replaced(s, t, x),
           x.rule = s[1].rule, Made(x.rules, x.rest, aliases, Whole(x.rule, file))
    PROVE  Faithful(t, aliases, file)
  <1> DEFINE n == Len(s)
  <1>1. n \in Nat \ {0} /\ Len(t) = n /\ t[1] = x /\ \A i \in 2 .. n : t[i] = s[i]
    BY Zenon DEF Replaced
  <1> HIDE DEF n
  <1>2. \A i \in 1 .. n : t[i].rule = s[i].rule
    BY <1>1
  <1>3. \A i \in Nat \ {0} : ScopeFrom(t, i) = ScopeFrom(s, i)
    <2>1. Len(s) \in Nat /\ Len(t) = Len(s) /\ \A i \in 1 .. Len(s) : t[i].rule = s[i].rule
      BY <1>1, <1>2 DEF n
    <2> QED
      BY <2>1, ScopeOfSame
  <1>4. aliases = ScopeFrom(t, 1)
    BY <1>3 DEF Faithful
  <1>5. Goes(t, file)
    BY <1>1, <1>4, Zenon DEF Goes
  <1>6. ASSUME NEW i \in 2 .. n PROVE Waits(t, i, file)
    <2>1. i - 1 \in 1 .. n /\ i \in Nat \ {0}
      BY <1>1
    <2>2. t[i] = s[i] /\ t[i - 1].rule = s[i - 1].rule /\ ScopeFrom(t, i) = ScopeFrom(s, i)
      BY <1>1, <1>2, <1>3, <2>1
    <2>3. Waits(s, i, file)
      BY DEF Faithful, n
    <2> QED
      BY <2>2, <2>3, Zenon DEF Waits
  <1>7. ASSUME NEW i \in 1 .. n - 1 PROVE Fresh(t, i)
    <2>1. i \in 1 .. n /\ i + 1 \in Nat \ {0}
      BY <1>1
    <2>2. t[i].rule = s[i].rule /\ ScopeFrom(t, i + 1) = ScopeFrom(s, i + 1)
      BY <1>2, <1>3, <2>1
    <2>3. Fresh(s, i)
      BY DEF Faithful, n
    <2> QED
      BY <2>2, <2>3, Zenon DEF Fresh
  <1> QED
    BY <1>1, <1>4, <1>5, <1>6, <1>7 DEF Faithful

\* A for-each rule's list is begun.
LEMMA FaithfulPushed ==
    ASSUME NEW s, NEW t, NEW x, NEW y, NEW aliases, NEW file, Faithful(s, aliases, file), Pushed(s, t, x, y),
           y.rule = s[1].rule, x.rule.rule = "foreach", x.rule.element \notin aliases,
           Made(x.rules, x.rest, aliases \cup {x.rule.element}, x.rule.rules),
           Made(Append(y.rules, ExpectedRule(x.rule, aliases)), y.rest, aliases, Whole(y.rule, file))
    PROVE  Faithful(t, aliases \cup {x.rule.element}, file)
  <1> DEFINE n == Len(s)
  <1>1. n \in Nat \ {0} /\ Len(t) = n + 1 /\ t[1] = x /\ t[2] = y /\ \A i \in 2 .. n : t[i + 1] = s[i]
    BY Zenon DEF Pushed
  <1> HIDE DEF n
  <1>2. \A i \in 1 .. n : t[i + 1].rule = s[i].rule
    <2> SUFFICES ASSUME NEW i \in 1 .. n PROVE t[i + 1].rule = s[i].rule
      OBVIOUS
    <2>1. CASE i = 1
      BY <1>1, <2>1
    <2>2. CASE i # 1
      BY <1>1, <2>2
    <2> QED
      BY <2>1, <2>2
  <1>3. \A i \in 1 .. n + 1 : ScopeFrom(t, i + 1) = ScopeFrom(s, i)
    <2>1. OneMore(s, t)
      BY <1>1, <1>2 DEF OneMore, n
    <2> QED
      BY <2>1, ScopeOfOuter, Zenon DEF n
  <1>4. ScopeFrom(t, 2) = aliases
    <2>1. ScopeFrom(t, 1 + 1) = ScopeFrom(s, 1)
      BY <1>1, <1>3
    <2> QED
      BY <2>1 DEF Faithful
  <1>5. ScopeFrom(t, 1) = aliases \cup {x.rule.element}
    <2>1. Len(t) \in Nat \ {0} /\ t[1].rule.rule = "foreach"
      BY <1>1
    <2> QED
      BY <1>1, <1>4, <2>1, ScopeOfInnermost
  <1>6. Goes(t, file)
    BY <1>1, <1>5, Zenon DEF Goes, Whole
  <1>7. ASSUME NEW i \in 2 .. n + 1 PROVE Waits(t, i, file)
    <2>1. CASE i = 2
      <3>1. 2 - 1 = 1
        OBVIOUS
      <3>2. Waits(t, 2, file)
        BY <1>1, <1>4, <3>1, Zenon DEF Waits
      <3> QED
        BY <2>1, <3>2
    <2>2. CASE i # 2
      <3> DEFINE k == i - 1
      <3>1. k \in 2 .. n /\ k \in 1 .. n + 1 /\ k - 1 \in 1 .. n /\ i = k + 1 /\ i - 1 = (k - 1) + 1
        BY <1>1, <2>2
      <3> HIDE DEF k
      <3>2. t[i] = s[k] /\ t[i - 1].rule = s[k - 1].rule /\ ScopeFrom(t, i) = ScopeFrom(s, k)
        BY <1>1, <1>2, <1>3, <3>1
      <3>3. Waits(s, k, file)
        BY <3>1 DEF Faithful, n
      <3> QED
        BY <3>2, <3>3, Zenon DEF Waits
    <2> QED
      BY <2>1, <2>2
  <1>8. ASSUME NEW i \in 1 .. n PROVE Fresh(t, i)
    <2>1. CASE i = 1
      <3>1. 1 + 1 = 2
        OBVIOUS
      <3>2. Fresh(t, 1)
        BY <1>1, <1>4, <3>1, Zenon DEF Fresh
      <3> QED
        BY <2>1, <3>2
    <2>2. CASE i # 1
      <3> DEFINE k == i - 1
      <3>1. k \in 1 .. n - 1 /\ k \in 1 .. n /\ k + 1 \in 1 .. n + 1 /\ i = k + 1 /\ i + 1 = (k + 1) + 1
        BY <1>1, <2>2
      <3> HIDE DEF k
      <3>2. t[i].rule = s[k].rule /\ ScopeFrom(t, i + 1) = ScopeFrom(s, k + 1)
        BY <1>2, <1>3, <3>1
      <3>3. Fresh(s, k)
        BY <3>1 DEF Faithful, n
      <3> QED
        BY <3>2, <3>3, Zenon DEF Fresh
    <2> QED
      BY <2>1, <2>2
  <1>9. Len(t) - 1 = n
    BY <1>1
  <1> QED
    BY <1>1, <1>5, <1>6, <1>7, <1>8, <1>9, Zenon DEF Faithful

\* It ends, and the rule is added to the list around it.
LEMMA FaithfulPopped ==
    ASSUME NEW s, NEW t, NEW x, NEW aliases, NEW file, Faithful(s, aliases, file), Popped(s, t, x), Len(s) > 1,
           x.rule = s[2].rule, x.rest = s[2].rest,
           x.rules = Append(s[2].rules, ExpectedRule(s[1].rule, ScopeFrom(s, 2)))
    PROVE  Faithful(t, aliases \ {s[1].rule.element}, file)
  <1> DEFINE n == Len(t)
  <1>1. n \in Nat \ {0} /\ Len(s) = n + 1 /\ t[1] = x /\ \A i \in 2 .. n : t[i] = s[i + 1]
    <2>1. Len(s) \in Nat /\ n = Len(s) - 1 /\ t[1] = x /\ \A i \in 2 .. (Len(s) - 1) : t[i] = s[i + 1]
      BY Zenon DEF Popped
    <2> HIDE DEF n
    <2> QED
      BY <2>1
  <1> HIDE DEF n
  <1>2. \A i \in 1 .. n : s[i + 1].rule = t[i].rule
    <2> SUFFICES ASSUME NEW i \in 1 .. n PROVE s[i + 1].rule = t[i].rule
      OBVIOUS
    <2>1. CASE i = 1
      BY <1>1, <2>1
    <2>2. CASE i # 1
      BY <1>1, <2>2
    <2> QED
      BY <2>1, <2>2
  <1>3. \A i \in 1 .. n + 1 : ScopeFrom(s, i + 1) = ScopeFrom(t, i)
    <2>1. OneMore(t, s)
      BY <1>1, <1>2 DEF OneMore, n
    <2> QED
      BY <2>1, ScopeOfOuter, Zenon DEF n
  <1>4. ScopeFrom(s, 2) = ScopeFrom(t, 1)
    <2>1. ScopeFrom(s, 1 + 1) = ScopeFrom(t, 1)
      BY <1>1, <1>3
    <2> QED
      BY <2>1
  <1>5. aliases \ {s[1].rule.element} = ScopeFrom(t, 1)
    <2>1. Fresh(s, 1) /\ aliases = ScopeFrom(s, 1)
      <3>1. 1 \in 1 .. Len(s) - 1
        BY <1>1
      <3> QED
        BY <3>1 DEF Faithful
    <2>2. s[1].rule.rule = "foreach" /\ s[1].rule.element \notin ScopeFrom(s, 2)
      <3>1. 1 + 1 = 2
        OBVIOUS
      <3> QED
        BY <2>1, <3>1, Zenon DEF Fresh
    <2>3. Len(s) \in Nat \ {0}
      BY <1>1
    <2>4. ScopeFrom(s, 1) = ScopeFrom(s, 2) \cup {s[1].rule.element}
      BY <2>2, <2>3, ScopeOfInnermost, Zenon
    <2> QED
      BY <1>4, <2>1, <2>2, <2>4
  <1>6. Goes(t, file)
    <2>1. Waits(s, 2, file)
      <3>1. 2 \in 2 .. Len(s)
        BY <1>1
      <3> QED
        BY <3>1 DEF Faithful
    <2>2. 2 - 1 = 1
      OBVIOUS
    <2> QED
      BY <1>1, <1>4, <2>1, <2>2, Zenon DEF Goes, Waits
  <1>7. ASSUME NEW i \in 2 .. n PROVE Waits(t, i, file)
    <2>1. i + 1 \in 2 .. n + 1 /\ i \in 1 .. n + 1 /\ i - 1 \in 1 .. n /\ (i + 1) - 1 = (i - 1) + 1
      BY <1>1
    <2>2. t[i] = s[i + 1] /\ s[(i + 1) - 1].rule = t[i - 1].rule /\ ScopeFrom(s, i + 1) = ScopeFrom(t, i)
      BY <1>1, <1>2, <1>3, <2>1
    <2>3. Waits(s, i + 1, file)
      BY <1>1, <2>1, Zenon DEF Faithful
    <2> QED
      BY <2>2, <2>3, Zenon DEF Waits
  <1>8. ASSUME NEW i \in 1 .. n - 1 PROVE Fresh(t, i)
    <2>1. i \in 1 .. n /\ i + 1 \in 1 .. Len(s) - 1 /\ i + 1 \in 1 .. n + 1
      BY <1>1
    <2>2. s[i + 1].rule = t[i].rule /\ ScopeFrom(s, (i + 1) + 1) = ScopeFrom(t, i + 1)
      BY <1>2, <1>3, <2>1
    <2>3. Fresh(s, i + 1)
      BY <2>1, Zenon DEF Faithful
    <2> QED
      BY <2>2, <2>3, Zenon DEF Fresh
  <1> QED
    BY <1>5, <1>6, <1>7, <1>8, Zenon DEF Faithful, n

-----------------------------------------------------------------------------
(***************************************************************************)
(* Well-formed files.                                                      *)
(***************************************************************************)

Accepted == gameData.isValid /\ gameData.topLevelRules = Expected(jsonObject.rules, {})

\* The inductive invariant, with IInv.
FaithfulInv ==
    WellFormedFile =>
        /\ pc = "parseRules" => /\ variableMap = jsonObject.variables.names
                                /\ Faithful(stack, activeScopedVariableAliases, jsonObject.rules)
        /\ pc = "done" => Accepted

\* A rule is made as expected: the innermost call goes on.
LEMMA FaithfulPushBack ==
    ASSUME IInv, WellFormedFile, FaithfulInv, pc = "parseRules", top.rest # <<>>,
           push_back(ExpectedRule(ruleJson, activeScopedVariableAliases)),
           UNCHANGED <<jsonObject, pc, maps, gameData>>
    PROVE  FaithfulInv'
  <1> DEFINE x == call(top.rule, Tail(top.rest), Append(top.rules, ExpectedRule(ruleJson, activeScopedVariableAliases)))
             aliases == activeScopedVariableAliases
             file == jsonObject.rules
  <1>1. Faithful(stack, aliases, file) /\ variableMap = jsonObject.variables.names
    BY DEF FaithfulInv
  <1>2. IsList(stack) /\ stack # <<>>
    BY DEF IInv, Calls
  <1>3. stack' = <<x>> \o Tail(stack) /\ aliases' = aliases /\ variableMap' = variableMap
    BY DEF push_back, maps
  <1>4. x.rule = top.rule /\ x.rest = Tail(top.rest)
        /\ x.rules = Append(top.rules, ExpectedRule(ruleJson, aliases))
    BY DEF call
  <1> HIDE DEF x
  <1>5. Replaced(stack, stack', x) /\ top = stack[1]
    <2>1. Replaced(stack, stack', x)
      BY <1>2, <1>3, ReplaceTop, Zenon
    <2> QED
      BY <2>1, Zenon DEF Replaced, top
  <1>6. Made(top.rules, top.rest, aliases, Whole(top.rule, file))
    BY <1>1, <1>5, Zenon DEF Faithful, Goes
  <1>7. Made(x.rules, x.rest, aliases, Whole(x.rule, file))
    BY <1>4, <1>6, MakeFirst, Zenon DEF ruleJson
  <1>8. Faithful(stack', aliases, file)
    BY <1>1, <1>4, <1>5, <1>7, FaithfulReplaced, Zenon
  <1> QED
    BY <1>1, <1>3, <1>8 DEF FaithfulInv

\* The rule that comes next in a well-formed file.
LEMMA NextRule ==
    ASSUME IInv, WellFormedFile, FaithfulInv, pc = "parseRules", top.rest # <<>>
    PROVE  /\ WellFormedRule(ruleJson, activeScopedVariableAliases)
           /\ ruleJson \in Complete(SpecLists, {ruleJson.rule})
           /\ Made(top.rules, top.rest, activeScopedVariableAliases, Whole(top.rule, jsonObject.rules))
  <1>1. Faithful(stack, activeScopedVariableAliases, jsonObject.rules)
    BY DEF FaithfulInv
  <1>2. top = stack[1]
    <2>1. IsList(stack) /\ stack # <<>>
      BY DEF IInv, Calls
    <2> QED
      BY <2>1 DEF IsList, top
  <1>3. Made(top.rules, top.rest, activeScopedVariableAliases, Whole(top.rule, jsonObject.rules))
    BY <1>1, <1>2, Zenon DEF Faithful, Goes
  <1> QED
    BY <1>3, FirstRule, Zenon DEF Made, ruleJson

\* Its names are translated as their scope says.
LEMMA NextNames ==
    ASSUME NEW scope, scope = activeScopedVariableAliases, NEW r, WellFormedRule(r, scope),
           r \in Complete(SpecLists, {r.rule})
    PROVE  /\ r.rule \in {"add", "input-text"} => processScopedVariables(r.to) = Meaning(r.to, scope)
           /\ r.rule = "input-text" => processScopedVariables(r.result) = Meaning(r.result, scope)
  <1>1. ASSUME r.rule \in {"add", "input-text"} PROVE processScopedVariables(r.to) = Meaning(r.to, scope)
    <2>1. r \in Complete(SpecLists, {"add", "input-text"}) /\ Clear(r.to, scope)
      BY <1>1 DEF Complete, First, WellFormedRule
    <2>2. IsList(r.to) /\ r.to # <<>>
      BY <2>1, SpecListsAssumption, Zenon
    <2> QED
      BY <2>1, <2>2, Processed, Zenon
  <1>2. ASSUME r.rule = "input-text" PROVE processScopedVariables(r.result) = Meaning(r.result, scope)
    <2>1. r \in Complete(SpecLists, {"input-text"}) /\ Clear(r.result, scope)
      BY <1>2 DEF Complete, First, WellFormedRule
    <2>2. IsList(r.result) /\ r.result # <<>>
      BY <2>1, SpecListsAssumption, Zenon
    <2> QED
      BY <2>1, <2>2, Processed, Zenon
  <1> QED
    BY <1>1, <1>2

\* parseForEachRule begins the list of a for-each rule.
LEMMA FaithfulForEach ==
    ASSUME IInv, WellFormedFile, FaithfulInv, parseForEachRule
    PROVE  FaithfulInv'
  <1> DEFINE x == call(ruleJson, ruleJson.rules, <<>>)
             y == call(top.rule, Tail(top.rest), top.rules)
             aliases == activeScopedVariableAliases
             file == jsonObject.rules
  <1>0. /\ pc = "parseRules" /\ top.rest # <<>> /\ ruleJson.rule = "foreach"
        /\ IsList(stack) /\ stack # <<>>
        /\ Faithful(stack, aliases, file) /\ variableMap = jsonObject.variables.names
    BY DEF parseForEachRule, Parsing, IInv, Calls, FaithfulInv
  <1>1. WellFormedRule(ruleJson, aliases) /\ Made(top.rules, top.rest, aliases, Whole(top.rule, file))
    BY <1>0, NextRule
  <1>2. /\ ruleJson.element \notin aliases
        /\ Made(<<>>, ruleJson.rules, aliases \cup {ruleJson.element}, ruleJson.rules)
    <2>1. top.rest \in SpecLists /\ aliases \in SUBSET Element /\ WellFormed(top.rest, aliases)
      BY <1>1, Zenon DEF Made
    <2> QED
      BY <1>0, <2>1, MakeInner, Zenon DEF ruleJson
  <1>3. /\ stack' = <<x, y>> \o Tail(stack)
        /\ aliases' = aliases \cup {ruleJson.element}
        /\ pc' = pc /\ jsonObject' = jsonObject /\ variableMap' = variableMap
    <2>1. ruleJson.shape = "ok" /\ ruleJson.list = "players"
      BY <1>0, <1>1 DEF WellFormedRule
    <2> QED
      BY <2>1, Zenon DEF parseForEachRule, maps
  <1>4. x.rule = ruleJson /\ x.rest = ruleJson.rules /\ x.rules = <<>>
        /\ y.rule = top.rule /\ y.rest = Tail(top.rest) /\ y.rules = top.rules
    BY DEF call
  <1> HIDE DEF x, y
  <1>5. Pushed(stack, stack', x, y) /\ top = stack[1]
    <2>1. Pushed(stack, stack', x, y)
      BY <1>0, <1>3, PushCall, Zenon
    <2> QED
      BY <2>1, Zenon DEF Pushed, top
  <1>6. Made(Append(y.rules, ExpectedRule(x.rule, aliases)), y.rest, aliases, Whole(y.rule, file))
    BY <1>0, <1>1, <1>4, MakeFirst, Zenon DEF ruleJson
  <1>7. Faithful(stack', aliases \cup {x.rule.element}, file)
    <2>1. /\ y.rule = stack[1].rule /\ x.rule.rule = "foreach" /\ x.rule.element \notin aliases
          /\ Made(x.rules, x.rest, aliases \cup {x.rule.element}, x.rule.rules)
      BY <1>0, <1>2, <1>4, <1>5, Zenon
    <2> QED
      BY <1>0, <1>5, <1>6, <2>1, FaithfulPushed, Zenon
  <1> QED
    BY <1>0, <1>3, <1>4, <1>7 DEF FaithfulInv

\* It goes on once the list has been parsed.
LEMMA FaithfulEndForEach ==
    ASSUME IInv, WellFormedFile, FaithfulInv, endForEach
    PROVE  FaithfulInv'
  <1> DEFINE outer == stack[2]
             made == [type |-> "foreach", list |-> top.rule.list, elem |-> top.rule.element, body |-> top.rules]
             x == call(outer.rule, outer.rest, Append(outer.rules, made))
             aliases == activeScopedVariableAliases
             file == jsonObject.rules
  <1>0. /\ pc = "parseRules" /\ Len(stack) > 1 /\ top.rest = <<>>
        /\ IsList(stack) /\ stack # <<>>
        /\ Faithful(stack, aliases, file) /\ variableMap = jsonObject.variables.names
    BY DEF endForEach, IInv, Calls, FaithfulInv
  <1>1. /\ stack' = <<x>> \o SubSeq(stack, 3, Len(stack))
        /\ aliases' = aliases \ {top.rule.element}
        /\ pc' = pc /\ jsonObject' = jsonObject /\ variableMap' = variableMap
    BY DEF endForEach, erase, maps
  <1>2. x.rule = outer.rule /\ x.rest = outer.rest /\ x.rules = Append(outer.rules, made)
    BY DEF call
  <1> HIDE DEF x
  <1>3. Popped(stack, stack', x)
    BY <1>0, <1>1, PopCall, Zenon
  <1>4. top = stack[1] /\ 1 \in 1 .. Len(stack) - 1 /\ Len(stack) \in Nat \ {0}
    BY <1>0 DEF IsList, top
  <1>5. stack[1].rule.rule = "foreach" /\ ScopeFrom(stack, 1) = ScopeFrom(stack, 2) \cup {stack[1].rule.element}
    <2>1. Fresh(stack, 1)
      BY <1>0, <1>4 DEF Faithful
    <2>2. stack[1].rule.rule = "foreach"
      BY <2>1, Zenon DEF Fresh
    <2> QED
      BY <1>4, <2>2, ScopeOfInnermost, Zenon
  <1>6. top.rules = Expected(top.rule.rules, ScopeFrom(stack, 2) \cup {top.rule.element})
    <2>1. Made(top.rules, <<>>, ScopeFrom(stack, 1), Whole(top.rule, file))
      BY <1>0, <1>4, Zenon DEF Faithful, Goes
    <2>2. Whole(top.rule, file) = top.rule.rules
      BY <1>4, <1>5, Zenon DEF Whole
    <2> QED
      BY <1>4, <1>5, <2>1, <2>2, MadeAll, Zenon
  <1>7. made = ExpectedRule(stack[1].rule, ScopeFrom(stack, 2))
    BY <1>4, <1>5, <1>6 DEF ExpectedRule
  <1> HIDE DEF made
  <1>8. Faithful(stack', aliases \ {stack[1].rule.element}, file)
    BY <1>0, <1>2, <1>3, <1>7, FaithfulPopped, Zenon
  <1> QED
    BY <1>0, <1>1, <1>4, <1>8 DEF FaithfulInv

\* Every step keeps the invariant.
LEMMA StepFaithful == IInv /\ FaithfulInv /\ [Next]_vars => FaithfulInv'
  <1> SUFFICES ASSUME IInv, FaithfulInv, [Next]_vars, WellFormedFile PROVE FaithfulInv'
    <2>1. jsonObject' = jsonObject => WellFormedFile' = WellFormedFile
      BY Zenon DEF WellFormedFile
    <2>2. [Next]_vars => jsonObject' = jsonObject
      BY DEF Next, vars, parseJson, parseBothVariables, parseAddRule, parseGlobalMessageRule, parseInputTextRule,
             parseOtherRule, parseForEachRule, endForEach, returnGameData, Done
    <2> QED
      BY <2>1, <2>2 DEF FaithfulInv
  <1>0. ASSUME pc = "parseRules", top.rest # <<>>
        PROVE  /\ WellFormedRule(ruleJson, activeScopedVariableAliases)
               /\ ruleJson \in Complete(SpecLists, {ruleJson.rule})
    BY <1>0, NextRule
  <1>1. CASE parseJson
    <2>1. pc' = "parseVariables"
      BY <1>1 DEF parseJson, WellFormedFile, validateJsonContent_rootLevelElements
    <2> QED
      BY <2>1 DEF FaithfulInv
  <1>2. CASE parseBothVariables
    <2> DEFINE x == call(toplevel, jsonObject.rules, <<>>)
               file == jsonObject.rules
    <2>0. /\ stack' = <<x>> /\ pc' = "parseRules" /\ activeScopedVariableAliases' = {}
          /\ jsonObject' = jsonObject /\ variableMap' = parseVariables(jsonObject.variables)
      BY <1>2 DEF parseBothVariables, IInv, Calls
    <2>1. x.rule = toplevel /\ x.rest = file /\ x.rules = <<>>
      BY DEF call
    <2> HIDE DEF x
    <2>2. Len(stack') = 1 /\ stack'[1] = x
      BY <2>0
    <2>3. ScopeFrom(stack', 1) = {}
      BY <2>1, <2>2, ScopeOfTopLevel, Zenon
    <2>4. Whole(toplevel, file) = file
      BY DEF Whole, toplevel
    <2>5. Made(<<>>, file, {}, file)
      <3>1. file \in SpecLists /\ WellFormed(file, {}) /\ {} \in SUBSET Element
        BY SpecListsAssumption DEF IInv, WellFormedFile
      <3>2. IsList(Expected(file, {}))
        BY <3>1, ExpectedAssumption, Zenon
      <3>3. <<>> \o Expected(file, {}) = Expected(file, {}) /\ IsList(<<>>)
        BY <3>2 DEF IsList
      <3> QED
        BY <3>1, <3>3, Zenon DEF Made
    <2>6. Goes(stack', file)
      BY <2>1, <2>2, <2>3, <2>4, <2>5, Zenon DEF Goes
    <2>7. Faithful(stack', {}, file)
      <3>1. 2 .. Len(stack') = {} /\ 1 .. Len(stack') - 1 = {}
        BY <2>2
      <3> QED
        BY <2>3, <2>6, <3>1, Zenon DEF Faithful
    <2>8. variableMap' = jsonObject.variables.names
      BY <2>0 DEF WellFormedFile, parseVariables
    <2> QED
      BY <2>0, <2>7, <2>8 DEF FaithfulInv
  <1>3. CASE parseAddRule
    <2>1. pc = "parseRules" /\ top.rest # <<>> /\ ruleJson.rule = "add"
      BY <1>3 DEF parseAddRule, Parsing
    <2>2. WellFormedRule(ruleJson, activeScopedVariableAliases) /\ ruleJson \in Complete(SpecLists, {ruleJson.rule})
      BY <1>0, <2>1
    <2>3. ruleJson.shape = "ok" /\ processScopedVariables(ruleJson.to) = Meaning(ruleJson.to, activeScopedVariableAliases)
      BY <2>1, <2>2, NextNames DEF WellFormedRule
    <2>4. ExpectedRule(ruleJson, activeScopedVariableAliases) =
              [type |-> "add", target |-> processScopedVariables(ruleJson.to), value |-> ruleJson.value]
      BY <2>1, <2>3 DEF ExpectedRule
    <2>5. push_back(ExpectedRule(ruleJson, activeScopedVariableAliases)) /\ UNCHANGED <<jsonObject, pc, maps, gameData>>
      BY <1>3, <2>3, <2>4, Zenon DEF parseAddRule
    <2> QED
      BY <2>1, <2>5, FaithfulPushBack
  <1>4. CASE parseGlobalMessageRule
    <2>1. pc = "parseRules" /\ top.rest # <<>> /\ ruleJson.rule = "global-message"
      BY <1>4 DEF parseGlobalMessageRule, Parsing
    <2>2. ruleJson.shape = "ok"
      BY <1>0, <2>1 DEF WellFormedRule
    <2>3. ExpectedRule(ruleJson, activeScopedVariableAliases) = [type |-> "message"]
      BY <2>1 DEF ExpectedRule
    <2>4. push_back(ExpectedRule(ruleJson, activeScopedVariableAliases)) /\ UNCHANGED <<jsonObject, pc, maps, gameData>>
      BY <1>4, <2>2, <2>3, Zenon DEF parseGlobalMessageRule
    <2> QED
      BY <2>1, <2>4, FaithfulPushBack
  <1>5. CASE parseInputTextRule
    <2>1. pc = "parseRules" /\ top.rest # <<>> /\ ruleJson.rule = "input-text"
      BY <1>5 DEF parseInputTextRule, Parsing
    <2>2. WellFormedRule(ruleJson, activeScopedVariableAliases) /\ ruleJson \in Complete(SpecLists, {ruleJson.rule})
      BY <1>0, <2>1
    <2>3. /\ ruleJson.shape = "ok"
          /\ processScopedVariables(ruleJson.to) = Meaning(ruleJson.to, activeScopedVariableAliases)
          /\ processScopedVariables(ruleJson.result) = Meaning(ruleJson.result, activeScopedVariableAliases)
      BY <2>1, <2>2, NextNames DEF WellFormedRule
    <2>4. ExpectedRule(ruleJson, activeScopedVariableAliases) =
              [type |-> "input", target |-> processScopedVariables(ruleJson.to),
               result |-> processScopedVariables(ruleJson.result)]
      BY <2>1, <2>3 DEF ExpectedRule
    <2>5. push_back(ExpectedRule(ruleJson, activeScopedVariableAliases)) /\ UNCHANGED <<jsonObject, pc, maps, gameData>>
      BY <1>5, <2>3, <2>4, Zenon DEF parseInputTextRule
    <2> QED
      BY <2>1, <2>5, FaithfulPushBack
  <1>6. CASE parseOtherRule
    BY <1>0, <1>6 DEF parseOtherRule, Parsing, WellFormedRule
  <1>7. CASE parseForEachRule
    BY <1>7, FaithfulForEach
  <1>8. CASE endForEach
    BY <1>8, FaithfulEndForEach
  <1>9. CASE returnGameData
    <2> DEFINE file == jsonObject.rules
    <2>0. /\ pc = "parseRules" /\ pc' = "done" /\ top.rest = <<>> /\ Len(stack) = 1
          /\ IsList(stack) /\ stack # <<>> /\ TopLevelCall /\ jsonObject' = jsonObject
          /\ Faithful(stack, activeScopedVariableAliases, file) /\ variableMap = jsonObject.variables.names
      BY <1>9 DEF returnGameData, IInv, Calls, FaithfulInv
    <2>1. top = stack[1] /\ stack[1].rule = toplevel
      BY <2>0 DEF top, bottom, TopLevelCall, IsList
    <2>2. ScopeFrom(stack, 1) = {} /\ Whole(toplevel, file) = file
      BY <2>0, <2>1, ScopeOfTopLevel DEF Whole, toplevel
    <2>3. top.rules = Expected(file, {})
      <3>1. Made(top.rules, <<>>, {}, file)
        BY <2>0, <2>1, <2>2, Zenon DEF Faithful, Goes
      <3> QED
        BY <3>1, MadeAll, Zenon
    <2>4. top.rules # <<>>
      <3>1. file \in SpecLists /\ file # <<>> /\ WellFormed(file, {}) /\ {} \in SUBSET Element
        BY SpecListsAssumption DEF IInv, WellFormedFile
      <3>2. IsList(Expected(Tail(file), {}))
            /\ Expected(file, {}) = <<ExpectedRule(Head(file), {})>> \o Expected(Tail(file), {})
        BY <3>1, FirstRule, Zenon
      <3> DEFINE e == Expected(Tail(file), {})
                 r == ExpectedRule(Head(file), {})
      <3> HIDE DEF e, r
      <3>3. <<r>> \o e # <<>>
        <4>1. IsList(e)
          BY <3>2 DEF e
        <4>2. Len(<<r>> \o e) # 0
          BY <4>1 DEF IsList
        <4> QED
          BY <4>2
      <3> QED
        BY <2>3, <3>2, <3>3 DEF e, r
    <2>5. gameData' = [isValid |-> TRUE, variableMap |-> variableMap,
                       perPlayerVariableMap |-> perPlayerVariableMap, topLevelRules |-> top.rules]
      BY <1>9, <2>0, <2>4 DEF returnGameData, WellFormedFile
    <2>6. Accepted'
      BY <2>0, <2>3, <2>5 DEF Accepted
    <2> QED
      BY <2>0, <2>6 DEF FaithfulInv
  <1>10. CASE UNCHANGED vars
    BY <1>10, Zenon DEF vars, maps, FaithfulInv, WellFormedFile, Accepted
  <1> QED
    BY <1>1, <1>2, <1>3, <1>4, <1>5, <1>6, <1>7, <1>8, <1>9, <1>10 DEF Next, Done

\* parseJsonFile_gameSpec accepts every well-formed file, nested to any depth, and
\* each reference in it goes where its lexical scope says.
THEOREM WellFormedAreParsed == Spec => []ParsesFaithfully
  <1>1. Init => FaithfulInv
    BY DEF Init, FaithfulInv
  <1>2. FaithfulInv => ParsesFaithfully
    BY Zenon DEF FaithfulInv, ParsesFaithfully, Accepted
  <1> QED
    BY <1>1, <1>2, Invariance, StepFaithful, PTL DEF Spec
=============================================================================

-------------------------- MODULE GameServerProofs --------------------------
(***************************************************************************)
(* Proofs about GameServer for any connections, texts, games and bounds.   *)
(* The steps of the program are steps of the networking library that       *)
(* NetworkServerProofs is about, so what is proved there holds here.       *)
(***************************************************************************)
EXTENDS GameServer, SequenceTheorems, FiniteSetTheorems, TLAPS
LOCAL INSTANCE SequencesExt

SP == INSTANCE NetworkServerProofs WITH
         InText <- Text, OutText <- Log, Empty <- <<>>,
         MaxSends <- MaxReads, MaxIncoming <- MaxReads

\* `clients` and `users` list the connections of S, each once, in the same order.
Listed(cs, us, S) ==
    /\ \A i, j \in DOMAIN cs : cs[i] = cs[j] => i = j
    /\ ToSet(cs) = S
    /\ [i \in DOMAIN us |-> us[i].connection] = cs

\* The loop of run: the server exists until it ends, processMessages waits only for
\* a message it is working on, and a list is being sent only in Server::send.
Loop ==
    /\ running <=> pc \notin {"stopped", "crashed"}
    /\ pc = "closing" => batch # <<>>
    /\ pc # "send" => outgoing = <<>>

\* What is left of the list buildOutgoing made: the log, for registered channels,
\* at most once for each.
Sending ==
    /\ \A i \in DOMAIN outgoing : outgoing[i].text = result /\ outgoing[i].connection \in channels
    /\ \A i, j \in DOMAIN outgoing : outgoing[i].connection = outgoing[j].connection => i = j

\* A log takes at least one message that was read, so there are at most `reads`
\* logs.
Log_Unsent == IF result # <<>> /\ pc \in {"process", "closing"} THEN 1 ELSE 0
Counted == Len(history) + Len(incoming) + Len(batch) + Log_Unsent <= reads

\* Nothing is sent to a channel before it is registered, and a channel is
\* registered after the logs it does not get.
NothingSentYet == \A c \in accepting : sent[c] = <<>>
JoinedInPast == \A c \in Connection : joined[c] <= Len(history)

\* The types of the game server's own variables.
OwnTypes ==
    /\ clients \in Seq(Connection)
    /\ users \in Seq(User)
    /\ pc \in {"update", "process", "closing", "send", "stopped", "crashed"}
    /\ errorWhileUpdating \in BOOLEAN
    /\ batch \in Seq(Net!Message)
    /\ result \in Log
    /\ quit \in BOOLEAN
    /\ outgoing \in Seq([connection : Connection, text : Log])
    /\ reads \in 0 .. MaxReads
    /\ history \in Seq(Log)
    /\ joined \in [Connection -> 0 .. MaxReads]

\* The invariant of the game server's own variables.
Own ==
    /\ OwnTypes
    /\ Loop
    /\ Sending
    /\ Counted
    /\ NothingSentYet
    /\ JoinedInPast
    /\ Membership
    /\ NobodyMissesABroadcast

\* The inductive invariant.
IInv == SP!IInv /\ SP!FifoDelivery /\ SP!NoEmptySent /\ Own

-----------------------------------------------------------------------------
(***************************************************************************)
(* std::remove of the one element at position k.                           *)
(***************************************************************************)

\* How many of the other positions there are up to i.
LEMMA CountKept ==
    ASSUME NEW L \in Nat, NEW k \in 1 .. L, NEW i \in (1 .. L) \ {k}
    PROVE  Cardinality({j \in (1 .. L) \ {k} : j <= i}) = IF i < k THEN i ELSE i - 1
  <1>1. IsFiniteSet(1 .. i) /\ Cardinality(1 .. i) = i
    BY FS_Interval
  <1>2. CASE i < k
    <2>1. {j \in (1 .. L) \ {k} : j <= i} = 1 .. i
      BY <1>2
    <2> QED
      BY <1>1, <1>2, <2>1
  <1>3. CASE i > k
    <2>1. {j \in (1 .. L) \ {k} : j <= i} = (1 .. i) \ {k}
      BY <1>3
    <2>2. k \in 1 .. i
      BY <1>3
    <2>3. Cardinality((1 .. i) \ {k}) = i - 1
      BY <1>1, <2>2, FS_RemoveElement
    <2> QED
      BY <1>3, <2>1, <2>3
  <1> QED
    BY <1>2, <1>3

\* All but one of L positions are L - 1.
LEMMA CountAllKept ==
    ASSUME NEW L \in Nat, NEW k \in 1 .. L
    PROVE  Cardinality((1 .. L) \ {k}) = L - 1
  <1>1. IsFiniteSet(1 .. L) /\ Cardinality(1 .. L) = L
    BY FS_Interval
  <1> QED
    BY <1>1, FS_RemoveElement

\* The elements before k stay where they are, and those after it move up.
LEMMA EraseOne ==
    ASSUME NEW S, NEW s \in Seq(S), NEW k \in DOMAIN s
    PROVE  erase(s, {k}) = [n \in 1 .. (Len(s) - 1) |-> IF n < k THEN s[n] ELSE s[n + 1]]
  <1> DEFINE L == Len(s)
             kept == DOMAIN s \ {k}
             count(i) == Cardinality({j \in kept : j <= i})
             nth(n) == CHOOSE i \in kept : count(i) = n
  <1>1. L \in Nat /\ DOMAIN s = 1 .. L /\ k \in 1 .. L
    OBVIOUS
  <1>2. Cardinality(kept) = L - 1
    <2> HIDE DEF L
    <2> QED
      BY <1>1, CountAllKept
  <1>3. erase(s, {k}) = [n \in 1 .. Cardinality(kept) |-> s[nth(n)]]
    BY DEF erase
  <1>4. ASSUME NEW n \in 1 .. (L - 1) PROVE nth(n) = IF n < k THEN n ELSE n + 1
    <2> DEFINE x == IF n < k THEN n ELSE n + 1
    <2>0. kept = (1 .. L) \ {k}
      BY <1>1
    <2>1. x \in kept
      BY <1>1, <2>0
    <2>2. \A i \in kept : count(i) = IF i < k THEN i ELSE i - 1
      <3> HIDE DEF L
      <3> QED
        BY <1>1, <2>0, CountKept
    <2> HIDE DEF count
    <2>3. count(x) = n
      BY <1>1, <2>0, <2>1, <2>2
    <2>4. \A i \in kept : count(i) = n => i = x
      BY <1>1, <2>0, <2>2
    <2> HIDE DEF x, kept
    <2>5. (CHOOSE i \in kept : count(i) = n) = x
      BY <2>1, <2>3, <2>4
    <2> QED
      BY <2>5 DEF x
  <1> HIDE DEF nth, kept
  <1>5. [n \in 1 .. Cardinality(kept) |-> s[nth(n)]]
        = [n \in 1 .. (L - 1) |-> IF n < k THEN s[n] ELSE s[n + 1]]
    BY <1>2, <1>4
  <1> QED
    BY <1>3, <1>5

\* Erasing the one occurrence of c from a list of connections.
LEMMA EraseListed ==
    ASSUME NEW cs \in Seq(Connection), NEW us \in Seq(User), NEW S, Listed(cs, us, S),
           NEW c \in S,
           NEW fewer, fewer = erase(cs, {i \in DOMAIN cs : cs[i] = c}),
           NEW others, others = erase(us, {i \in DOMAIN us : us[i].connection = c})
    PROVE  fewer \in Seq(Connection) /\ others \in Seq(User) /\ Listed(fewer, others, S \ {c})
  <1>0. /\ \A i, j \in DOMAIN cs : cs[i] = cs[j] => i = j
        /\ S = {cs[i] : i \in DOMAIN cs}
        /\ DOMAIN us = DOMAIN cs /\ \A i \in DOMAIN us : us[i].connection = cs[i]
    BY DEF Listed, ToSet
  <1>1. PICK k \in DOMAIN cs : cs[k] = c
    BY <1>0
  <1>2. {i \in DOMAIN cs : cs[i] = c} = {k} /\ {i \in DOMAIN us : us[i].connection = c} = {k}
    BY <1>0, <1>1
  <1>3. /\ Len(us) = Len(cs) /\ Len(cs) \in Nat /\ DOMAIN cs = 1 .. Len(cs) /\ k \in 1 .. Len(cs)
        /\ k \in DOMAIN us
    BY <1>0, <1>1
  <1> DEFINE L == Len(cs)
             old(n) == IF n < k THEN n ELSE n + 1
  <1>4. fewer = [n \in 1 .. (L - 1) |-> IF n < k THEN cs[n] ELSE cs[n + 1]]
    <2>1. fewer = erase(cs, {k})
      BY <1>2, Zenon
    <2> QED
      BY <2>1, EraseOne
  <1>5. others = [n \in 1 .. (L - 1) |-> IF n < k THEN us[n] ELSE us[n + 1]]
    <2>1. others = erase(us, {k})
      BY <1>2, Zenon
    <2> QED
      BY <1>3, <2>1, EraseOne
  <1>6. /\ L - 1 \in Nat
        /\ \A n \in 1 .. (L - 1) : old(n) \in DOMAIN cs /\ old(n) # k
        /\ \A i, j \in 1 .. (L - 1) : old(i) = old(j) => i = j
        /\ \A i \in DOMAIN cs \ {k} : \E n \in 1 .. (L - 1) : i = old(n)
    <2> HIDE DEF L
    <2>1. L \in Nat /\ DOMAIN cs = 1 .. L /\ k \in 1 .. L
      BY <1>3 DEF L
    <2>2. ASSUME NEW i \in (1 .. L) \ {k} PROVE \E n \in 1 .. (L - 1) : i = old(n)
      <3>1. CASE i < k
        BY <2>1, <3>1
      <3>2. CASE i > k
        <4>1. i - 1 \in 1 .. (L - 1) /\ i = old(i - 1)
          BY <2>1, <3>2
        <4> QED
          BY <4>1
      <3> QED
        BY <2>1, <3>1, <3>2
    <2> QED
      BY <2>1, <2>2
  <1>7. /\ DOMAIN fewer = 1 .. (L - 1) /\ DOMAIN others = 1 .. (L - 1)
        /\ \A n \in 1 .. (L - 1) : fewer[n] = cs[old(n)] /\ others[n] = us[old(n)]
    BY <1>4, <1>5
  <1> HIDE DEF old, L
  <1>8. fewer \in Seq(Connection) /\ others \in Seq(User)
    <2>1. \A n \in 1 .. (L - 1) : cs[old(n)] \in Connection /\ us[old(n)] \in User
      BY <1>0, <1>6
    <2>2. fewer \in [1 .. (L - 1) -> Connection] /\ others \in [1 .. (L - 1) -> User]
      BY <1>4, <1>5, <1>7, <2>1
    <2>3. \A n \in Nat : [1 .. n -> Connection] \subseteq Seq(Connection) /\ [1 .. n -> User] \subseteq Seq(User)
      OBVIOUS
    <2> QED
      BY <1>6, <2>2, <2>3, Zenon
  <1>9. \A i, j \in DOMAIN fewer : fewer[i] = fewer[j] => i = j
    <2> SUFFICES ASSUME NEW i \in 1 .. (L - 1), NEW j \in 1 .. (L - 1), fewer[i] = fewer[j]
                 PROVE  i = j
      BY <1>7, Zenon
    <2>1. old(i) \in DOMAIN cs /\ old(j) \in DOMAIN cs /\ cs[old(i)] = cs[old(j)]
      BY <1>6, <1>7, Zenon
    <2> QED
      BY <1>0, <1>6, <2>1, Zenon
  <1>10. ToSet(fewer) = S \ {c}
    <2>1. ToSet(fewer) = {cs[old(n)] : n \in 1 .. (L - 1)}
      BY <1>7 DEF ToSet
    <2>2. \A n \in 1 .. (L - 1) : cs[old(n)] \in S \ {c}
      BY <1>0, <1>1, <1>6
    <2>3. \A x \in S \ {c} : \E n \in 1 .. (L - 1) : x = cs[old(n)]
      BY <1>0, <1>1, <1>6
    <2> QED
      BY <2>1, <2>2, <2>3
  <1>11. [i \in DOMAIN others |-> others[i].connection] = fewer
    <2>1. ASSUME NEW i \in 1 .. (L - 1) PROVE others[i].connection = fewer[i]
      <3>1. old(i) \in DOMAIN us
        BY <1>0, <1>6
      <3>2. us[old(i)].connection = cs[old(i)]
        BY <1>0, <3>1
      <3> QED
        BY <1>7, <3>2
    <2>2. fewer = [n \in 1 .. (L - 1) |-> fewer[n]]
      BY <1>4, <1>7
    <2> QED
      BY <1>7, <2>1, <2>2, Zenon
  <1> QED
    BY <1>8, <1>9, <1>10, <1>11 DEF Listed

\* Listing one more, which was not listed before.
LEMMA AppendListed ==
    ASSUME NEW cs \in Seq(Connection), NEW us \in Seq(User), NEW S, Listed(cs, us, S),
           NEW u \in User, u.connection \notin S
    PROVE  Listed(Append(cs, u.connection), Append(us, u), S \cup {u.connection})
  <1> DEFINE c == u.connection
             more == Append(cs, c)
             others == Append(us, u)
             L == Len(cs)
  <1>0. /\ \A i, j \in DOMAIN cs : cs[i] = cs[j] => i = j
        /\ S = {cs[i] : i \in DOMAIN cs}
        /\ DOMAIN us = DOMAIN cs /\ \A i \in DOMAIN us : us[i].connection = cs[i]
    BY DEF Listed, ToSet
  <1>1. L \in Nat /\ DOMAIN cs = 1 .. L /\ DOMAIN us = 1 .. L /\ Len(us) = L /\ c \in Connection
    BY <1>0 DEF User
  <1>2. /\ more \in Seq(Connection) /\ Len(more) = L + 1
        /\ \A i \in 1 .. L : more[i] = cs[i]
        /\ more[L + 1] = c
    <2> HIDE DEF c
    <2> QED
      BY <1>1, AppendProperties
  <1>3. /\ others \in Seq(User) /\ Len(others) = L + 1
        /\ \A i \in 1 .. L : others[i] = us[i]
        /\ others[L + 1] = u
    BY <1>1, AppendProperties
  <1> HIDE DEF more, others, L
  <1>4. /\ DOMAIN more = 1 .. (L + 1) /\ DOMAIN others = 1 .. (L + 1)
        /\ \A i \in 1 .. (L + 1) : i \in 1 .. L \/ i = L + 1
        /\ 1 .. L \subseteq 1 .. (L + 1) /\ L + 1 \in 1 .. (L + 1)
    BY <1>1, <1>2, <1>3
  <1> DEFINE m == L + 1
  <1> HIDE DEF m
  <1>5. \A i, j \in DOMAIN more : more[i] = more[j] => i = j
    <2>1. \A i \in 1 .. L : more[i] # c
      BY <1>0, <1>1, <1>2
    <2> QED
      BY <1>0, <1>1, <1>2, <1>4, <2>1
  <1>6. ToSet(more) = S \cup {c}
    BY <1>0, <1>1, <1>2, <1>4 DEF ToSet
  <1>7. [i \in DOMAIN others |-> others[i].connection] = more
    <2>1. \A i \in 1 .. (L + 1) : others[i].connection = more[i]
      BY <1>0, <1>1, <1>2, <1>3, <1>4
    <2>2. more = [i \in 1 .. (L + 1) |-> more[i]]
      BY <1>2, <1>4
    <2> QED
      BY <1>4, <2>1, <2>2, Zenon
  <1> QED
    BY <1>5, <1>6, <1>7 DEF Listed, more, others

\* Giving one of the users another nickname.
LEMMA RenameListed ==
    ASSUME NEW cs, NEW us \in Seq(User), NEW S, Listed(cs, us, S),
           NEW k \in DOMAIN us, NEW nickname \in Name
    PROVE  /\ [us EXCEPT ![k].nickname = nickname] \in Seq(User)
           /\ Listed(cs, [us EXCEPT ![k].nickname = nickname], S)
  <1> DEFINE renamed == [us EXCEPT ![k].nickname = nickname]
  <1>1. DOMAIN renamed = DOMAIN us /\ renamed = [i \in DOMAIN us |-> renamed[i]]
    OBVIOUS
  <1>2. ASSUME NEW i \in DOMAIN us
        PROVE  renamed[i] \in User /\ renamed[i].connection = us[i].connection
    <2>1. us[i] \in User
      OBVIOUS
    <2>2. CASE i = k
      <3>1. renamed[i] = [us[i] EXCEPT !.nickname = nickname]
        BY <2>2
      <3> HIDE DEF renamed
      <3> QED
        BY <2>1, <3>1 DEF User
    <2>3. CASE i # k
      BY <2>1, <2>3
    <2> QED
      BY <2>2, <2>3
  <1>3. renamed \in Seq(User)
    BY <1>1, <1>2
  <1> HIDE DEF renamed
  <1>4. [i \in DOMAIN renamed |-> renamed[i].connection] = [i \in DOMAIN us |-> us[i].connection]
    BY <1>1, <1>2, Zenon
  <1> QED
    BY <1>3, <1>4 DEF Listed, renamed

-----------------------------------------------------------------------------
(***************************************************************************)
(* The networking library under the game server.                           *)
(***************************************************************************)

\* The assumption of the server's proofs holds here.
LEMMA ServerAssumption ==
    /\ <<>> \in Log
    /\ Stalled \subseteq Connection
    /\ MaxLives \in Nat /\ MaxReads \in Nat /\ MaxReads \in Nat
  BY GameServerAssumption DEF Log

\* What the library's definitions are called here.
LEMMA Names ==
    /\ SP!TypeOK <=> Net!TypeOK
    /\ SP!Init <=> Net!Init
    /\ SP!Message = Net!Message
  BY DEF SP!TypeOK, Net!TypeOK, SP!Init, Net!Init, SP!Message, Net!Message

\* The types of the library's variables and of the game server's own.
LEMMA Types == SP!IInv /\ Own => TypeOK
  BY Names DEF SP!IInv, Own, OwnTypes, TypeOK

\* The steps of the library are steps of NetworkServerProofs.
LEMMA NetSteps ==
    /\ \A c \in Connection : Net!Upgrade(c) => SP!AnyStep
    /\ \A c \in Connection, e \in BOOLEAN : Net!afterAccept(c, e) => SP!AnyStep
    /\ \A c \in Connection, e \in BOOLEAN, t \in Text : Net!afterRead(c, e, t) => SP!AnyStep
    /\ \A c \in Connection, e \in BOOLEAN : Net!afterWrite(c, e) => SP!AnyStep
    /\ \A c \in Connection, t \in Log : Net!send(c, t) => SP!AnyStep
    /\ \A c \in Connection : Net!Server_disconnect(c) => SP!AnyStep
    /\ Net!receive => SP!AnyStep
    /\ Net!destroy => SP!AnyStep
  <1> USE DEF SP!AnyStep, Net!chanVars, SP!chanVars, Net!histVars, SP!histVars
  <1>1. ASSUME NEW c \in Connection PROVE Net!Upgrade(c) => SP!AnyStep
    BY DEF Net!Upgrade, SP!Upgrade, Net!Live, SP!Live, Net!Channel, SP!Channel
  <1>2. ASSUME NEW c \in Connection, NEW e \in BOOLEAN PROVE Net!afterAccept(c, e) => SP!AnyStep
    <2>1. Net!afterAccept(c, e) => SP!afterAccept(c, e)
      BY DEF Net!afterAccept, SP!afterAccept, Net!disconnect, SP!disconnect, Net!Channel_disconnect,
         SP!Channel_disconnect, Net!registerChannel, SP!registerChannel, Net!readMessage, SP!readMessage
    <2> QED
      BY <2>1
  <1>3. ASSUME NEW c \in Connection, NEW e \in BOOLEAN, NEW t \in Text
        PROVE  Net!afterRead(c, e, t) => SP!AnyStep
    <2>1. Net!afterRead(c, e, t) => SP!afterRead(c, e, t)
      BY DEF Net!afterRead, SP!afterRead, Net!onError, SP!onError, Net!disconnect, SP!disconnect,
         Net!Channel_disconnect, SP!Channel_disconnect, Net!readMessage, SP!readMessage
    <2> QED
      BY <2>1
  <1>4. ASSUME NEW c \in Connection, NEW e \in BOOLEAN PROVE Net!afterWrite(c, e) => SP!AnyStep
    <2>1. Net!afterWrite(c, e) => SP!afterWrite(c, e)
      BY DEF Net!afterWrite, SP!afterWrite, Net!onError, SP!onError, Net!disconnect, SP!disconnect,
         Net!Channel_disconnect, SP!Channel_disconnect, Net!continueSending, SP!continueSending
    <2> QED
      BY <2>1
  <1>5. ASSUME NEW c \in Connection, NEW t \in Log PROVE Net!send(c, t) => SP!AnyStep
    <2>1. Net!send(c, t) => SP!send(c, t)
      BY DEF Net!send, SP!send, Net!Channel_send, SP!Channel_send, Net!Dropped, SP!Dropped,
         Net!queued, SP!queued, Net!Chained, SP!Chained
    <2> QED
      BY <2>1
  <1>6. ASSUME NEW c \in Connection PROVE Net!Server_disconnect(c) => SP!AnyStep
    BY DEF Net!Server_disconnect, SP!Server_disconnect, Net!disconnect, SP!disconnect,
       Net!Channel_disconnect, SP!Channel_disconnect
  <1>7. (Net!receive => SP!AnyStep) /\ (Net!destroy => SP!AnyStep)
    BY DEF Net!receive, SP!receive, Net!destroy, SP!destroy
  <1> QED
    BY <1>1, <1>2, <1>3, <1>4, <1>5, <1>6, <1>7

\* What the steps of the library do to the variables the game server depends on.
LEMMA NetEffects ==
    ASSUME SP!IInv, NEW c \in Connection
    PROVE  /\ Net!Upgrade(c) =>
                  /\ c \notin channels
                  /\ accepting' = accepting \cup {c} /\ sent' = [sent EXCEPT ![c] = <<>>]
                  /\ UNCHANGED <<running, channels, incoming>>
           /\ \A e \in BOOLEAN : Net!afterAccept(c, e) =>
                  /\ c \in accepting /\ c \notin channels
                  /\ accepting' = accepting \ {c}
                  /\ channels' = IF e THEN channels ELSE channels \cup {c}
                  /\ UNCHANGED <<running, incoming, sent>>
           /\ \A t : Net!afterRead(c, FALSE, t) =>
                  /\ incoming' = Append(incoming, [connection |-> c, text |-> t, life |-> lives[c]])
                  /\ UNCHANGED <<running, channels, accepting, sent>>
           /\ (\E t : Net!afterRead(c, TRUE, t)) \/ (\E e \in BOOLEAN : Net!afterWrite(c, e)) =>
                  /\ channels' = channels \/ channels' = channels \ {c}
                  /\ UNCHANGED <<running, incoming, accepting, sent>>
           /\ \A t : Net!send(c, t) =>
                  /\ sent' = IF c \in channels /\ t # <<>> THEN [sent EXCEPT ![c] = Append(@, t)] ELSE sent
                  /\ UNCHANGED <<running, channels, incoming, accepting>>
           /\ Net!Server_disconnect(c) =>
                  /\ channels' = channels \ {c}
                  /\ UNCHANGED <<running, incoming, accepting, sent>>
  <1> USE DEF Net!chanVars, Net!histVars
  <1>0. /\ \A k \in accepting : k \notin channels
        /\ channels \subseteq Connection
    BY DEF SP!IInv, SP!FreshWhileAccepting, SP!TypeOK
  <1>1. Net!Upgrade(c) =>
           /\ c \notin channels
           /\ accepting' = accepting \cup {c} /\ sent' = [sent EXCEPT ![c] = <<>>]
           /\ UNCHANGED <<running, channels, incoming>>
    BY DEF Net!Upgrade, Net!Live
  <1>2. ASSUME NEW e \in BOOLEAN, Net!afterAccept(c, e)
        PROVE  /\ c \in accepting /\ c \notin channels
               /\ accepting' = accepting \ {c}
               /\ channels' = IF e THEN channels ELSE channels \cup {c}
               /\ UNCHANGED <<running, incoming, sent>>
    BY <1>0, <1>2 DEF Net!afterAccept, Net!disconnect, Net!registerChannel
  <1>3. ASSUME NEW t, Net!afterRead(c, FALSE, t)
        PROVE  /\ incoming' = Append(incoming, [connection |-> c, text |-> t, life |-> lives[c]])
               /\ UNCHANGED <<running, channels, accepting, sent>>
    BY <1>3 DEF Net!afterRead
  <1>4. ASSUME NEW t, Net!afterRead(c, TRUE, t)
        PROVE  /\ channels' = channels \/ channels' = channels \ {c}
               /\ UNCHANGED <<running, incoming, accepting, sent>>
    BY <1>4 DEF Net!afterRead, Net!onError, Net!disconnect
  <1>5. ASSUME NEW e \in BOOLEAN, Net!afterWrite(c, e)
        PROVE  /\ channels' = channels \/ channels' = channels \ {c}
               /\ UNCHANGED <<running, incoming, accepting, sent>>
    BY <1>5 DEF Net!afterWrite, Net!onError, Net!disconnect
  <1>6. ASSUME NEW t, Net!send(c, t)
        PROVE  /\ sent' = IF c \in channels /\ t # <<>> THEN [sent EXCEPT ![c] = Append(@, t)] ELSE sent
               /\ UNCHANGED <<running, channels, incoming, accepting>>
    BY <1>6 DEF Net!send, Net!Channel_send, Net!Dropped
  <1>7. Net!Server_disconnect(c) =>
           /\ channels' = channels \ {c}
           /\ UNCHANGED <<running, incoming, accepting, sent>>
    BY DEF Net!Server_disconnect, Net!disconnect
  <1> QED
    BY <1>1, <1>2, <1>3, <1>4, <1>5, <1>6, <1>7

\* The same for the steps that are about no connection.
LEMMA ServerEffects ==
    /\ Net!receive =>
          /\ incoming' = <<>>
          /\ UNCHANGED <<running, channels, accepting, sent>>
    /\ Net!destroy =>
          /\ ~running' /\ channels' = {} /\ incoming' = <<>> /\ accepting' = {}
          /\ UNCHANGED sent
  BY DEF Net!receive, Net!destroy, Net!chanVars, Net!histVars

\* The heads of the two lists the loop works through.
LEMMA Heads ==
    ASSUME TypeOK
    PROVE  /\ batch # <<>> =>
                  /\ message.connection \in Connection /\ message.text \in Text
                  /\ Tail(batch) \in Seq(Net!Message) /\ Len(Tail(batch)) = Len(batch) - 1
           /\ outgoing # <<>> =>
                  /\ Head(outgoing).connection \in Connection /\ Head(outgoing).text \in Log
                  /\ Head(outgoing) = outgoing[1]
                  /\ Tail(outgoing) \in Seq([connection : Connection, text : Log])
                  /\ Len(Tail(outgoing)) = Len(outgoing) - 1
                  /\ \A i \in DOMAIN Tail(outgoing) :
                        i + 1 \in DOMAIN outgoing /\ Tail(outgoing)[i] = outgoing[i + 1]
  <1>1. ASSUME batch # <<>>
        PROVE  /\ message.connection \in Connection /\ message.text \in Text
               /\ Tail(batch) \in Seq(Net!Message) /\ Len(Tail(batch)) = Len(batch) - 1
    <2>0. batch \in Seq(Net!Message)
      BY DEF TypeOK
    <2>1. Head(batch) \in Net!Message /\ Tail(batch) \in Seq(Net!Message) /\ Len(Tail(batch)) = Len(batch) - 1
      BY <1>1, <2>0, HeadTailProperties
    <2> QED
      BY <2>1 DEF message, Net!Message
  <1>2. ASSUME outgoing # <<>>
        PROVE  /\ Head(outgoing).connection \in Connection /\ Head(outgoing).text \in Log
               /\ Head(outgoing) = outgoing[1]
               /\ Tail(outgoing) \in Seq([connection : Connection, text : Log])
               /\ Len(Tail(outgoing)) = Len(outgoing) - 1
               /\ \A i \in DOMAIN Tail(outgoing) :
                     i + 1 \in DOMAIN outgoing /\ Tail(outgoing)[i] = outgoing[i + 1]
    <2> DEFINE M == [connection : Connection, text : Log]
    <2>0. outgoing \in Seq(M)
      BY DEF TypeOK
    <2>a. \A m \in M : m.connection \in Connection /\ m.text \in Log
      OBVIOUS
    <2> HIDE DEF M
    <2>1. /\ Head(outgoing) \in M /\ Tail(outgoing) \in Seq(M) /\ Len(Tail(outgoing)) = Len(outgoing) - 1
          /\ Head(outgoing) = outgoing[1]
          /\ \A i \in 1 .. Len(Tail(outgoing)) : Tail(outgoing)[i] = outgoing[i + 1]
      BY <1>2, <2>0, HeadTailProperties
    <2>2. \A i \in DOMAIN Tail(outgoing) :
            i + 1 \in DOMAIN outgoing /\ Tail(outgoing)[i] = outgoing[i + 1]
      BY <2>0, <2>1
    <2> QED
      BY <2>1, <2>2, <2>a DEF M
  <1> QED
    BY <1>1, <1>2

\* Every step of the game server is a step of the library, or leaves it alone.
LEMMA StepNet ==
    ASSUME TypeOK, pc = "closing" => batch # <<>>, [Next]_vars
    PROVE  [SP!AnyStep]_SP!vars
  <1>0. UNCHANGED netVars => UNCHANGED SP!vars
    BY DEF netVars, SP!vars, SP!chanVars, SP!histVars
  <1>1. CASE Handlers
    BY <1>1, NetSteps DEF Handlers, upgrade, accepted, messageRead, readFailed, written
  <1>2. CASE processMessages
    <2>1. ASSUME terminate PROVE SP!AnyStep
      BY <2>1, NetSteps DEF terminate
    <2> QED
      BY <1>0, <1>2, <2>1 DEF processMessages, processQuit, processShutdown, processEmpty, processNickname,
         processExecute, processUnknown, processChat
  <1>3. CASE (\E error \in BOOLEAN : updateReturns(error)) \/ endIteration \/ processed
    BY <1>0, <1>3, NetSteps DEF updateReturns, endIteration, processed
  <1>4. CASE sendNext
    BY <1>4, Heads, NetSteps DEF sendNext
  <1>5. CASE closed
    BY <1>5, Heads, NetSteps DEF closed
  <1>6. CASE UNCHANGED vars
    BY <1>0, <1>6 DEF vars
  <1> QED
    BY <1>1, <1>2, <1>3, <1>4, <1>5, <1>6 DEF Next, run, Ended

\* What NetworkServerProofs shows of the library is kept.
LEMMA StepLibrary ==
    ASSUME IInv, [Next]_vars
    PROVE  SP!IInv' /\ SP!FifoDelivery' /\ SP!NoEmptySent' /\ Net!TypeOK'
  <1>1. [SP!AnyStep]_SP!vars /\ SP!IInv /\ SP!FifoDelivery /\ SP!NoEmptySent
    BY Types, StepNet DEF IInv, Own, Loop
  <1>2. SP!IInv'
    BY <1>1, ServerAssumption, SP!StepIInv
  <1>3. SP!FifoDelivery'
    BY <1>1, ServerAssumption, SP!StepFifo
  <1>4. SP!NoEmptySent'
    BY <1>1, ServerAssumption, SP!StepNoEmptySent
  <1>5. Net!TypeOK'
    BY <1>2 DEF SP!IInv, SP!TypeOK, Net!TypeOK, SP!Message, Net!Message
  <1> QED
    BY <1>2, <1>3, <1>4, <1>5

-----------------------------------------------------------------------------
(***************************************************************************)
(* The game server's own part of the invariant, one lemma for each kind of *)
(* step.                                                                   *)
(***************************************************************************)

\* The connections the application has not been told have gone.
Known == IF pc = "closing" THEN channels \ {message.connection} ELSE channels

\* Membership says that they are listed.
LEMMA MembershipIsListed == Membership <=> (running => Listed(clients, users, Known))
  BY Zenon DEF Membership, Listed, Known, ToSet

\* Nothing is outstanding when no list is being sent.
LEMMA NothingOutstanding ==
    ASSUME NEW c, outgoing = <<>>
    PROVE  Outstanding(c) = <<>>
  BY DEF Outstanding, ToSet

\* What has been sent of a conversation, when no list is being sent.
LEMMA SentSoFar ==
    ASSUME NobodyMissesABroadcast, outgoing = <<>>, NEW c \in channels, sent[c] \in Seq(Log)
    PROVE  sent[c] = SubSeq(history, joined[c] + 1, Len(history))
  <1>1. Outstanding(c) = <<>>
    BY NothingOutstanding
  <1>2. sent[c] \o <<>> = sent[c]
    BY ConcatEmptySeq
  <1> QED
    BY <1>1, <1>2 DEF NobodyMissesABroadcast

\* A step that sends nothing, while no list is being sent, keeps what the members
\* have been sent.
LEMMA QuietStep ==
    ASSUME NobodyMissesABroadcast, outgoing = <<>>, outgoing' = <<>>, channels' \subseteq channels,
           \A c \in channels' : sent'[c] = sent[c] /\ joined'[c] = joined[c],
           history' = history
    PROVE  NobodyMissesABroadcast' /\ Sending'
  <1>1. ASSUME NEW c \in channels'
        PROVE  (sent[c] \o Outstanding(c) = SubSeq(history, joined[c] + 1, Len(history)))'
    <2>1. Outstanding(c) = <<>> /\ Outstanding(c)' = <<>>
      BY DEF Outstanding, ToSet
    <2>2. sent[c] \o <<>> = SubSeq(history, joined[c] + 1, Len(history))
      BY <2>1, Zenon DEF NobodyMissesABroadcast
    <2> QED
      BY <2>1, <2>2, Zenon
  <1>2. Sending'
    BY DEF Sending
  <1> QED
    BY <1>1, <1>2, Zenon DEF NobodyMissesABroadcast

\* What the library's invariant says of the variables used below.
LEMMA LibraryTypes ==
    ASSUME SP!IInv
    PROVE  /\ channels \subseteq Connection /\ accepting \subseteq Connection
           /\ incoming \in Seq(Net!Message) /\ Len(incoming) \in Nat
           /\ sent \in [Connection -> Seq(Log)]
           /\ \A c \in accepting : c \notin channels
  BY DEF SP!IInv, SP!TypeOK, SP!FreshWhileAccepting, SP!Message, Net!Message

\* HTTPSession::start makes a Channel.
LEMMA UpgradeStep ==
    ASSUME SP!IInv, Own, NEW c \in Connection, upgrade(c)
    PROVE  Own'
  <1> USE DEF Own
  <1>0. /\ pc = "update" /\ c \notin channels
        /\ accepting' = accepting \cup {c} /\ sent' = [sent EXCEPT ![c] = <<>>]
        /\ UNCHANGED <<running, channels, incoming, clients, users, joined, pc, errorWhileUpdating,
                       batch, result, quit, outgoing, reads, history>>
    BY NetEffects DEF upgrade, appVars, loopVars
  <1>1. OwnTypes' /\ Loop' /\ JoinedInPast'
    BY <1>0 DEF OwnTypes, Loop, JoinedInPast
  <1>2. Counted'
    BY <1>0, Zenon DEF Counted, Log_Unsent
  <1>3. NothingSentYet'
    BY <1>0, LibraryTypes DEF NothingSentYet
  <1>4. Membership'
    BY <1>0 DEF Membership, message
  <1>5. NobodyMissesABroadcast' /\ Sending'
    BY <1>0, LibraryTypes, QuietStep DEF Loop
  <1> QED
    BY <1>1, <1>2, <1>3, <1>4, <1>5

\* A handshake is over: the channel is registered, and GameServer::onConnect lists
\* it, or it has failed.
LEMMA AcceptedStep ==
    ASSUME SP!IInv, Own, NEW c \in Connection, NEW errorCode \in BOOLEAN, accepted(c, errorCode)
    PROVE  Own'
  <1> USE DEF Own
  <1>0. /\ pc = "update" /\ c \in accepting /\ c \notin channels
        /\ accepting' = accepting \ {c}
        /\ channels' = IF errorCode THEN channels ELSE channels \cup {c}
        /\ IF errorCode THEN UNCHANGED appVars ELSE onConnect(c)
        /\ UNCHANGED <<running, sent, incoming, pc, errorWhileUpdating, batch, result, quit, outgoing,
                       reads, history>>
    BY NetEffects DEF accepted, loopVars
  <1>a. running /\ outgoing = <<>> /\ outgoing' = <<>>
    BY <1>0 DEF Loop
  <1>2. Counted'
    BY <1>0, Zenon DEF Counted, Log_Unsent
  <1>3. NothingSentYet' /\ Loop'
    BY <1>0 DEF NothingSentYet, Loop
  <1>4. CASE errorCode
    <2>0. UNCHANGED <<channels, clients, users, joined>>
      BY <1>0, <1>4 DEF appVars
    <2>1. OwnTypes' /\ JoinedInPast'
      BY <1>0, <2>0 DEF OwnTypes, JoinedInPast
    <2>2. Membership'
      BY <1>0, <2>0 DEF Membership, message
    <2>3. NobodyMissesABroadcast' /\ Sending'
      BY <1>0, <1>a, <2>0, QuietStep
    <2> QED
      BY <1>2, <1>3, <2>1, <2>2, <2>3
  <1>5. CASE ~errorCode
    <2> DEFINE u == [connection |-> c, nickname |-> to_string(c)]
    <2>0. /\ channels' = channels \cup {c}
          /\ clients' = Append(clients, c) /\ users' = Append(users, u)
          /\ joined' = [joined EXCEPT ![c] = Len(history)]
      BY <1>0, <1>5 DEF onConnect
    <2>1. u \in User /\ u.connection = c
      BY DEF User, Name
    <2>2. Len(history) \in 0 .. MaxReads
      <3>1. /\ Len(history) \in Nat /\ Len(incoming) \in Nat /\ Len(batch) \in Nat
            /\ Log_Unsent \in Nat /\ reads \in Nat /\ reads <= MaxReads
        BY LibraryTypes, ServerAssumption DEF OwnTypes, Log_Unsent
      <3>2. Len(history) <= reads
        BY <3>1 DEF Counted
      <3> QED
        BY <3>1, <3>2, ServerAssumption
    <2>3. OwnTypes'
      <3>1. clients' \in Seq(Connection) /\ users' \in Seq(User)
        <4> HIDE DEF u
        <4> QED
          BY <2>0, <2>1, AppendProperties DEF OwnTypes
      <3>2. joined' \in [Connection -> 0 .. MaxReads]
        BY <2>0, <2>2 DEF OwnTypes
      <3> QED
        BY <1>0, <3>1, <3>2 DEF OwnTypes
    <2>4. JoinedInPast'
      <3>1. Len(history) <= Len(history)
        BY <2>2
      <3> QED
        BY <1>0, <2>0, <3>1 DEF JoinedInPast, OwnTypes
    <2>5. Membership'
      <3>1. Listed(clients, users, channels)
        BY <1>0, <1>a, MembershipIsListed DEF Known
      <3> HIDE DEF u
      <3>2. Listed(clients', users', channels')
        <4>1. clients \in Seq(Connection) /\ users \in Seq(User) /\ u \in User /\ u.connection \notin channels
          BY <1>0, <2>1 DEF OwnTypes
        <4>2. Listed(Append(clients, u.connection), Append(users, u), channels \cup {u.connection})
          BY <3>1, <4>1, AppendListed
        <4> QED
          BY <2>0, <2>1, <4>2, Zenon
      <3> QED
        BY <1>0, <3>2 DEF Membership, Listed
    <2>6. NobodyMissesABroadcast'
      <3> SUFFICES ASSUME NEW d \in channels'
                   PROVE  (sent[d] \o Outstanding(d) = SubSeq(history, joined[d] + 1, Len(history)))'
        BY Zenon DEF NobodyMissesABroadcast
      <3>0. Outstanding(d) = <<>> /\ Outstanding(d)' = <<>>
        BY <1>a DEF Outstanding, ToSet
      <3>1. CASE d = c
        <4>1. sent'[d] = <<>> /\ joined'[d] = Len(history)
          BY <1>0, <2>0, <3>1 DEF NothingSentYet, OwnTypes
        <4>2. history \in Seq(Log) /\ Len(history) \in Nat
          BY DEF OwnTypes
        <4>3. SubSeq(history, Len(history) + 1, Len(history)) = <<>>
          BY <4>2
        <4>4. <<>> \o <<>> = <<>>
          OBVIOUS
        <4> QED
          BY <1>0, <3>0, <4>1, <4>3, <4>4, Zenon
      <3>2. CASE d # c
        <4>1. d \in channels /\ joined'[d] = joined[d]
          BY <2>0, <3>2, LibraryTypes DEF OwnTypes
        <4>2. sent[d] \o <<>> = SubSeq(history, joined[d] + 1, Len(history))
          BY <3>0, <4>1, Zenon DEF NobodyMissesABroadcast
        <4> QED
          BY <1>0, <3>0, <4>1, <4>2, Zenon
      <3> QED
        BY <3>1, <3>2
    <2>7. Sending'
      BY <1>a DEF Sending
    <2> QED
      BY <1>2, <1>3, <2>3, <2>4, <2>5, <2>6, <2>7
  <1> QED
    BY <1>4, <1>5

\* A message is read.
LEMMA MessageReadStep ==
    ASSUME SP!IInv, Own, NEW c \in Connection, NEW text \in Text, messageRead(c, text)
    PROVE  Own'
  <1> USE DEF Own
  <1>0. /\ pc = "update" /\ reads < MaxReads /\ reads' = reads + 1
        /\ UNCHANGED <<running, channels, accepting, sent, clients, users, joined, pc, errorWhileUpdating,
                       batch, result, quit, outgoing, history>>
    BY NetEffects DEF messageRead, appVars, loopVars
  <1>1. OwnTypes'
    <2>1. reads' \in 0 .. MaxReads
      BY <1>0, ServerAssumption DEF OwnTypes
    <2> QED
      BY <1>0, <2>1 DEF OwnTypes
  <1>2. Counted'
    <2>1. Len(incoming') = Len(incoming) + 1
      <3>1. incoming' = Append(incoming, [connection |-> c, text |-> text, life |-> lives[c]])
        BY NetEffects DEF messageRead
      <3> QED
        BY <3>1, LibraryTypes
    <2>2. Log_Unsent' = Log_Unsent
      BY <1>0, Zenon DEF Log_Unsent
    <2>3. /\ Len(history) \in Nat /\ Len(incoming) \in Nat /\ Len(batch) \in Nat
          /\ Log_Unsent \in Nat /\ reads \in Nat
      BY LibraryTypes, ServerAssumption DEF OwnTypes, Log_Unsent
    <2>4. \A h, i, b, l, n \in Nat : h + i + b + l <= n => h + (i + 1) + b + l <= n + 1
      OBVIOUS
    <2>5. Len(history') = Len(history) /\ Len(batch') = Len(batch)
      BY <1>0
    <2> QED
      BY <1>0, <2>1, <2>2, <2>3, <2>4, <2>5, Zenon DEF Counted
  <1>3. NothingSentYet' /\ Loop' /\ JoinedInPast'
    BY <1>0 DEF NothingSentYet, Loop, JoinedInPast
  <1>4. Membership'
    BY <1>0 DEF Membership, message
  <1>5. NobodyMissesABroadcast' /\ Sending'
    BY <1>0, QuietStep DEF Loop
  <1> QED
    BY <1>1, <1>2, <1>3, <1>4, <1>5

\* What onDisconnect does to the lists of a connection that is listed.
LEMMA DisconnectLists ==
    ASSUME OwnTypes, NEW S, Listed(clients, users, S), NEW c \in S, onDisconnect(c)
    PROVE  /\ clients' \in Seq(Connection) /\ users' \in Seq(User)
           /\ Listed(clients', users', S \ {c})
           /\ joined' = joined
  <1>1. /\ clients' = erase(clients, {i \in DOMAIN clients : clients[i] = c})
        /\ users' = erase(users, {i \in DOMAIN users : users[i].connection = c})
        /\ joined' = joined
    BY DEF onDisconnect, removeDisconnectedUser
  <1>2. clients \in Seq(Connection) /\ users \in Seq(User)
    BY DEF OwnTypes
  <1> QED
    BY <1>1, <1>2, EraseListed

\* A read fails, or a write has come to its end: the channel may be unregistered,
\* and then GameServer::onDisconnect takes it off the lists.
LEMMA MayBeGoneStep ==
    ASSUME SP!IInv, Own, NEW c \in Connection,
           readFailed(c) \/ \E errorCode \in BOOLEAN : written(c, errorCode)
    PROVE  Own'
  <1> USE DEF Own
  <1>0. /\ pc = "update"
        /\ channels' = channels \/ channels' = channels \ {c}
        /\ callbackIfGone(c)
        /\ UNCHANGED <<running, incoming, accepting, sent, pc, errorWhileUpdating, batch, result, quit,
                       outgoing, reads, history>>
    BY NetEffects DEF readFailed, written, loopVars
  <1>a. running /\ outgoing = <<>> /\ outgoing' = <<>>
    BY <1>0 DEF Loop
  <1>1. Listed(clients, users, channels)
    BY <1>0, <1>a, MembershipIsListed DEF Known
  <1>2. /\ clients' \in Seq(Connection) /\ users' \in Seq(User)
        /\ Listed(clients', users', channels')
        /\ joined' = joined
    <2>1. CASE c \in channels /\ c \notin channels'
      <3>1. onDisconnect(c) /\ channels' = channels \ {c}
        BY <1>0, <2>1 DEF callbackIfGone
      <3> QED
        BY <1>1, <2>1, <3>1, DisconnectLists
    <2>2. CASE ~(c \in channels /\ c \notin channels')
      BY <1>0, <1>1, <2>2 DEF callbackIfGone, appVars, OwnTypes
    <2> QED
      BY <2>1, <2>2
  <1>3. OwnTypes' /\ Loop' /\ NothingSentYet' /\ JoinedInPast'
    BY <1>0, <1>2 DEF OwnTypes, Loop, NothingSentYet, JoinedInPast
  <1>4. Counted'
    BY <1>0, Zenon DEF Counted, Log_Unsent
  <1>5. Membership'
    BY <1>0, <1>2 DEF Membership, Listed
  <1>6. NobodyMissesABroadcast' /\ Sending'
    BY <1>0, <1>a, <1>2, QuietStep
  <1> QED
    BY <1>3, <1>4, <1>5, <1>6

\* The position std::find_if finds is a position of `users`, or there is none.
LEMMA UserIndex ==
    ASSUME OwnTypes, NEW S, Listed(clients, users, S), NEW c
    PROVE  userIndex(c) = 0 \/ userIndex(c) \in DOMAIN users
  <1> DEFINE I == {i \in 1 .. Len(users) : users[i].connection = c}
  <1>0. /\ DOMAIN users = 1 .. Len(users) /\ Len(users) \in Nat
        /\ \A i, j \in I : i = j
    BY DEF OwnTypes, Listed
  <1>1. userIndex(c) = IF I # {} THEN Min(I) ELSE 0
    BY Zenon DEF userIndex, SelectInSeq
  <1>2. CASE I = {}
    BY <1>1, <1>2
  <1>3. CASE I # {}
    <2>1. PICK k \in I : TRUE
      BY <1>3
    <2>2. k \in I /\ \A y \in I : k <= y
      BY <1>0, <2>1
    <2>3. Min(I) \in I
      BY <2>2 DEF Min
    <2> QED
      BY <1>0, <1>1, <1>3, <2>3
  <1> QED
    BY <1>2, <1>3

\* The name a message is shown under is a name.
LEMMA DisplayName ==
    ASSUME OwnTypes, NEW S, Listed(clients, users, S)
    PROVE  displayName \in Name
  <1>1. userIndex(message.connection) = 0 \/ userIndex(message.connection) \in DOMAIN users
    BY UserIndex
  <1>2. \A i \in DOMAIN users : users[i].nickname \in Name
    <2>1. users \in Seq(User)
      BY DEF OwnTypes
    <2>2. \A i \in DOMAIN users : users[i] \in User
      BY <2>1
    <2>3. \A u \in User : u.nickname \in Name
      BY DEF User
    <2> QED
      BY <2>2, <2>3
  <1>3. NoName \in Name
    BY DEF Name
  <1> QED
    BY <1>1, <1>2, <1>3, Zenon DEF displayName, getUserNickname

\* A message is done with and adds a line to the log; users may have been renamed.
LEMMA AddStep ==
    ASSUME SP!IInv, Own, NEW l \in Line, pc = "process", batch # <<>>, Add(l),
           users' \in Seq(User), Listed(clients, users', channels),
           UNCHANGED <<running, channels, accepting, incoming, sent, clients, joined>>
    PROVE  Own'
  <1> USE DEF Own
  <1>0. /\ batch' = Tail(batch) /\ result' = Append(result, l)
        /\ UNCHANGED <<pc, errorWhileUpdating, quit, outgoing, reads, history>>
    BY DEF Add
  <1>1. Tail(batch) \in Seq(Net!Message) /\ Len(Tail(batch)) = Len(batch) - 1 /\ Len(batch) \in Nat
    <2>1. batch \in Seq(Net!Message)
      BY DEF OwnTypes
    <2> QED
      BY <2>1, HeadTailProperties
  <1>2. result' \in Log
    <2>1. result \in Seq(Line)
      BY DEF OwnTypes, Log
    <2> QED
      BY <1>0, <2>1, AppendProperties DEF Log
  <1>3. OwnTypes'
    BY <1>0, <1>1, <1>2 DEF OwnTypes
  <1>4. Loop' /\ NothingSentYet' /\ JoinedInPast'
    BY <1>0 DEF Loop, NothingSentYet, JoinedInPast
  <1>5. Counted'
    <2>1. /\ Len(history) \in Nat /\ Len(incoming) \in Nat /\ reads \in Nat
          /\ Log_Unsent \in {0, 1}
      BY LibraryTypes, ServerAssumption DEF OwnTypes, Log_Unsent
    <2>2. Log_Unsent' \in {0, 1}
      BY DEF Log_Unsent
    <2>3. Len(history') = Len(history) /\ Len(incoming') = Len(incoming) /\ Len(batch') = Len(batch) - 1
      BY <1>0, <1>1
    <2>4. \A h, i, b, n \in Nat : \A x, y \in {0, 1} :
             h + i + b + x <= n => h + i + (b - 1) + y <= n
      OBVIOUS
    <2> QED
      BY <1>0, <1>1, <2>1, <2>2, <2>3, <2>4, Zenon DEF Counted
  <1>6. Membership'
    BY <1>0 DEF Membership, Listed
  <1>7. NobodyMissesABroadcast' /\ Sending'
    BY <1>0, QuietStep DEF Loop
  <1> QED
    BY <1>3, <1>4, <1>5, <1>6, <1>7

\* An exception ends the process.
LEMMA TerminateStep ==
    ASSUME SP!IInv, Own, pc = "process", terminate
    PROVE  Own'
  <1> USE DEF Own
  <1>0. /\ pc' = "crashed" /\ ~running' /\ channels' = {} /\ incoming' = <<>> /\ accepting' = {}
        /\ UNCHANGED <<sent, errorWhileUpdating, batch, result, quit, outgoing, reads, history,
                       clients, users, joined>>
    BY ServerEffects DEF terminate, appVars
  <1>1. OwnTypes' /\ NothingSentYet' /\ JoinedInPast' /\ Membership'
    BY <1>0 DEF OwnTypes, NothingSentYet, JoinedInPast, Membership
  <1>2. Loop'
    BY <1>0 DEF Loop
  <1>3. Counted'
    <2>1. /\ Len(history) \in Nat /\ Len(incoming) \in Nat /\ Len(batch) \in Nat /\ reads \in Nat
          /\ Log_Unsent \in Nat
      BY LibraryTypes, ServerAssumption DEF OwnTypes, Log_Unsent
    <2>2. Log_Unsent' = 0 /\ Len(incoming') = 0
      BY <1>0 DEF Log_Unsent
    <2>3. Len(history') = Len(history) /\ Len(batch') = Len(batch)
      BY <1>0
    <2>4. \A h, i, b, l, n \in Nat : h + i + b + l <= n => h + 0 + b + 0 <= n
      OBVIOUS
    <2> QED
      BY <1>0, <2>1, <2>2, <2>3, <2>4, ZenonT(40) DEF Counted
  <1>4. NobodyMissesABroadcast' /\ Sending'
    BY <1>0, QuietStep DEF Loop
  <1> QED
    BY <1>1, <1>2, <1>3, <1>4

\* A message is done with and adds nothing to the log.
LEMMA SkipStep ==
    ASSUME SP!IInv, Own, pc \in {"process", "closing"}, batch # <<>>,
           pc' = "process", batch' = Tail(batch), quit' \in BOOLEAN,
           channels' = Known,
           UNCHANGED <<running, accepting, incoming, sent, clients, users, joined, errorWhileUpdating,
                       result, outgoing, reads, history>>
    PROVE  Own'
  <1> USE DEF Own
  <1>1. Tail(batch) \in Seq(Net!Message) /\ Len(Tail(batch)) = Len(batch) - 1 /\ Len(batch) \in Nat
    <2>1. batch \in Seq(Net!Message)
      BY DEF OwnTypes
    <2> QED
      BY <2>1, HeadTailProperties
  <1>2. OwnTypes'
    BY <1>1 DEF OwnTypes
  <1>3. Loop' /\ NothingSentYet' /\ JoinedInPast'
    BY DEF Loop, NothingSentYet, JoinedInPast
  <1>4. Counted'
    <2>1. /\ Len(history) \in Nat /\ Len(incoming) \in Nat /\ reads \in Nat
          /\ Log_Unsent \in Nat
      BY LibraryTypes, ServerAssumption DEF OwnTypes, Log_Unsent
    <2>2. Log_Unsent' = Log_Unsent
      BY DEF Log_Unsent
    <2>3. Len(history') = Len(history) /\ Len(incoming') = Len(incoming) /\ Len(batch') = Len(batch) - 1
      BY <1>1
    <2>4. \A h, i, b, l, n \in Nat : h + i + b + l <= n => h + i + (b - 1) + l <= n
      OBVIOUS
    <2> QED
      BY <1>1, <2>1, <2>2, <2>3, <2>4, Zenon DEF Counted
  <1>5. Membership'
    BY DEF Membership, Known
  <1>6. NobodyMissesABroadcast' /\ Sending'
    BY QuietStep DEF Loop, Known
  <1> QED
    BY <1>2, <1>3, <1>4, <1>5, <1>6

\* A quit of a registered channel: onDisconnect takes it off the lists, and the loop
\* waits for its peer.
LEMMA WaitStep ==
    ASSUME SP!IInv, Own, pc = "process", batch # <<>>, message.connection \in channels,
           pc' = "closing", onDisconnect(message.connection),
           UNCHANGED <<running, channels, accepting, incoming, sent, batch, quit, errorWhileUpdating,
                       result, outgoing, reads, history>>
    PROVE  Own'
  <1> USE DEF Own
  <1>1. running /\ Listed(clients, users, channels)
    BY MembershipIsListed DEF Loop, Known
  <1>2. /\ clients' \in Seq(Connection) /\ users' \in Seq(User)
        /\ Listed(clients', users', channels \ {message.connection})
        /\ joined' = joined
    BY <1>1, DisconnectLists
  <1>3. OwnTypes' /\ Loop' /\ NothingSentYet' /\ JoinedInPast'
    BY <1>2 DEF OwnTypes, Loop, NothingSentYet, JoinedInPast
  <1>4. Counted'
    BY DEF Counted, Log_Unsent
  <1>5. Membership'
    <2>1. message' = message
      BY DEF message
    <2> QED
      BY <1>2, <2>1 DEF Membership, Listed
  <1>6. NobodyMissesABroadcast' /\ Sending'
    BY <1>2, QuietStep DEF Loop
  <1> QED
    BY <1>3, <1>4, <1>5, <1>6

\* processMessages works on a message.
LEMMA ProcessStep ==
    ASSUME SP!IInv, TypeOK, Own, processMessages
    PROVE  Own'
  <1> USE DEF Own
  <1>0. pc = "process" /\ batch # <<>> /\ channels = Known
    BY DEF processMessages, processQuit, processShutdown, processEmpty, processNickname, processExecute,
       processUnknown, processChat, Processing, Known
  <1>1. running /\ Listed(clients, users, channels)
    BY <1>0, MembershipIsListed DEF Loop
  <1>2. displayName \in Name /\ NoName \in Name /\ message.text.arg \in Name
    <2>1. message.text \in Text
      BY <1>0, Heads
    <2>2. message.text.arg \in Name /\ NoName \in Name
      BY <2>1 DEF Name
    <2> QED
      BY <1>1, <2>2, DisplayName
  <1>3. users \in Seq(User)
    BY DEF OwnTypes
  <1>4. CASE processQuit
    <2>1. CASE message.connection \in channels
      BY <1>0, <1>4, <2>1, WaitStep DEF processQuit, netVars
    <2>2. CASE message.connection \notin channels
      BY <1>0, <1>4, <2>2, SkipStep DEF processQuit, netVars, appVars, OwnTypes
    <2> QED
      BY <2>1, <2>2
  <1>5. CASE processShutdown
    BY <1>0, <1>5, SkipStep DEF processShutdown, netVars, appVars, OwnTypes
  <1>6. CASE processEmpty
    BY <1>0, <1>6, TerminateStep DEF processEmpty
  <1>7. CASE processNickname
    <2>1. /\ changeUserNickname(message.connection, message.text.arg)
          /\ Add(line("renamed", displayName, message.text.arg))
          /\ UNCHANGED <<running, channels, accepting, incoming, sent, clients, joined>>
      BY <1>7 DEF processNickname, netVars
    <2>2. line("renamed", displayName, message.text.arg) \in Line
      BY <1>2 DEF line, Line
    <2>3. users' \in Seq(User) /\ Listed(clients, users', channels)
      <3> DEFINE k == userIndex(message.connection)
      <3>1. k = 0 \/ k \in DOMAIN users
        BY <1>1, UserIndex
      <3>2. users' = IF k = 0 THEN users ELSE [users EXCEPT ![k].nickname = message.text.arg]
        BY <2>1 DEF changeUserNickname
      <3> HIDE DEF k
      <3>3. CASE k = 0
        BY <1>1, <1>3, <3>2, <3>3
      <3>4. CASE k # 0
        <4>1. k \in DOMAIN users /\ users' = [users EXCEPT ![k].nickname = message.text.arg]
          BY <3>1, <3>2, <3>4
        <4> QED
          BY <1>1, <1>2, <1>3, <4>1, RenameListed
      <3> QED
        BY <3>3, <3>4
    <2> QED
      BY <1>0, <2>1, <2>2, <2>3, AddStep
  <1>8. ASSUME NEW l \in Line, Add(l), UNCHANGED <<netVars, appVars>> PROVE Own'
    <2>1. users' = users /\ UNCHANGED <<running, channels, accepting, incoming, sent, clients, joined>>
      BY <1>8 DEF netVars, appVars
    <2> QED
      BY <1>0, <1>1, <1>3, <1>8, <2>1, AddStep
  <1>9. CASE processExecute
    <2>1. line(IF Game = "invalid" THEN "not loaded" ELSE "executed", NoName, NoName) \in Line
      BY <1>2 DEF line, Line
    <2> QED
      BY <1>0, <1>8, <1>9, <2>1, TerminateStep DEF processExecute
  <1>10. CASE processUnknown \/ processChat
    <2>1. /\ line("not found", displayName, NoName) \in Line
          /\ line("chat", displayName, message.text.arg) \in Line
      BY <1>2 DEF line, Line
    <2> QED
      BY <1>8, <1>10, <2>1 DEF processUnknown, processChat
  <1> QED
    BY <1>4, <1>5, <1>6, <1>7, <1>9, <1>10 DEF processMessages

\* The closing handshake is over, and the channel is erased from the map too.
LEMMA ClosedStep ==
    ASSUME SP!IInv, TypeOK, Own, closed
    PROVE  Own'
  <1>1. pc = "closing" /\ batch # <<>> /\ message.connection \in Connection
    BY Heads DEF closed, Own, Loop
  <1>2. channels' = channels \ {message.connection} /\ UNCHANGED <<running, incoming, accepting, sent>>
    BY <1>1, NetEffects DEF closed
  <1>3. channels' = Known
    BY <1>1, <1>2 DEF Known
  <1>4. quit' \in BOOLEAN
    BY DEF closed, Own, OwnTypes
  <1> QED
    BY <1>1, <1>2, <1>3, <1>4, SkipStep DEF closed, appVars

\* update returns, and the messages are taken.
LEMMA UpdateReturnsStep ==
    ASSUME SP!IInv, Own, NEW error \in BOOLEAN, updateReturns(error)
    PROVE  Own'
  <1> USE DEF Own
  <1>0. /\ pc = "update" /\ pc' = "process" /\ errorWhileUpdating' = error /\ batch' = incoming
        /\ incoming' = <<>> /\ result' = <<>> /\ quit' = FALSE
        /\ UNCHANGED <<running, channels, accepting, sent, clients, users, joined, outgoing, reads, history>>
    BY ServerEffects DEF updateReturns, appVars
  <1>1. OwnTypes'
    <2>1. <<>> \in Log
      BY ServerAssumption
    <2> QED
      BY <1>0, <2>1, LibraryTypes DEF OwnTypes
  <1>2. Loop' /\ NothingSentYet' /\ JoinedInPast'
    BY <1>0 DEF Loop, NothingSentYet, JoinedInPast
  <1>3. Counted'
    <2>1. /\ Len(history) \in Nat /\ Len(incoming) \in Nat /\ Len(batch) \in Nat /\ reads \in Nat
          /\ Log_Unsent \in Nat
      BY LibraryTypes, ServerAssumption DEF OwnTypes, Log_Unsent
    <2>2. Log_Unsent' = 0 /\ Len(incoming') = 0
      BY <1>0 DEF Log_Unsent
    <2>3. Len(history') = Len(history) /\ Len(batch') = Len(incoming)
      BY <1>0
    <2>4. \A h, i, b, l, n \in Nat : h + i + b + l <= n => h + 0 + i + 0 <= n
      OBVIOUS
    <2> QED
      BY <1>0, <2>1, <2>2, <2>3, <2>4, ZenonT(40) DEF Counted
  <1>4. Membership'
    BY <1>0 DEF Membership
  <1>5. NobodyMissesABroadcast' /\ Sending'
    BY <1>0, QuietStep DEF Loop
  <1> QED
    BY <1>1, <1>2, <1>3, <1>4, <1>5

\* The iteration is over.
LEMMA EndIterationStep ==
    ASSUME SP!IInv, Own, endIteration
    PROVE  Own'
  <1> USE DEF Own
  <1>0. /\ pc = "send" /\ outgoing = <<>>
        /\ UNCHANGED <<errorWhileUpdating, batch, result, quit, outgoing, clients, users, joined, reads, history>>
    BY DEF endIteration, appVars
  <1>1. \/ /\ pc' = "stopped" /\ ~running' /\ channels' = {} /\ incoming' = <<>> /\ accepting' = {}
           /\ UNCHANGED sent
        \/ pc' = "update" /\ UNCHANGED <<running, channels, incoming, accepting, sent>>
    BY ServerEffects DEF endIteration, netVars
  <1>2. OwnTypes' /\ Loop' /\ NothingSentYet' /\ JoinedInPast'
    BY <1>0, <1>1 DEF OwnTypes, Loop, NothingSentYet, JoinedInPast
  <1>3. Membership'
    BY <1>0, <1>1 DEF Membership
  <1>4. Counted'
    <2>1. /\ Len(history) \in Nat /\ Len(incoming) \in Nat /\ Len(batch) \in Nat /\ reads \in Nat
          /\ Log_Unsent \in Nat
      BY LibraryTypes, ServerAssumption DEF OwnTypes, Log_Unsent
    <2>2. Log_Unsent' = 0
      BY <1>1 DEF Log_Unsent
    <2>3. Len(history') = Len(history) /\ Len(batch') = Len(batch) /\ Len(incoming') \in {0, Len(incoming)}
      <3>1. Len(<<>>) = 0
        OBVIOUS
      <3> QED
        BY <1>0, <1>1, <3>1, Zenon
    <2>4. \A h, i, b, l, n \in Nat : \A j \in {0, i} : h + i + b + l <= n => h + j + b + 0 <= n
      OBVIOUS
    <2> QED
      BY <1>0, <2>1, <2>2, <2>3, <2>4, ZenonT(40) DEF Counted
  <1>5. NobodyMissesABroadcast' /\ Sending'
    BY <1>0, <1>1, QuietStep
  <1> QED
    BY <1>2, <1>3, <1>4, <1>5

\* A conversation grown by a log, seen from position j on.
LEMMA GrownTail ==
    ASSUME NEW S, NEW h \in Seq(S), NEW x \in S, NEW j \in 0 .. Len(h)
    PROVE  SubSeq(Append(h, x), j + 1, Len(Append(h, x))) = SubSeq(h, j + 1, Len(h)) \o <<x>>
  <1> DEFINE L == Len(h)
             a == Append(h, x)
             lhs == SubSeq(a, j + 1, L + 1)
             rhs == SubSeq(h, j + 1, L) \o <<x>>
  <1>1. L \in Nat /\ j \in Nat /\ j <= L
    OBVIOUS
  <1>2. a \in Seq(S) /\ Len(a) = L + 1 /\ (\A i \in 1 .. L : a[i] = h[i]) /\ a[L + 1] = x
    BY AppendProperties
  <1>3. /\ lhs \in Seq(S) /\ Len(lhs) = L + 1 - j
        /\ \A i \in 1 .. (L + 1 - j) : lhs[i] = a[j + i]
    <2> HIDE DEF a, L
    <2> QED
      BY <1>1, <1>2
  <1>4. /\ SubSeq(h, j + 1, L) \in Seq(S) /\ Len(SubSeq(h, j + 1, L)) = L - j
        /\ \A i \in 1 .. (L - j) : SubSeq(h, j + 1, L)[i] = h[j + i]
    BY <1>1
  <1>5. /\ rhs \in Seq(S) /\ Len(rhs) = L - j + 1
        /\ \A i \in 1 .. (L - j) : rhs[i] = h[j + i]
        /\ rhs[L - j + 1] = x
    <2> DEFINE p == SubSeq(h, j + 1, L)
    <2>1. <<x>> \in Seq(S) /\ Len(<<x>>) = 1 /\ <<x>>[1] = x
      OBVIOUS
    <2> HIDE DEF p, L
    <2>2. p \in Seq(S) /\ Len(p) = L - j /\ L - j \in Nat
      BY <1>1, <1>4 DEF p, L
    <2>3. /\ p \o <<x>> \in Seq(S) /\ Len(p \o <<x>>) = L - j + 1
          /\ \A i \in 1 .. (L - j) : (p \o <<x>>)[i] = p[i]
          /\ (p \o <<x>>)[L - j + 1] = x
      BY <2>1, <2>2
    <2> QED
      BY <1>4, <2>3 DEF p, L
  <1> HIDE DEF lhs, rhs, a, L
  <1>6. \A i \in 1 .. Len(lhs) : lhs[i] = rhs[i]
    <2> SUFFICES ASSUME NEW i \in 1 .. (L + 1 - j) PROVE lhs[i] = rhs[i]
      BY <1>3
    <2>1. CASE i = L + 1 - j
      <3>1. j + i = L + 1 /\ i = L - j + 1
        BY <1>1, <2>1
      <3> QED
        BY <1>2, <1>3, <1>5, <3>1
    <2>2. CASE i # L + 1 - j
      <3>1. i \in 1 .. (L - j) /\ j + i \in 1 .. L
        BY <1>1, <2>2
      <3> QED
        BY <1>2, <1>3, <1>5, <3>1
    <2> QED
      BY <2>1, <2>2
  <1>7. Len(lhs) = Len(rhs)
    BY <1>1, <1>3, <1>5
  <1>8. lhs = rhs
    BY <1>3, <1>5, <1>6, <1>7, SeqEqual
  <1> QED
    BY <1>2, <1>8 DEF lhs, rhs, a, L

\* processMessages returns, and buildOutgoing addresses the log to every client.
LEMMA ProcessedStep ==
    ASSUME SP!IInv, Own, processed
    PROVE  Own'
  <1> USE DEF Own
  <1>0. /\ pc = "process" /\ pc' = "send" /\ outgoing' = buildOutgoing(result)
        /\ history' = IF result = <<>> THEN history ELSE Append(history, result)
        /\ UNCHANGED <<running, channels, accepting, incoming, sent, clients, users, joined,
                       errorWhileUpdating, batch, result, quit, reads>>
    BY DEF processed, netVars, appVars
  <1>1. running /\ outgoing = <<>> /\ Listed(clients, users, channels)
    BY <1>0, MembershipIsListed DEF Loop, Known
  <1>2. history \in Seq(Log) /\ result \in Log /\ Len(history) \in Nat /\ clients \in Seq(Connection)
    BY DEF OwnTypes
  <1>3. /\ Len(clients) \in Nat /\ DOMAIN clients = 1 .. Len(clients)
        /\ channels = {clients[i] : i \in DOMAIN clients}
        /\ \A i, j \in DOMAIN clients : clients[i] = clients[j] => i = j
        /\ \A i \in DOMAIN clients : clients[i] \in Connection
    BY <1>1, <1>2 DEF Listed, ToSet
  <1>4. /\ outgoing' = [i \in 1 .. Len(clients) |-> [connection |-> clients[i], text |-> result]]
        /\ DOMAIN outgoing' = DOMAIN clients
        /\ \A i \in DOMAIN clients : outgoing'[i].connection = clients[i] /\ outgoing'[i].text = result
    BY <1>0, <1>3 DEF buildOutgoing
  <1>5. history' \in Seq(Log) /\ Len(history') \in Nat /\ Len(history) <= Len(history')
        /\ Len(history') = IF result = <<>> THEN Len(history) ELSE Len(history) + 1
    BY <1>0, <1>2, AppendProperties
  <1>6. OwnTypes'
    <2>1. outgoing' \in Seq([connection : Connection, text : Log])
      <3>1. \A i \in 1 .. Len(clients) :
               [connection |-> clients[i], text |-> result] \in [connection : Connection, text : Log]
        BY <1>2, <1>3
      <3> QED
        BY <1>3, <1>4, <3>1
    <2> QED
      BY <1>0, <1>5, <2>1 DEF OwnTypes
  <1>7. Loop' /\ NothingSentYet'
    BY <1>0 DEF Loop, NothingSentYet
  <1>8. Sending'
    BY <1>0, <1>3, <1>4 DEF Sending
  <1>9. Counted'
    <2>1. /\ Len(incoming) \in Nat /\ Len(batch) \in Nat /\ reads \in Nat
          /\ Log_Unsent = IF result = <<>> THEN 0 ELSE 1
      BY <1>0, LibraryTypes, ServerAssumption DEF OwnTypes, Log_Unsent
    <2>2. Log_Unsent' = 0 /\ incoming' = incoming /\ batch' = batch /\ reads' = reads
      BY <1>0 DEF Log_Unsent
    <2>3. Len(history') + Len(incoming) + Len(batch) + 0 <= reads
      <3> DEFINE h == Len(history)
                 g == Len(history')
                 i == Len(incoming)
                 b == Len(batch)
      <3>1. h \in Nat /\ i \in Nat /\ b \in Nat /\ reads \in Nat /\ h + i + b + Log_Unsent <= reads
            /\ g = IF result = <<>> THEN h ELSE h + 1
        BY <1>2, <1>5, <2>1 DEF Counted
      <3> HIDE DEF h, g, i, b
      <3>2. g + i + b + 0 <= reads
        BY <2>1, <3>1
      <3> QED
        BY <3>2 DEF g, i, b
    <2> QED
      BY <2>2, <2>3, Zenon DEF Counted
  <1>10. JoinedInPast'
    <2> SUFFICES ASSUME NEW c \in Connection PROVE joined'[c] <= Len(history')
      BY Zenon DEF JoinedInPast
    <2>1. joined[c] \in Nat /\ joined[c] <= Len(history) /\ joined' = joined
      BY <1>0, ServerAssumption DEF JoinedInPast, OwnTypes
    <2> QED
      BY <1>2, <1>5, <2>1
  <1>11. Membership'
    BY <1>0 DEF Membership
  <1>12. NobodyMissesABroadcast'
    <2> SUFFICES ASSUME NEW c \in channels'
                 PROVE  (sent[c] \o Outstanding(c) = SubSeq(history, joined[c] + 1, Len(history)))'
      BY Zenon DEF NobodyMissesABroadcast
    <2>0. c \in channels /\ c \in Connection /\ sent[c] \in Seq(Log)
      BY <1>0, LibraryTypes
    <2>1. sent[c] = SubSeq(history, joined[c] + 1, Len(history))
      BY <1>1, <2>0, SentSoFar
    <2>2. \E m \in ToSet(outgoing') : m.connection = c
      <3>1. PICK i \in DOMAIN clients : clients[i] = c
        BY <1>3, <2>0
      <3>2. outgoing'[i] \in ToSet(outgoing') /\ outgoing'[i].connection = c
        BY <1>4, <3>1 DEF ToSet
      <3> QED
        BY <3>2
    <2>3. CASE result = <<>>
      <3>1. Outstanding(c)' = <<>>
        BY <1>0, <2>3, Zenon DEF Outstanding
      <3>2. sent[c] \o <<>> = sent[c]
        BY <2>0, ConcatEmptySeq
      <3>3. history' = history
        BY <1>0, <2>3
      <3> QED
        BY <1>0, <2>1, <3>1, <3>2, <3>3, Zenon
    <2>4. CASE result # <<>>
      <3>1. Outstanding(c)' = <<result>>
        BY <1>0, <2>2, <2>4, Zenon DEF Outstanding
      <3>2. joined[c] \in 0 .. Len(history)
        BY <1>2, <2>0, ServerAssumption DEF JoinedInPast, OwnTypes
      <3>3. history' = Append(history, result)
        BY <1>0, <2>4
      <3> DEFINE j == joined[c]
      <3> HIDE DEF j
      <3>4. SubSeq(Append(history, result), j + 1, Len(Append(history, result)))
            = SubSeq(history, j + 1, Len(history)) \o <<result>>
        BY <1>2, <3>2, GrownTail DEF j
      <3> QED
        BY <1>0, <2>1, <3>1, <3>3, <3>4, Zenon DEF j
    <2> QED
      BY <2>3, <2>4
  <1> QED
    BY <1>6, <1>7, <1>8, <1>9, <1>10, <1>11, <1>12

\* Server::send hands the log to the next client of the list.
LEMMA SendNextStep ==
    ASSUME SP!IInv, TypeOK, Own, sendNext
    PROVE  Own'
  <1> USE DEF Own
  <1> DEFINE d == Head(outgoing).connection
  <1>0. /\ pc = "send" /\ outgoing # <<>> /\ outgoing' = Tail(outgoing)
        /\ Net!send(d, Head(outgoing).text)
        /\ UNCHANGED <<pc, errorWhileUpdating, batch, result, quit, clients, users, joined, reads, history>>
    BY DEF sendNext, appVars
  <1>1. /\ d \in Connection
        /\ Head(outgoing) = outgoing[1]
        /\ outgoing' \in Seq([connection : Connection, text : Log])
        /\ Len(outgoing') = Len(outgoing) - 1
        /\ \A i \in DOMAIN outgoing' : i + 1 \in DOMAIN outgoing /\ outgoing'[i] = outgoing[i + 1]
    BY <1>0, Heads
  <1>2. /\ outgoing \in Seq([connection : Connection, text : Log]) /\ Len(outgoing) \in Nat
        /\ DOMAIN outgoing = 1 .. Len(outgoing) /\ 1 \in DOMAIN outgoing
        /\ DOMAIN outgoing' = 1 .. (Len(outgoing) - 1)
    <2> DEFINE M == [connection : Connection, text : Log]
    <2>1. outgoing \in Seq(M) /\ outgoing' \in Seq(M)
      BY <1>1 DEF OwnTypes
    <2> HIDE DEF M
    <2>2. Len(outgoing) \in Nat /\ Len(outgoing) # 0 /\ DOMAIN outgoing = 1 .. Len(outgoing)
          /\ DOMAIN outgoing' = 1 .. Len(outgoing')
      BY <1>0, <2>1, EmptySeq
    <2> QED
      BY <1>1, <2>1, <2>2 DEF M
  <1>3. d \in channels /\ Head(outgoing).text = result
    BY <1>1, <1>2 DEF Sending
  <1> HIDE DEF d
  <1>4. /\ sent' = IF result # <<>> THEN [sent EXCEPT ![d] = Append(@, result)] ELSE sent
        /\ UNCHANGED <<running, channels, incoming, accepting>>
    BY <1>0, <1>1, <1>3, NetEffects
  <1>5. OwnTypes'
    BY <1>0, <1>1 DEF OwnTypes
  <1>6. Loop' /\ JoinedInPast' /\ Membership'
    BY <1>0, <1>4 DEF Loop, JoinedInPast, Membership
  <1>7. Counted'
    BY <1>0, <1>4, Zenon DEF Counted, Log_Unsent
  <1>8. Sending'
    <2>1. \A i \in DOMAIN outgoing' : outgoing'[i].text = result' /\ outgoing'[i].connection \in channels'
      BY <1>0, <1>1, <1>4 DEF Sending
    <2>2. ASSUME NEW i \in DOMAIN outgoing', NEW j \in DOMAIN outgoing',
                 outgoing'[i].connection = outgoing'[j].connection
          PROVE  i = j
      <3>1. i + 1 \in DOMAIN outgoing /\ j + 1 \in DOMAIN outgoing /\ i + 1 = j + 1
        BY <1>1, <2>2 DEF Sending
      <3> QED
        BY <1>2, <3>1
    <2> QED
      BY <2>1, <2>2 DEF Sending
  <1>9. NothingSentYet'
    BY <1>3, <1>4, LibraryTypes DEF NothingSentYet
  <1>10. NobodyMissesABroadcast'
    <2> SUFFICES ASSUME NEW c \in channels'
                 PROVE  (sent[c] \o Outstanding(c) = SubSeq(history, joined[c] + 1, Len(history)))'
      BY Zenon DEF NobodyMissesABroadcast
    <2>0. /\ c \in channels /\ c \in Connection /\ sent[c] \in Seq(Log)
          /\ sent[c] \o Outstanding(c) = SubSeq(history, joined[c] + 1, Len(history))
      BY <1>4, LibraryTypes DEF NobodyMissesABroadcast
    <2>1. CASE result = <<>>
      <3>1. Outstanding(c)' = <<>> /\ Outstanding(c) = <<>> /\ sent' = sent
        BY <1>0, <1>4, <2>1, Zenon DEF Outstanding
      <3> QED
        BY <1>0, <2>0, <3>1, Zenon
    <2>2. CASE result # <<>> /\ c = d
      <3>1. \E m \in ToSet(outgoing) : m.connection = c
        BY <1>1, <1>2, <2>2 DEF ToSet, d
      <3>2. ~ \E m \in ToSet(outgoing') : m.connection = c
        <4> SUFFICES ASSUME NEW i \in DOMAIN outgoing', outgoing'[i].connection = c PROVE FALSE
          BY DEF ToSet
        <4>1. i + 1 \in DOMAIN outgoing /\ outgoing[i + 1].connection = outgoing[1].connection
          BY <1>1, <2>2 DEF d
        <4>2. i + 1 = 1
          BY <1>2, <4>1 DEF Sending
        <4> QED
          BY <1>2, <4>2
      <3>3. Outstanding(c) = <<result>> /\ Outstanding(c)' = <<>>
        BY <1>0, <2>2, <3>1, <3>2, Zenon DEF Outstanding
      <3>4. sent'[c] = Append(sent[c], result)
        BY <1>4, <2>2, <2>0, LibraryTypes
      <3>5. Append(sent[c], result) \o <<>> = sent[c] \o <<result>>
        <4>1. result \in Log /\ Append(sent[c], result) = sent[c] \o <<result>>
          BY <2>0, AppendIsConcat DEF OwnTypes
        <4>2. Append(sent[c], result) \in Seq(Log)
          BY <2>0, <4>1, AppendProperties
        <4> QED
          BY <4>1, <4>2, ConcatEmptySeq
      <3> QED
        BY <1>0, <2>0, <3>3, <3>4, <3>5, Zenon
    <2>3. CASE result # <<>> /\ c # d
      <3>1. (\E m \in ToSet(outgoing') : m.connection = c) <=> (\E m \in ToSet(outgoing) : m.connection = c)
        <4>1. ASSUME NEW i \in DOMAIN outgoing', outgoing'[i].connection = c
              PROVE  \E k \in DOMAIN outgoing : outgoing[k].connection = c
          BY <1>1, <4>1
        <4>2. ASSUME NEW k \in DOMAIN outgoing, outgoing[k].connection = c
              PROVE  \E i \in DOMAIN outgoing' : outgoing'[i].connection = c
          <5>1. k # 1
            BY <1>1, <2>3, <4>2 DEF d
          <5> DEFINE i == k - 1
          <5>2. i \in DOMAIN outgoing' /\ i + 1 = k
            BY <1>2, <5>1
          <5> HIDE DEF i
          <5> QED
            BY <1>1, <4>2, <5>2
        <4> QED
          BY <4>1, <4>2 DEF ToSet
      <3>2. Outstanding(c)' = Outstanding(c)
        BY <1>0, <3>1, Zenon DEF Outstanding
      <3>3. sent'[c] = sent[c]
        BY <1>4, <2>3, <2>0, LibraryTypes
      <3> QED
        BY <1>0, <2>0, <3>2, <3>3, Zenon
    <2> QED
      BY <2>1, <2>2, <2>3
  <1> QED
    BY <1>5, <1>6, <1>7, <1>8, <1>9, <1>10

-----------------------------------------------------------------------------
\* The inductive invariant holds initially.
LEMMA InitIInv == Init => IInv
  <1> SUFFICES ASSUME Init PROVE IInv
    OBVIOUS
  <1>1. SP!Init
    BY Names DEF Init
  <1>2. SP!IInv /\ SP!FifoDelivery /\ SP!NoEmptySent
    BY <1>1, ServerAssumption, SP!InitIInv, SP!InitFifo, SP!InitNoEmptySent
  <1>3. running /\ channels = {} /\ incoming = <<>> /\ accepting = {}
    BY <1>1 DEF SP!Init
  <1>4. OwnTypes /\ JoinedInPast
    <2>1. <<>> \in Log /\ 0 \in 0 .. MaxReads
      BY ServerAssumption
    <2>2. OwnTypes
      <3>1. \A S : <<>> \in Seq(S)
        OBVIOUS
      <3>2. joined \in [Connection -> 0 .. MaxReads] /\ errorWhileUpdating \in BOOLEAN /\ quit \in BOOLEAN
        BY <2>1 DEF Init
      <3> QED
        BY <2>1, <3>1, <3>2, Zenon DEF Init, OwnTypes
    <2>3. JoinedInPast
      BY DEF Init, JoinedInPast
    <2> QED
      BY <2>2, <2>3
  <1>5. Loop /\ Sending /\ NothingSentYet /\ NobodyMissesABroadcast
    BY <1>3 DEF Init, Loop, Sending, NothingSentYet, NobodyMissesABroadcast
  <1>6. Counted
    BY <1>3 DEF Init, Counted, Log_Unsent
  <1>7. Membership
    <2>1. clients = <<>> /\ users = <<>> /\ channels = {} /\ pc = "update"
      BY <1>3 DEF Init
    <2>2. ToSet(<<>>) = {} /\ [i \in DOMAIN <<>> |-> <<>>[i].connection] = <<>>
      BY DEF ToSet
    <2> QED
      BY <2>1, <2>2 DEF Membership
  <1> QED
    BY <1>2, <1>4, <1>5, <1>6, <1>7 DEF IInv, Own

\* Every step of the handlers and of the loop keeps the inductive invariant.
LEMMA StepIInv == IInv /\ [Next]_vars => IInv'
  <1> SUFFICES ASSUME IInv, [Next]_vars PROVE IInv'
    OBVIOUS
  <1>1. SP!IInv' /\ SP!FifoDelivery' /\ SP!NoEmptySent'
    BY StepLibrary
  <1>2. SP!IInv /\ Own /\ TypeOK
    BY Types DEF IInv
  <1>3. CASE Handlers
    BY <1>2, <1>3, UpgradeStep, AcceptedStep, MessageReadStep, MayBeGoneStep, <1>1 DEF Handlers, IInv
  <1>4. CASE run
    <2>1. CASE \E error \in BOOLEAN : updateReturns(error)
      BY <1>1, <1>2, <2>1, UpdateReturnsStep DEF IInv
    <2>2. CASE processMessages
      BY <1>1, <1>2, <2>2, ProcessStep DEF IInv
    <2>3. CASE processed
      BY <1>1, <1>2, <2>3, ProcessedStep DEF IInv
    <2>4. CASE sendNext
      BY <1>1, <1>2, <2>4, SendNextStep DEF IInv
    <2>5. CASE endIteration
      BY <1>1, <1>2, <2>5, EndIterationStep DEF IInv
    <2> QED
      BY <1>4, <2>1, <2>2, <2>3, <2>4, <2>5 DEF run
  <1>5. CASE closed
    BY <1>1, <1>2, <1>5, ClosedStep DEF IInv
  <1>6. CASE UNCHANGED vars
    <2>1. UNCHANGED <<running, channels, incoming, accepting, sent, clients, users, joined, pc,
                      errorWhileUpdating, batch, result, quit, outgoing, reads, history>>
      BY <1>6 DEF vars, netVars, appVars, loopVars
    <2>2. OwnTypes' /\ Loop' /\ Sending' /\ NothingSentYet' /\ JoinedInPast'
      BY <1>2, <2>1 DEF Own, OwnTypes, Loop, Sending, NothingSentYet, JoinedInPast
    <2>3. Counted' /\ Membership' /\ NobodyMissesABroadcast'
      BY <1>2, <2>1, Zenon DEF Own, Counted, Log_Unsent, Membership, message, NobodyMissesABroadcast,
         Outstanding
    <2> QED
      BY <1>1, <2>2, <2>3 DEF IInv, Own
  <1> QED
    BY <1>3, <1>4, <1>5, <1>6 DEF Next, Ended

\* The inductive invariant holds in every reachable state.
THEOREM Invariance == Spec => []IInv
  BY InitIInv, StepIInv, PTL DEF Spec

\* Every variable of GameServer::run and its helpers keeps its type; in particular no
\* more logs are built than messages are read.
THEOREM TypeCorrect == Spec => []TypeOK
  <1>1. IInv => TypeOK
    BY Types DEF IInv
  <1> QED
    BY <1>1, Invariance, PTL

\* onConnect and onDisconnect keep `clients` and `users` equal to the library's
\* channels, each once and in the same order, whatever the order of connects,
\* failures and quits (GameServer.cpp).
THEOREM MembersAreRegistered == Spec => []Membership
  <1>1. IInv => Membership
    BY DEF IInv, Own
  <1> QED
    BY <1>1, Invariance, PTL

\* Every client has been sent exactly the broadcasts made since it was registered
\* (buildOutgoing, Server::send, Channel::send), for any number of clients,
\* messages and reuses of an address.
THEOREM SameConversation == Spec => []NobodyMissesABroadcast
  <1>1. IInv => NobodyMissesABroadcast
    BY DEF IInv, Own
  <1> QED
    BY <1>1, Invariance, PTL

\* The library under the game server keeps its own promises: one write at a time,
\* the text being written pinned, nothing stranded, every registered channel
\* reading, and what is delivered and buffered is what was sent.
THEOREM LibraryKeepsItsPromises ==
    Spec => [](/\ Net!OneWriteAtATime /\ Net!BufferPinned /\ Net!NoStrandedOutput
               /\ Net!RegisteredIsReading /\ Net!FifoDelivery)
  <1>1. IInv => /\ Net!OneWriteAtATime /\ Net!BufferPinned /\ Net!NoStrandedOutput
                /\ Net!RegisteredIsReading /\ Net!FifoDelivery
    <2> SUFFICES ASSUME IInv
                 PROVE  /\ Net!OneWriteAtATime /\ Net!BufferPinned /\ Net!NoStrandedOutput
                        /\ Net!RegisteredIsReading /\ Net!FifoDelivery
      OBVIOUS
    <2>1. SP!IInv /\ SP!FifoDelivery
      BY DEF IInv
    <2>2. SP!BufferPinned
      BY <2>1, ServerAssumption, SP!Pinned
    <2> QED
      BY <2>1, <2>2 DEF SP!IInv, SP!OneWriteAtATime, Net!OneWriteAtATime, SP!BufferPinned, Net!BufferPinned,
         SP!NoStrandedOutput, Net!NoStrandedOutput, SP!RegisteredIsReading, Net!RegisteredIsReading,
         SP!FifoDelivery, Net!FifoDelivery
  <1> QED
    BY <1>1, Invariance, PTL

\* What a client's socket has taken is the conversation from the log after the ones
\* made before the client was registered, in order: nothing else reaches it, and
\* nothing of an earlier client at the same address.
DeliveredIsConversation ==
    \A c \in channels : \A i \in DOMAIN delivered[c] : delivered[c][i] = history[joined[c] + i]

\* An element of the first part of a concatenation.
LEMMA FirstOfConcat ==
    ASSUME NEW S, NEW s \in Seq(S), NEW o \in Seq(S), NEW i \in 1 .. Len(s)
    PROVE  /\ s \o o \in Seq(S) /\ Len(s \o o) = Len(s) + Len(o)
           /\ (s \o o)[i] = s[i]
  OBVIOUS

\* s is h from position j on, and d agrees with h from there on.
IsRest(s, h, j) == s = SubSeq(h, j + 1, Len(h))
Agrees(d, h, j) == \A i \in DOMAIN d : d[i] = h[j + i]

\* The first part of a concatenation that is the rest of a sequence.
LEMMA FirstOfTail ==
    ASSUME NEW S, NEW d \in Seq(S), NEW b \in Seq(S), NEW o \in Seq(S), NEW h \in Seq(S),
           NEW j \in 0 .. Len(h)
    PROVE  IsRest((d \o b) \o o, h, j) => Agrees(d, h, j)
  <1> SUFFICES ASSUME NEW i \in DOMAIN d
               PROVE  (d \o b) \o o = SubSeq(h, j + 1, Len(h)) => d[i] = h[j + i]
    BY Zenon DEF IsRest, Agrees
  <1> DEFINE s == d \o b
  <1>1. i \in 1 .. Len(d) /\ Len(d) \in Nat /\ Len(b) \in Nat /\ Len(o) \in Nat /\ Len(h) \in Nat
    OBVIOUS
  <1>2. s \in Seq(S) /\ Len(s) = Len(d) + Len(b) /\ s[i] = d[i]
    BY <1>1, FirstOfConcat
  <1> HIDE DEF s
  <1>3. Len(s \o o) = Len(s) + Len(o) /\ (s \o o)[i] = s[i]
    <2>1. i \in 1 .. Len(s)
      BY <1>1, <1>2
    <2> QED
      BY <1>2, <2>1, FirstOfConcat, Zenon
  <1> DEFINE t == SubSeq(h, j + 1, Len(h))
  <1>5. Len(t) = Len(h) - j /\ \A k \in 1 .. (Len(h) - j) : t[k] = h[j + k]
    BY <1>1
  <1> HIDE DEF t
  <1>6. ASSUME s \o o = t PROVE d[i] = h[j + i]
    <2>1. Len(t) = Len(s) + Len(o) /\ t[i] = d[i]
      BY <1>2, <1>3, <1>6, Zenon
    <2>2. i \in 1 .. (Len(h) - j)
      BY <1>1, <1>2, <1>5, <2>1
    <2> QED
      BY <1>5, <2>1, <2>2
  <1> QED
    BY <1>6, Zenon DEF s, t

\* GameServer::run, buildOutgoing, Server::send and the write chain of Channel
\* together deliver the conversation.
THEOREM ConversationDelivered == Spec => []DeliveredIsConversation
  <1>1. ASSUME IInv, NEW c \in channels, NEW i \in DOMAIN delivered[c]
        PROVE  delivered[c][i] = history[joined[c] + i]
    <2>1. c \in Connection
      BY <1>1, LibraryTypes DEF IInv
    <2>2. delivered[c] \in Seq(Log) /\ writeBuffer[c] \in Seq(Log)
      BY <1>1, <2>1 DEF IInv, SP!IInv, SP!TypeOK
    <2>3. sent[c] = delivered[c] \o writeBuffer[c]
      BY <1>1, <2>1 DEF IInv, SP!FifoDelivery
    <2>4. history \in Seq(Log) /\ Outstanding(c) \in Seq(Log) /\ joined[c] \in 0 .. Len(history)
      <3>1. OwnTypes /\ JoinedInPast
        BY <1>1 DEF IInv, Own
      <3>2. history \in Seq(Log) /\ result \in Log
        BY <3>1 DEF OwnTypes
      <3>3. <<result>> \in Seq(Log) /\ <<>> \in Seq(Log)
        BY <3>2
      <3>4. joined[c] \in Nat /\ joined[c] <= Len(history) /\ Len(history) \in Nat
        BY <2>1, <3>1, <3>2, ServerAssumption DEF JoinedInPast, OwnTypes
      <3>5. Outstanding(c) \in Seq(Log)
        BY <3>3, Zenon DEF Outstanding
      <3> QED
        BY <3>2, <3>4, <3>5
    <2>5. (delivered[c] \o writeBuffer[c]) \o Outstanding(c) = SubSeq(history, joined[c] + 1, Len(history))
      BY <1>1, <2>3, Zenon DEF IInv, Own, NobodyMissesABroadcast
    <2> DEFINE d == delivered[c]
               b == writeBuffer[c]
               o == Outstanding(c)
               h == history
               j == joined[c]
    <2> HIDE DEF d, b, o, h, j
    <2>6. /\ h \in Seq(Log) /\ d \in Seq(Log) /\ b \in Seq(Log) /\ o \in Seq(Log) /\ j \in 0 .. Len(h)
      BY <2>2, <2>4 DEF d, b, o, h, j
    <2>7. IsRest((d \o b) \o o, h, j) => Agrees(d, h, j)
      BY <2>6, FirstOfTail
    <2> QED
      BY <1>1, <2>5, <2>7, Zenon DEF d, b, o, h, j, IsRest, Agrees
  <1>2. IInv => DeliveredIsConversation
    BY <1>1, Zenon DEF DeliveredIsConversation
  <1> QED
    BY <1>2, Invariance, PTL

-----------------------------------------------------------------------------
\* Whatever the game server does with it, the library implements the safety part of
\* Delivery.
THEOREM DeliveryRefinement == Spec => SP!D!SafeSpec
  <1>1. Init => SP!D!Init
    BY Names DEF Init, SP!Init, SP!D!Init
  <1>2. IInv /\ [Next]_vars => [SP!D!Next]_SP!D!vars
    <2> SUFFICES ASSUME IInv, [Next]_vars PROVE [SP!D!Next]_SP!D!vars
      OBVIOUS
    <2>1. [SP!AnyStep]_SP!vars
      BY Types, StepNet DEF IInv, Own, Loop
    <2> QED
      BY <2>1, ServerAssumption, SP!StepDelivery DEF IInv
  <1> QED
    BY <1>1, <1>2, Invariance, PTL DEF Spec, SP!D!SafeSpec
=============================================================================
